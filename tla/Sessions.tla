------------------------------ MODULE Sessions ------------------------------
(***************************************************************************)
(* Passwords and sessions on top of the accounts: signing in, signing out, *)
(* changing one's own password, an administrator setting somebody's, and   *)
(* what disabling an account does to its sessions.                         *)
(*                                                                         *)
(* Signing in and changing one's own password are not atomic: the row is   *)
(* read, argon2 runs on another thread, and only then are the sessions     *)
(* written.  Every operation of Accounts may commit in between.            *)
(*                                                                         *)
(* A password is a version number, one more at each change.  A row that    *)
(* was revoked or is past its TTL never resolves again and is the same as  *)
(* no row.  Attempts that fail leave nothing here (module Throttle has     *)
(* what they leave), so any number may be made at any time.                *)
(***************************************************************************)
EXTENDS Accounts, Naturals

CONSTANTS
    Session,        \* session ids
    Attempt,        \* sign-ins that can be verifying at once
    Change,         \* self-service password changes that can be under way
    Nothing,        \* no row, nothing under way
    MaxVersion      \* bound: the versions of one password that are explored

VARIABLES
    password,       \* password[u]: its version, 0 while u has no row
    session,        \* session[s]: whose it is and what it was opened with
    login,          \* login[a]: verified, session not issued yet
    change          \* change[c]: own password being changed

sessionVars == <<password, session, login, change>>
vars == <<account, asking, password, session, login, change>>

Version == 1..MaxVersion

\* raced is history: the password was changed, or the account disabled, while
\* the sign-in was under way, or a change of it was half done when the session
\* was issued.
Opened == [user : User, version : Version, raced : BOOLEAN]

Changing == [user : User, keep : Session, version : Version,
             phase : {"asked", "swept"}]

ASSUME SessionsAssumption ==
    /\ MaxVersion \in Nat \ {0}
    /\ Nothing \notin Opened \cup Changing

\* What resolve answers: the row is there and its user is not disabled.
Usable(s) == session[s] # Nothing /\ Active(session[s].user)

SessionsOf(u) == {s \in Session : session[s] # Nothing /\ session[s].user = u}

Revoked(u, keep) ==
    session' = [s \in Session |->
                    IF s \in SessionsOf(u) \ keep THEN Nothing ELSE session[s]]

\* History: the sign-ins of u being verified have been overtaken.
Overtaken(u) ==
    login' = [a \in Attempt |->
                IF login[a] # Nothing /\ login[a].user = u
                THEN [login[a] EXCEPT !.raced = TRUE] ELSE login[a]]

NewPassword(u) ==
    /\ password[u] < MaxVersion
    /\ password' = [password EXCEPT ![u] = @ + 1]

-----------------------------------------------------------------------------
(* Signing in and out.                                                     *)

\* authenticate: one read of the row answers for the hash and for disabled.
LoginVerified(a, u) ==
    /\ login[a] = Nothing
    /\ Active(u)
    /\ login' = [login EXCEPT ![a] =
                    [user |-> u, version |-> password[u], raced |-> FALSE]]
    /\ UNCHANGED <<accountVars, password, session, change>>

HalfChanged(u) ==
    \E c \in Change : change[c] # Nothing /\ change[c].user = u /\ change[c].phase = "swept"

\* An id is drawn at random: it is nobody's, and no request holds it either.
Fresh(s) ==
    /\ session[s] = Nothing
    /\ \A c \in Change : change[c] # Nothing => change[c].keep # s

\* Nothing is read again between the verification and the row.
LoginIssued(a, s) ==
    /\ login[a] # Nothing
    /\ Fresh(s)
    /\ session' = [session EXCEPT ![s] =
                    [login[a] EXCEPT !.raced = @ \/ HalfChanged(login[a].user)]]
    /\ login' = [login EXCEPT ![a] = Nothing]
    /\ UNCHANGED <<accountVars, password, change>>

LoginLost(a) ==
    /\ login[a] # Nothing
    /\ login' = [login EXCEPT ![a] = Nothing]
    /\ UNCHANGED <<accountVars, password, session, change>>

Logout(s) ==
    /\ Usable(s)
    /\ session' = [session EXCEPT ![s] = Nothing]
    /\ UNCHANGED <<accountVars, password, login, change>>

\* The TTL counts from the issue, so a session ends whatever its user does.
Expired(s) ==
    /\ session[s] # Nothing
    /\ session' = [session EXCEPT ![s] = Nothing]
    /\ UNCHANGED <<accountVars, password, login, change>>

-----------------------------------------------------------------------------
(* Changing one's own password.                                            *)

\* The session gate hands the handler the user's row as it is now; it is the
\* row the current password will be verified against.
ChangeAsked(c, s) ==
    /\ change[c] = Nothing
    /\ Usable(s)
    /\ change' = [change EXCEPT ![c] =
                    [user |-> session[s].user, keep |-> s,
                     version |-> password[session[s].user], phase |-> "asked"]]
    /\ UNCHANGED <<accountVars, password, session, login>>

\* The current password matched the row that was read; the other sessions end.
ChangeSwept(c) ==
    /\ change[c] # Nothing /\ change[c].phase = "asked"
    /\ Revoked(change[c].user, {change[c].keep})
    /\ change' = [change EXCEPT ![c].phase = "swept"]
    /\ UNCHANGED <<accountVars, password, login>>

\* Only then is the new password hashed and stored.  The session that asked
\* goes on under the new password.
ChangeSet(c) ==
    /\ change[c] # Nothing /\ change[c].phase = "swept"
    /\ NewPassword(change[c].user)
    /\ session' = [s \in Session |->
                    IF s = change[c].keep /\ s \in SessionsOf(change[c].user)
                    THEN [session[s] EXCEPT !.version = password'[change[c].user]]
                    ELSE session[s]]
    /\ Overtaken(change[c].user)
    /\ change' = [change EXCEPT ![c] = Nothing]
    /\ UNCHANGED accountVars

\* Refused, failed at either write, or lost with the process.
ChangeLost(c) ==
    /\ change[c] # Nothing
    /\ change' = [change EXCEPT ![c] = Nothing]
    /\ UNCHANGED <<accountVars, password, session, login>>

-----------------------------------------------------------------------------
(* The operations on accounts, with what they do here.                     *)

SignedInGate(r) ==
    /\ \E s \in Session : Usable(s) /\ Gate(r, session[s].user)
    /\ UNCHANGED sessionVars

RefusedHere(r) == Refused(r) /\ UNCHANGED sessionVars

CreateWithPassword(r, u) ==
    /\ Create(r, u)
    /\ password' = [password EXCEPT ![u] = 1]
    /\ UNCHANGED <<session, login, change>>

SeedWithPassword(u, n) ==
    /\ Seed(u, n)
    /\ password' = [password EXCEPT ![u] = 1]
    /\ UNCHANGED <<session, login, change>>

ModifyHere(r, t) == Modify(r, t) /\ UNCHANGED sessionVars

\* Every session of t and its new password, in one transaction.
ResetPassword(r, t) ==
    /\ SetPassword(r, t)
    /\ Revoked(t, {})
    /\ NewPassword(t)
    /\ Overtaken(t)
    /\ UNCHANGED change

\* Mutant: the flag is the whole of it.
DisableOnly(r, t) == SetDisabled(r, t, TRUE) /\ UNCHANGED sessionVars

Disable(r, t) ==
    /\ SetDisabled(r, t, TRUE)
    /\ IF account[t].disabled THEN UNCHANGED <<session, login>>
                              ELSE Revoked(t, {}) /\ Overtaken(t)
    /\ UNCHANGED <<password, change>>

\* Re-enabling restores the account and nothing else.
Enable(r, t) == SetDisabled(r, t, FALSE) /\ UNCHANGED sessionVars

SessionsInit ==
    /\ Init
    /\ password = [u \in User |-> 0]
    /\ session = [s \in Session |-> Nothing]
    /\ login = [a \in Attempt |-> Nothing]
    /\ change = [c \in Change |-> Nothing]

SigningIn ==
    \/ \E a \in Attempt, u \in User : LoginVerified(a, u)
    \/ \E a \in Attempt, s \in Session : LoginIssued(a, s)
    \/ \E a \in Attempt : LoginLost(a)
    \/ \E s \in Session : Logout(s) \/ Expired(s)

ChangingPasswords ==
    \/ \E c \in Change, s \in Session : ChangeAsked(c, s)
    \/ \E c \in Change : ChangeSwept(c) \/ ChangeSet(c) \/ ChangeLost(c)

Administering ==
    \/ \E u \in User, n \in Number : SeedWithPassword(u, n)
    \/ \E r \in Request : SignedInGate(r)
    \/ \E r \in UnderWay :
        \/ RefusedHere(r)
        \/ \E u \in User :
            \/ CreateWithPassword(r, u) \/ ModifyHere(r, u) \/ ResetPassword(r, u)
            \/ Disable(r, u) \/ Enable(r, u)

SessionsNext == SigningIn \/ ChangingPasswords \/ Administering

SessionsSpec == SessionsInit /\ [][SessionsNext]_vars

-----------------------------------------------------------------------------
(* Properties.                                                             *)

\* What the columns of the two tables and the requests under way hold.
SessionsTypeOK ==
    /\ password \in [User -> {0} \cup Version]
    /\ \A u \in User : password[u] = 0 <=> account[u] = NoAccount
    /\ session \in [Session -> Opened \cup {Nothing}]
    /\ login \in [Attempt -> Opened \cup {Nothing}]
    /\ change \in [Change -> Changing \cup {Nothing}]

\* Changing a password or disabling an account ends every session it should
\* (D7, D14, D15): a session that resolves, or would resolve if the account
\* were re-enabled, was opened with the password as it is now and its account
\* is enabled, unless its own sign-in was overtaken.  Changes that cross each
\* other, resets during a change and failed second writes make no other case.
Current(o) ==
    o.raced \/ (o.version = password[o.user] /\ ~account[o.user].disabled)

SessionsAreCurrent ==
    \A s \in Session : session[s] # Nothing => Current(session[s])

=============================================================================
