------------------------------ MODULE Accounts ------------------------------
(***************************************************************************)
(* The accounts of app.db (tables users and user_scopes) and the rules by  *)
(* which one person may create, change, disable or re-enable another.      *)
(*                                                                         *)
(* A request has two moments.  The gate resolves the caller's session and  *)
(* reads the caller's row; the write happens later, in a transaction that  *)
(* holds sqlite's write lock from its first statement and reads caller and *)
(* target again.  Anything may happen in between: other requests run on    *)
(* other threads, and two of the writes hash a password first.             *)
(***************************************************************************)
EXTENDS Roles

CONSTANTS
    User,           \* row ids, those not yet inserted included
    NoUser,         \* SQL NULL in a column that names a user
    NoAccount,      \* the row does not exist
    Number,         \* canonical mobile numbers, the usernames
    Role,           \* rows of the role table
    RoleCaps,       \* what each role confers
    EditorRole,     \* the role the seed mints
    ScopeLists,     \* the scope lists a form may submit
    Request         \* requests that can be under way at once

ASSUME AccountsAssumption ==
    /\ NoUser \notin User
    /\ EditorRole \in Role
    /\ "manage_users" \in RoleCaps[EditorRole]
    /\ NonDelegable \subseteq RoleCaps[EditorRole]
    /\ ScopeLists \subseteq SUBSET Scope
    /\ {Everything} \in ScopeLists

Capability == UNION {RoleCaps[ro] : ro \in Role}

Account == [username : Number, role : Role, scopes : ScopeLists,
            supervisor : User \cup {NoUser}, canSupervise : BOOLEAN,
            disabled : BOOLEAN]

\* One role of the table confers all three of edit, confirm, set_visibility.
ASSUME OneEditorRole ==
    \A ro \in Role : NonDelegable \subseteq RoleCaps[ro] => ro = EditorRole

ASSUME NoAccountAssumption == NoAccount \notin Account

VARIABLES
    account,        \* account[u]: the row of u with its scopes
    asking          \* asking[r]: who passed the gate with request r

accountVars == <<account, asking>>

Users == {u \in User : account[u] # NoAccount}

Active(u) == u \in Users /\ ~account[u].disabled

Supervisor(u) == account[u].supervisor

TakenBy(n) == {u \in Users : account[u].username = n}

-----------------------------------------------------------------------------
(* Delegation: who may do what to whom.                                    *)

\* Mutant: the actor's own row is not read again.
CapabilitiesOfAnyone(u) == RoleCaps[account[u].role]

CapabilitiesOf(u) == IF account[u].disabled THEN {} ELSE RoleCaps[account[u].role]

ConfersEdit(ro) == NonDelegable \subseteq RoleCaps[ro]

\* Mutant: reach is left to the gate.
MayDelegateAnywhere(actor, ro, sc) ==
    /\ "manage_users" \in CapabilitiesOf(actor)
    /\ RoleCaps[ro] \subseteq CapabilitiesOf(actor)
    /\ "manage_peers" \in CapabilitiesOf(actor) \/ RoleCaps[ro] # CapabilitiesOf(actor)

\* Nobody confers more than they hold; conferring exactly what one holds
\* takes manage_peers.
MayDelegate(actor, ro, sc) ==
    /\ "manage_users" \in CapabilitiesOf(actor)
    /\ RoleCaps[ro] \subseteq CapabilitiesOf(actor)
    /\ "manage_peers" \in CapabilitiesOf(actor) \/ RoleCaps[ro] # CapabilitiesOf(actor)
    /\ CoveredBy(sc, account[actor].scopes)

OtherActiveEditors(t) ==
    {u \in Users \ {t} : Active(u) /\ ConfersEdit(account[u].role)}

TakesTheLastEditorAway(t, staysEditor) ==
    /\ Active(t) /\ ConfersEdit(account[t].role)
    /\ ~staysEditor
    /\ OtherActiveEditors(t) = {}

MayModify(actor, t, ro, sc) ==
    /\ actor # t
    /\ MayDelegate(actor, ro, sc)
    /\ MayDelegate(actor, account[t].role, account[t].scopes)
    /\ ~TakesTheLastEditorAway(t, ConfersEdit(ro))

\* Either direction: re-enabling restores capabilities, so it is the same
\* decision as disabling.
MayDisable(actor, t) ==
    /\ actor # t
    /\ MayDelegate(actor, account[t].role, account[t].scopes)
    /\ ~TakesTheLastEditorAway(t, FALSE)

EligibleSupervisors(sc) ==
    {u \in Users : /\ Active(u)
                   /\ CoveredBy(sc, account[u].scopes)
                   /\ account[u].canSupervise \/ Everything \in account[u].scopes}

\* Mutant: only the supervisor's own supervisor is looked at.
ChainReachesInOneStep(u, t) == u = t \/ Supervisor(u) = t

\* The walk up from u meets t: every set of people that holds u and everyone
\* above a member of it also holds t.
ChainReaches(u, t) ==
    \A S \in SUBSET Users :
        (u \in S /\ \A v \in S : Supervisor(v) \in S \cup {NoUser}) => t \in S

\* t is NoUser on the create form, where there is no row to close a loop
\* through yet.
SupervisorAllowed(t, sp, sc) ==
    IF sp = NoUser THEN Everything \in sc
    ELSE /\ sp # t
         /\ sp \in EligibleSupervisors(sc)
         /\ ~ChainReaches(sp, t)

-----------------------------------------------------------------------------
(* The operations.                                                         *)

\* Every route of the users router is gated on manage_users at "*", and a
\* disabled account's session does not resolve.
MayAsk(u) ==
    /\ Active(u)
    /\ \E s \in account[u].scopes : Contains(s, Everything)
    /\ "manage_users" \in CapabilitiesOf(u)

Row(n, ro, sc, sp, cs, off) ==
    [username |-> n, role |-> ro, scopes |-> sc, supervisor |-> sp,
     canSupervise |-> cs, disabled |-> off]

Gate(r, u) ==
    /\ asking[r] = NoUser
    /\ MayAsk(u)
    /\ asking' = [asking EXCEPT ![r] = u]
    /\ UNCHANGED account

Answered(r) ==
    /\ asking[r] # NoUser
    /\ asking' = [asking EXCEPT ![r] = NoUser]

\* A refusal of any kind rolls the transaction back.
Refused(r) == Answered(r) /\ UNCHANGED account

Create(r, u) ==
    /\ Answered(r)
    /\ account[u] = NoAccount
    /\ \E ro \in Role, sc \in ScopeLists :
        /\ MayDelegate(asking[r], ro, sc)
        /\ \E sp \in User \cup {NoUser} :
            /\ SupervisorAllowed(NoUser, sp, sc)
            /\ \E n \in Number, cs \in BOOLEAN :
                /\ TakenBy(n) = {}
                /\ account' = [account EXCEPT ![u] = Row(n, ro, sc, sp, cs, FALSE)]

\* A field the caller left out has the value the row holds.  The supervisor
\* is judged again only when the supervisor or the scopes moved.
Modify(r, t) ==
    /\ Answered(r)
    /\ t \in Users
    /\ \E ro \in Role, sc \in ScopeLists :
        /\ MayModify(asking[r], t, ro, sc)
        /\ \E sp \in User \cup {NoUser} :
            /\ sp # Supervisor(t) \/ sc # account[t].scopes => SupervisorAllowed(t, sp, sc)
            /\ \E n \in Number, cs \in BOOLEAN :
                /\ TakenBy(n) \subseteq {t}
                /\ account' = [account EXCEPT ![t] =
                        Row(n, ro, sc, sp, cs, account[t].disabled)]

SetDisabled(r, t, flag) ==
    /\ Answered(r)
    /\ t \in Users
    /\ MayDisable(asking[r], t)
    /\ account' = [account EXCEPT ![t].disabled = flag]

\* The part of an administrator's password reset that concerns the accounts:
\* the permission.  Module Sessions has what it writes.
SetPassword(r, t) ==
    /\ Answered(r)
    /\ t \in Users
    /\ MayModify(asking[r], t, account[t].role, account[t].scopes)
    /\ UNCHANGED account

\* inja-seed, run by hand at any time: the only origin of the first Editor.
Seed(u, n) ==
    /\ ~\E v \in Users : Active(v) /\ account[v].role = EditorRole
    /\ account[u] = NoAccount
    /\ TakenBy(n) = {}
    /\ account' = [account EXCEPT ![u] =
            Row(n, EditorRole, {Everything}, NoUser, FALSE, FALSE)]
    /\ UNCHANGED asking

Init ==
    /\ account = [u \in User |-> NoAccount]
    /\ asking = [r \in Request |-> NoUser]

UnderWay == {r \in Request : asking[r] # NoUser}

Next ==
    \/ \E u \in User, n \in Number : Seed(u, n)
    \/ \E r \in Request, u \in User : Gate(r, u)
    \/ \E r \in UnderWay :
        \/ Refused(r)
        \/ \E u \in User :
            \/ Create(r, u)
            \/ Modify(r, u)
            \/ SetPassword(r, u)
            \/ \E flag \in BOOLEAN : SetDisabled(r, u, flag)

Spec == Init /\ [][Next]_accountVars

-----------------------------------------------------------------------------
(* Properties.                                                             *)

\* What the rows of the two tables and the requests under way hold.
TypeOK ==
    /\ account \in [User -> Account \cup {NoAccount}]
    /\ asking \in [Request -> User \cup {NoUser}]

\* Once seeded there is, in every state, an active account that confers edit
\* and is scoped to everything.  D14 (an active Editor always exists) and D53
\* (an active "*" holder always exists) both follow; the code has one guard
\* for the first and none for the second, which rests on the self-edit ban
\* and on the order "read again, then judge" inside the write transaction.
StarEditor(u) ==
    /\ Active(u)
    /\ ConfersEdit(account[u].role)
    /\ Everything \in account[u].scopes

StarEditorSurvives == Users # {} => \E u \in Users : StarEditor(u)

\* The seed is a recovery path that is never needed twice: it mints an
\* account only where there is none.
SeedsOnlyTheEmpty ==
    [][(\E u \in User, n \in Number : Seed(u, n)) => Users = {}]_accountVars

\* Whoever passed the gate has a row, and rows are never deleted.
AskersExist == \A r \in Request : asking[r] \in Users \cup {NoUser}

\* Every column that names a supervisor names a row that exists.
SupervisorsExist == \A u \in Users : Supervisor(u) \in Users \cup {NoUser}

\* Only somebody who sees everything is without a supervisor (D51).
SupervisorUnlessStar ==
    \A u \in Users : Supervisor(u) = NoUser => Everything \in account[u].scopes

\* The org chart has no loop, whatever two administrators do at once: every
\* group of people has a member whose supervisor is outside it.
SupervisorsAcyclic ==
    \A S \in SUBSET Users : S # {} => \E u \in S : Supervisor(u) \notin S

\* Climbing from anybody ends, and ends at somebody who sees everything: a
\* group closed under "supervisor of" holds a "*" user with none.
ChainsEndAtStar ==
    \A S \in SUBSET Users :
        (S # {} /\ \A u \in S : Supervisor(u) \in S \cup {NoUser})
            => \E u \in S : Supervisor(u) = NoUser /\ Everything \in account[u].scopes

\* One number, one account, disabled accounts included (D57).
NumbersUnique ==
    \A u, v \in Users : account[u].username = account[v].username => u = v

\* What u can use, and where.
Authority(u) ==
    IF u \notin Users THEN {}
    ELSE CapabilitiesOf(u)
            \X {s \in Scope : \E held \in account[u].scopes : Contains(held, s)}

\* Nobody acts beyond their own reach (D13), judged at the write and not at
\* the gate: whatever authority a request takes from somebody else or gives
\* them, the person who made it holds at that very moment, and nobody's
\* request changes their own row.
ActsWithinReach ==
    [][\A r \in UnderWay, u \in User :
         account'[u] # account[u] /\ asking'[r] = NoUser
            => /\ asking[r] # u
               /\ Authority(u) \cup (Authority(u)') \subseteq Authority(asking[r])]_accountVars
=============================================================================
