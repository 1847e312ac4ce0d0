------------------------------ MODULE Throttle ------------------------------
(***************************************************************************)
(* The sign-in throttle: how many failures one number may collect inside a *)
(* sliding window before the next attempt is refused unverified.           *)
(*                                                                         *)
(* The count is read on the event loop before the password is looked at;   *)
(* the failure is recorded after argon2 has run on a worker thread.  Every *)
(* attempt between the two is invisible to the count.                      *)
(***************************************************************************)
EXTENDS Naturals, FiniteSets

CONSTANTS
    Username,       \* what attempts are keyed on
    Try,            \* requests that can be under way at once
    NoUsername,     \* the request is not under way
    MaxFailures     \* LOGIN_MAX_FAILURES

ASSUME ThrottleAssumption ==
    /\ NoUsername \notin Username
    /\ IsFiniteSet(Try)
    /\ MaxFailures \in Nat \ {0}

VARIABLES
    failures,       \* failures[n]: login.failure rows of n inside the window
    trying          \* trying[a]: the number attempt a was let through for

throttleVars == <<failures, trying>>

TryingFor(n) == {a \in Try : trying[a] = n}

Throttled(n) == failures[n] >= MaxFailures

\* Mutant: one failure too many is forgiven.
LetThroughOnceMore(a, n) ==
    /\ trying[a] = NoUsername
    /\ failures[n] <= MaxFailures
    /\ trying' = [trying EXCEPT ![a] = n]
    /\ UNCHANGED failures

\* login_retry_after answers None.
LetThrough(a, n) ==
    /\ trying[a] = NoUsername
    /\ ~Throttled(n)
    /\ trying' = [trying EXCEPT ![a] = n]
    /\ UNCHANGED failures

\* Mutant: a refusal is recorded as one more failure (as far as it matters).
TurnedAwayAsFailure(n) ==
    /\ Throttled(n)
    /\ failures[n] < MaxFailures + Cardinality(Try)
    /\ failures' = [failures EXCEPT ![n] = @ + 1]
    /\ UNCHANGED trying

\* 429, recorded as login.throttled, which the count does not read.
TurnedAway(n) ==
    /\ Throttled(n)
    /\ UNCHANGED throttleVars

\* Wrong password, unknown number or disabled account: one login.failure row.
Failed(a) ==
    /\ trying[a] # NoUsername
    /\ failures' = [failures EXCEPT ![trying[a]] = @ + 1]
    /\ trying' = [trying EXCEPT ![a] = NoUsername]

\* A success is recorded and counted nowhere; nor is a request lost with the
\* process.
Ended(a) ==
    /\ trying[a] # NoUsername
    /\ trying' = [trying EXCEPT ![a] = NoUsername]
    /\ UNCHANGED failures

\* The oldest failure is LOGIN_WINDOW_S old.
AgesOut(n) ==
    /\ failures[n] > 0
    /\ failures' = [failures EXCEPT ![n] = @ - 1]
    /\ UNCHANGED trying

ThrottleInit ==
    /\ failures = [n \in Username |-> 0]
    /\ trying = [a \in Try |-> NoUsername]

ThrottleNext ==
    \/ \E a \in Try, n \in Username : LetThrough(a, n)
    \/ \E a \in Try : Failed(a) \/ Ended(a)
    \/ \E n \in Username : TurnedAway(n) \/ AgesOut(n)

ThrottleSpec == ThrottleInit /\ [][ThrottleNext]_throttleVars

\* Time passes: every failure leaves the window in the end.
ThrottleFairSpec == ThrottleSpec /\ \A n \in Username : WF_throttleVars(AgesOut(n))

-----------------------------------------------------------------------------
(* Properties.                                                             *)

\* The window counts, and attempts name a number or nothing.
ThrottleTypeOK ==
    /\ failures \in [Username -> Nat]
    /\ trying \in [Try -> Username \cup {NoUsername}]

\* By how much "three a minute" can be passed: attempts let through before
\* the earlier ones have failed are the only ones above the ceiling, so the
\* window never holds more than the ceiling and all but one of the requests
\* that can be under way, however they are interleaved.
Ceiling ==
    \A n \in Username :
        failures[n] + Cardinality(TryingFor(n)) <= MaxFailures - 1 + Cardinality(Try)

\* Nobody is locked out for good, however often somebody keeps trying: being
\* turned away does not push the window on.
LetBackIn == \A n \in Username : Throttled(n) ~> ~Throttled(n)

=============================================================================
