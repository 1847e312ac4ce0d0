----------------------------- MODULE FactLadder -----------------------------
(***************************************************************************)
(* One entry of the facts store and what a reading does to it: the write   *)
(* ladder (create, fill, dispute, union), supersession, and the questions  *)
(* asked of an entry (is it open, is it disputed).                         *)
(*                                                                         *)
(* An entry's data is one scalar leaf.  Prose, keyed lists and the unions  *)
(* of citations go through the same dispatch leaf by leaf and never        *)
(* dispute, or dispute leaf by leaf as this one does.                      *)
(***************************************************************************)
EXTENDS Naturals, Sequences, FiniteSets

CONSTANTS
    Keys,       \* natural keys: (kind, key, canonical scope)
    Tabs,       \* the tabs of the workbooks, in the order a reading lists them
    Values,     \* what a leaf may hold
    Sources,    \* what a reading may cite
    Chat,       \* the citation an edit leaves behind
    MaxDate,    \* bound: dates, 0 for none
    MaxId,      \* bound: the highest fact number
    None        \* null: no value, no key

ASSUME LadderAssumption ==
    /\ None \notin Values \cup Keys
    /\ Chat \in Sources
    /\ Tabs \subseteq Nat \ {0}
    /\ {MaxDate, MaxId} \subseteq Nat

FactId == 1..MaxId
NoId == 0               \* null where an entry is named

\* A competing value of the leaf, and who said so.
Account == [value : Values, source : Sources]
Standing == {"open", "chosen", "rejected"}

\* tangled: accounts whose own `status` is disputed, and by which citation.
Entry ==
    [id : FactId, key : Keys, tabs : SUBSET Tabs,
     value : Values \cup {None}, from : 0..MaxDate,
     closed : BOOLEAN, retired : BOOLEAN,
     supersedes : FactId \cup {NoId}, supersededBy : FactId \cup {NoId},
     source : Sources, accounts : UNION {[A -> Standing] : A \in SUBSET Account},
     tangled : SUBSET (Account \X Sources),
     home : FactId \cup {NoId}, detached : BOOLEAN, about : FactId \cup {NoId}]

\* What a delta says of one entry: the key it has in the file, and the one the
\* gate makes of it by itself (a repaired spelling, a measurement's derived
\* key).  `sound` is every check of the gate that looks at the entry alone; home
\* and about name another entry by its key, succeeds an era by its id.
Reading ==
    [key : Keys, derived : Keys, tabs : SUBSET Tabs,
     value : Values \cup {None}, from : 0..MaxDate, source : Sources,
     declares : SUBSET Account, home : Keys \cup {None}, about : Keys \cup {None},
     succeeds : FactId \cup {NoId}, sound : BOOLEAN]

IsOpen(e) == ~e.retired /\ ~e.closed /\ e.supersededBy = NoId

OpenAccounts(e) == {a \in DOMAIN e.accounts : e.accounts[a] = "open"}

\* Defect: an account that is read again is open again.
WithReopened(accounts, new) ==
    [a \in DOMAIN accounts \cup new |-> IF a \in new THEN "open" ELSE accounts[a]]

\* Accounts that are not there yet join as open ones.
WithOpen(accounts, new) ==
    [a \in DOMAIN accounts \cup new |->
        IF a \in DOMAIN accounts THEN accounts[a] ELSE "open"]

\* A known value disputes another known value, never an unknown one.
Challenges(e, r) == e.value # None /\ r.value \notin {None, e.value}

\* Defect: only the newest account of a dispute is written down.
RaisedAlone(e, r) ==
    IF Challenges(e, r) /\ DOMAIN e.accounts = {} THEN {[value |-> e.value, source |-> e.source]} ELSE {}

\* The incumbent is written down with the first challenger only.
Raised(e, r) ==
    LET incumbent == [value |-> e.value, source |-> e.source]
        challenger == [value |-> r.value, source |-> r.source]
    IN  IF ~Challenges(e, r) THEN {}
        ELSE IF DOMAIN e.accounts = {} THEN {incumbent, challenger} ELSE {challenger}

\* An account the reading declares open and the entry holds settled: the
\* ladder compares the two statuses as any other scalar.
Tangles(e, r) ==
    LET accounts == WithOpen(e.accounts, Raised(e, r))
    IN  {a \in r.declares \cap DOMAIN accounts : accounts[a] # "open"} \X {r.source}

\* A stored home, and a person's detaching, stand against a run's.
HomeAfter(e, home) == IF e.home = NoId /\ ~e.detached THEN home ELSE e.home

Merged(e, r, home) ==
    [e EXCEPT !.value = IF @ = None THEN r.value ELSE @,
              !.accounts = WithOpen(WithOpen(@, Raised(e, r)), r.declares),
              !.tangled = @ \cup Tangles(e, r),
              !.tabs = @ \cup r.tabs,
              !.home = HomeAfter(e, home)]

WouldDispute(e, r) ==
    Raised(e, r) \ DOMAIN e.accounts # {} \/ Tangles(e, r) \ e.tangled # {}

\* A later date over a value it contradicts starts a new era, or no date and the
\* reading's own word that it supersedes this one.
Supersedes(e, r) ==
    /\ r.from > e.from \/ (r.from = 0 /\ r.succeeds = e.id)
    /\ WouldDispute(e, r)

AllOpen(accounts) == [a \in accounts |-> "open"]

Created(id, r, home, about) ==
    [id |-> id, key |-> r.key, tabs |-> r.tabs, value |-> r.value, from |-> r.from,
     closed |-> FALSE, retired |-> FALSE, supersedes |-> NoId, supersededBy |-> NoId,
     source |-> r.source, accounts |-> AllOpen(r.declares), tangled |-> {},
     home |-> home, detached |-> FALSE, about |-> about]

\* The successor starts without its predecessor's accounts; its home is the
\* predecessor's, and what it is about too unless the reading says.
Successor(id, e, r, about) ==
    [e EXCEPT !.id = id, !.value = r.value, !.from = r.from,
              !.accounts = AllOpen(r.declares), !.tangled = {}, !.supersedes = e.id,
              !.tabs = @ \cup r.tabs, !.about = IF about = NoId THEN @ ELSE about]

SupersededBy(e, id) == [e EXCEPT !.closed = TRUE, !.supersededBy = id]

(***************************************************************************)
(* What a person decides of an entry.                                      *)
(***************************************************************************)
Resolved(e, a) ==
    [e EXCEPT !.value = a.value,
              !.accounts = [b \in DOMAIN @ |-> IF b = a THEN "chosen" ELSE "rejected"]]

\* A value set over an open dispute settles it: in favour of an account that
\* holds the value, or of the instruction itself.
Settled(e, v) ==
    LET holding == {a \in DOMAIN e.accounts : a.value = v}
        winner == IF holding # {} THEN CHOOSE a \in holding : TRUE
                                  ELSE [value |-> v, source |-> Chat]
    IN  IF OpenAccounts(e) = {} THEN e.accounts
        ELSE [a \in DOMAIN e.accounts \cup (IF v = None THEN {} ELSE {winner}) |->
                IF v # None /\ a = winner THEN "chosen" ELSE "rejected"]

ValueSet(e, v) == [e EXCEPT !.value = v, !.accounts = Settled(e, v)]

Retired(e, heir) ==
    [e EXCEPT !.retired = TRUE, !.closed = TRUE,
              !.supersededBy = IF heir = NoId THEN @ ELSE heir]

\* `set retired false`, `set valid_to null`, `unset superseded_by` in one patch.
Reopened(e) == [e EXCEPT !.retired = FALSE, !.closed = FALSE, !.supersededBy = NoId]

\* A note moves into a kind of its own; what it was about does not come along.
Promoted(e, key) == [e EXCEPT !.key = key, !.about = NoId]

Detached(e) == [e EXCEPT !.home = NoId, !.detached = TRUE]
=============================================================================
