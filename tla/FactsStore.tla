----------------------------- MODULE FactsStore -----------------------------
(***************************************************************************)
(* The facts store, its id ledger and its run directories, and the two     *)
(* programs that write them: the pipeline (`merge facts apply`, `retire`,  *)
(* `promote`, `edit`, `resolve`, `revert`) and the service (`resolve`).    *)
(*                                                                         *)
(* Every verb reads the whole store, changes its copy, snapshots the files *)
(* into its run directory, writes them all back, and last of all leaves    *)
(* the record by which `revert` knows what it did.  The service keeps its  *)
(* own requests apart with a lock the pipeline does not take.  A verb may  *)
(* stop between any two of these steps.                                    *)
(***************************************************************************)
EXTENDS FactLadder, Listing

CONSTANTS
    Deltas,         \* the deltas a pipeline run may bring: sequences of readings
    Notes,          \* the keys of notes, which `promote` gives another
    MaxRuns,        \* bound: run directories
    MaxReverts,     \* bound: reverts
    MaxDeaths       \* bound: verbs that stop half way

ASSUME StoreAssumption ==
    /\ Deltas \subseteq Seq(Reading)
    \* fold_twins has made one reading of two that name one entry or one tab.
    /\ \A delta \in Deltas : \A i, j \in DOMAIN delta :
            delta[i].key = delta[j].key \/ delta[i].tabs \cap delta[j].tabs # {} => i = j
    \* A note has no tab, and the schema of a delta has none without `about`.
    /\ \A delta \in Deltas : \A i \in DOMAIN delta :
            delta[i].derived \in Notes =>
                delta[i].tabs = {} /\ (delta[i].sound => delta[i].about # None)
    /\ Notes \subseteq Keys
    /\ {MaxRuns, MaxReverts, MaxDeaths} \subseteq Nat

Runs == 1..MaxRuns      \* in the order of their directories' names
NoRun == 0
Program == {"service", "pipeline"}

VARIABLES
    store,          \* the entries, in the order of the files
    ledger,         \* facts/.id-seq.json
    runs,           \* runs[r]: what run directory r holds
    hand,           \* hand[w]: the verb program w is in
    given,          \* history: given[i]: times id i was minted
    torn,           \* history: the ledger was lost half written
    saves,          \* history: the runs in the order they saved
    owner,          \* history: owner[i]: the run that last meant to change entry i
    strayed,        \* history: runs whose snapshot is not of the store they read
    undone,         \* history: <<r, s, i>>: reverting r undoes what s has recorded of i since
    settled,        \* history: settled[i]: the account somebody chose for i
    readings,       \* history: <<i, v>>: an apply reported value v into entry i
    loose,          \* history: keys somebody reopened an era of
    renamed,        \* history: <<r, i>>: run r's delta has another key for entry i
    reverts, deaths \* counters for the bounds

history == <<given, torn, saves, owner, strayed, undone, settled, readings, loose, renamed>>
vars == <<store, ledger, runs, hand, history, reverts, deaths>>

Undecided == [value |-> None, source |-> Chat]

(***************************************************************************)
(* Looking an entry up.                                                    *)
(***************************************************************************)
Bearer(st, key) == First({n \in DOMAIN st : IsOpen(st[n]) /\ st[n].key = key})

\* Who shares a tab with a reading is its match or it has none; any other
\* reading is matched by its key.
FindMatch(st, r) ==
    LET n == First({m \in DOMAIN st : IsOpen(st[m]) /\ st[m].tabs \cap r.tabs # {}})
    IN  IF n = 0 THEN Bearer(st, r.key) ELSE IF st[n].key = r.key THEN n ELSE 0

Holders(st, t) == {n \in DOMAIN st : IsOpen(st[n]) /\ t \in st[n].tabs}

\* The gate gives a reading its derived key, and over that the key of the first
\* entry that holds a tab of it under another one.
Keyed(st, r) ==
    LET holder(t) == First(Holders(st, t))
        t == First({u \in r.tabs : holder(u) # 0 /\ st[holder(u)].key # r.derived})
    IN  [r EXCEPT !.key = IF t = 0 THEN r.derived ELSE st[holder(t)].key]

\* What an apply matches: the reading under the gate's key.
Match(st, r) == FindMatch(st, Keyed(st, r))

Latest(places) ==
    IF places = {} THEN 0 ELSE CHOOSE n \in places : \A m \in places : m <= n

\* A tab of the reading is in other hands than those of its match.
Straddles(st, r) ==
    \E t \in r.tabs : LET n == Latest(Holders(st, t)) IN
        n \notin {0, Match(st, r)} /\ st[n].key # Keyed(st, r).key

Find(st, id) == First({n \in DOMAIN st : st[n].id = id})

Ids(st) == {st[n].id : n \in DOMAIN st}

\* The entries of these ids, and the others, in the order they stand.
Among(st, ids) == AtPlaces(st, {n \in DOMAIN st : st[n].id \in ids})

Without(st, ids) == AtPlaces(st, {n \in DOMAIN st : st[n].id \notin ids})

(***************************************************************************)
(* The gate.  Entries that would break the store are held back, pass after *)
(* pass: a held entry can leave another about nothing.                     *)
(***************************************************************************)
InDelta(delta, key) == \E i \in DOMAIN delta : delta[i].key = key

Names(st, delta, live, key) ==
    IF InDelta(delta, key) THEN \E i \in live : delta[i].key = key
                           ELSE Bearer(st, key) # 0

Refused(st, delta, live, i) ==
    \/ ~delta[i].sound
    \/ Straddles(st, delta[i])
    \/ delta[i].about # None /\ ~Names(st, delta, live, delta[i].about)

\* Defect: the gate is asked once, and a held entry's dependants go ahead.
LiveInOnePass(st, delta) == {i \in DOMAIN delta : ~Refused(st, delta, DOMAIN delta, i)}

Live(st, delta) ==
    LET after[pass \in 0..Len(delta)] ==
            IF pass = 0 THEN DOMAIN delta
            ELSE {i \in after[pass - 1] : ~Refused(st, delta, after[pass - 1], i)}
    IN  after[Len(delta)]

(***************************************************************************)
(* What a delta makes of a store: ids for the misses and the new eras      *)
(* first, then the references, then the entries.                           *)
(***************************************************************************)
Mints(st, r) ==
    LET n == Match(st, r) IN n = 0 \/ Supersedes(st[n], r)

\* The id a key stands for, once the misses have theirs; a name nobody bears is
\* severed.
RefTo(st, delta, live, id, key) ==
    IF key = None \/ ~Names(st, delta, live, key) THEN NoId
    ELSE IF InDelta(delta, key) THEN id[CHOOSE i \in live : delta[i].key = key]
                                ELSE st[Bearer(st, key)].id

Plan(st, delta, last) ==
    LET live == Live(st, delta)
        minting == {i \in live : Mints(st, delta[i])}
        id == [i \in live |->
                  IF i \in minting THEN last + Rank(minting, i)
                                   ELSE st[Match(st, delta[i])].id]
    IN  [live |-> live, minting |-> minting, id |-> id,
         home |-> [i \in live |-> RefTo(st, delta, live, id, delta[i].home)],
         about |-> [i \in live |-> RefTo(st, delta, live, id, delta[i].about)]]

\* What the plan makes of the n-th entry there is.
Upkept(st, delta, plan, n) ==
    LET hits == {i \in plan.live : Match(st, delta[i]) = n}
        i == CHOOSE i \in hits : TRUE
    IN  IF hits = {} THEN st[n]
        ELSE IF i \in plan.minting THEN SupersededBy(st[n], plan.id[i])
        ELSE Merged(st[n], delta[i], plan.home[i])

\* The entry it adds for the i-th reading.
Added(st, delta, plan, i) ==
    LET n == Match(st, delta[i])
    IN  IF n = 0 THEN Created(plan.id[i], Keyed(st, delta[i]), plan.home[i], plan.about[i])
        ELSE Successor(plan.id[i], st[n], delta[i], plan.about[i])

Upserted(st, delta, plan) ==
    [n \in DOMAIN st |-> Upkept(st, delta, plan, n)]
        \o [k \in 1..Cardinality(plan.minting) |->
               Added(st, delta, plan, InOrder(plan.minting)[k])]

\* Two readings that the gate gives one key are folded into one before they are
\* applied: what is applied here are the deltas after that.
Unfolded(st, delta, plan) ==
    \A i, j \in plan.live : Keyed(st, delta[i]).key = Keyed(st, delta[j]).key => i = j

\* For the properties: the entries a delta matches under another key than it has
\* in the file, and the keys it adds although a tab has open entries of two keys.
RenamedIn(st, delta, plan) ==
    {st[Match(st, delta[i])].id :
        i \in {j \in plan.live : Match(st, delta[j]) \notin {0, FindMatch(st, delta[j])}}}

Contested(st, r) ==
    \E t \in r.tabs : \E m, n \in Holders(st, t) : st[m].key # st[n].key

ContestedIn(st, delta, plan) ==
    {Keyed(st, delta[i]).key : i \in {j \in plan.minting : Contested(st, delta[j])}}

(***************************************************************************)
(* Run directories.                                                        *)
(***************************************************************************)
Free == [verb |-> "free", delta |-> <<>>, args |-> NoId, snapped |-> FALSE,
         before |-> <<>>, mapped |-> FALSE, created |-> {}]

NextRun == {r \in Runs : runs[r].verb = "free" /\ \A s \in 1..(r - 1) : runs[s].verb # "free"}

\* facts-before/ or id-map.json is there.
Used(r) == runs[r].snapped \/ runs[r].mapped

Snapshot(r) == runs[r].before

\* Defect: only what a run minted counts as touched.
MatchedByVerbs(r) == IF runs[r].verb # "apply" THEN {runs[r].args} \ {NoId} ELSE {}

\* Verbs record their entry's id when they are done; apply records the ids it
\* minted, and what its delta matched is looked for again in its own snapshot,
\* under the keys the delta has in the file.
Matched(r) ==
    IF runs[r].verb # "apply" THEN {runs[r].args} \ {NoId}
    ELSE {Snapshot(r)[FindMatch(Snapshot(r), runs[r].delta[i])].id :
             i \in {j \in DOMAIN runs[r].delta : FindMatch(Snapshot(r), runs[r].delta[j]) # 0}}

Touched(r) == runs[r].created \cup Matched(r)

\* A later run, by the name of its directory, touched an entry of this one's.
Overlapped(r) == \E s \in Runs : s > r /\ Touched(s) \cap Touched(r) # {}

RevertedStore(r) == Without(store, Touched(r)) \o Among(Snapshot(r), Matched(r))

\* For the properties: what a save changes, who saved after whom, and whether
\* a run got as far as its record.
At(st, i) == {st[n] : n \in {m \in DOMAIN st : st[m].id = i}}

ChangedBy(made) == {i \in FactId : At(store, i) # At(made, i)}

IsAfter(s, r) == \E m, n \in DOMAIN saves : m < n /\ saves[m] = r /\ saves[n] = s

Recorded(s) == runs[s].mapped \/ runs[s].args # NoId

(***************************************************************************)
(* A verb's steps.                                                         *)
(***************************************************************************)
Idle == [stage |-> "idle", verb |-> "none", run |-> NoRun, read |-> <<>>, made |-> <<>>,
         created |-> {}, subject |-> NoId, account |-> Undecided]

Busy(w) == hand[w].stage # "idle"

Holds(w, verb, r, made, created, id, a) ==
    hand' = [hand EXCEPT ![w] =
        [stage |-> IF verb = "revert" THEN "snapped" ELSE "read", verb |-> verb, run |-> r,
         read |-> store, made |-> made, created |-> created, subject |-> id, account |-> a]]

\* A pipeline run claims its directory long before it applies anything.
Begin ==
    \E r \in NextRun :
        /\ runs' = [runs EXCEPT ![r].verb = "apply"]
        /\ UNCHANGED <<store, ledger, hand, history, reverts, deaths>>

Minted(n) ==
    /\ ledger + n \in 0..MaxId
    /\ ledger' = ledger + n
    /\ given' = [i \in FactId |-> IF i \in (ledger + 1)..(ledger + n) THEN given[i] + 1 ELSE given[i]]

\* The gate reads, the plan mints.  A delta of which nothing can be written
\* leaves no trace; a run that stopped before its snapshot may be tried again.
ApplyReads(r, delta) ==
    LET plan == Plan(store, delta, ledger)
    IN  /\ ~Busy("pipeline") /\ runs[r].verb = "apply" /\ ~Used(r)
        /\ runs[r].delta \in {<<>>, delta}
        /\ plan.live # {}
        /\ Unfolded(store, delta, plan)
        /\ Minted(Cardinality(plan.minting))
        /\ runs' = [runs EXCEPT ![r].delta = delta]
        /\ Holds("pipeline", "apply", r, Upserted(store, delta, plan),
                 {plan.id[i] : i \in plan.minting}, NoId, Undecided)
        /\ renamed' = renamed \cup ({r} \X RenamedIn(store, delta, plan))
        /\ loose' = loose \cup ContestedIn(store, delta, plan)
        /\ UNCHANGED <<store, torn, saves, owner, strayed, undone, settled, readings, reverts, deaths>>

\* One entry changed by hand.  The run directory is the verb's own.
ByHand(w, verb, n, after, a) ==
    /\ ~Busy(w)
    /\ \E r \in NextRun :
        /\ runs' = [runs EXCEPT ![r].verb = verb]
        /\ Holds(w, verb, r, [store EXCEPT ![n] = after], {}, store[n].id, a)
    /\ UNCHANGED <<store, ledger, history, reverts, deaths>>

Resolve(w) ==
    \E n \in DOMAIN store : \E a \in DOMAIN store[n].accounts :
        ByHand(w, "resolve", n, Resolved(store[n], a), a)

Retire ==
    \E n \in DOMAIN store : \E heir \in Ids(store) \cup {NoId} :
        /\ heir # NoId => ~store[Find(store, heir)].retired
        /\ ByHand("pipeline", "retire", n, Retired(store[n], heir), Undecided)

\* Defect: nobody looks for an open entry under the new key.
PromoteOver ==
    \E n \in DOMAIN store : \E key \in Keys :
        /\ store[n].key \in Notes /\ key \notin Notes
        /\ ByHand("pipeline", "promote", n, Promoted(store[n], key), Undecided)

Promote ==
    \E n \in DOMAIN store : \E key \in Keys :
        /\ store[n].key \in Notes /\ key \notin Notes
        /\ Bearer(store, key) = 0
        /\ ByHand("pipeline", "promote", n, Promoted(store[n], key), Undecided)

Edits(e) ==
    {ValueSet(e, v) : v \in Values \cup {None}} \cup {Reopened(e), Detached(e)}

Edit ==
    \E n \in DOMAIN store : \E after \in Edits(store[n]) \ {store[n]} :
        ByHand("pipeline", "edit", n, after, Undecided)

RevertReads(r) ==
    /\ ~Busy("pipeline") /\ reverts < MaxReverts
    /\ Touched(r) # {} /\ ~Overlapped(r)
    /\ Holds("pipeline", "revert", r, RevertedStore(r), {}, NoId, Undecided)
    /\ undone' = undone \cup {<<r, owner[i], i>> :
           i \in {j \in ChangedBy(RevertedStore(r)) :
                    IsAfter(owner[j], r) /\ Recorded(owner[j]) /\ owner[j] \notin strayed}}
    /\ reverts' = reverts + 1
    /\ UNCHANGED <<store, ledger, runs, given, torn, saves, owner, strayed, settled, readings, loose,
                    renamed, deaths>>

Snaps(w) ==
    /\ hand[w].stage = "read"
    /\ hand' = [hand EXCEPT ![w].stage = "snapped"]
    /\ runs' = [runs EXCEPT ![hand[w].run].snapped = TRUE, ![hand[w].run].before = store]
    /\ strayed' = IF store = hand[w].read THEN strayed ELSE strayed \cup {hand[w].run}
    /\ UNCHANGED <<store, ledger, given, torn, saves, owner, undone, settled, readings, loose,
                    renamed, reverts, deaths>>

(***************************************************************************)
(* What a save changes, for the properties.                                *)
(***************************************************************************)
\* Changes of another program this save writes over unseen.
RunsOver(job) == {i \in FactId : At(store, i) # At(job.read, i)}

\* The value a resolve replaces although no account holds it: the ladder writes
\* the incumbent down with an entry's first account only.
Displaced(job) ==
    LET e == job.read[Find(job.read, job.subject)]
    IN  IF job.verb # "resolve" THEN {}
        ELSE {<<e.id, e.value>>} \ {<<e.id, a.value>> : a \in DOMAIN e.accounts}

SavesHistory(job) ==
    LET over == RunsOver(job)
        wrote == ChangedBy(job.made)
        lost == over \cup (IF job.verb \in {"revert", "edit"} THEN wrote ELSE {})
        delta == runs[job.run].delta
        plan == Plan(job.read, delta, ledger - Cardinality(job.created))
        told == {<<plan.id[i], delta[i].value>> : i \in {j \in plan.live : delta[j].value # None}}
    IN  /\ saves' = IF job.verb = "revert" THEN saves ELSE Append(saves, job.run)
        /\ owner' = [i \in FactId |-> IF At(job.read, i) # At(job.made, i) /\ job.verb # "revert"
                                     THEN job.run ELSE owner[i]]
        /\ settled' = [i \in FactId |->
                IF job.verb = "resolve" /\ i = job.subject THEN job.account
                ELSE IF i \in lost THEN Undecided ELSE settled[i]]
        /\ readings' = {x \in readings \ Displaced(job) : x[1] \notin lost}
                         \cup (IF job.verb = "apply" THEN told ELSE {})
        /\ loose' = loose \cup {e.key : e \in {job.made[n] : n \in
                {m \in DOMAIN job.made : IsOpen(job.made[m]) /\ job.verb \in {"revert", "edit"}
                                           /\ job.made[m].id \in wrote}}}
                          \cup {job.made[Find(job.made, i)].key : i \in over \cap Ids(job.made)}
                          \cup {store[Find(store, i)].key : i \in over \cap Ids(store)}

Saves(w) ==
    /\ hand[w].stage = "snapped"
    /\ store' = hand[w].made
    /\ hand' = [hand EXCEPT ![w] = IF @.verb = "revert" THEN Idle ELSE [@ EXCEPT !.stage = "saved"]]
    /\ SavesHistory(hand[w])
    /\ UNCHANGED <<ledger, runs, given, torn, strayed, undone, renamed, reverts, deaths>>

\* facts-delta.json of a verb; id-map.json of an apply.
Records(w) ==
    /\ hand[w].stage = "saved"
    /\ LET r == hand[w].run
       IN  runs' = IF hand[w].verb = "apply"
                   THEN [runs EXCEPT ![r].mapped = TRUE, ![r].created = hand[w].created]
                   ELSE [runs EXCEPT ![r].args = hand[w].subject]
    /\ hand' = [hand EXCEPT ![w] = Idle]
    /\ UNCHANGED <<store, ledger, history, reverts, deaths>>

Dies(w) ==
    /\ Busy(w) /\ deaths < MaxDeaths
    /\ hand' = [hand EXCEPT ![w] = Idle]
    /\ deaths' = deaths + 1
    /\ UNCHANGED <<store, ledger, runs, history, reverts>>

\* The ledger is truncated before it is written: a stop in between leaves a
\* file that reads as no ledger at all.
Tears ==
    /\ ~Busy("pipeline") /\ deaths < MaxDeaths
    /\ ledger > 0
    /\ ledger' = 0
    /\ torn' = TRUE
    /\ deaths' = deaths + 1
    /\ UNCHANGED <<store, runs, hand, given, saves, owner, strayed, undone, settled, readings, loose,
                    renamed, reverts>>

Init ==
    /\ store = <<>>
    /\ ledger = 0
    /\ runs = [r \in Runs |-> Free]
    /\ hand = [w \in Program |-> Idle]
    /\ given = [i \in FactId |-> 0]
    /\ torn = FALSE
    /\ saves = <<>>
    /\ owner = [i \in FactId |-> NoRun]
    /\ strayed = {}
    /\ undone = {}
    /\ settled = [i \in FactId |-> Undecided]
    /\ readings = {}
    /\ loose = {}
    /\ renamed = {}
    /\ reverts = 0
    /\ deaths = 0

Next ==
    \/ Begin
    \/ \E r \in Runs : \E delta \in Deltas : ApplyReads(r, delta)
    \/ \E w \in Program : Resolve(w)
    \/ Retire
    \/ Promote
    \/ Edit
    \/ \E r \in Runs : RevertReads(r)
    \/ \E w \in Program : Snaps(w) \/ Saves(w) \/ Records(w) \/ Dies(w)
    \/ Tears

Spec == Init /\ [][Next]_vars

(***************************************************************************)
(* What should hold.                                                       *)
(***************************************************************************)
\* No two entries have one id, whatever is reverted, as long as the ledger is
\* whole.
OneEntryPerId == torn \/ Cardinality(Ids(store)) = Len(store)

\* An id names one entry for good: not even what a revert removed gives its
\* number back.  A ledger lost half written begins again at one.
IdsGivenOnce == torn \/ \A i \in FactId : given[i] <= 1

\* A key has one live era, unless somebody reopened an old one (an edit, a
\* revert after the key was filled again), a save ran over another, or a reading
\* came for a tab that has live entries of two keys.
OneEraPerKey ==
    \A m, n \in DOMAIN store :
        m # n /\ IsOpen(store[m]) /\ IsOpen(store[n]) /\ store[m].key = store[n].key
            => store[m].key \in loose \/ torn

\* Whatever runs overlap, stop half way or are reverted, an id and a key each
\* stand for one live entry.
OneOfEach == OneEntryPerId /\ IdsGivenOnce /\ OneEraPerKey

\* What somebody chose in a dispute is what the entry says, whatever is read
\* after, until an edit, a revert or a save that ran over it.
SettledStands ==
    \A n \in DOMAIN store :
        LET chosen == settled[store[n].id]
        IN  chosen # Undecided /\ ~torn =>
                /\ store[n].value = chosen.value
                /\ chosen \in DOMAIN store[n].accounts
                /\ store[n].accounts[chosen] = "chosen"

\* No reading is dropped in silence: it is the entry's value or one of the
\* accounts a person chooses among or has chosen among, until an edit, a revert
\* or a save that ran over it, or a resolve that replaces a value no account
\* holds (Displaced).
ReadingsKept ==
    \A x \in readings : \A n \in DOMAIN store :
        store[n].id = x[1] /\ ~torn =>
            store[n].value = x[2] \/ \E a \in DOMAIN store[n].accounts : a.value = x[2]

\* A revert undoes no other run's recorded later change, except of a run whose
\* directory is the older one although it saved later, of a run whose snapshot
\* is not of the store it matched against, and of an entry for which the later
\* run's delta has another key than the gate gave it: revert looks for the key
\* in the file.  (A run that stopped between its save and its record is not
\* seen.)
RevertTakesOnlyItsOwn == \A x \in undone : x[2] < x[1] \/ <<x[2], x[3]>> \in renamed

\* Every link of an entry names one that was written, never one the gate held
\* back, and a note is about something.
LinksResolve ==
    \A n \in DOMAIN store :
        /\ \A l \in {store[n].home, store[n].about, store[n].supersedes,
                     store[n].supersededBy} \ {NoId} : owner[l] # NoRun
        /\ store[n].key \in Notes => store[n].about # NoId

=============================================================================
