-------------------------- MODULE FactsStoreProofs --------------------------
(***************************************************************************)
(* For any keys, values, deltas, number of runs and verbs that stop half   *)
(* way: an id and a key stand for one live entry, a decision and a reading *)
(* stand until somebody undoes them, links name what was written, and a    *)
(* revert takes its own.                                                   *)
(***************************************************************************)
EXTENDS FactsStore, Induction

-----------------------------------------------------------------------------
(***************************************************************************)
(* What the variables hold.                                                *)
(***************************************************************************)
Verb == {"apply", "resolve", "retire", "promote", "edit"}

RunDir ==
    [verb : Verb \cup {"free"}, delta : Deltas \cup {<<>>}, args : FactId \cup {NoId},
     snapped : BOOLEAN, before : Seq(Entry), mapped : BOOLEAN, created : SUBSET FactId]

Job ==
    [stage : {"idle", "read", "snapped", "saved"}, verb : Verb \cup {"none", "revert"},
     run : Runs \cup {NoRun}, read : Seq(Entry), made : Seq(Entry), created : SUBSET FactId,
     subject : FactId \cup {NoId}, account : Account \cup {Undecided}]

FilesOK ==
    /\ store \in Seq(Entry)
    /\ ledger \in 0..MaxId
    /\ runs \in [Runs -> RunDir]

HandsOK == hand \in [Program -> Job]

HistoryOK ==
    /\ given \in [FactId -> Nat]
    /\ torn \in BOOLEAN
    /\ saves \in Seq(Runs)
    /\ owner \in [FactId -> Runs \cup {NoRun}]
    /\ strayed \subseteq Runs
    /\ settled \in [FactId -> Account \cup {Undecided}]

TypeInv == FilesOK /\ HandsOK /\ HistoryOK

-----------------------------------------------------------------------------
(***************************************************************************)
(* Whose run directory is whose.                                           *)
(***************************************************************************)
Busied(j) == j.stage # "idle" /\ j.verb # "revert"

\* What a directory holds says which verb made it and how far that got.
DirOK(d) ==
    /\ d.verb = "free" => d = Free
    /\ d.verb = "apply" => d.args = NoId
    /\ d.verb # "apply" => ~d.mapped
    /\ d.mapped => d.snapped

DirsOK == \A r \in Runs : DirOK(runs[r])

\* A verb at work holds a directory of its own kind that has no record yet.
HoldOK(w, j, d) ==
    /\ j.stage = "idle" => j = Idle
    /\ j.verb = "revert" => j.stage \in {"idle", "snapped"}
    /\ w = "service" => j.verb \in {"none", "resolve"}
    /\ Busied(j) =>
        /\ j.verb \in Verb /\ j.run \in Runs
        /\ d[j.run].verb = j.verb
        /\ ~d[j.run].mapped /\ d[j.run].args = NoId
        /\ j.stage # "read" => d[j.run].snapped
        /\ j.stage = "read" => ~d[j.run].snapped
        /\ j.verb = "apply" => d[j.run].delta \in Deltas
        /\ j.verb # "apply" => j.subject \in FactId

HoldsOK == \A w \in Program : HoldOK(w, hand[w], runs)

Apart ==
    Busied(hand["service"]) /\ Busied(hand["pipeline"])
        => hand["service"].run # hand["pipeline"].run

\* A run saves once, and only what has saved owns a change.
SavedOK ==
    /\ \A m, n \in DOMAIN saves : saves[m] = saves[n] => m = n
    /\ \A n \in DOMAIN saves : runs[saves[n]].verb # "free" /\ runs[saves[n]].snapped
    /\ \A w \in Program : Busied(hand[w]) /\ hand[w].stage # "saved" =>
            \A n \in DOMAIN saves : saves[n] # hand[w].run
    /\ \A i \in FactId : owner[i] # NoRun => \E n \in DOMAIN saves : saves[n] = owner[i]

DirInv == DirsOK /\ HoldsOK /\ Apart /\ SavedOK

-----------------------------------------------------------------------------
(***************************************************************************)
(* Ids.                                                                    *)
(***************************************************************************)
Distinct(st) == \A m, n \in DOMAIN st : st[m].id = st[n].id => m = n

IdsUpTo(st, last) == \A n \in DOMAIN st : st[n].id <= last

Fit(st, last) == Distinct(st) /\ IdsUpTo(st, last)

NumbersOK == \A i \in FactId : given[i] <= 1 /\ (given[i] > 0 => i <= ledger)

IdInv ==
    torn \/
        /\ NumbersOK
        /\ Fit(store, ledger)
        /\ \A r \in Runs : Fit(runs[r].before, ledger)

-----------------------------------------------------------------------------
(***************************************************************************)
(* Eras.                                                                   *)
(***************************************************************************)
Rivals(e, f) == IsOpen(e) /\ IsOpen(f) /\ e.key = f.key

ErasIn(st, keys) ==
    \A m, n \in DOMAIN st : m # n /\ Rivals(st[m], st[n]) => st[m].key \in keys

InStore(st, e) == \E n \in DOMAIN st : st[n] = e

\* Two live eras of one key in what a verb has made: the key is loose, or the
\* verb is one that may reopen and has changed one of the two.
ErasOK(j, keys) ==
    \A m, n \in DOMAIN j.made :
        m # n /\ Rivals(j.made[m], j.made[n]) =>
            \/ j.made[m].key \in keys
            \/ /\ j.verb \in {"revert", "edit"}
               /\ ~InStore(j.read, j.made[m]) \/ ~InStore(j.read, j.made[n])

EraInv == torn \/ ErasIn(store, loose)

-----------------------------------------------------------------------------
(***************************************************************************)
(* Decisions and readings.                                                 *)
(***************************************************************************)
Stands(e, a) == e.value = a.value /\ a \in DOMAIN e.accounts /\ e.accounts[a] = "chosen"

Says(e, v) == e.value = v \/ \E a \in DOMAIN e.accounts : a.value = v

\* What a reading, a retirement or a promotion leaves as it is.
Keeps(e, f) ==
    /\ f.id = e.id
    /\ e.value # None => f.value = e.value
    /\ \A a \in DOMAIN e.accounts : a \in DOMAIN f.accounts /\ f.accounts[a] = e.accounts[a]

\* What a verb other than an edit or a revert makes of the entry it read.
CarriedOver(j, n) ==
    IF j.verb = "resolve" /\ j.read[n].id = j.subject
    THEN /\ j.made[n].id = j.subject
         /\ Stands(j.made[n], j.account)
         /\ \A v \in Values : Says(j.read[n], v) /\ <<j.subject, v>> \notin Displaced(j)
                                => Says(j.made[n], v)
    ELSE Keeps(j.read[n], j.made[n])

Told(j, delta, last) ==
    LET plan == Plan(j.read, delta, last)
    IN  {<<plan.id[i], delta[i].value>> : i \in {k \in plan.live : delta[k].value # None}}

CarryOK(j) ==
    j.verb \notin {"none", "revert", "edit"} =>
        /\ DOMAIN j.read \subseteq DOMAIN j.made
        /\ \A n \in DOMAIN j.read : CarriedOver(j, n)
        /\ j.verb = "resolve" => \E n \in DOMAIN j.read : j.read[n].id = j.subject

Tells(j, delta, last) ==
    \A x \in Told(j, delta, last) :
        \E n \in DOMAIN j.made : j.made[n].id = x[1] /\ Says(j.made[n], x[2])

ToldOK(j, d, last) ==
    j.verb = "apply" /\ j.stage # "saved" =>
        Tells(j, d[j.run].delta, last - Cardinality(j.created))

SettledOK ==
    \A i \in FactId : settled[i] # Undecided =>
        /\ i \in Ids(store)
        /\ \A n \in DOMAIN store : store[n].id = i => Stands(store[n], settled[i])

ReadingsOK ==
    \A x \in readings :
        /\ x \in FactId \X Values /\ x[1] \in Ids(store)
        /\ \A n \in DOMAIN store : store[n].id = x[1] => Says(store[n], x[2])

KeepInv == torn \/ (SettledOK /\ ReadingsOK)

\* What makes the copy in a hand as good as the store.
JobSafe(j, keys, last) ==
    /\ Fit(j.made, last) /\ Fit(j.read, last)
    /\ ErasOK(j, keys) /\ CarryOK(j)

HandInv ==
    torn \/ \A w \in Program : JobSafe(hand[w], loose, ledger) /\ ToldOK(hand[w], runs, ledger)

-----------------------------------------------------------------------------
(***************************************************************************)
(* Links.                                                                  *)
(***************************************************************************)
LinksOf(e) == {e.home, e.about, e.supersedes, e.supersededBy} \ {NoId}

\* What an entry is and points at, all of it among these ids.
Within(e, ids) ==
    /\ e.id \in ids /\ LinksOf(e) \subseteq ids
    /\ e.key \in Notes => e.about # NoId /\ e.tabs = {}

Owned == {i \in FactId : owner[i] # NoRun}

\* The ids a save by this verb makes its own.
Coming(j) == {i \in FactId : j.verb # "revert" /\ At(j.read, i) # At(j.made, i)}

LinkedIn(st, R) == \A n \in DOMAIN st : Within(st[n], R)

JobLinked(j, R) == LinkedIn(j.made, R \cup Coming(j))

LinkInv ==
    /\ LinkedIn(store, Owned)
    /\ \A r \in Runs : LinkedIn(runs[r].before, Owned)
    /\ \A w \in Program : JobLinked(hand[w], Owned)

-----------------------------------------------------------------------------
(***************************************************************************)
(* What a run has touched.                                                 *)
(***************************************************************************)
\* The entries a delta names, in this store, by the keys it has in the file.
Named(st, delta) ==
    {st[FindMatch(st, delta[i])].id : i \in {k \in DOMAIN delta : FindMatch(st, delta[k]) # 0}}

\* What a verb changes, its record will say, but for what it knew by another key.
ReachOK(j, d, others) ==
    Busied(j) =>
        \A i \in FactId : At(j.read, i) # At(j.made, i) =>
            \/ <<j.run, i>> \in others
            \/ j.verb = "apply" /\ i \in j.created \cup Named(j.read, d[j.run].delta)
            \/ j.verb # "apply" /\ i = j.subject

\* What the run in this hand owns once it has saved.
OwnsOK(j, d, others) ==
    Busied(j) /\ j.stage = "saved" =>
        \A i \in FactId : owner[i] = j.run =>
            \/ j.run \in strayed \/ <<j.run, i>> \in others
            \/ j.verb = "apply" /\ i \in j.created \cup Named(d[j.run].before, d[j.run].delta)
            \/ j.verb # "apply" /\ i = j.subject

SnapOK(j, d) ==
    Busied(j) /\ j.verb = "apply" /\ j.stage # "read" =>
        j.run \in strayed \/ d[j.run].before = j.read

Excused(x, others) == x[2] < x[1] \/ <<x[2], x[3]>> \in others

TouchInv ==
    /\ \A w \in Program :
            ReachOK(hand[w], runs, renamed) /\ OwnsOK(hand[w], runs, renamed) /\ SnapOK(hand[w], runs)
    /\ \A s \in Runs, i \in FactId :
            owner[i] = s /\ Recorded(s) => s \in strayed \/ i \in Touched(s) \/ <<s, i>> \in renamed
    /\ \A x \in undone : Excused(x, renamed)

IInv == TypeInv /\ DirInv /\ IdInv /\ EraInv /\ KeepInv /\ HandInv /\ LinkInv /\ TouchInv

-----------------------------------------------------------------------------
(***************************************************************************)
(* Entries stay entries.                                                   *)
(***************************************************************************)
Standings == UNION {[A -> Standing] : A \in SUBSET Account}

LEMMA StandingsOf ==
    ASSUME NEW f \in Standings
    PROVE  DOMAIN f \in SUBSET Account /\ f \in [DOMAIN f -> Standing]
BY DEF Standings

LEMMA IsStandings ==
    ASSUME NEW A \in SUBSET Account, NEW f \in [A -> Standing]
    PROVE  f \in Standings
BY DEF Standings

LEMMA Open ==
    ASSUME NEW A \in SUBSET Account
    PROVE  AllOpen(A) \in Standings /\ DOMAIN AllOpen(A) = A
<1>1. AllOpen(A) \in [A -> Standing]
  BY DEF AllOpen, Standing
<1> QED  BY <1>1, IsStandings DEF AllOpen

LEMMA Joined ==
    ASSUME NEW f \in Standings, NEW A \in SUBSET Account
    PROVE  /\ WithOpen(f, A) \in Standings
           /\ DOMAIN WithOpen(f, A) = DOMAIN f \cup A
           /\ \A a \in DOMAIN f : WithOpen(f, A)[a] = f[a]
<1>1. DOMAIN f \in SUBSET Account /\ f \in [DOMAIN f -> Standing]
  BY StandingsOf
<1>2. DOMAIN f \cup A \in SUBSET Account
  BY <1>1
<1>3. WithOpen(f, A) \in [DOMAIN f \cup A -> Standing]
  BY <1>1 DEF WithOpen, Standing
<1> QED  BY <1>2, <1>3, IsStandings DEF WithOpen

LEMMA EntryParts ==
    ASSUME NEW e \in Entry
    PROVE  /\ e.id \in FactId /\ e.key \in Keys /\ e.value \in Values \cup {None}
           /\ e.from \in 0..MaxDate /\ e.closed \in BOOLEAN /\ e.retired \in BOOLEAN
           /\ e.supersedes \in FactId \cup {NoId} /\ e.supersededBy \in FactId \cup {NoId}
           /\ e.source \in Sources /\ e.accounts \in Standings
           /\ e.tangled \in SUBSET (Account \X Sources)
           /\ e.home \in FactId \cup {NoId} /\ e.detached \in BOOLEAN
           /\ e.about \in FactId \cup {NoId} /\ e.tabs \in SUBSET Tabs
BY DEF Entry, Standings

LEMMA ReadingParts ==
    ASSUME NEW r \in Reading
    PROVE  /\ r.key \in Keys /\ r.value \in Values \cup {None} /\ r.from \in 0..MaxDate
           /\ r.source \in Sources /\ r.declares \in SUBSET Account
           /\ r.home \in Keys \cup {None} /\ r.about \in Keys \cup {None} /\ r.sound \in BOOLEAN
           /\ r.derived \in Keys /\ r.tabs \in SUBSET Tabs
BY DEF Reading

LEMMA RaisedOK ==
    ASSUME NEW e \in Entry, NEW r \in Reading
    PROVE  /\ Raised(e, r) \in SUBSET Account
           /\ Challenges(e, r) => [value |-> r.value, source |-> r.source] \in Raised(e, r)
<1>1. CASE Challenges(e, r)
  <2>1. e.value \in Values /\ r.value \in Values /\ e.source \in Sources /\ r.source \in Sources
    BY <1>1, EntryParts, ReadingParts DEF Challenges
  <2>2. /\ [value |-> e.value, source |-> e.source] \in Account
        /\ [value |-> r.value, source |-> r.source] \in Account
    BY <2>1 DEF Account
  <2> QED  BY <1>1, <2>2 DEF Raised
<1>2. CASE ~Challenges(e, r)
  BY <1>2 DEF Raised
<1> QED  BY <1>1, <1>2

LEMMA TanglesOK ==
    ASSUME NEW e \in Entry, NEW r \in Reading
    PROVE  Tangles(e, r) \in SUBSET (Account \X Sources)
<1>1. r.declares \in SUBSET Account /\ r.source \in Sources
  BY ReadingParts
<1> DEFINE A == {a \in r.declares \cap DOMAIN WithOpen(e.accounts, Raised(e, r)) :
                    WithOpen(e.accounts, Raised(e, r))[a] # "open"}
<1>2. A \in SUBSET Account
  BY <1>1
<1>3. Tangles(e, r) = A \X {r.source}
  BY DEF Tangles
<1> HIDE DEF A
<1> QED  BY <1>1, <1>2, <1>3

\* What a reading makes of the entry it meets.
LEMMA MergedOK ==
    ASSUME NEW e \in Entry, NEW r \in Reading, NEW home \in FactId \cup {NoId}
    PROVE  /\ Merged(e, r, home) \in Entry
           /\ Keeps(e, Merged(e, r, home))
           /\ r.value # None => Says(Merged(e, r, home), r.value)
           /\ \A v \in Values : Says(e, v) => Says(Merged(e, r, home), v)
           /\ Merged(e, r, home).key = e.key
           /\ IsOpen(Merged(e, r, home)) = IsOpen(e)
           /\ Merged(e, r, home).about = e.about
           /\ Merged(e, r, home).tabs = e.tabs \cup r.tabs
           /\ LinksOf(Merged(e, r, home)) \subseteq LinksOf(e) \cup ({home} \ {NoId})
<1> DEFINE f == Merged(e, r, home)
           one == WithOpen(e.accounts, Raised(e, r))
           two == WithOpen(one, r.declares)
<1>1. e.accounts \in Standings /\ r.declares \in SUBSET Account /\ Raised(e, r) \in SUBSET Account
  BY EntryParts, ReadingParts, RaisedOK
<1>2. /\ one \in Standings /\ DOMAIN one = DOMAIN e.accounts \cup Raised(e, r)
      /\ \A a \in DOMAIN e.accounts : one[a] = e.accounts[a]
  BY <1>1, Joined
<1> HIDE DEF one
<1>3. /\ two \in Standings /\ DOMAIN two = DOMAIN one \cup r.declares
      /\ \A a \in DOMAIN one : two[a] = one[a]
  BY <1>1, <1>2, Joined
<1> HIDE DEF two
<1>4. e.tangled \cup Tangles(e, r) \in SUBSET (Account \X Sources)
  BY EntryParts, TanglesOK
<1>5. HomeAfter(e, home) \in FactId \cup {NoId} /\ HomeAfter(e, home) \in {e.home, home}
  BY EntryParts DEF HomeAfter
<1> DEFINE v == IF e.value = None THEN r.value ELSE e.value
<1>6. v \in Values \cup {None}
  BY EntryParts, ReadingParts
<1>7. f = [e EXCEPT !.value = v, !.accounts = two, !.tangled = e.tangled \cup Tangles(e, r),
                    !.tabs = e.tabs \cup r.tabs, !.home = HomeAfter(e, home)]
  BY DEF Merged, two, one, Entry
<1>8. /\ f \in Entry
      /\ f.value = v /\ f.accounts = two /\ f.id = e.id /\ f.key = e.key /\ f.about = e.about
      /\ f.retired = e.retired /\ f.closed = e.closed /\ f.supersededBy = e.supersededBy
      /\ f.supersedes = e.supersedes /\ f.home \in {e.home, home} /\ f.tabs = e.tabs \cup r.tabs
  <2> HIDE DEF f, v
  <2>0. e.tabs \cup r.tabs \in SUBSET Tabs
    BY EntryParts, ReadingParts
  <2>1. f \in Entry
    BY <1>3, <1>4, <1>5, <1>6, <1>7, <2>0 DEF Entry, Standings
  <2>2. /\ f.value = v /\ f.accounts = two /\ f.id = e.id /\ f.key = e.key /\ f.about = e.about
        /\ f.retired = e.retired /\ f.closed = e.closed /\ f.supersededBy = e.supersededBy
        /\ f.supersedes = e.supersedes /\ f.home = HomeAfter(e, home) /\ f.tabs = e.tabs \cup r.tabs
    BY <1>7 DEF Entry
  <2> QED  BY <1>5, <2>1, <2>2
<1> HIDE DEF f
<1>9. Keeps(e, f)
  BY <1>2, <1>3, <1>8 DEF Keeps
<1>10. ASSUME r.value # None PROVE Says(f, r.value)
  <2>1. CASE Challenges(e, r)
    <3>1. [value |-> r.value, source |-> r.source] \in DOMAIN two
      BY <1>2, <1>3, <2>1, RaisedOK
    <3> QED  BY <1>8, <3>1 DEF Says
  <2>2. CASE ~Challenges(e, r)
    BY <1>8, <1>10, <2>2 DEF Says, Challenges
  <2> QED  BY <2>1, <2>2
<1>11. ASSUME NEW x \in Values, Says(e, x) PROVE Says(f, x)
  <2>1. x # None
    BY LadderAssumption
  <2> QED  BY <1>2, <1>3, <1>8, <1>11, <2>1 DEF Says
<1>12. IsOpen(f) = IsOpen(e)
  BY <1>8 DEF IsOpen
<1>13. LinksOf(f) \subseteq LinksOf(e) \cup ({home} \ {NoId})
  BY <1>8 DEF LinksOf
<1> QED  BY <1>8, <1>9, <1>10, <1>11, <1>12, <1>13 DEF f

\* A new entry says what its reading does.
CreatedWell(id, r, home, about, f) ==
    /\ f \in Entry /\ f.id = id /\ f.key = r.key /\ f.about = about /\ f.tabs = r.tabs
    /\ IsOpen(f)
    /\ r.value # None => Says(f, r.value)
    /\ LinksOf(f) = {home, about} \ {NoId}

LEMMA CreatedOK ==
    ASSUME NEW id \in FactId, NEW r \in Reading, NEW home \in FactId \cup {NoId},
           NEW about \in FactId \cup {NoId}
    PROVE  CreatedWell(id, r, home, about, Created(id, r, home, about))
<1> DEFINE f == Created(id, r, home, about)
<1>1. AllOpen(r.declares) \in Standings
  BY ReadingParts, Open
<1>2. /\ f \in Entry /\ f.id = id /\ f.key = r.key /\ f.about = about /\ f.home = home
      /\ f.tabs = r.tabs
      /\ f.supersedes = NoId /\ f.supersededBy = NoId /\ f.closed = FALSE /\ f.retired = FALSE
      /\ f.value = r.value
  BY <1>1, ReadingParts DEF Created, Entry, Standings, NoId
<1> QED  BY <1>2 DEF IsOpen, Says, LinksOf, CreatedWell

LEMMA SuccessorOK ==
    ASSUME NEW e \in Entry, NEW id \in FactId, NEW r \in Reading, NEW about \in FactId \cup {NoId}
    PROVE  /\ Successor(id, e, r, about) \in Entry /\ Successor(id, e, r, about).id = id
           /\ Successor(id, e, r, about).key = e.key
           /\ Successor(id, e, r, about).about = IF about = NoId THEN e.about ELSE about
           /\ Successor(id, e, r, about).tabs = e.tabs \cup r.tabs
           /\ r.value # None => Says(Successor(id, e, r, about), r.value)
           /\ LinksOf(Successor(id, e, r, about)) \subseteq LinksOf(e) \cup {e.id} \cup ({about} \ {NoId})
<1> DEFINE f == Successor(id, e, r, about)
           to == IF about = NoId THEN e.about ELSE about
<1>1. AllOpen(r.declares) \in Standings
  BY ReadingParts, Open
<1>2. e.tabs \cup r.tabs \in SUBSET Tabs /\ to \in FactId \cup {NoId}
  BY EntryParts, ReadingParts
<1>3. f = [e EXCEPT !.id = id, !.value = r.value, !.from = r.from,
                    !.accounts = AllOpen(r.declares), !.tangled = {}, !.supersedes = e.id,
                    !.tabs = e.tabs \cup r.tabs, !.about = to]
  BY DEF Successor, Entry
<1> HIDE DEF f, to
<1>4. /\ f \in Entry /\ f.id = id /\ f.key = e.key /\ f.about = to /\ f.home = e.home
      /\ f.supersedes = e.id /\ f.supersededBy = e.supersededBy
      /\ f.value = r.value /\ f.tabs = e.tabs \cup r.tabs
  BY <1>1, <1>2, <1>3, ReadingParts DEF Entry, Standings
<1>5. LinksOf(f) \subseteq LinksOf(e) \cup {e.id} \cup ({about} \ {NoId})
  BY <1>4 DEF LinksOf, to
<1> QED  BY <1>4, <1>5 DEF Says, f, to

LEMMA ClosedOK ==
    ASSUME NEW e \in Entry, NEW id \in FactId
    PROVE  /\ SupersededBy(e, id) \in Entry /\ Keeps(e, SupersededBy(e, id))
           /\ SupersededBy(e, id).key = e.key /\ SupersededBy(e, id).about = e.about
           /\ SupersededBy(e, id).tabs = e.tabs
           /\ ~IsOpen(SupersededBy(e, id))
           /\ \A v \in Values : Says(e, v) => Says(SupersededBy(e, id), v)
           /\ LinksOf(SupersededBy(e, id)) \subseteq LinksOf(e) \cup {id}
<1> DEFINE f == SupersededBy(e, id)
<1>1. /\ f \in Entry /\ f.id = e.id /\ f.key = e.key /\ f.about = e.about /\ f.home = e.home
      /\ f.supersedes = e.supersedes /\ f.supersededBy = id /\ f.closed = TRUE
      /\ f.value = e.value /\ f.accounts = e.accounts /\ f.tabs = e.tabs
  BY DEF SupersededBy, Entry
<1> QED  BY <1>1 DEF IsOpen, Says, LinksOf, Keeps

\* What a person's decision leaves as it is.
Alike(e, f) ==
    f.id = e.id /\ f.key = e.key /\ f.about = e.about /\ f.tabs = e.tabs /\ IsOpen(f) = IsOpen(e)

LEMMA ResolvedOK ==
    ASSUME NEW e \in Entry, NEW a \in DOMAIN e.accounts
    PROVE  /\ Resolved(e, a) \in Entry /\ Alike(e, Resolved(e, a))
           /\ Stands(Resolved(e, a), a) /\ a \in Account
           /\ LinksOf(Resolved(e, a)) = LinksOf(e)
           /\ \A v \in Values :
                Says(e, v) /\ (v = e.value => \E b \in DOMAIN e.accounts : b.value = v)
                    => Says(Resolved(e, a), v)
<1> DEFINE f == Resolved(e, a)
           g == [b \in DOMAIN e.accounts |-> IF b = a THEN "chosen" ELSE "rejected"]
<1>1. DOMAIN e.accounts \in SUBSET Account
  BY EntryParts, StandingsOf
<1>2. g \in [DOMAIN e.accounts -> Standing]
  BY DEF Standing
<1>3. g \in Standings /\ DOMAIN g = DOMAIN e.accounts /\ g[a] = "chosen"
  BY <1>1, <1>2, IsStandings
<1>4. f = [e EXCEPT !.value = a.value, !.accounts = g]
  BY DEF Resolved, Entry
<1> HIDE DEF g
<1>5. a \in Account /\ a.value \in Values
  BY <1>1 DEF Account
<1>6. /\ f \in Entry /\ f.id = e.id /\ f.key = e.key /\ f.about = e.about /\ f.home = e.home
      /\ f.supersedes = e.supersedes /\ f.supersededBy = e.supersededBy /\ f.closed = e.closed
      /\ f.retired = e.retired /\ f.value = a.value /\ f.accounts = g /\ f.tabs = e.tabs
  BY <1>3, <1>4, <1>5 DEF Entry, Standings
<1> HIDE DEF f
<1>7. Stands(f, a)
  BY <1>3, <1>6 DEF Stands
<1>8. ASSUME NEW v \in Values, Says(e, v), v = e.value => \E b \in DOMAIN e.accounts : b.value = v
      PROVE  Says(f, v)
  BY <1>3, <1>6, <1>8 DEF Says
<1> QED  BY <1>5, <1>6, <1>7, <1>8 DEF f, Alike, IsOpen, LinksOf

LEMMA SettledLedger ==
    ASSUME NEW e \in Entry, NEW v \in Values \cup {None}
    PROVE  Settled(e, v) \in Standings
<1> DEFINE holding == {a \in DOMAIN e.accounts : a.value = v}
           winner == IF holding # {} THEN CHOOSE a \in holding : TRUE
                                     ELSE [value |-> v, source |-> Chat]
           A == DOMAIN e.accounts \cup (IF v = None THEN {} ELSE {winner})
           g == [a \in A |-> IF v # None /\ a = winner THEN "chosen" ELSE "rejected"]
<1>1. DOMAIN e.accounts \in SUBSET Account /\ e.accounts \in Standings
  BY EntryParts, StandingsOf
<1>2. v # None => winner \in Account
  <2>1. CASE holding # {}
    <3>1. winner \in holding
      BY <2>1
    <3> QED  BY <1>1, <3>1
  <2>2. CASE holding = {}
    BY <2>2, LadderAssumption DEF Account
  <2> QED  BY <2>1, <2>2
<1> HIDE DEF winner
<1>3. A \in SUBSET Account
  BY <1>1, <1>2
<1>4. g \in [A -> Standing]
  BY DEF Standing
<1>5. Settled(e, v) = IF OpenAccounts(e) = {} THEN e.accounts ELSE g
  BY DEF Settled, winner
<1> HIDE DEF A, g
<1>6. g \in Standings
  BY <1>3, <1>4, IsStandings
<1> QED  BY <1>1, <1>5, <1>6

\* An edit stays an entry of its id and its key, and points at nothing new.
LEMMA EditedOK ==
    ASSUME NEW e \in Entry, NEW f \in Edits(e)
    PROVE  /\ f \in Entry /\ f.id = e.id /\ f.key = e.key /\ f.about = e.about /\ f.tabs = e.tabs
           /\ LinksOf(f) \subseteq LinksOf(e)
<1>1. CASE \E v \in Values \cup {None} : f = ValueSet(e, v)
  <2>1. PICK v \in Values \cup {None} : f = ValueSet(e, v)
    BY <1>1
  <2>2. Settled(e, v) \in Standings
    BY SettledLedger
  <2>3. /\ f \in Entry /\ f.id = e.id /\ f.key = e.key /\ f.about = e.about /\ f.home = e.home
        /\ f.supersedes = e.supersedes /\ f.supersededBy = e.supersededBy /\ f.tabs = e.tabs
    BY <2>1, <2>2 DEF ValueSet, Entry, Standings
  <2> QED  BY <2>3 DEF LinksOf
<1>2. CASE f = Reopened(e)
  <2>1. /\ f \in Entry /\ f.id = e.id /\ f.key = e.key /\ f.about = e.about /\ f.home = e.home
        /\ f.supersedes = e.supersedes /\ f.supersededBy = NoId /\ f.tabs = e.tabs
    BY <1>2 DEF Reopened, Entry
  <2> QED  BY <2>1 DEF LinksOf
<1>3. CASE f = Detached(e)
  <2>1. /\ f \in Entry /\ f.id = e.id /\ f.key = e.key /\ f.about = e.about /\ f.home = NoId
        /\ f.supersedes = e.supersedes /\ f.supersededBy = e.supersededBy /\ f.tabs = e.tabs
    BY <1>3 DEF Detached, Entry
  <2> QED  BY <2>1 DEF LinksOf
<1> QED  BY <1>1, <1>2, <1>3 DEF Edits

LEMMA RetiredOK ==
    ASSUME NEW e \in Entry, NEW heir \in FactId \cup {NoId}
    PROVE  /\ Retired(e, heir) \in Entry /\ Keeps(e, Retired(e, heir))
           /\ Retired(e, heir).key = e.key /\ Retired(e, heir).about = e.about
           /\ Retired(e, heir).tabs = e.tabs
           /\ ~IsOpen(Retired(e, heir))
           /\ LinksOf(Retired(e, heir)) \subseteq LinksOf(e) \cup ({heir} \ {NoId})
<1> DEFINE f == Retired(e, heir)
<1>1. /\ f \in Entry /\ f.id = e.id /\ f.key = e.key /\ f.about = e.about /\ f.home = e.home
      /\ f.supersedes = e.supersedes /\ f.supersededBy \in {e.supersededBy, heir}
      /\ f.closed = TRUE /\ f.value = e.value /\ f.accounts = e.accounts /\ f.tabs = e.tabs
  <2>1. f \in Entry
    BY ZenonT(30) DEF Retired, Entry
  <2>2. /\ f.id = e.id /\ f.key = e.key /\ f.about = e.about /\ f.home = e.home
        /\ f.supersedes = e.supersedes /\ f.supersededBy \in {e.supersededBy, heir}
        /\ f.closed = TRUE /\ f.value = e.value /\ f.accounts = e.accounts /\ f.tabs = e.tabs
    BY DEF Retired, Entry
  <2> QED  BY <2>1, <2>2
<1> QED  BY <1>1 DEF IsOpen, LinksOf, Keeps

LEMMA PromotedOK ==
    ASSUME NEW e \in Entry, NEW key \in Keys
    PROVE  /\ Promoted(e, key) \in Entry /\ Keeps(e, Promoted(e, key)) /\ Promoted(e, key).key = key
           /\ IsOpen(Promoted(e, key)) = IsOpen(e)
           /\ LinksOf(Promoted(e, key)) \subseteq LinksOf(e)
<1> DEFINE f == Promoted(e, key)
<1>1. /\ f \in Entry /\ f.id = e.id /\ f.key = key /\ f.about = NoId /\ f.home = e.home
      /\ f.supersedes = e.supersedes /\ f.supersededBy = e.supersededBy /\ f.closed = e.closed
      /\ f.retired = e.retired /\ f.value = e.value /\ f.accounts = e.accounts
  BY DEF Promoted, Entry, NoId
<1> QED  BY <1>1 DEF IsOpen, LinksOf, Keeps

-----------------------------------------------------------------------------
(***************************************************************************)
(* Looking entries up.                                                     *)
(***************************************************************************)
LEMMA Bearers ==
    ASSUME NEW st \in Seq(Entry), NEW key
    PROVE  /\ Bearer(st, key) \in Nat
           /\ Bearer(st, key) # 0 =>
                /\ Bearer(st, key) \in DOMAIN st
                /\ IsOpen(st[Bearer(st, key)]) /\ st[Bearer(st, key)].key = key
           /\ Bearer(st, key) = 0 => \A n \in DOMAIN st : ~(IsOpen(st[n]) /\ st[n].key = key)
<1> DEFINE P == {n \in DOMAIN st : IsOpen(st[n]) /\ st[n].key = key}
<1>1. DOMAIN st = 1..Len(st) /\ Len(st) \in Nat
  OBVIOUS
<1>2. P \in SUBSET (Nat \ {0})
  BY <1>1
<1>3. Bearer(st, key) = First(P)
  BY DEF Bearer
<1>4. P = {} <=> First(P) = 0
  BY <1>2, FirstIsLeast
<1>5. P # {} => First(P) \in P
  BY <1>2, FirstIsLeast
<1> QED  BY <1>2, <1>3, <1>4, <1>5

\* Who shares a tab comes first, whatever its key; then who has the key.
Sharing(st, r) == {m \in DOMAIN st : IsOpen(st[m]) /\ st[m].tabs \cap r.tabs # {}}

LEMMA Sharers ==
    ASSUME NEW st \in Seq(Entry), NEW r
    PROVE  /\ First(Sharing(st, r)) = 0 \/ First(Sharing(st, r)) \in Sharing(st, r)
           /\ FindMatch(st, r) = IF First(Sharing(st, r)) = 0 THEN Bearer(st, r.key)
                                 ELSE IF st[First(Sharing(st, r))].key = r.key
                                      THEN First(Sharing(st, r)) ELSE 0
<1> DEFINE P == Sharing(st, r)
<1>1. P \in SUBSET (Nat \ {0})
  BY DEF Sharing
<1>2. P = {} <=> First(P) = 0
  BY <1>1, FirstIsLeast
<1>3. P # {} => First(P) \in P
  BY <1>1, FirstIsLeast
<1>4. FindMatch(st, r) = IF First(P) = 0 THEN Bearer(st, r.key)
                         ELSE IF st[First(P)].key = r.key THEN First(P) ELSE 0
  BY DEF FindMatch, Sharing
<1> QED  BY <1>2, <1>3, <1>4

LEMMA Found ==
    ASSUME NEW st \in Seq(Entry), NEW r, FindMatch(st, r) # 0
    PROVE  /\ FindMatch(st, r) \in DOMAIN st
           /\ IsOpen(st[FindMatch(st, r)]) /\ st[FindMatch(st, r)].key = r.key
<1> DEFINE n == First(Sharing(st, r))
<1>1. /\ n = 0 \/ n \in Sharing(st, r)
      /\ FindMatch(st, r) = IF n = 0 THEN Bearer(st, r.key)
                            ELSE IF st[n].key = r.key THEN n ELSE 0
  BY Sharers
<1> HIDE DEF n
<1>2. CASE n = 0
  BY <1>1, <1>2, Bearers
<1>3. CASE n # 0
  BY <1>1, <1>3 DEF Sharing
<1> QED  BY <1>2, <1>3

\* Who holds a tab first.
Holder(st, t) == First(Holders(st, t))

LEMMA HoldersAre ==
    ASSUME NEW st \in Seq(Entry), NEW t
    PROVE  /\ Holders(st, t) \in SUBSET (Nat \ {0})
           /\ Holder(st, t) = 0 \/ Holder(st, t) \in Holders(st, t)
<1>1. Holders(st, t) \in SUBSET (Nat \ {0})
  BY DEF Holders
<1>2. Holders(st, t) = {} <=> First(Holders(st, t)) = 0
  BY <1>1, FirstIsLeast
<1>3. Holders(st, t) # {} => First(Holders(st, t)) \in Holders(st, t)
  BY <1>1, FirstIsLeast
<1> QED  BY <1>1, <1>2, <1>3 DEF Holder

\* The gate changes the key only, and to the one it derives or to a holder's.
LEMMA KeyedParts ==
    ASSUME NEW st \in Seq(Entry), NEW r \in Reading
    PROVE  /\ Keyed(st, r) \in Reading
           /\ Keyed(st, r).value = r.value /\ Keyed(st, r).tabs = r.tabs
           /\ \/ Keyed(st, r).key = r.derived
              \/ \E n \in DOMAIN st : st[n].tabs \cap r.tabs # {} /\ Keyed(st, r).key = st[n].key
<1> DEFINE U == {u \in r.tabs : Holder(st, u) # 0 /\ st[Holder(st, u)].key # r.derived}
           t == First(U)
           key == IF t = 0 THEN r.derived ELSE st[Holder(st, t)].key
<1>1. U \in SUBSET (Nat \ {0})
  BY ReadingParts, LadderAssumption
<1>2. t = 0 \/ t \in U
  <2>1. U = {} <=> First(U) = 0
    BY <1>1, FirstIsLeast
  <2>2. U # {} => First(U) \in U
    BY <1>1, FirstIsLeast
  <2> QED  BY <2>1, <2>2
<1>3. Keyed(st, r) = [r EXCEPT !.key = key]
  BY DEF Keyed, Holder
<1> HIDE DEF t
<1>4. /\ key \in Keys
      /\ \/ key = r.derived
         \/ \E n \in DOMAIN st : st[n].tabs \cap r.tabs # {} /\ key = st[n].key
  <2>1. CASE t = 0
    BY <2>1, ReadingParts
  <2>2. CASE t # 0
    <3>1. t \in r.tabs /\ Holder(st, t) # 0
      BY <1>2, <2>2
    <3>2. Holder(st, t) \in Holders(st, t)
      BY <3>1, HoldersAre
    <3>3. Holder(st, t) \in DOMAIN st /\ t \in st[Holder(st, t)].tabs
      BY <3>2 DEF Holders
    <3>4. st[Holder(st, t)] \in Entry
      BY <3>3
    <3> QED  BY <2>2, <3>1, <3>3, <3>4, EntryParts
  <2> QED  BY <2>1, <2>2
<1> HIDE DEF key
<1>5. Keyed(st, r) \in Reading /\ Keyed(st, r).key = key
  BY <1>3, <1>4 DEF Reading
<1>6. Keyed(st, r).value = r.value /\ Keyed(st, r).tabs = r.tabs
  BY <1>3 DEF Reading
<1> QED  BY <1>4, <1>5, <1>6

LEMMA Matching ==
    ASSUME NEW st \in Seq(Entry), NEW r, Match(st, r) # 0
    PROVE  /\ Match(st, r) \in DOMAIN st
           /\ IsOpen(st[Match(st, r)]) /\ st[Match(st, r)].key = Keyed(st, r).key
BY Found DEF Match

\* The last of some places is one of them.
LEMMA LatestIsOne ==
    ASSUME NEW l \in Nat, NEW P \in SUBSET (1..l), P # {}
    PROVE  Latest(P) \in P
<1> DEFINE Q == {(l + 1) - n : n \in P}
<1>1. Q \in SUBSET (Nat \ {0}) /\ Q # {}
  <2>1. \A n \in P : n \in 1..l /\ (l + 1) - n \in Nat \ {0}
    OBVIOUS
  <2>2. PICK n \in P : TRUE
    OBVIOUS
  <2>3. (l + 1) - n \in Q
    BY <2>2
  <2> QED  BY <2>1, <2>3
<1>2. First(Q) \in Q /\ \A m \in Q : First(Q) <= m
  BY <1>1, FirstIsLeast
<1>3. PICK n \in P : First(Q) = (l + 1) - n
  BY <1>2
<1>4. \A m \in P : m <= n
  <2> SUFFICES ASSUME NEW m \in P PROVE m <= n
    OBVIOUS
  <2>1. (l + 1) - n <= (l + 1) - m
    BY <1>2, <1>3
  <2>2. m \in Nat /\ n \in Nat
    OBVIOUS
  <2> QED  BY <2>1, <2>2
<1>5. \E x \in P : \A m \in P : m <= x
  BY <1>4
<1> QED  BY <1>5 DEF Latest

\* A reading that matches nothing although its key has a live entry came for a
\* tab that live entries of two keys hold.
LEMMA Missed ==
    ASSUME NEW st \in Seq(Entry), NEW r \in Reading, Match(st, r) = 0, ~Straddles(st, r),
           NEW m \in DOMAIN st, IsOpen(st[m]), st[m].key = Keyed(st, r).key
    PROVE  Contested(st, r)
<1> DEFINE k == Keyed(st, r)
           n == First(Sharing(st, k))
<1>1. k.tabs = r.tabs /\ k \in Reading
  BY KeyedParts
<1> HIDE DEF k
<1>2. /\ n = 0 \/ n \in Sharing(st, k)
      /\ FindMatch(st, k) = IF n = 0 THEN Bearer(st, k.key)
                            ELSE IF st[n].key = k.key THEN n ELSE 0
  BY Sharers
<1>3. FindMatch(st, k) = 0
  BY DEF Match, k
<1>4. Bearer(st, k.key) # 0
  BY Bearers DEF k
<1> HIDE DEF n
<1>5. n # 0 /\ st[n].key # k.key
  <2>1. n # 0
    BY <1>2, <1>3, <1>4
  <2> QED  BY <1>2, <1>3, <2>1
<1>6. n \in DOMAIN st /\ IsOpen(st[n]) /\ st[n].tabs \cap k.tabs # {}
  BY <1>2, <1>5 DEF Sharing
<1>7. PICK t \in r.tabs : t \in st[n].tabs
  BY <1>1, <1>6
<1>8. n \in Holders(st, t)
  BY <1>6, <1>7 DEF Holders
<1> DEFINE l == Latest(Holders(st, t))
<1>9. l \in Holders(st, t) /\ l # 0
  <2>1. Holders(st, t) \in SUBSET (1..Len(st)) /\ Len(st) \in Nat
    BY DEF Holders
  <2>2. l \in Holders(st, t)
    BY <1>8, <2>1, LatestIsOne
  <2> QED  BY <2>1, <2>2
<1>10. l \notin {0, Match(st, r)}
  BY <1>9
<1>11. st[l].key = k.key
  BY <1>7, <1>10 DEF Straddles, k
<1> HIDE DEF l
<1> QED  BY <1>5, <1>7, <1>8, <1>9, <1>11 DEF Contested

LEMMA FoundById ==
    ASSUME NEW st \in Seq(Entry), NEW n \in DOMAIN st
    PROVE  /\ Find(st, st[n].id) \in DOMAIN st
           /\ st[Find(st, st[n].id)].id = st[n].id
<1> DEFINE P == {m \in DOMAIN st : st[m].id = st[n].id}
<1>1. DOMAIN st = 1..Len(st) /\ Len(st) \in Nat
  OBVIOUS
<1>2. P \in SUBSET (Nat \ {0}) /\ n \in P
  BY <1>1
<1>3. Find(st, st[n].id) = First(P)
  BY DEF Find
<1>5. First(P) \in P
  BY <1>2, FirstIsLeast
<1> QED  BY <1>3, <1>5

-----------------------------------------------------------------------------
(***************************************************************************)
(* What the gate lets through: pass after pass the set shrinks, and after  *)
(* as many passes as there are readings it shrinks no more.                *)
(***************************************************************************)
DeltaOK(delta) ==
    /\ delta \in Seq(Reading)
    /\ \A i \in DOMAIN delta : delta[i].derived \in Notes =>
            delta[i].tabs = {} /\ (delta[i].sound => delta[i].about # None)

LEMMA DeltasOK == \A delta \in Deltas : DeltaOK(delta)
BY StoreAssumption DEF DeltaOK

Passed(st, delta, live) == {i \in live : ~Refused(st, delta, live, i)}

IsGate(f, st, delta) ==
    f = [pass \in 0..Len(delta) |->
            IF pass = 0 THEN DOMAIN delta ELSE Passed(st, delta, f[pass - 1])]

LEMMA LiveDef ==
    ASSUME NEW st, NEW delta
    PROVE  Live(st, delta) = (CHOOSE f : IsGate(f, st, delta))[Len(delta)]
BY DEF Live, IsGate, Passed

LEMMA GateExists ==
    ASSUME NEW st, NEW delta \in Seq(Reading)
    PROVE  \E f : IsGate(f, st, delta)
<1> DEFINE T == SUBSET (DOMAIN delta)
           step == [x \in Nat \X T |-> Passed(st, delta, x[2])]
           n == Len(delta)
<1>1. n \in Nat /\ DOMAIN delta \in T
  OBVIOUS
<1>2. step \in [Nat \X T -> T]
  BY DEF Passed
<1> HIDE DEF n
<1>3. PICK f : IsRun(f, T, DOMAIN delta, step, n)
  <2> HIDE DEF T, step
  <2> QED  BY <1>1, <1>2, RunExists
<1>4. f \in [0..n -> T] /\ f[0] = DOMAIN delta /\ \A i \in 1..n : f[i] = step[<<i, f[i - 1]>>]
  <2> HIDE DEF T, step
  <2> QED  BY <1>3 DEF IsRun
<1>5. \A i \in 1..n : f[i] = Passed(st, delta, f[i - 1])
  <2> SUFFICES ASSUME NEW i \in 1..n PROVE f[i] = Passed(st, delta, f[i - 1])
    OBVIOUS
  <2>1. i - 1 \in 0..n /\ i \in Nat
    BY <1>1
  <2>2. f[i - 1] \in T
    BY <1>4, <2>1
  <2>3. <<i, f[i - 1]>> \in Nat \X T
    BY <2>1, <2>2
  <2>4. step[<<i, f[i - 1]>>] = Passed(st, delta, f[i - 1])
    BY <2>3
  <2> QED  BY <1>4, <2>4
<1> DEFINE g == [pass \in 0..n |-> IF pass = 0 THEN DOMAIN delta ELSE Passed(st, delta, f[pass - 1])]
<1>6. \A i \in 0..n : f[i] = g[i]
  BY <1>1, <1>4, <1>5
<1>7. f = g
  <2>1. f \in [0..n -> T] /\ DOMAIN g = 0..n
    BY <1>4
  <2> HIDE DEF g, T
  <2> QED  BY <1>6, <2>1, <1>4 DEF g
<1>8. IsGate(f, st, delta)
  BY <1>7 DEF IsGate, n
<1> QED  BY <1>8

\* What the gate of `apply` lets through after as many passes as the delta has
\* entries, it would let through asked once more: no pass is missing.
LEMMA LiveSettles ==
    ASSUME NEW st, NEW delta \in Seq(Reading)
    PROVE  /\ Live(st, delta) \in SUBSET (DOMAIN delta)
           /\ IsFiniteSet(Live(st, delta))
           /\ \A i \in Live(st, delta) : ~Refused(st, delta, Live(st, delta), i)
<1> DEFINE n == Len(delta)
           f == CHOOSE g : IsGate(g, st, delta)
           Good(p) == /\ f[p] \in SUBSET (DOMAIN delta)
                      /\ Cardinality(f[p]) <= n - p \/ Passed(st, delta, f[p]) = f[p]
           S == {p \in Nat : p <= n => Good(p)}
<1>1. n \in Nat /\ DOMAIN delta = 1..n
  OBVIOUS
<1>2. IsGate(f, st, delta)
  BY GateExists
<1>3. Live(st, delta) = f[n]
  BY LiveDef
<1> HIDE DEF f, n
<1>4. f[0] = DOMAIN delta /\ \A p \in 1..n : f[p] = Passed(st, delta, f[p - 1])
  <2>1. \A p \in 0..n : f[p] = IF p = 0 THEN DOMAIN delta ELSE Passed(st, delta, f[p - 1])
    BY <1>2 DEF IsGate, n
  <2> QED  BY <1>1, <2>1
<1>5. IsFiniteSet(DOMAIN delta) /\ Cardinality(DOMAIN delta) = n
  <2>1. 1 \in Int /\ n \in Int
    BY <1>1
  <2>2. IsFiniteSet(1..n) /\ Cardinality(1..n) = IF 1 > n THEN 0 ELSE n - 1 + 1
    BY <2>1, FS_Interval
  <2> QED  BY <1>1, <2>2
<1>6. 0 \in S
  <2>1. Cardinality(f[0]) <= n - 0
    BY <1>1, <1>4, <1>5
  <2> QED  BY <1>4, <2>1
<1>7. ASSUME NEW p \in 1..n, p - 1 \in S PROVE p \in S
  <2> DEFINE A == f[p - 1]
             B == f[p]
  <2>1. Good(p - 1) /\ B = Passed(st, delta, A)
    BY <1>1, <1>4, <1>7
  <2> HIDE DEF A, B
  <2>2. B \in SUBSET A /\ A \in SUBSET (DOMAIN delta)
    BY <2>1 DEF Passed, A
  <2>3. IsFiniteSet(A) /\ IsFiniteSet(B)
    BY <1>5, <2>2, FS_Subset
  <2>4. Cardinality(A) \in Nat /\ Cardinality(B) \in Nat
    BY <2>3, FS_CardinalityType
  <2>5. B = A => Passed(st, delta, B) = B
    BY <2>1
  <2>6. ASSUME B # A PROVE Cardinality(B) <= n - p
    <3>1. Passed(st, delta, A) # A
      BY <2>1, <2>6
    <3>2. Cardinality(A) <= n - (p - 1)
      BY <2>1, <3>1 DEF A
    <3>3. Cardinality(B) < Cardinality(A)
      <4>1. Cardinality(B) <= Cardinality(A) /\ (Cardinality(B) = Cardinality(A) => B = A)
        BY <2>2, <2>3, FS_Subset
      <4> QED  BY <2>4, <2>6, <4>1
    <3>4. Cardinality(B) <= n - p
      BY <1>1, <2>4, <3>2, <3>3
    <3> QED  BY <3>4
  <2>7. B \in SUBSET (DOMAIN delta) /\ (Cardinality(B) <= n - p \/ Passed(st, delta, B) = B)
    BY <2>2, <2>5, <2>6
  <2>8. Good(p)
    BY <2>7 DEF B
  <2> HIDE DEF Good
  <2> QED  BY <2>8
<1>8. n \in S
  <2>1. S \in SUBSET Nat
    OBVIOUS
  <2> HIDE DEF S
  <2>2. 0..n \subseteq S
    BY <1>1, <1>6, <1>7, <2>1, UpTo
  <2> QED  BY <1>1, <2>2
<1>9. Good(n)
  BY <1>1, <1>8
<1>10. IsFiniteSet(f[n]) /\ Cardinality(f[n]) \in Nat
  BY <1>5, <1>9, FS_Subset, FS_CardinalityType
<1>11. Passed(st, delta, f[n]) = f[n]
  <2>1. CASE Cardinality(f[n]) <= n - n
    <3>1. Cardinality(f[n]) = 0
      BY <1>1, <1>10, <2>1
    <3>2. f[n] = {}
      BY <1>10, <3>1, FS_EmptySet
    <3> QED  BY <3>2 DEF Passed
  <2> QED  BY <1>9, <2>1
<1>12. \A i \in f[n] : ~Refused(st, delta, f[n], i)
  BY <1>11 DEF Passed
<1> QED  BY <1>3, <1>9, <1>10, <1>12

-----------------------------------------------------------------------------
(***************************************************************************)
(* The plan of a delta, and what it makes of a store.                      *)
(***************************************************************************)
MintsOf(plan) == {plan.id[i] : i \in plan.minting}

PlanOK(st, delta, last, plan) ==
    /\ plan.live \in SUBSET (DOMAIN delta) /\ plan.minting \in SUBSET plan.live
    /\ plan.minting \in SUBSET Nat /\ IsFiniteSet(plan.minting)
    /\ Cardinality(plan.minting) \in Nat
    /\ \A i \in plan.live : i \in plan.minting <=> Mints(st, delta[i])
    /\ \A i \in plan.minting :
            plan.id[i] = last + Rank(plan.minting, i) /\ Rank(plan.minting, i) \in 1..Cardinality(plan.minting)
    /\ \A i \in plan.live \ plan.minting :
            Match(st, delta[i]) # 0 /\ plan.id[i] = st[Match(st, delta[i])].id
    /\ \A i \in plan.live : plan.id[i] \in Ids(st) \cup MintsOf(plan)
    /\ \A i \in plan.live : plan.home[i] \in Ids(st) \cup MintsOf(plan) \cup {NoId}
    /\ \A i \in plan.live : plan.about[i] \in Ids(st) \cup MintsOf(plan) \cup {NoId}
    /\ \A i \in plan.live : delta[i].sound /\ ~Straddles(st, delta[i])
    /\ \A i \in plan.live : delta[i].about # None => plan.about[i] # NoId

LEMMA RefLands ==
    ASSUME NEW st \in Seq(Entry), NEW delta \in Seq(Reading), NEW live \in SUBSET (DOMAIN delta),
           NEW id, NEW R, Ids(st) \subseteq R, \A i \in live : id[i] \in R, NEW key
    PROVE  /\ RefTo(st, delta, live, id, key) \in R \cup {NoId}
           /\ key # None /\ Names(st, delta, live, key) => RefTo(st, delta, live, id, key) \in R
<1> DEFINE ref == RefTo(st, delta, live, id, key)
<1>1. CASE key = None \/ ~Names(st, delta, live, key)
  BY <1>1 DEF RefTo
<1>2. CASE key # None /\ Names(st, delta, live, key) /\ InDelta(delta, key)
  <2>1. \E i \in live : delta[i].key = key
    BY <1>2 DEF Names
  <2>2. (CHOOSE i \in live : delta[i].key = key) \in live
    BY <2>1
  <2>3. ref = id[CHOOSE i \in live : delta[i].key = key]
    BY <1>2 DEF RefTo
  <2>4. ref \in R
    BY <2>2, <2>3
  <2> QED  BY <2>4
<1>3. CASE key # None /\ Names(st, delta, live, key) /\ ~InDelta(delta, key)
  <2>1. Bearer(st, key) # 0
    BY <1>3 DEF Names
  <2>2. Bearer(st, key) \in DOMAIN st
    BY <2>1, Bearers
  <2>3. ref = st[Bearer(st, key)].id
    BY <1>3 DEF RefTo
  <2>4. ref \in R
    BY <2>2, <2>3 DEF Ids
  <2> QED  BY <2>4
<1> QED  BY <1>1, <1>2, <1>3

LEMMA IdsAreFacts ==
    ASSUME NEW st \in Seq(Entry)
    PROVE  Ids(st) \subseteq FactId /\ \A n \in DOMAIN st : st[n].id \in FactId
<1>1. \A n \in DOMAIN st : st[n] \in Entry
  OBVIOUS
<1> QED  BY <1>1, EntryParts DEF Ids

LEMMA PlanParts ==
    ASSUME NEW st \in Seq(Entry), NEW delta, DeltaOK(delta), NEW last \in Nat
    PROVE  PlanOK(st, delta, last, Plan(st, delta, last))
<1> DEFINE plan == Plan(st, delta, last)
           live == Live(st, delta)
           minting == {i \in live : Mints(st, delta[i])}
           id == [i \in live |-> IF i \in minting THEN last + Rank(minting, i)
                                 ELSE st[Match(st, delta[i])].id]
<1>1. delta \in Seq(Reading)
  BY DEF DeltaOK
<1>2. /\ live \in SUBSET (DOMAIN delta) /\ IsFiniteSet(live)
      /\ \A i \in live : ~Refused(st, delta, live, i)
  BY <1>1, LiveSettles
<1>3. DOMAIN delta \in SUBSET Nat /\ DOMAIN delta = 1..Len(delta)
  BY <1>1
<1>4. /\ plan.live = live /\ plan.minting = minting /\ plan.id = id
      /\ plan.home = [i \in live |-> RefTo(st, delta, live, id, delta[i].home)]
      /\ plan.about = [i \in live |-> RefTo(st, delta, live, id, delta[i].about)]
  BY DEF Plan
<1> HIDE DEF plan, live
<1>5. minting \in SUBSET live /\ minting \in SUBSET Nat /\ IsFiniteSet(minting)
  BY <1>2, <1>3, FS_Subset
<1>6. Cardinality(minting) \in Nat
  BY <1>5, FS_CardinalityType
<1>7. \A i \in live : i \in minting <=> Mints(st, delta[i])
  OBVIOUS
<1> HIDE DEF minting
<1>8. \A i \in minting : id[i] = last + Rank(minting, i) /\ Rank(minting, i) \in 1..Cardinality(minting)
  BY <1>5, RankIsPlace
<1>9. \A i \in live \ minting :
        Match(st, delta[i]) # 0 /\ id[i] = st[Match(st, delta[i])].id
  BY <1>7 DEF Mints
<1> HIDE DEF id
<1> DEFINE M == {id[i] : i \in minting}
           R == Ids(st) \cup M
<1>10. \A i \in live : id[i] \in R
  <2> SUFFICES ASSUME NEW i \in live PROVE id[i] \in R
    OBVIOUS
  <2>1. CASE i \in minting
    BY <2>1
  <2>2. CASE i \notin minting
    <3>1. Match(st, delta[i]) # 0 /\ id[i] = st[Match(st, delta[i])].id
      BY <1>9, <2>2
    <3>2. Match(st, delta[i]) \in DOMAIN st
      BY <3>1, Matching
    <3> QED  BY <3>1, <3>2 DEF Ids
  <2> QED  BY <2>1, <2>2
<1>11. NoId \notin R
  <2>1. \A x \in Ids(st) : x # 0
    BY IdsAreFacts DEF FactId
  <2>2. \A i \in minting : id[i] # 0
    <3>1. \A i \in minting : Rank(minting, i) \in Nat /\ Rank(minting, i) # 0
      BY <1>6, <1>8
    <3> QED  BY <1>8, <3>1
  <2> QED  BY <2>1, <2>2 DEF NoId
<1>12. Ids(st) \subseteq R
  OBVIOUS
<1>13. MintsOf(plan) = M
  BY <1>4 DEF MintsOf
<1> HIDE DEF M, R
<1>14. \A i \in live : plan.home[i] \in R \cup {NoId} /\ plan.about[i] \in R \cup {NoId}
  <2> SUFFICES ASSUME NEW i \in live
               PROVE  plan.home[i] \in R \cup {NoId} /\ plan.about[i] \in R \cup {NoId}
    OBVIOUS
  <2>1. /\ plan.home[i] = RefTo(st, delta, live, id, delta[i].home)
        /\ plan.about[i] = RefTo(st, delta, live, id, delta[i].about)
    BY <1>4
  <2>2. RefTo(st, delta, live, id, delta[i].home) \in R \cup {NoId}
    BY <1>1, <1>2, <1>10, <1>12, RefLands
  <2>3. RefTo(st, delta, live, id, delta[i].about) \in R \cup {NoId}
    BY <1>1, <1>2, <1>10, <1>12, RefLands
  <2> QED  BY <2>1, <2>2, <2>3
<1>15. \A i \in live : delta[i].about # None => plan.about[i] # NoId
  <2> SUFFICES ASSUME NEW i \in live, delta[i].about # None PROVE plan.about[i] # NoId
    OBVIOUS
  <2>1. Names(st, delta, live, delta[i].about)
    BY <1>2 DEF Refused
  <2>3. RefTo(st, delta, live, id, delta[i].about) \in R
    BY <1>1, <1>2, <1>10, <1>12, <2>1, RefLands
  <2> QED  BY <1>4, <1>11, <2>3
<1>17. \A i \in live : delta[i].sound /\ ~Straddles(st, delta[i])
  BY <1>2 DEF Refused
<1>16. PlanOK(st, delta, last, plan)
  BY <1>2, <1>17, <1>4, <1>5, <1>6, <1>7, <1>8, <1>9, <1>10, <1>13, <1>14, <1>15 DEF PlanOK, R
<1> QED  BY <1>16 DEF plan

\* The numbers a plan gives are numbers of facts.
Room(plan, last) == last \in Nat /\ last + Cardinality(plan.minting) <= MaxId

LEMMA PlanIds ==
    ASSUME NEW st \in Seq(Entry), NEW delta, NEW last, NEW plan,
           PlanOK(st, delta, last, plan), Room(plan, last)
    PROVE  /\ \A i \in plan.minting : plan.id[i] \in FactId /\ plan.id[i] > last
           /\ MintsOf(plan) \subseteq FactId
           /\ \A i \in plan.live : /\ plan.id[i] \in FactId
                                   /\ plan.home[i] \in FactId \cup {NoId}
                                   /\ plan.about[i] \in FactId \cup {NoId}
<1>1. \A i \in plan.minting :
        plan.id[i] = last + Rank(plan.minting, i) /\ Rank(plan.minting, i) \in 1..Cardinality(plan.minting)
  BY DEF PlanOK
<1>2. last \in Nat /\ Cardinality(plan.minting) \in Nat /\ last + Cardinality(plan.minting) <= MaxId
      /\ MaxId \in Nat
  BY LadderAssumption DEF PlanOK, Room
<1>3. ASSUME NEW i \in plan.minting PROVE plan.id[i] \in FactId /\ plan.id[i] > last
  BY <1>1, <1>2 DEF FactId
<1>4. MintsOf(plan) \subseteq FactId
  BY <1>3 DEF MintsOf
<1>5. Ids(st) \subseteq FactId
  BY IdsAreFacts
<1>6. \A i \in plan.live : /\ plan.id[i] \in FactId
                           /\ plan.home[i] \in FactId \cup {NoId}
                           /\ plan.about[i] \in FactId \cup {NoId}
  BY <1>4, <1>5 DEF PlanOK
<1> QED  BY <1>3, <1>4, <1>6

\* What becomes of an entry there was: one reading meets it, or none.
UpkeptWell(st, delta, plan, n, f) ==
    /\ f \in Entry /\ Keeps(st[n], f) /\ f.key = st[n].key /\ f.about = st[n].about
    /\ f.tabs = st[n].tabs
       \/ \E i \in plan.live : Keyed(st, delta[i]).key = st[n].key /\ f.tabs = st[n].tabs \cup delta[i].tabs
    /\ IsOpen(f) => IsOpen(st[n])
    /\ LinksOf(f) \subseteq LinksOf(st[n]) \cup Ids(st) \cup MintsOf(plan)
    /\ (\A i \in plan.live : Match(st, delta[i]) # n) => f = st[n]
    /\ \A i \in plan.live : Match(st, delta[i]) = n =>
            IF i \in plan.minting THEN ~IsOpen(f)
            ELSE delta[i].value # None => Says(f, delta[i].value)

LEMMA UpkeptOK ==
    ASSUME NEW st \in Seq(Entry), NEW delta, DeltaOK(delta), NEW last, NEW plan,
           PlanOK(st, delta, last, plan), Room(plan, last), Unfolded(st, delta, plan),
           NEW n \in DOMAIN st
    PROVE  UpkeptWell(st, delta, plan, n, Upkept(st, delta, plan, n))
<1> DEFINE f == Upkept(st, delta, plan, n)
           hits == {i \in plan.live : Match(st, delta[i]) = n}
           h == CHOOSE i \in hits : TRUE
<1>1. st[n] \in Entry
  OBVIOUS
<1>2. f = IF hits = {} THEN st[n]
          ELSE IF h \in plan.minting THEN SupersededBy(st[n], plan.id[h])
          ELSE Merged(st[n], delta[h], plan.home[h])
  BY DEF Upkept
<1> HIDE DEF f
<1>3. plan.live \in SUBSET (DOMAIN delta) /\ \A i \in plan.live : delta[i] \in Reading
  BY DEF PlanOK, DeltaOK
<1>4. \A i, j \in hits : i = j
  <2> SUFFICES ASSUME NEW i \in hits, NEW j \in hits PROVE i = j
    OBVIOUS
  <2>1. n # 0
    OBVIOUS
  <2>2. st[n].key = Keyed(st, delta[i]).key /\ st[n].key = Keyed(st, delta[j]).key
    BY <2>1, Matching
  <2> QED  BY <2>2 DEF Unfolded
<1>5. hits # {} => h \in hits /\ hits = {h}
  BY <1>4
<1> HIDE DEF h
<1>6. CASE hits = {}
  <2>1. f = st[n]
    BY <1>2, <1>6
  <2>2. Keeps(f, f)
    BY DEF Keeps
  <2> QED  BY <1>1, <1>6, <2>1, <2>2 DEF UpkeptWell, f
<1>7. CASE hits # {} /\ h \in plan.minting
  <2>1. f = SupersededBy(st[n], plan.id[h]) /\ h \in plan.live
    BY <1>2, <1>5, <1>7
  <2>2. plan.id[h] \in FactId /\ plan.id[h] \in MintsOf(plan)
    BY <1>7, PlanIds DEF MintsOf
  <2>3. /\ f \in Entry /\ Keeps(st[n], f) /\ f.key = st[n].key /\ f.about = st[n].about
        /\ ~IsOpen(f) /\ LinksOf(f) \subseteq LinksOf(st[n]) \cup {plan.id[h]} /\ f.tabs = st[n].tabs
    BY <1>1, <2>1, <2>2, ClosedOK
  <2>4. \A i \in plan.live : Match(st, delta[i]) = n => i = h
    BY <1>5, <1>7
  <2> QED  BY <1>7, <2>1, <2>2, <2>3, <2>4, <1>5 DEF UpkeptWell, f
<1>8. CASE hits # {} /\ h \notin plan.minting
  <2>1. f = Merged(st[n], delta[h], plan.home[h]) /\ h \in plan.live /\ delta[h] \in Reading
    BY <1>2, <1>3, <1>5, <1>8
  <2>2. plan.home[h] \in FactId \cup {NoId} /\ plan.home[h] \in Ids(st) \cup MintsOf(plan) \cup {NoId}
    <3>1. plan.home[h] \in FactId \cup {NoId}
      BY <2>1, PlanIds
    <3>2. plan.home[h] \in Ids(st) \cup MintsOf(plan) \cup {NoId}
      BY <2>1 DEF PlanOK
    <3> QED  BY <3>1, <3>2
  <2>3. /\ f \in Entry /\ Keeps(st[n], f) /\ f.key = st[n].key /\ f.about = st[n].about
        /\ IsOpen(f) = IsOpen(st[n]) /\ f.tabs = st[n].tabs \cup delta[h].tabs
        /\ LinksOf(f) \subseteq LinksOf(st[n]) \cup ({plan.home[h]} \ {NoId})
        /\ delta[h].value # None => Says(f, delta[h].value)
    BY <1>1, <2>1, <2>2, MergedOK
  <2>5. Keyed(st, delta[h]).key = st[n].key
    <3>1. Match(st, delta[h]) = n /\ n # 0
      BY <1>5, <1>8
    <3> QED  BY <3>1, Matching
  <2>4. \A i \in plan.live : Match(st, delta[i]) = n => i = h
    BY <1>5, <1>8
  <2> QED  BY <1>5, <1>8, <2>1, <2>2, <2>3, <2>4, <2>5 DEF UpkeptWell, f
<1> QED  BY <1>6, <1>7, <1>8

\* What a reading adds: an entry of its own, or the next era of one.
AddedWell(st, delta, plan, i, g) ==
    /\ g \in Entry /\ g.id = plan.id[i] /\ g.key = Keyed(st, delta[i]).key
    /\ delta[i].value # None => Says(g, delta[i].value)
    /\ \/ /\ g.about = plan.about[i] /\ g.tabs = delta[i].tabs
          /\ LinksOf(g) \subseteq Ids(st) \cup MintsOf(plan)
       \/ \E n \in DOMAIN st :
            /\ st[n].key = g.key /\ (g.about = NoId => st[n].about = NoId)
            /\ g.tabs = st[n].tabs \cup delta[i].tabs
            /\ LinksOf(g) \subseteq LinksOf(st[n]) \cup Ids(st) \cup MintsOf(plan)

LEMMA AddedOK ==
    ASSUME NEW st \in Seq(Entry), NEW delta, DeltaOK(delta), NEW last, NEW plan,
           PlanOK(st, delta, last, plan), Room(plan, last), NEW i \in plan.minting
    PROVE  AddedWell(st, delta, plan, i, Added(st, delta, plan, i))
<1> DEFINE g == Added(st, delta, plan, i)
           n == Match(st, delta[i])
<1>1. i \in plan.live /\ delta[i] \in Reading
  BY DEF PlanOK, DeltaOK
<1>2. /\ plan.id[i] \in FactId /\ plan.home[i] \in FactId \cup {NoId}
      /\ plan.about[i] \in FactId \cup {NoId}
  BY <1>1, PlanIds
<1>3. {plan.home[i], plan.about[i]} \subseteq Ids(st) \cup MintsOf(plan) \cup {NoId}
  BY <1>1 DEF PlanOK
<1>4. CASE n = 0
  <2>1. g = Created(plan.id[i], Keyed(st, delta[i]), plan.home[i], plan.about[i])
    BY <1>4 DEF Added
  <2> DEFINE r == Keyed(st, delta[i])
             new == plan.id[i]
             home == plan.home[i]
             about == plan.about[i]
  <2>4. r \in Reading /\ new \in FactId /\ home \in FactId \cup {NoId} /\ about \in FactId \cup {NoId}
    BY <1>1, <1>2, KeyedParts
  <2>7. r.value = delta[i].value /\ r.tabs = delta[i].tabs
    BY <1>1, KeyedParts
  <2> HIDE DEF r, new, home, about
  <2>5. CreatedWell(new, r, home, about, Created(new, r, home, about))
    BY <2>4, CreatedOK
  <2>6. g = Created(new, r, home, about)
    BY <2>1 DEF r, new, home, about
  <2> HIDE DEF g
  <2>2. /\ g \in Entry /\ g.id = plan.id[i] /\ g.key = Keyed(st, delta[i]).key /\ g.about = plan.about[i]
        /\ delta[i].value # None => Says(g, delta[i].value)
        /\ g.tabs = delta[i].tabs
        /\ LinksOf(g) = {plan.home[i], plan.about[i]} \ {NoId}
    BY <2>5, <2>6, <2>7 DEF r, new, home, about, CreatedWell
  <2>3. LinksOf(g) \subseteq Ids(st) \cup MintsOf(plan)
    BY <1>3, <2>2
  <2> QED  BY <2>2, <2>3 DEF AddedWell, g
<1>5. CASE n # 0
  <2>1. g = Successor(plan.id[i], st[n], delta[i], plan.about[i])
    BY <1>5 DEF Added
  <2>2. n \in DOMAIN st /\ st[n].key = Keyed(st, delta[i]).key /\ st[n] \in Entry
    BY <1>5, Matching
  <2> HIDE DEF g, n
  <2>3. /\ g \in Entry /\ g.id = plan.id[i] /\ g.key = st[n].key
        /\ g.about = IF plan.about[i] = NoId THEN st[n].about ELSE plan.about[i]
        /\ g.tabs = st[n].tabs \cup delta[i].tabs
        /\ delta[i].value # None => Says(g, delta[i].value)
        /\ LinksOf(g) \subseteq LinksOf(st[n]) \cup {st[n].id} \cup ({plan.about[i]} \ {NoId})
    <3> DEFINE e == st[n]
               r == delta[i]
               new == plan.id[i]
               about == plan.about[i]
    <3>1. e \in Entry /\ new \in FactId /\ r \in Reading /\ about \in FactId \cup {NoId}
      BY <1>1, <1>2, <2>2
    <3>2. g = Successor(new, e, r, about)
      BY <2>1
    <3> HIDE DEF e, r, new, about
    <3>3. /\ g \in Entry /\ g.id = new /\ g.key = e.key
          /\ g.about = IF about = NoId THEN e.about ELSE about
          /\ g.tabs = e.tabs \cup r.tabs
          /\ r.value # None => Says(g, r.value)
          /\ LinksOf(g) \subseteq LinksOf(e) \cup {e.id} \cup ({about} \ {NoId})
      BY <3>1, <3>2, SuccessorOK
    <3> QED  BY <3>3 DEF e, r, new, about
  <2>4. LinksOf(g) \subseteq LinksOf(st[n]) \cup Ids(st) \cup MintsOf(plan)
    BY <1>3, <2>2, <2>3 DEF Ids
  <2>5. g.about = NoId => st[n].about = NoId
    BY <2>3
  <2> QED  BY <2>2, <2>3, <2>4, <2>5 DEF AddedWell, g
<1> QED  BY <1>4, <1>5

\* Entry by entry, what a delta makes of a store: those there were at their
\* places, the new ones after them in the order of their numbers.
UpsertWell(st, delta, last, plan, made) ==
    /\ made \in Seq(Entry) /\ DOMAIN st \subseteq DOMAIN made
    /\ \A n \in DOMAIN st : UpkeptWell(st, delta, plan, n, made[n])
    /\ \A k \in DOMAIN made \ DOMAIN st :
            /\ k - Len(st) \in 1..Cardinality(plan.minting)
            /\ \E i \in plan.minting :
                    AddedWell(st, delta, plan, i, made[k]) /\ plan.id[i] = last + (k - Len(st))
    /\ \A i \in plan.minting : \E k \in DOMAIN made \ DOMAIN st : AddedWell(st, delta, plan, i, made[k])

LEMMA UpsertOK ==
    ASSUME NEW st \in Seq(Entry), NEW delta, DeltaOK(delta), NEW last, NEW plan,
           PlanOK(st, delta, last, plan), Room(plan, last), Unfolded(st, delta, plan)
    PROVE  UpsertWell(st, delta, last, plan, Upserted(st, delta, plan))
<1> DEFINE c == Cardinality(plan.minting)
           at == InOrder(plan.minting)
           old == [n \in DOMAIN st |-> Upkept(st, delta, plan, n)]
           new == [k \in 1..c |-> Added(st, delta, plan, at[k])]
           made == old \o new
           l == Len(st)
<1>1. c \in Nat /\ l \in Nat /\ DOMAIN st = 1..l
  BY DEF PlanOK
<1>2. /\ at \in [1..c -> plan.minting]
      /\ \A i \in plan.minting : \E k \in 1..c : at[k] = i
      /\ \A k \in 1..c : at[k] \in plan.minting /\ Rank(plan.minting, at[k]) = k
  BY InOrderLists, RankIsPlace DEF PlanOK
<1>3. Upserted(st, delta, plan) = made
  BY DEF Upserted
<1> HIDE DEF c, at, l
<1>4. \A n \in 1..l : old[n] = Upkept(st, delta, plan, n) /\ UpkeptWell(st, delta, plan, n, old[n])
  BY <1>1, UpkeptOK
<1>5. \A k \in 1..c : new[k] = Added(st, delta, plan, at[k]) /\ AddedWell(st, delta, plan, at[k], new[k])
  BY <1>2, AddedOK
<1>6. DOMAIN old = 1..l /\ DOMAIN new = 1..c
  BY <1>1
<1>7. old \in [1..l -> Entry] /\ new \in [1..c -> Entry]
  <2>1. (\A n \in 1..l : old[n] \in Entry) /\ \A k \in 1..c : new[k] \in Entry
    <3> HIDE DEF old, new
    <3> QED  BY <1>4, <1>5 DEF UpkeptWell, AddedWell
  <2> QED  BY <1>1, <2>1
<1> HIDE DEF old, new
<1>8. old \in Seq(Entry) /\ new \in Seq(Entry) /\ Len(old) = l /\ Len(new) = c
  BY <1>1, <1>6, <1>7
<1>9. /\ made \in Seq(Entry) /\ DOMAIN made = 1..(l + c)
      /\ \A n \in 1..l : made[n] = old[n]
      /\ \A k \in 1..c : made[l + k] = new[k]
  BY <1>1, <1>8
<1> HIDE DEF made
<1>10. DOMAIN st \subseteq DOMAIN made
  BY <1>1, <1>9
<1>11. \A n \in DOMAIN st : UpkeptWell(st, delta, plan, n, made[n])
  BY <1>1, <1>4, <1>9
<1>12. ASSUME NEW k \in DOMAIN made \ DOMAIN st
       PROVE  /\ k - l \in 1..c
              /\ \E i \in plan.minting :
                    AddedWell(st, delta, plan, i, made[k]) /\ plan.id[i] = last + (k - l)
  <2>1. k - l \in 1..c /\ l + (k - l) = k
    BY <1>1, <1>9, <1>12
  <2>2. made[k] = new[k - l]
    BY <1>9, <2>1
  <2>3. at[k - l] \in plan.minting /\ Rank(plan.minting, at[k - l]) = k - l
    BY <1>2, <2>1
  <2>4. plan.id[at[k - l]] = last + (k - l)
    BY <2>3 DEF PlanOK
  <2> QED  BY <1>5, <2>1, <2>2, <2>3, <2>4
<1>13. ASSUME NEW i \in plan.minting
       PROVE  \E k \in DOMAIN made \ DOMAIN st : AddedWell(st, delta, plan, i, made[k])
  <2>1. PICK k \in 1..c : at[k] = i
    BY <1>2
  <2>2. l + k \in DOMAIN made \ DOMAIN st /\ made[l + k] = new[k]
    BY <1>1, <1>9
  <2> QED  BY <1>5, <2>1, <2>2
<1>14. UpsertWell(st, delta, last, plan, made)
  BY <1>9, <1>10, <1>11, <1>12, <1>13 DEF UpsertWell, c, l
<1> QED  BY <1>3, <1>14

\* As many numbers as readings that need one.
LEMMA MintsCount ==
    ASSUME NEW st, NEW delta, NEW last \in Nat, NEW plan, PlanOK(st, delta, last, plan)
    PROVE  Cardinality(MintsOf(plan)) = Cardinality(plan.minting)
<1>1. /\ IsFiniteSet(plan.minting) /\ plan.minting \in SUBSET Nat
      /\ Cardinality(plan.minting) \in Nat
      /\ \A i \in plan.minting :
            plan.id[i] = last + Rank(plan.minting, i) /\ Rank(plan.minting, i) \in 1..Cardinality(plan.minting)
  BY DEF PlanOK
<1>2. ASSUME NEW x \in plan.minting, NEW y \in plan.minting, plan.id[x] = plan.id[y] PROVE x = y
  <2>1. Rank(plan.minting, x) \in Nat /\ Rank(plan.minting, y) \in Nat
    BY <1>1
  <2>2. Rank(plan.minting, x) = Rank(plan.minting, y)
    BY <1>1, <1>2, <2>1
  <2> QED  BY <1>1, <2>2, RankIsPlace
<1> DEFINE S == plan.minting
           f == plan.id
<1>3. IsFiniteSet(S) /\ \A x, y \in S : f[x] = f[y] => x = y
  BY <1>1, <1>2
<1>4. MintsOf(plan) = {f[x] : x \in S}
  BY DEF MintsOf
<1> HIDE DEF S, f
<1>5. Cardinality({f[x] : x \in S}) = Cardinality(S)
  BY <1>3, AsManyValues
<1> QED  BY <1>4, <1>5 DEF S

\* New numbers are above all old ones, so an id still names one entry.
LEMMA UpsertFit ==
    ASSUME NEW st \in Seq(Entry), NEW delta, NEW last, NEW plan, NEW made,
           PlanOK(st, delta, last, plan), Room(plan, last),
           UpsertWell(st, delta, last, plan, made), Fit(st, last)
    PROVE  Fit(made, last + Cardinality(plan.minting))
<1> DEFINE c == Cardinality(plan.minting)
           l == Len(st)
<1>1. last \in Nat /\ c \in Nat /\ l \in Nat /\ DOMAIN st = 1..l
  BY DEF Room, PlanOK
<1>2. \A n \in DOMAIN st : made[n].id = st[n].id /\ made[n].id <= last /\ made[n].id \in Nat
  <2>1. \A n \in DOMAIN st : made[n].id = st[n].id
    BY DEF UpsertWell, UpkeptWell, Keeps
  <2>2. \A n \in DOMAIN st : st[n].id \in FactId
    BY IdsAreFacts
  <2>3. \A n \in DOMAIN st : st[n].id <= last
    BY DEF Fit, IdsUpTo
  <2> QED  BY <2>1, <2>2, <2>3 DEF FactId
<1>3. \A k \in DOMAIN made \ DOMAIN st : k - l \in 1..c /\ made[k].id = last + (k - l)
  BY DEF UpsertWell, AddedWell
<1>4. DOMAIN made \in SUBSET Nat
  BY DEF UpsertWell
<1> HIDE DEF c, l
<1>5. ASSUME NEW m \in DOMAIN made, NEW n \in DOMAIN made, made[m].id = made[n].id PROVE m = n
  <2>1. CASE m \in DOMAIN st /\ n \in DOMAIN st
    BY <1>2, <1>5, <2>1 DEF Fit, Distinct
  <2>2. CASE m \in DOMAIN st /\ n \notin DOMAIN st
    <3>1. n - l \in 1..c /\ made[n].id = last + (n - l)
      BY <1>3, <2>2
    <3>2. made[m].id <= last
      BY <1>2, <2>2
    <3>3. ~(last + (n - l) <= last)
      BY <1>1, <3>1
    <3> QED  BY <1>5, <3>1, <3>2, <3>3
  <2>3. CASE m \notin DOMAIN st /\ n \in DOMAIN st
    <3>1. m - l \in 1..c /\ made[m].id = last + (m - l)
      BY <1>3, <2>3
    <3>2. made[n].id <= last
      BY <1>2, <2>3
    <3>3. ~(last + (m - l) <= last)
      BY <1>1, <3>1
    <3> QED  BY <1>5, <3>1, <3>2, <3>3
  <2>4. CASE m \notin DOMAIN st /\ n \notin DOMAIN st
    <3>1. /\ m - l \in 1..c /\ made[m].id = last + (m - l)
          /\ n - l \in 1..c /\ made[n].id = last + (n - l)
      BY <1>3, <2>4
    <3>2. m \in Nat /\ n \in Nat /\ l \in Nat /\ last \in Nat
      BY <1>1, <1>4
    <3>3. last + (m - l) = last + (n - l)
      BY <1>5, <3>1
    <3> QED  BY <3>2, <3>3
  <2> QED  BY <2>1, <2>2, <2>3, <2>4
<1>6. \A n \in DOMAIN made : made[n].id <= last + c
  <2> SUFFICES ASSUME NEW n \in DOMAIN made PROVE made[n].id <= last + c
    OBVIOUS
  <2>1. CASE n \in DOMAIN st
    BY <1>1, <1>2, <2>1
  <2>2. CASE n \notin DOMAIN st
    <3>1. n - l \in 1..c /\ made[n].id = last + (n - l)
      BY <1>3, <2>2
    <3> QED  BY <1>1, <3>1
  <2> QED  BY <2>1, <2>2
<1> QED  BY <1>5, <1>6 DEF Fit, Distinct, IdsUpTo, c

\* A delta makes no second live era of a key that had one.
LEMMA UpsertEras ==
    ASSUME NEW st \in Seq(Entry), NEW delta, DeltaOK(delta), NEW last, NEW plan, NEW made,
           PlanOK(st, delta, last, plan), UpsertWell(st, delta, last, plan, made),
           Unfolded(st, delta, plan), last \in Nat,
           NEW keys, ErasIn(st, keys), ContestedIn(st, delta, plan) \subseteq keys
    PROVE  ErasIn(made, keys)
<1>1. \A n \in DOMAIN st : /\ made[n].key = st[n].key /\ (IsOpen(made[n]) => IsOpen(st[n]))
                           /\ \A i \in plan.minting : Match(st, delta[i]) = n => ~IsOpen(made[n])
  <2>1. plan.minting \in SUBSET plan.live
    BY DEF PlanOK
  <2> QED  BY <2>1 DEF UpsertWell, UpkeptWell
<1>2. \A k \in DOMAIN made \ DOMAIN st : \E i \in plan.minting :
            made[k].key = Keyed(st, delta[i]).key /\ plan.id[i] = last + (k - Len(st))
  BY DEF UpsertWell, AddedWell
\* A new entry has no live rival among the old: the one there was is closed, or
\* the tab it came for was in the hands of two.
<1>3. ASSUME NEW m \in DOMAIN st, NEW k \in DOMAIN made \ DOMAIN st, Rivals(made[m], made[k])
      PROVE  made[m].key \in keys
  <2>1. PICK i \in plan.minting : made[k].key = Keyed(st, delta[i]).key
    BY <1>2
  <2>2. IsOpen(st[m]) /\ st[m].key = Keyed(st, delta[i]).key
    BY <1>1, <1>3, <2>1 DEF Rivals
  <2> DEFINE n == Match(st, delta[i])
  <2>3. CASE n = 0
    <3>1. i \in plan.live /\ delta[i] \in Reading /\ ~Straddles(st, delta[i])
      BY DEF PlanOK, DeltaOK
    <3>2. Contested(st, delta[i])
      BY <2>2, <2>3, <3>1, Missed
    <3>3. Keyed(st, delta[i]).key \in ContestedIn(st, delta, plan)
      BY <3>2 DEF ContestedIn
    <3> QED  BY <1>1, <2>2, <3>3
  <2>10. CASE n # 0
    <3>4. n \in DOMAIN st /\ IsOpen(st[n]) /\ st[n].key = Keyed(st, delta[i]).key
      BY <2>10, Matching
    <3>5. ~IsOpen(made[n])
      BY <1>1, <3>4
    <3>6. m # n
      BY <1>3, <3>5 DEF Rivals
    <3>7. Rivals(st[m], st[n])
      BY <2>2, <3>4 DEF Rivals
    <3>8. st[m].key \in keys
      <4> HIDE DEF n
      <4> QED  BY <3>4, <3>6, <3>7 DEF ErasIn
    <3> QED  BY <1>1, <3>8
  <2> QED  BY <2>3, <2>10
<1>4. ASSUME NEW k \in DOMAIN made \ DOMAIN st, NEW m \in DOMAIN made \ DOMAIN st,
             made[k].key = made[m].key
      PROVE  k = m
  <2>1. PICK i \in plan.minting :
            made[k].key = Keyed(st, delta[i]).key /\ plan.id[i] = last + (k - Len(st))
    BY <1>2
  <2>2. PICK j \in plan.minting :
            made[m].key = Keyed(st, delta[j]).key /\ plan.id[j] = last + (m - Len(st))
    BY <1>2
  <2>3. i \in plan.live /\ j \in plan.live
    BY DEF PlanOK
  <2>4. i = j
    BY <1>4, <2>1, <2>2, <2>3 DEF Unfolded
  <2>5. k \in Nat /\ m \in Nat /\ Len(st) \in Nat /\ last \in Nat
    <3>1. made \in Seq(Entry)
      BY DEF UpsertWell
    <3>2. DOMAIN made = 1..Len(made) /\ Len(made) \in Nat
      BY <3>1
    <3> QED  BY <1>4, <3>2
  <2> QED  BY <2>1, <2>2, <2>4, <2>5
<1> SUFFICES ASSUME NEW m \in DOMAIN made, NEW n \in DOMAIN made, m # n, Rivals(made[m], made[n])
             PROVE  made[m].key \in keys
  BY DEF ErasIn
<1>5. Rivals(made[n], made[m]) /\ made[m].key = made[n].key
  BY DEF Rivals
<1>6. CASE m \in DOMAIN st /\ n \in DOMAIN st
  <2>1. Rivals(st[m], st[n])
    BY <1>1, <1>6 DEF Rivals
  <2> QED  BY <1>1, <1>6, <2>1 DEF ErasIn
<1>7. CASE m \in DOMAIN st /\ n \notin DOMAIN st
  BY <1>3, <1>7
<1>8. CASE m \notin DOMAIN st /\ n \in DOMAIN st
  BY <1>3, <1>5, <1>8
<1>9. CASE m \notin DOMAIN st /\ n \notin DOMAIN st
  BY <1>4, <1>5, <1>9
<1> QED  BY <1>6, <1>7, <1>8, <1>9

\* What a delta reports, the store it makes says.
LEMMA UpsertTold ==
    ASSUME NEW st \in Seq(Entry), NEW delta, NEW last, NEW plan, NEW made,
           PlanOK(st, delta, last, plan), UpsertWell(st, delta, last, plan, made),
           NEW i \in plan.live, delta[i].value # None
    PROVE  \E n \in DOMAIN made : made[n].id = plan.id[i] /\ Says(made[n], delta[i].value)
<1>1. CASE i \in plan.minting
  <2>1. PICK k \in DOMAIN made : AddedWell(st, delta, plan, i, made[k])
    BY <1>1 DEF UpsertWell
  <2> QED  BY <2>1 DEF AddedWell
<1>2. CASE i \notin plan.minting
  <2> DEFINE n == Match(st, delta[i])
  <2>1. n # 0 /\ plan.id[i] = st[n].id
    BY <1>2 DEF PlanOK
  <2>2. n \in DOMAIN st
    BY <2>1, Matching
  <2>3. UpkeptWell(st, delta, plan, n, made[n]) /\ n \in DOMAIN made
    BY <2>2 DEF UpsertWell
  <2>4. Says(made[n], delta[i].value) /\ made[n].id = st[n].id
    BY <1>2, <2>3 DEF UpkeptWell, Keeps
  <2> QED  BY <2>1, <2>3, <2>4
<1> QED  BY <1>1, <1>2

\* No reading that would be a note has a tab, and it is about something.
LEMMA NoteReading ==
    ASSUME NEW st \in Seq(Entry), NEW delta, DeltaOK(delta), NEW R,
           \A n \in DOMAIN st : Within(st[n], R),
           NEW i \in DOMAIN delta, Keyed(st, delta[i]).key \in Notes
    PROVE  delta[i].tabs = {} /\ (delta[i].sound => delta[i].about # None)
<1>1. delta[i] \in Reading
  BY DEF DeltaOK
<1>2. CASE Keyed(st, delta[i]).key = delta[i].derived
  BY <1>2 DEF DeltaOK
<1>3. CASE \E n \in DOMAIN st : st[n].tabs \cap delta[i].tabs # {} /\ Keyed(st, delta[i]).key = st[n].key
  BY <1>3 DEF Within
<1> QED  BY <1>1, <1>2, <1>3, KeyedParts

\* A link leads to an entry there was, or to one this delta makes.
LEMMA UpsertLinks ==
    ASSUME NEW st \in Seq(Entry), NEW delta, DeltaOK(delta), NEW last, NEW plan, NEW made,
           PlanOK(st, delta, last, plan), UpsertWell(st, delta, last, plan, made),
           NEW R, \A n \in DOMAIN st : Within(st[n], R)
    PROVE  \A k \in DOMAIN made : Within(made[k], R \cup MintsOf(plan))
<1> DEFINE S == R \cup MintsOf(plan)
<1>1. Ids(st) \subseteq R /\ \A n \in DOMAIN st : LinksOf(st[n]) \subseteq R
  BY DEF Within, Ids
<1>2. /\ plan.live \subseteq DOMAIN delta /\ plan.minting \subseteq plan.live
      /\ \A i \in plan.live : Keyed(st, delta[i]).key \in Notes =>
            delta[i].tabs = {} /\ plan.about[i] # NoId
  <2>1. /\ plan.live \subseteq DOMAIN delta /\ plan.minting \subseteq plan.live
        /\ \A i \in plan.live : delta[i].sound /\ (delta[i].about # None => plan.about[i] # NoId)
    BY DEF PlanOK
  <2> QED  BY <2>1, NoteReading
<1>3. ASSUME NEW n \in DOMAIN st PROVE Within(made[n], S)
  <2>1. /\ made[n].id = st[n].id /\ made[n].key = st[n].key /\ made[n].about = st[n].about
        /\ made[n].tabs = st[n].tabs
           \/ \E i \in plan.live : Keyed(st, delta[i]).key = st[n].key
                                     /\ made[n].tabs = st[n].tabs \cup delta[i].tabs
        /\ LinksOf(made[n]) \subseteq LinksOf(st[n]) \cup Ids(st) \cup MintsOf(plan)
    BY DEF UpsertWell, UpkeptWell, Keeps
  <2>2. Within(st[n], R)
    OBVIOUS
  <2>3. made[n].key \in Notes => made[n].about # NoId /\ made[n].tabs = {}
    BY <1>2, <2>1, <2>2 DEF Within
  <2> QED  BY <1>1, <2>1, <2>2, <2>3 DEF Within
<1>4. ASSUME NEW k \in DOMAIN made \ DOMAIN st PROVE Within(made[k], S)
  <2>1. PICK i \in plan.minting : AddedWell(st, delta, plan, i, made[k])
    BY DEF UpsertWell
  <2>2. /\ made[k].id \in MintsOf(plan) /\ made[k].key = Keyed(st, delta[i]).key
        /\ made[k].key \in Notes => delta[i].tabs = {} /\ plan.about[i] # NoId
    BY <1>2, <2>1 DEF AddedWell, MintsOf
  <2>3. CASE /\ made[k].about = plan.about[i] /\ made[k].tabs = delta[i].tabs
             /\ LinksOf(made[k]) \subseteq Ids(st) \cup MintsOf(plan)
    BY <1>1, <2>2, <2>3 DEF Within
  <2>4. CASE \E n \in DOMAIN st :
                /\ st[n].key = made[k].key /\ (made[k].about = NoId => st[n].about = NoId)
                /\ made[k].tabs = st[n].tabs \cup delta[i].tabs
                /\ LinksOf(made[k]) \subseteq LinksOf(st[n]) \cup Ids(st) \cup MintsOf(plan)
    <3>1. PICK n \in DOMAIN st :
                /\ st[n].key = made[k].key /\ (made[k].about = NoId => st[n].about = NoId)
                /\ made[k].tabs = st[n].tabs \cup delta[i].tabs
                /\ LinksOf(made[k]) \subseteq LinksOf(st[n]) \cup Ids(st) \cup MintsOf(plan)
      BY <2>4
    <3>2. Within(st[n], R)
      OBVIOUS
    <3>3. made[k].key \in Notes => made[k].about # NoId /\ made[k].tabs = {}
      BY <2>2, <3>1, <3>2 DEF Within
    <3> QED  BY <1>1, <2>2, <3>1, <3>3 DEF Within
  <2> QED  BY <2>1, <2>3, <2>4 DEF AddedWell
<1> QED  BY <1>3, <1>4

\* Every number given is borne by an entry of the new store.
LEMMA UpsertMints ==
    ASSUME NEW st, NEW delta, NEW last, NEW plan, NEW made,
           UpsertWell(st, delta, last, plan, made)
    PROVE  MintsOf(plan) \subseteq Ids(made)
<1> SUFFICES ASSUME NEW i \in plan.minting PROVE plan.id[i] \in Ids(made)
  BY DEF MintsOf
<1>1. PICK k \in DOMAIN made : AddedWell(st, delta, plan, i, made[k])
  BY DEF UpsertWell
<1>2. made[k].id = plan.id[i]
  BY <1>1 DEF AddedWell
<1> QED  BY <1>2 DEF Ids

\* A delta changes the entries it names and adds those it gives numbers.
LEMMA UpsertReach ==
    ASSUME NEW st \in Seq(Entry), NEW delta, NEW last, NEW plan, NEW made,
           PlanOK(st, delta, last, plan), UpsertWell(st, delta, last, plan, made),
           NEW i \in FactId, At(st, i) # At(made, i)
    PROVE  i \in MintsOf(plan) \cup Named(st, delta) \cup RenamedIn(st, delta, plan)
<1>1. ASSUME NEW n \in DOMAIN st, st[n].id = i, made[n] # st[n]
      PROVE  i \in Named(st, delta) \cup RenamedIn(st, delta, plan)
  <2>1. PICK j \in plan.live : Match(st, delta[j]) = n
    BY <1>1 DEF UpsertWell, UpkeptWell
  <2>2. j \in DOMAIN delta /\ n # 0
    <3>1. DOMAIN st = 1..Len(st)
      OBVIOUS
    <3> QED  BY <3>1 DEF PlanOK
  <2>3. CASE FindMatch(st, delta[j]) = n
    BY <1>1, <2>2, <2>3 DEF Named
  <2>4. CASE FindMatch(st, delta[j]) # n
    BY <1>1, <2>1, <2>2, <2>4 DEF RenamedIn
  <2> QED  BY <2>3, <2>4
<1>2. DOMAIN st \subseteq DOMAIN made /\ \A n \in DOMAIN st : made[n].id = st[n].id
  BY DEF UpsertWell, UpkeptWell, Keeps
<1>3. CASE \E x \in At(st, i) : x \notin At(made, i)
  <2>1. PICK n \in DOMAIN st : st[n].id = i /\ st[n] \notin At(made, i)
    BY <1>3 DEF At
  <2>2. made[n] # st[n]
    BY <1>2, <2>1 DEF At
  <2> QED  BY <1>1, <2>1, <2>2
<1>4. CASE \E x \in At(made, i) : x \notin At(st, i)
  <2>1. PICK k \in DOMAIN made : made[k].id = i /\ made[k] \notin At(st, i)
    BY <1>4 DEF At
  <2>2. CASE k \in DOMAIN st
    <3>1. made[k] # st[k] /\ st[k].id = i
      BY <1>2, <2>1, <2>2 DEF At
    <3> QED  BY <1>1, <2>2, <3>1
  <2>3. CASE k \notin DOMAIN st
    <3>1. PICK j \in plan.minting : AddedWell(st, delta, plan, j, made[k])
      BY <2>3 DEF UpsertWell
    <3> QED  BY <2>1, <3>1 DEF AddedWell, MintsOf
  <2> QED  BY <2>2, <2>3
<1> QED  BY <1>3, <1>4

-----------------------------------------------------------------------------
(***************************************************************************)
(* What a verb and a revert make of a store.                               *)
(***************************************************************************)
\* One entry is another now, under the id it had.
OneChanged(st, n, after, made) ==
    /\ made \in Seq(Entry) /\ DOMAIN made = DOMAIN st
    /\ made[n] = after /\ \A m \in DOMAIN st : m # n => made[m] = st[m]
    /\ \A m \in DOMAIN st : made[m].id = st[m].id
    /\ \A last : Fit(st, last) => Fit(made, last)
    /\ \A i \in FactId : At(st, i) # At(made, i) => i = st[n].id

LEMMA HandMade ==
    ASSUME NEW st \in Seq(Entry), NEW n \in DOMAIN st, NEW after \in Entry, after.id = st[n].id
    PROVE  OneChanged(st, n, after, [st EXCEPT ![n] = after])
<1> DEFINE made == [st EXCEPT ![n] = after]
<1>1. made \in Seq(Entry) /\ DOMAIN made = DOMAIN st
  OBVIOUS
<1>2. made[n] = after /\ \A m \in DOMAIN st : m # n => made[m] = st[m]
  OBVIOUS
<1> HIDE DEF made
<1>3. \A m \in DOMAIN st : made[m].id = st[m].id
  BY <1>2
<1>5. \A last : Fit(st, last) => Fit(made, last)
  BY <1>1, <1>3 DEF Fit, Distinct, IdsUpTo
<1>6. ASSUME NEW i \in FactId, i # st[n].id PROVE At(st, i) = At(made, i)
  <2>1. {m \in DOMAIN st : st[m].id = i} = {m \in DOMAIN made : made[m].id = i}
    BY <1>1, <1>3
  <2>2. \A m \in DOMAIN st : st[m].id = i => made[m] = st[m]
    BY <1>2, <1>6
  <2> QED  BY <1>1, <1>3, <2>1, <2>2 DEF At
<1>7. OneChanged(st, n, after, made)
  BY <1>1, <1>2, <1>3, <1>5, <1>6 DEF OneChanged
<1> QED  BY <1>7 DEF made

\* Of an id that stands for one entry there is one.
LEMMA AtOne ==
    ASSUME NEW st, Distinct(st), NEW n \in DOMAIN st
    PROVE  At(st, st[n].id) = {st[n]}
<1>1. \A m \in DOMAIN st : st[m].id = st[n].id => m = n
  BY DEF Distinct
<1> QED  BY <1>1 DEF At

LEMMA AtNone ==
    ASSUME NEW st, NEW i
    PROVE  At(st, i) = {} <=> i \notin Ids(st)
BY DEF At, Ids

\* Two stores that hold the same of an id hold one entry of it.
LEMMA AtSame ==
    ASSUME NEW st, NEW tt, NEW i, At(st, i) = At(tt, i), NEW n \in DOMAIN st, st[n].id = i
    PROVE  \E m \in DOMAIN tt : tt[m] = st[n]
<1>1. st[n] \in At(tt, i)
  BY DEF At
<1> QED  BY <1>1 DEF At

\* The entries of some ids are taken out and, of some of these, what was there
\* before is put back.
RevertWell(st, snap, T, M, made) ==
    /\ made \in Seq(Entry)
    /\ \A k \in DOMAIN made :
            \/ \E n \in DOMAIN st : made[k] = st[n] /\ st[n].id \notin T
            \/ \E n \in DOMAIN snap : made[k] = snap[n] /\ snap[n].id \in M
    /\ Distinct(st) /\ Distinct(snap) => Distinct(made)
    /\ \A i \in FactId : i \notin T => At(made, i) = At(st, i)

LEMMA RevertMade ==
    ASSUME NEW st \in Seq(Entry), NEW snap \in Seq(Entry), NEW T, NEW M \in SUBSET T
    PROVE  RevertWell(st, snap, T, M, Without(st, T) \o Among(snap, M))
<1> DEFINE P == {n \in DOMAIN st : st[n].id \notin T}
           Q == {n \in DOMAIN snap : snap[n].id \in M}
           kept == AtPlaces(st, P)
           back == AtPlaces(snap, Q)
           made == kept \o back
<1>1. Without(st, T) = kept /\ Among(snap, M) = back
  BY DEF Without, Among
<1>2. /\ P \in SUBSET (DOMAIN st) /\ \A n \in P : st[n].id \notin T
      /\ \A n \in DOMAIN st : st[n].id \notin T => n \in P
  OBVIOUS
<1>3. Q \in SUBSET (DOMAIN snap) /\ \A n \in Q : snap[n].id \in M
  OBVIOUS
<1> HIDE DEF P, Q
<1>4. /\ kept \in Seq(Entry)
      /\ \A k \in DOMAIN kept : InOrder(P)[k] \in P /\ kept[k] = st[InOrder(P)[k]]
      /\ \A k, l \in DOMAIN kept : k # l => InOrder(P)[k] # InOrder(P)[l]
      /\ \A n \in P : \E k \in DOMAIN kept : kept[k] = st[n]
  BY <1>2, PartOfSequence
<1>5. /\ back \in Seq(Entry)
      /\ \A k \in DOMAIN back : InOrder(Q)[k] \in Q /\ back[k] = snap[InOrder(Q)[k]]
      /\ \A k, l \in DOMAIN back : k # l => InOrder(Q)[k] # InOrder(Q)[l]
  BY <1>3, PartOfSequence
<1> HIDE DEF kept, back
<1>6. /\ made \in Seq(Entry) /\ Len(kept) \in Nat
      /\ DOMAIN kept = 1..Len(kept) /\ DOMAIN back = 1..Len(back)
      /\ \A k \in DOMAIN kept : k \in DOMAIN made /\ made[k] = kept[k]
      /\ \A k \in DOMAIN made \ DOMAIN kept :
            k - Len(kept) \in DOMAIN back /\ made[k] = back[k - Len(kept)]
      /\ DOMAIN made \in SUBSET Nat
  BY <1>4, <1>5
<1> HIDE DEF made
<1>7. \A k \in DOMAIN kept : made[k] = st[InOrder(P)[k]] /\ InOrder(P)[k] \in P
  BY <1>4, <1>6
<1>8. \A k \in DOMAIN made \ DOMAIN kept :
        /\ made[k] = snap[InOrder(Q)[k - Len(kept)]] /\ InOrder(Q)[k - Len(kept)] \in Q
  BY <1>5, <1>6
<1>9. \A k \in DOMAIN made :
            \/ \E n \in DOMAIN st : made[k] = st[n] /\ st[n].id \notin T
            \/ \E n \in DOMAIN snap : made[k] = snap[n] /\ snap[n].id \in M
  BY <1>2, <1>3, <1>7, <1>8
<1>10. ASSUME Distinct(st), Distinct(snap) PROVE Distinct(made)
  <2> SUFFICES ASSUME NEW k \in DOMAIN made, NEW l \in DOMAIN made, made[k].id = made[l].id
               PROVE  k = l
    BY DEF Distinct
  <2>1. \A x \in DOMAIN kept : made[x].id \notin M
    BY <1>2, <1>7
  <2>2. \A x \in DOMAIN made \ DOMAIN kept : made[x].id \in M
    BY <1>3, <1>8
  <2>3. CASE k \in DOMAIN kept /\ l \in DOMAIN kept
    <3>1. InOrder(P)[k] = InOrder(P)[l]
      BY <1>2, <1>7, <1>10, <2>3 DEF Distinct
    <3> QED  BY <1>4, <2>3, <3>1
  <2>4. CASE k \notin DOMAIN kept /\ l \notin DOMAIN kept
    <3>1. InOrder(Q)[k - Len(kept)] = InOrder(Q)[l - Len(kept)]
      BY <1>3, <1>8, <1>10, <2>4 DEF Distinct
    <3>2. k - Len(kept) \in DOMAIN back /\ l - Len(kept) \in DOMAIN back
      BY <1>6, <2>4
    <3>3. k - Len(kept) = l - Len(kept)
      BY <1>5, <3>1, <3>2
    <3>4. k \in Nat /\ l \in Nat /\ Len(kept) \in Nat
      BY <1>6
    <3> QED  BY <3>3, <3>4
  <2> QED  BY <2>1, <2>2, <2>3, <2>4
<1>11. ASSUME NEW i \in FactId, i \notin T PROVE At(made, i) = At(st, i)
  <2>1. ASSUME NEW k \in DOMAIN made, made[k].id = i PROVE made[k] \in At(st, i)
    <3>1. i \notin M
      BY <1>11
    <3>2. PICK n \in DOMAIN st : made[k] = st[n]
      BY <1>9, <2>1, <3>1
    <3> QED  BY <2>1, <3>2 DEF At
  <2>2. ASSUME NEW n \in DOMAIN st, st[n].id = i PROVE st[n] \in At(made, i)
    <3>1. n \in P
      BY <1>2, <1>11, <2>2
    <3>2. PICK k \in DOMAIN kept : kept[k] = st[n]
      BY <1>4, <3>1
    <3>3. k \in DOMAIN made /\ made[k] = st[n]
      BY <1>6, <3>2
    <3> QED  BY <2>2, <3>3 DEF At
  <2> QED  BY <2>1, <2>2 DEF At
<1>12. RevertWell(st, snap, T, M, made)
  BY <1>6, <1>9, <1>10, <1>11 DEF RevertWell
<1> QED  BY <1>1, <1>12 DEF made

-----------------------------------------------------------------------------
(***************************************************************************)
(* What a verb has in hand when it has read the store.                     *)
(***************************************************************************)
LEMMA ApplyInHand ==
    ASSUME NEW st \in Seq(Entry), NEW delta, DeltaOK(delta), NEW last \in Nat, NEW plan,
           plan = Plan(st, delta, last), Room(plan, last), Unfolded(st, delta, plan),
           NEW j, j.verb = "apply", j.read = st, j.made = Upserted(st, delta, plan),
           j.created = MintsOf(plan)
    PROVE  /\ j.made \in Seq(Entry) /\ j.created \in SUBSET FactId
           /\ \A keys : Fit(st, last) /\ ErasIn(st, keys) /\ ContestedIn(st, delta, plan) \subseteq keys
                => JobSafe(j, keys, last + Cardinality(plan.minting))
           /\ Tells(j, delta, (last + Cardinality(plan.minting)) - Cardinality(j.created))
           /\ \A R : LinkedIn(st, R) => JobLinked(j, R)
           /\ \A i \in FactId : At(st, i) # At(j.made, i) =>
                i \in j.created \cup Named(st, delta) \cup RenamedIn(st, delta, plan)
<1> DEFINE c == Cardinality(plan.minting)
           made == j.made
<1>1. PlanOK(st, delta, last, plan)
  BY PlanParts
<1>2. c \in Nat
  BY <1>1 DEF PlanOK
<1>3. UpsertWell(st, delta, last, plan, made)
  BY <1>1, UpsertOK
<1> HIDE DEF made
<1>4. made \in Seq(Entry) /\ DOMAIN st \subseteq DOMAIN made
  BY <1>3 DEF UpsertWell
<1>5. j.created \in SUBSET FactId
  BY <1>1, PlanIds
<1>6. \A n \in DOMAIN st : Keeps(st[n], made[n])
  BY <1>3 DEF UpsertWell, UpkeptWell
<1>7. ASSUME NEW keys, Fit(st, last), ErasIn(st, keys), ContestedIn(st, delta, plan) \subseteq keys
      PROVE  JobSafe(j, keys, last + c)
  <2>1. Fit(made, last + c)
    BY <1>1, <1>3, <1>7, UpsertFit
  <2>2. Fit(st, last + c)
    <3>1. \A n \in DOMAIN st : st[n].id \in FactId
      BY IdsAreFacts
    <3>2. \A n \in DOMAIN st : st[n].id <= last + c
      BY <1>2, <1>7, <3>1 DEF Fit, IdsUpTo, FactId
    <3> QED  BY <1>7, <3>2 DEF Fit, IdsUpTo
  <2>3. ErasIn(made, keys)
    BY <1>1, <1>3, <1>7, UpsertEras
  <2>4. ErasOK(j, keys)
    BY <2>3 DEF ErasIn, ErasOK, made
  <2>5. CarryOK(j)
    BY <1>4, <1>6 DEF CarryOK, CarriedOver, made
  <2> QED  BY <2>1, <2>2, <2>4, <2>5 DEF JobSafe, made
<1>8. Tells(j, delta, (last + c) - Cardinality(j.created))
  <2>1. Cardinality(j.created) = c
    BY <1>1, MintsCount
  <2>2. (last + c) - Cardinality(j.created) = last
    BY <1>2, <2>1
  <2>3. \A i \in plan.live : delta[i].value # None =>
            \E n \in DOMAIN made : made[n].id = plan.id[i] /\ Says(made[n], delta[i].value)
    BY <1>1, <1>3, UpsertTold
  <2>4. ASSUME NEW x \in Told(j, delta, last)
        PROVE  \E n \in DOMAIN made : made[n].id = x[1] /\ Says(made[n], x[2])
    <3>1. PICK i \in plan.live : delta[i].value # None /\ x = <<plan.id[i], delta[i].value>>
      BY <2>4 DEF Told
    <3>2. x[1] = plan.id[i] /\ x[2] = delta[i].value
      BY <3>1
    <3> QED  BY <2>3, <3>1, <3>2
  <2> QED  BY <2>2, <2>4 DEF Tells, made
<1>9. ASSUME NEW R, LinkedIn(st, R) PROVE JobLinked(j, R)
  <2>1. \A k \in DOMAIN made : Within(made[k], R \cup MintsOf(plan))
    BY <1>1, <1>3, <1>9, UpsertLinks DEF LinkedIn
  <2>2. MintsOf(plan) \subseteq R \cup Coming(j)
    <3> SUFFICES ASSUME NEW i \in MintsOf(plan), i \notin R PROVE i \in Coming(j)
      OBVIOUS
    <3>1. i \in Ids(made) /\ i \in FactId
      BY <1>1, <1>3, UpsertMints, PlanIds
    <3>2. i \notin Ids(st)
      BY <1>9 DEF LinkedIn, Within, Ids
    <3>3. At(st, i) = {} /\ At(made, i) # {}
      BY <3>1, <3>2, AtNone
    <3> QED  BY <3>1, <3>3 DEF Coming, made
  <2>3. \A k \in DOMAIN made : Within(made[k], R \cup Coming(j))
    BY <2>1, <2>2 DEF Within
  <2> QED  BY <2>3 DEF JobLinked, LinkedIn, made
<1>10. \A i \in FactId : At(st, i) # At(made, i) =>
            i \in MintsOf(plan) \cup Named(st, delta) \cup RenamedIn(st, delta, plan)
  BY <1>1, <1>3, UpsertReach
<1> QED  BY <1>4, <1>5, <1>7, <1>8, <1>9, <1>10 DEF made

\* What each verb does to the entry in its hand.
HandChange(st, verb, n, after, a) ==
    /\ n \in DOMAIN st /\ after \in Entry /\ after.id = st[n].id
    /\ verb \in {"resolve", "retire", "promote", "edit"}
    /\ verb = "resolve" =>
        /\ a \in Account /\ Stands(after, a)
        /\ \A v \in Values :
            Says(st[n], v) /\ (v = st[n].value => \E b \in DOMAIN st[n].accounts : b.value = v)
                => Says(after, v)
    /\ verb # "resolve" => a = Undecided
    /\ verb \in {"retire", "promote"} => Keeps(st[n], after)
    /\ verb = "edit" => after # st[n]
    /\ LinksOf(after) \subseteq LinksOf(st[n]) \cup Ids(st)
    /\ after.key \in Notes => after.key = st[n].key /\ after.about = st[n].about /\ after.tabs = st[n].tabs
    /\ verb # "edit" => \A m \in DOMAIN st : m # n /\ Rivals(after, st[m]) => Rivals(st[n], st[m])

VerbJob(j, st, verb, n, after, a) ==
    /\ j.verb = verb /\ j.read = st /\ j.made = [st EXCEPT ![n] = after]
    /\ j.created = {} /\ j.subject = st[n].id /\ j.account = a

LEMMA VerbInHand ==
    ASSUME NEW st \in Seq(Entry), NEW verb, NEW n, NEW after, NEW a,
           HandChange(st, verb, n, after, a),
           NEW j, VerbJob(j, st, verb, n, after, a)
    PROVE  /\ j.made \in Seq(Entry) /\ j.subject \in FactId
           /\ \A keys, last : Fit(st, last) /\ ErasIn(st, keys) => JobSafe(j, keys, last)
           /\ \A R : LinkedIn(st, R) => JobLinked(j, R)
           /\ \A i \in FactId : At(st, i) # At(j.made, i) => i = j.subject
<1>0. /\ j.verb = verb /\ j.read = st /\ j.made = [st EXCEPT ![n] = after]
      /\ j.created = {} /\ j.subject = st[n].id /\ j.account = a
  BY DEF VerbJob
<1> DEFINE made == j.made
<1>1. n \in DOMAIN st /\ after \in Entry /\ after.id = st[n].id /\ made = [st EXCEPT ![n] = after]
  BY <1>0 DEF HandChange
<1> HIDE DEF made
<1>2. /\ made \in Seq(Entry) /\ DOMAIN made = DOMAIN st
      /\ made[n] = after /\ \A m \in DOMAIN st : m # n => made[m] = st[m]
      /\ \A m \in DOMAIN st : made[m].id = st[m].id
      /\ \A last : Fit(st, last) => Fit(made, last)
      /\ \A i \in FactId : At(st, i) # At(made, i) => i = st[n].id
  <2>1. OneChanged(st, n, after, [st EXCEPT ![n] = after])
    BY <1>1, HandMade
  <2> QED  BY <1>1, <2>1 DEF OneChanged
<1>3. st[n].id \in FactId
  BY <1>0, <1>1, IdsAreFacts
<1>4. ASSUME NEW keys, NEW last, Fit(st, last), ErasIn(st, keys) PROVE JobSafe(j, keys, last)
  <2>1. Distinct(st)
    BY <1>0, <1>4 DEF Fit
  <2>2. ASSUME NEW x \in DOMAIN made, NEW y \in DOMAIN made, x # y, Rivals(made[x], made[y]),
               verb # "edit"
        PROVE  made[x].key \in keys
    <3>1. CASE x # n /\ y # n
      BY <1>0, <1>2, <1>4, <2>2, <3>1 DEF ErasIn
    <3>2. CASE x = n
      <4>1. Rivals(st[n], st[y]) /\ made[y] = st[y] /\ y # n /\ y \in DOMAIN st
        BY <1>0, <1>2, <2>2, <3>2 DEF HandChange
      <4>2. made[x].key = made[y].key /\ st[n].key = st[y].key /\ st[n].key \in keys
        BY <1>0, <1>1, <1>4, <2>2, <4>1 DEF ErasIn, Rivals
      <4> QED  BY <1>0, <4>1, <4>2
    <3>3. CASE y = n
      <4>1. made[x] = st[x] /\ x # n /\ x \in DOMAIN st /\ Rivals(after, st[x])
        BY <1>0, <1>2, <2>2, <3>3 DEF Rivals
      <4>2. Rivals(st[n], st[x])
        BY <1>0, <2>2, <4>1 DEF HandChange
      <4>3. st[n].key \in keys /\ st[n].key = st[x].key
        BY <1>0, <1>1, <1>4, <4>1, <4>2 DEF ErasIn, Rivals
      <4> QED  BY <1>0, <4>1, <4>3
    <3> QED  BY <1>0, <3>1, <3>2, <3>3
  <2>3. ASSUME verb = "edit" PROVE ~InStore(st, after)
    <3>1. after # st[n]
      BY <1>0, <2>3 DEF HandChange
    <3>2. \A m \in DOMAIN st : st[m] = after => m = n
      BY <1>0, <1>1, <2>1 DEF Distinct
    <3> QED  BY <1>0, <3>1, <3>2 DEF InStore
  <2>4. ASSUME NEW x \in DOMAIN made, NEW y \in DOMAIN made, x # y, Rivals(made[x], made[y]),
               verb = "edit"
        PROVE  made[x].key \in keys \/ ~InStore(st, made[x]) \/ ~InStore(st, made[y])
    <3>1. CASE x # n /\ y # n
      BY <1>0, <1>2, <1>4, <2>4, <3>1 DEF ErasIn
    <3>2. CASE x = n \/ y = n
      BY <1>0, <1>2, <2>3, <2>4, <3>2
    <3> QED  BY <1>0, <3>1, <3>2
  <2>5. ErasOK(j, keys)
    BY <1>0, <2>2, <2>4 DEF ErasOK, made
  <2>6. ASSUME verb = "resolve", NEW m \in DOMAIN st PROVE CarriedOver(j, m)
    <3>1. CASE st[m].id = j.subject
      <4>1. m = n
        BY <1>0, <1>1, <2>1, <3>1 DEF Distinct
      <4>2. made[m].id = j.subject /\ Stands(made[m], j.account)
        BY <1>0, <1>1, <1>2, <2>6, <4>1 DEF HandChange
      <4>3. ASSUME NEW v \in Values, Says(st[n], v), <<j.subject, v>> \notin Displaced(j)
            PROVE  Says(after, v)
        <5>1. Find(st, j.subject) \in DOMAIN st /\ st[Find(st, j.subject)].id = st[n].id
          BY <1>0, <1>1, FoundById
        <5>2. Find(st, j.subject) = n
          BY <1>0, <1>1, <2>1, <5>1 DEF Distinct
        <5>3. Displaced(j) = {<<st[n].id, st[n].value>>} \ {<<st[n].id, b.value>> : b \in DOMAIN st[n].accounts}
          BY <1>0, <2>6, <5>2 DEF Displaced
        <5>4. v = st[n].value => \E b \in DOMAIN st[n].accounts : b.value = v
          BY <1>0, <4>3, <5>3
        <5> QED  BY <1>0, <2>6, <4>3, <5>4 DEF HandChange
      <4> QED  BY <1>0, <1>2, <2>6, <3>1, <4>1, <4>2, <4>3 DEF CarriedOver, made
    <3>2. CASE st[m].id # j.subject
      <4>1. m # n
        BY <1>0, <3>2
      <4>2. Keeps(st[m], made[m])
        BY <1>0, <1>2, <4>1 DEF Keeps
      <4> QED  BY <1>0, <3>2, <4>2 DEF CarriedOver, made
    <3> QED  BY <1>0, <3>1, <3>2
  <2>7. ASSUME verb \in {"retire", "promote"}, NEW m \in DOMAIN st PROVE CarriedOver(j, m)
    <3>1. Keeps(st[m], made[m])
      BY <1>0, <1>2, <2>7 DEF HandChange, Keeps
    <3> QED  BY <1>0, <2>7, <3>1 DEF CarriedOver, made
  <2>8. CarryOK(j)
    BY <1>0, <1>1, <1>2, <2>6, <2>7 DEF CarryOK, HandChange, made
  <2> QED  BY <1>0, <1>2, <1>4, <2>5, <2>8 DEF JobSafe, made
<1>5. ASSUME NEW R, LinkedIn(st, R) PROVE JobLinked(j, R)
  <2>1. \A m \in DOMAIN st : Within(st[m], R)
    BY <1>0, <1>5 DEF LinkedIn
  <2>2. Ids(st) \subseteq R /\ LinksOf(st[n]) \subseteq R /\ st[n].id \in R
        /\ (st[n].key \in Notes => st[n].about # NoId /\ st[n].tabs = {})
    BY <1>0, <1>1, <2>1 DEF Ids, Within
  <2>3. Within(after, R)
    BY <1>0, <1>1, <2>2 DEF HandChange, Within
  <2>4. \A m \in DOMAIN made : Within(made[m], R)
    BY <1>0, <1>2, <2>1, <2>3
  <2> QED  BY <1>0, <2>4 DEF JobLinked, LinkedIn, Within, made
<1> QED  BY <1>0, <1>2, <1>3, <1>4, <1>5 DEF made

LEMMA RevertInHand ==
    ASSUME NEW st \in Seq(Entry), NEW snap \in Seq(Entry), NEW T, NEW M \in SUBSET T,
           NEW j, j.verb = "revert", j.read = st, RevertWell(st, snap, T, M, j.made)
    PROVE  /\ \A keys, last : Fit(st, last) /\ Fit(snap, last) /\ ErasIn(st, keys)
                => JobSafe(j, keys, last)
           /\ \A R : LinkedIn(st, R) /\ LinkedIn(snap, R) => JobLinked(j, R)
<1> DEFINE made == j.made
<1>1. \A k \in DOMAIN made : \/ \E n \in DOMAIN st : made[k] = st[n]
                             \/ \E n \in DOMAIN snap : made[k] = snap[n]
  BY DEF RevertWell
<1>2. ASSUME NEW keys, NEW last, Fit(st, last), Fit(snap, last), ErasIn(st, keys)
      PROVE  JobSafe(j, keys, last)
  <2>1. Distinct(made)
    BY <1>2 DEF RevertWell, Fit
  <2>2. IdsUpTo(made, last)
    BY <1>1, <1>2 DEF Fit, IdsUpTo
  <2>3. ASSUME NEW x \in DOMAIN made, NEW y \in DOMAIN made, x # y, Rivals(made[x], made[y]),
               InStore(st, made[x]), InStore(st, made[y])
        PROVE  made[x].key \in keys
    <3>1. PICK m \in DOMAIN st : st[m] = made[x]
      BY <2>3 DEF InStore
    <3>2. PICK n \in DOMAIN st : st[n] = made[y]
      BY <2>3 DEF InStore
    <3>3. m # n
      BY <2>1, <2>3, <3>1, <3>2 DEF Distinct
    <3> QED  BY <1>2, <2>3, <3>1, <3>2, <3>3 DEF ErasIn
  <2>4. ErasOK(j, keys)
    BY <2>3 DEF ErasOK
  <2>5. CarryOK(j)
    BY DEF CarryOK
  <2> QED  BY <1>2, <2>1, <2>2, <2>4, <2>5 DEF JobSafe, Fit
<1>3. ASSUME NEW R, LinkedIn(st, R), LinkedIn(snap, R) PROVE JobLinked(j, R)
  <2>1. \A k \in DOMAIN made : Within(made[k], R)
    BY <1>1, <1>3 DEF LinkedIn
  <2> QED  BY <2>1 DEF JobLinked, LinkedIn, Within
<1> QED  BY <1>2, <1>3

-----------------------------------------------------------------------------
(***************************************************************************)
(* Run directories, step by step.                                          *)
(***************************************************************************)
LEMMA RunsPlain == Runs \in SUBSET Nat /\ NoRun \notin Runs /\ FactId \in SUBSET Nat /\ NoId \notin FactId
BY StoreAssumption, LadderAssumption DEF Runs, NoRun, FactId, NoId

\* A directory nobody has saved from, and no verb works in, is another now.
DirStep(r, d) ==
    /\ r \in Runs /\ runs' = [runs EXCEPT ![r] = d] /\ d \in RunDir /\ DirOK(d)
    /\ d.verb # "free" /\ d.before = runs[r].before
    /\ ~runs[r].snapped /\ ~runs[r].mapped /\ runs[r].args = NoId
    /\ ~d.mapped /\ d.args = NoId
    /\ \A w \in Program : Busied(hand[w]) => hand[w].run # r

RunsStep == runs' = runs \/ \E r \in Runs, d \in RunDir : DirStep(r, d)

RunsKept ==
    /\ runs' \in [Runs -> RunDir] /\ DirsOK'
    /\ \A w \in Program : Busied(hand[w]) => runs'[hand[w].run] = runs[hand[w].run]
    /\ \A s \in Runs : runs'[s].before = runs[s].before
    /\ \A n \in DOMAIN saves : saves[n] \in Runs /\ runs'[saves[n]] = runs[saves[n]]
    /\ \A s \in Runs : runs'[s].mapped \/ runs'[s].args # NoId => runs'[s] = runs[s]

LEMMA RunsStepKeeps ==
    ASSUME TypeInv, DirInv, RunsStep
    PROVE  RunsKept
<1>0. /\ runs \in [Runs -> RunDir] /\ DirsOK /\ saves \in Seq(Runs)
      /\ \A n \in DOMAIN saves : saves[n] \in Runs /\ runs[saves[n]].snapped
  BY DEF TypeInv, FilesOK, HistoryOK, DirInv, SavedOK
<1>1. CASE runs' = runs
  BY <1>0, <1>1 DEF RunsKept, DirsOK
<1>2. CASE \E r \in Runs, d \in RunDir : DirStep(r, d)
  <2>1. PICK r \in Runs, d \in RunDir : DirStep(r, d)
    BY <1>2
  <2>2. runs' \in [Runs -> RunDir] /\ runs'[r] = d /\ \A s \in Runs : s # r => runs'[s] = runs[s]
    BY <1>0, <2>1 DEF DirStep
  <2>3. /\ DirOK(d) /\ d.before = runs[r].before /\ ~d.mapped /\ d.args = NoId /\ ~runs[r].snapped
        /\ \A w \in Program : Busied(hand[w]) => hand[w].run # r
    BY <2>1 DEF DirStep
  <2>4. DirsOK'
    BY <1>0, <2>2, <2>3 DEF DirsOK
  <2>5. \A w \in Program : Busied(hand[w]) => runs'[hand[w].run] = runs[hand[w].run]
    <3>1. \A w \in Program : Busied(hand[w]) => hand[w].run \in Runs
      BY DEF DirInv, HoldsOK, HoldOK
    <3> QED  BY <2>2, <2>3, <3>1
  <2>6. \A s \in Runs : runs'[s].before = runs[s].before
    BY <2>2, <2>3
  <2>7. \A n \in DOMAIN saves : runs'[saves[n]] = runs[saves[n]]
    BY <1>0, <2>2, <2>3
  <2>8. \A s \in Runs : runs'[s].mapped \/ runs'[s].args # NoId => runs'[s] = runs[s]
    BY <2>2, <2>3
  <2> QED  BY <1>0, <2>2, <2>4, <2>5, <2>6, <2>7, <2>8 DEF RunsKept
<1> QED  BY <1>1, <1>2 DEF RunsStep

\* A directory that is free is nobody's yet.
LEMMA FreshRun ==
    ASSUME TypeInv, DirInv, NEW r \in NextRun, NEW verb \in Verb,
           runs' = [runs EXCEPT ![r].verb = verb]
    PROVE  /\ RunsStep /\ r \in Runs /\ runs'[r].verb = verb
           /\ runs'[r].delta = <<>> /\ ~runs'[r].snapped /\ ~runs'[r].mapped /\ runs'[r].args = NoId
           /\ \A w \in Program : Busied(hand[w]) => hand[w].run # r
           /\ \A n \in DOMAIN saves : saves[n] # r
<1> DEFINE d == [Free EXCEPT !.verb = verb]
<1>1. r \in Runs /\ runs[r] = Free
  BY DEF NextRun, DirInv, DirsOK, DirOK
<1>2. runs \in [Runs -> RunDir]
  BY DEF TypeInv, FilesOK
<1>3. /\ d \in RunDir /\ d.verb = verb /\ d.before = Free.before /\ ~d.snapped /\ ~d.mapped
      /\ d.args = NoId /\ d.delta = <<>>
  <2>1. Free \in RunDir
    BY <1>1, <1>2
  <2> QED  BY <2>1 DEF RunDir, Free
<1>4. runs' = [runs EXCEPT ![r] = d]
  BY <1>1, <1>2
<1>5. DirOK(d) /\ d.verb # "free"
  BY <1>3 DEF DirOK, Verb
<1> HIDE DEF d
<1>6. \A w \in Program : Busied(hand[w]) => hand[w].run # r
  <2>1. \A w \in Program : Busied(hand[w]) => hand[w].verb \in Verb /\ runs[hand[w].run].verb = hand[w].verb
    BY DEF DirInv, HoldsOK, HoldOK
  <2> QED  BY <1>1, <2>1 DEF Verb, Free
<1>7. \A n \in DOMAIN saves : saves[n] # r
  BY <1>1 DEF DirInv, SavedOK, Free
<1>8. ~runs[r].snapped /\ ~runs[r].mapped /\ runs[r].args = NoId /\ d.before = runs[r].before
  BY <1>1, <1>3 DEF Free
<1>9. DirStep(r, d)
  BY <1>1, <1>3, <1>4, <1>5, <1>6, <1>8 DEF DirStep
<1>10. runs'[r] = d
  BY <1>1, <1>2, <1>4
<1> QED  BY <1>1, <1>3, <1>6, <1>7, <1>9, <1>10 DEF RunsStep

-----------------------------------------------------------------------------
(***************************************************************************)
(* A verb has another thing in hand and nothing is written yet: it has     *)
(* read the store and made its copy, or it has stopped.                    *)
(***************************************************************************)
HandTurn(w, j) ==
    /\ hand' = [hand EXCEPT ![w] = j] /\ j \in Job
    /\ RunsStep
    /\ HoldOK(w, j, runs')
    /\ Busied(j) =>
        /\ \A v \in Program : v # w /\ Busied(hand[v]) => hand[v].run # j.run
        /\ j.stage # "saved" => \A n \in DOMAIN saves : saves[n] # j.run
    /\ UNCHANGED <<store, torn, saves, owner, strayed, settled, readings>>
    /\ loose \subseteq loose' /\ renamed \subseteq renamed'
    /\ ledger' \in 0..MaxId /\ given' \in [FactId -> Nat]
    /\ ledger <= ledger' /\ (ledger' # ledger => w = "pipeline")
    /\ torn \/ (NumbersOK' /\ JobSafe(j, loose', ledger') /\ ToldOK(j, runs', ledger'))
    /\ JobLinked(j, Owned)
    /\ ReachOK(j, runs', renamed') /\ OwnsOK(j, runs', renamed') /\ SnapOK(j, runs')
    /\ \A x \in undone' : Excused(x, renamed')

\* What the invariant says of the files a verb reads.
LEMMA FilesGood ==
    ASSUME IInv
    PROVE  /\ store \in Seq(Entry) /\ ledger \in Nat /\ ledger \in 0..MaxId
           /\ runs \in [Runs -> RunDir] /\ hand \in [Program -> Job] /\ given \in [FactId -> Nat]
           /\ \A r \in Runs : runs[r].before \in Seq(Entry)
           /\ LinkedIn(store, Owned) /\ \A r \in Runs : LinkedIn(runs[r].before, Owned)
           /\ ~torn => Fit(store, ledger) /\ ErasIn(store, loose) /\ NumbersOK
           /\ ~torn => \A r \in Runs : Fit(runs[r].before, ledger)
<1>1. /\ store \in Seq(Entry) /\ ledger \in Nat /\ ledger \in 0..MaxId
      /\ runs \in [Runs -> RunDir] /\ hand \in [Program -> Job] /\ given \in [FactId -> Nat]
  BY LadderAssumption DEF IInv, TypeInv, FilesOK, HandsOK, HistoryOK
<1>2. \A r \in Runs : runs[r].before \in Seq(Entry)
  BY <1>1 DEF RunDir
<1>3. LinkedIn(store, Owned) /\ \A r \in Runs : LinkedIn(runs[r].before, Owned)
  BY DEF IInv, LinkInv
<1>4. ~torn => Fit(store, ledger) /\ ErasIn(store, loose) /\ NumbersOK
  BY DEF IInv, IdInv, EraInv, NumbersOK
<1>5. ~torn => \A r \in Runs : Fit(runs[r].before, ledger)
  BY DEF IInv, IdInv
<1> QED  BY <1>1, <1>2, <1>3, <1>4, <1>5

\* New numbers are given once.
LEMMA NumbersGrow ==
    ASSUME ledger \in Nat, given \in [FactId -> Nat], NEW c \in Nat, Minted(c)
    PROVE  /\ ledger' = ledger + c /\ ledger' \in 0..MaxId /\ ledger <= ledger'
           /\ given' \in [FactId -> Nat]
           /\ NumbersOK => NumbersOK'
<1>1. /\ ledger' = ledger + c /\ ledger' \in 0..MaxId
      /\ given' = [i \in FactId |-> IF i \in (ledger + 1)..(ledger + c) THEN given[i] + 1 ELSE given[i]]
  BY DEF Minted
<1>2. given' \in [FactId -> Nat] /\ ledger <= ledger'
  BY <1>1
<1>3. ASSUME NumbersOK PROVE NumbersOK'
  <2> SUFFICES ASSUME NEW i \in FactId PROVE given'[i] <= 1 /\ (given'[i] > 0 => i <= ledger')
    BY DEF NumbersOK
  <2>1. given[i] \in Nat /\ given[i] <= 1 /\ (given[i] > 0 => i <= ledger) /\ i \in Nat
    BY <1>3, RunsPlain DEF NumbersOK
  <2>2. CASE i \in (ledger + 1)..(ledger + c)
    <3>1. given'[i] = given[i] + 1 /\ i <= ledger' /\ ~(i <= ledger)
      BY <1>1, <2>2
    <3> QED  BY <2>1, <3>1
  <2>3. CASE i \notin (ledger + 1)..(ledger + c)
    BY <1>1, <2>1, <2>3
  <2> QED  BY <2>2, <2>3
<1> QED  BY <1>1, <1>2, <1>3

LEMMA ApplyStarts ==
    ASSUME IInv, NEW r \in Runs, NEW delta \in Deltas, ApplyReads(r, delta)
    PROVE  \E w \in Program : \E j \in Job : HandTurn(w, j)
<1> DEFINE plan == Plan(store, delta, ledger)
           j == [stage |-> "read", verb |-> "apply", run |-> r, read |-> store,
                 made |-> Upserted(store, delta, plan), created |-> MintsOf(plan),
                 subject |-> NoId, account |-> Undecided]
           d == [runs[r] EXCEPT !.delta = delta]
<1>1. /\ store \in Seq(Entry) /\ ledger \in Nat
      /\ runs \in [Runs -> RunDir] /\ given \in [FactId -> Nat] /\ hand \in [Program -> Job]
      /\ LinkedIn(store, Owned)
      /\ ~torn => Fit(store, ledger) /\ ErasIn(store, loose) /\ NumbersOK
  BY FilesGood
<1>2. /\ ~Busy("pipeline") /\ runs[r].verb = "apply" /\ ~Used(r)
      /\ Minted(Cardinality(plan.minting))
      /\ runs' = [runs EXCEPT ![r].delta = delta]
      /\ hand' = [hand EXCEPT !["pipeline"] = j]
      /\ Unfolded(store, delta, plan)
      /\ renamed' = renamed \cup ({r} \X RenamedIn(store, delta, plan))
      /\ loose' = loose \cup ContestedIn(store, delta, plan)
      /\ UNCHANGED <<store, torn, saves, owner, strayed, undone, settled, readings>>
  BY DEF ApplyReads, Holds, MintsOf
<1>3. DeltaOK(delta)
  BY DeltasOK
<1>4. PlanOK(store, delta, ledger, plan)
  BY <1>1, <1>3, PlanParts
<1>5. Cardinality(plan.minting) \in Nat
  BY <1>4 DEF PlanOK
<1>6. /\ ledger' = ledger + Cardinality(plan.minting) /\ ledger' \in 0..MaxId /\ ledger <= ledger'
      /\ given' \in [FactId -> Nat] /\ (NumbersOK => NumbersOK')
  BY <1>1, <1>2, <1>5, NumbersGrow
<1>7. Room(plan, ledger)
  BY <1>1, <1>6, LadderAssumption DEF Room
<1>8. /\ j.verb = "apply" /\ j.read = store /\ j.made = Upserted(store, delta, plan)
      /\ j.created = MintsOf(plan) /\ j.stage = "read" /\ j.run = r /\ j.subject = NoId
      /\ j.account = Undecided
      /\ j = [stage |-> j.stage, verb |-> j.verb, run |-> j.run, read |-> j.read, made |-> j.made,
              created |-> j.created, subject |-> j.subject, account |-> j.account]
  OBVIOUS
<1>9. plan = Plan(store, delta, ledger)
  OBVIOUS
<1> HIDE DEF plan, j
<1>10. /\ j.made \in Seq(Entry) /\ j.created \in SUBSET FactId
       /\ \A keys : Fit(store, ledger) /\ ErasIn(store, keys)
                      /\ ContestedIn(store, delta, plan) \subseteq keys
            => JobSafe(j, keys, ledger + Cardinality(plan.minting))
       /\ Tells(j, delta, (ledger + Cardinality(plan.minting)) - Cardinality(j.created))
       /\ \A R : LinkedIn(store, R) => JobLinked(j, R)
       /\ \A i \in FactId : At(store, i) # At(j.made, i) =>
            i \in j.created \cup Named(store, delta) \cup RenamedIn(store, delta, plan)
  BY <1>1, <1>2, <1>3, <1>7, <1>8, <1>9, ApplyInHand
<1>11. j \in Job
  BY <1>1, <1>8, <1>10 DEF Job, Verb
<1>12. runs' = [runs EXCEPT ![r] = d] /\ runs'[r] = d
  BY <1>1, <1>2
<1>13. /\ d \in RunDir /\ d.verb = "apply" /\ d.delta = delta /\ d.before = runs[r].before
       /\ d.snapped = runs[r].snapped /\ d.mapped = runs[r].mapped /\ d.args = runs[r].args
  <2>1. runs[r] \in RunDir
    BY <1>1
  <2> QED  BY <1>2, <2>1 DEF RunDir
<1> HIDE DEF d
<1>14. ~runs[r].snapped /\ ~runs[r].mapped /\ DirOK(runs[r]) /\ runs[r].args = NoId
  BY <1>2 DEF Used, IInv, DirInv, DirsOK, DirOK
<1>15. DirOK(d)
  BY <1>13, <1>14 DEF DirOK
<1>16. \A w \in Program : Busied(hand[w]) => hand[w].run # r
  <2> SUFFICES ASSUME NEW w \in Program, Busied(hand[w]) PROVE hand[w].run # r
    OBVIOUS
  <2>1. w = "service"
    BY <1>2 DEF Busied, Busy, Program
  <2>2. HoldOK(w, hand[w], runs)
    BY DEF IInv, DirInv, HoldsOK
  <2>3. hand[w].verb \in Verb /\ hand[w].verb \in {"none", "resolve"} /\ runs[hand[w].run].verb = hand[w].verb
    BY <2>1, <2>2 DEF HoldOK
  <2> QED  BY <1>2, <2>3 DEF Verb
<1>17. \A n \in DOMAIN saves : saves[n] # r
  BY <1>14 DEF IInv, DirInv, SavedOK
<1>18. RunsStep
  <2>1. DirStep(r, d)
    BY <1>12, <1>13, <1>14, <1>15, <1>16 DEF DirStep
  <2> QED  BY <1>13, <2>1 DEF RunsStep
<1>19. HoldOK("pipeline", j, runs')
  BY <1>8, <1>12, <1>13, <1>14 DEF HoldOK, Verb
<1>20. torn \/ (NumbersOK' /\ JobSafe(j, loose', ledger') /\ ToldOK(j, runs', ledger'))
  <2> SUFFICES ASSUME ~torn
               PROVE  NumbersOK' /\ JobSafe(j, loose', ledger') /\ ToldOK(j, runs', ledger')
    OBVIOUS
  <2>1. ErasIn(store, loose')
    BY <1>1, <1>2 DEF ErasIn
  <2>2. JobSafe(j, loose', ledger')
    BY <1>1, <1>2, <1>6, <1>10, <2>1
  <2>3. ToldOK(j, runs', ledger')
    BY <1>6, <1>8, <1>10, <1>12, <1>13 DEF ToldOK
  <2> QED  BY <1>1, <1>6, <2>2, <2>3
<1>21. ReachOK(j, runs', renamed')
  <2> SUFFICES ASSUME NEW i \in FactId, At(j.read, i) # At(j.made, i)
               PROVE  \/ <<j.run, i>> \in renamed'
                      \/ i \in j.created \cup Named(j.read, runs'[j.run].delta)
    BY <1>8 DEF ReachOK
  <2>1. i \in j.created \cup Named(store, delta) \cup RenamedIn(store, delta, plan)
    BY <1>8, <1>10
  <2> QED  BY <1>2, <1>8, <1>12, <1>13, <2>1
<1>22. \A x \in undone' : Excused(x, renamed')
  BY <1>2 DEF IInv, TouchInv, Excused
<1>23. "pipeline" \in Program
  BY DEF Program
<1>24. HandTurn("pipeline", j)
  BY <1>1, <1>2, <1>6, <1>8, <1>10, <1>11, <1>16, <1>17, <1>18, <1>19, <1>20, <1>21, <1>22
     DEF HandTurn, OwnsOK, SnapOK
<1> QED  BY <1>11, <1>23, <1>24

\* Each verb that changes an entry by hand is such a change.
LEMMA VerbChanges ==
    ASSUME store \in Seq(Entry), (\E w \in Program : Resolve(w)) \/ Retire \/ Promote \/ Edit
    PROVE  \E w \in Program : \E verb, n, after, a :
                /\ ByHand(w, verb, n, after, a) /\ HandChange(store, verb, n, after, a)
                /\ w = "service" => verb = "resolve"
<1>0. \A n \in DOMAIN store : store[n] \in Entry
  OBVIOUS
<1>1. CASE \E w \in Program : Resolve(w)
  <2>0. PICK w \in Program, n \in DOMAIN store : \E a \in DOMAIN store[n].accounts :
            ByHand(w, "resolve", n, Resolved(store[n], a), a)
    BY <1>1 DEF Resolve
  <2>1. PICK a \in DOMAIN store[n].accounts : ByHand(w, "resolve", n, Resolved(store[n], a), a)
    BY <2>0
  <2> DEFINE after == Resolved(store[n], a)
  <2>2. /\ after \in Entry /\ Alike(store[n], after) /\ Stands(after, a) /\ a \in Account
        /\ LinksOf(after) = LinksOf(store[n])
        /\ \A v \in Values :
             Says(store[n], v) /\ (v = store[n].value => \E b \in DOMAIN store[n].accounts : b.value = v)
                => Says(after, v)
    BY <1>0, ResolvedOK
  <2> HIDE DEF after
  <2>3. HandChange(store, "resolve", n, after, a)
    BY <2>2 DEF HandChange, Alike, Rivals
  <2> QED  BY <2>1, <2>3 DEF after
<1>2. CASE Retire
  <2>1. PICK n \in DOMAIN store, heir \in Ids(store) \cup {NoId} :
            ByHand("pipeline", "retire", n, Retired(store[n], heir), Undecided)
    BY <1>2 DEF Retire
  <2>2. heir \in FactId \cup {NoId}
    BY IdsAreFacts
  <2> DEFINE after == Retired(store[n], heir)
  <2>3. /\ after \in Entry /\ Keeps(store[n], after)
        /\ after.key = store[n].key /\ after.about = store[n].about /\ after.tabs = store[n].tabs
        /\ ~IsOpen(after) /\ LinksOf(after) \subseteq LinksOf(store[n]) \cup ({heir} \ {NoId})
    BY <1>0, <2>2, RetiredOK
  <2> HIDE DEF after
  <2>4. HandChange(store, "retire", n, after, Undecided)
    BY <2>3 DEF HandChange, Rivals, Keeps
  <2>5. "pipeline" \in Program /\ "pipeline" # "service"
    BY DEF Program
  <2> QED  BY <2>1, <2>4, <2>5 DEF after
<1>3. CASE Promote
  <2>1. PICK n \in DOMAIN store, key \in Keys :
            /\ store[n].key \in Notes /\ key \notin Notes /\ Bearer(store, key) = 0
            /\ ByHand("pipeline", "promote", n, Promoted(store[n], key), Undecided)
    BY <1>3 DEF Promote
  <2> DEFINE after == Promoted(store[n], key)
  <2>2. /\ after \in Entry /\ Keeps(store[n], after) /\ after.key = key
        /\ LinksOf(after) \subseteq LinksOf(store[n])
    BY <1>0, PromotedOK
  <2> HIDE DEF after
  <2>3. \A m \in DOMAIN store : ~(IsOpen(store[m]) /\ store[m].key = key)
    BY <2>1, Bearers
  <2>4. HandChange(store, "promote", n, after, Undecided)
    BY <2>1, <2>2, <2>3 DEF HandChange, Rivals, Keeps
  <2>5. "pipeline" \in Program /\ "pipeline" # "service"
    BY DEF Program
  <2> QED  BY <2>1, <2>4, <2>5 DEF after
<1>4. CASE Edit
  <2>0. PICK n \in DOMAIN store : \E after \in Edits(store[n]) \ {store[n]} :
            ByHand("pipeline", "edit", n, after, Undecided)
    BY <1>4 DEF Edit
  <2>1. PICK after \in Edits(store[n]) \ {store[n]} : ByHand("pipeline", "edit", n, after, Undecided)
    BY <2>0
  <2>2. /\ after \in Entry /\ after.id = store[n].id
        /\ after.key = store[n].key /\ after.about = store[n].about /\ after.tabs = store[n].tabs
        /\ LinksOf(after) \subseteq LinksOf(store[n])
    BY <1>0, EditedOK
  <2>3. HandChange(store, "edit", n, after, Undecided)
    BY <2>1, <2>2 DEF HandChange
  <2>5. "pipeline" \in Program /\ "pipeline" # "service"
    BY DEF Program
  <2> QED  BY <2>1, <2>3, <2>5
<1> QED  BY <1>1, <1>2, <1>3, <1>4

LEMMA HandStarts ==
    ASSUME IInv, NEW w \in Program, NEW verb, NEW n, NEW after, NEW a,
           ByHand(w, verb, n, after, a), HandChange(store, verb, n, after, a),
           w = "service" => verb = "resolve"
    PROVE  \E v \in Program : \E j \in Job : HandTurn(v, j)
<1>1. /\ store \in Seq(Entry) /\ ledger \in Nat /\ ledger \in 0..MaxId
      /\ runs \in [Runs -> RunDir] /\ given \in [FactId -> Nat] /\ hand \in [Program -> Job]
      /\ LinkedIn(store, Owned)
      /\ ~torn => Fit(store, ledger) /\ ErasIn(store, loose) /\ NumbersOK
  BY FilesGood
<1>2. PICK r \in NextRun :
        /\ runs' = [runs EXCEPT ![r].verb = verb]
        /\ Holds(w, verb, r, [store EXCEPT ![n] = after], {}, store[n].id, a)
  BY DEF ByHand
<1>3. /\ ~Busy(w) /\ UNCHANGED <<store, ledger, given, torn, saves, owner, strayed, undone, settled, readings, loose,
                                 renamed>>
  BY DEF ByHand, history
<1> DEFINE j == [stage |-> "read", verb |-> verb, run |-> r, read |-> store,
                 made |-> [store EXCEPT ![n] = after], created |-> {},
                 subject |-> store[n].id, account |-> a]
<1>4. verb \in {"resolve", "retire", "promote", "edit"} /\ verb # "revert" /\ verb \in Verb
  BY DEF HandChange, Verb
<1>5. hand' = [hand EXCEPT ![w] = j]
  BY <1>2, <1>4 DEF Holds
<1>6. /\ RunsStep /\ r \in Runs /\ runs'[r].verb = verb
      /\ ~runs'[r].snapped /\ ~runs'[r].mapped /\ runs'[r].args = NoId
      /\ \A v \in Program : Busied(hand[v]) => hand[v].run # r
      /\ \A m \in DOMAIN saves : saves[m] # r
  BY <1>2, <1>4, FreshRun DEF IInv
<1>7. /\ j.verb = verb /\ j.read = store /\ j.made = [store EXCEPT ![n] = after]
      /\ j.created = {} /\ j.stage = "read" /\ j.run = r /\ j.subject = store[n].id
      /\ j.account = a
      /\ j = [stage |-> j.stage, verb |-> j.verb, run |-> j.run, read |-> j.read, made |-> j.made,
              created |-> j.created, subject |-> j.subject, account |-> j.account]
  OBVIOUS
<1> HIDE DEF j
<1>8. /\ j.made \in Seq(Entry) /\ j.subject \in FactId
      /\ \A keys, last : Fit(store, last) /\ ErasIn(store, keys) => JobSafe(j, keys, last)
      /\ \A R : LinkedIn(store, R) => JobLinked(j, R)
      /\ \A i \in FactId : At(store, i) # At(j.made, i) => i = j.subject
  <2>1. VerbJob(j, store, verb, n, after, a)
    BY <1>7 DEF VerbJob
  <2> QED  BY <1>1, <2>1, VerbInHand
<1>9. j \in Job
  <2>1. a \in Account \cup {Undecided}
    BY DEF HandChange
  <2> QED  BY <1>1, <1>4, <1>6, <1>7, <1>8, <2>1 DEF Job
<1>10. HoldOK(w, j, runs')
  BY <1>4, <1>6, <1>7, <1>8 DEF HoldOK
<1>11. torn \/ (NumbersOK' /\ JobSafe(j, loose', ledger') /\ ToldOK(j, runs', ledger'))
  <2>1. NumbersOK' = NumbersOK /\ ledger' = ledger
    BY <1>3 DEF NumbersOK
  <2>2. ToldOK(j, runs', ledger')
    BY <1>4, <1>7 DEF HandChange, ToldOK
  <2>3. loose' = loose
    BY <1>3
  <2>4. torn \/ (NumbersOK /\ JobSafe(j, loose, ledger))
    BY <1>1, <1>8
  <2> QED  BY <2>1, <2>2, <2>3, <2>4
<1>12. ReachOK(j, runs', renamed')
  BY <1>4, <1>7, <1>8 DEF ReachOK
<1>13. \A x \in undone' : Excused(x, renamed')
  BY <1>3 DEF IInv, TouchInv
<1>14. HandTurn(w, j)
  BY <1>1, <1>3, <1>5, <1>6, <1>7, <1>8, <1>9, <1>10, <1>11, <1>12, <1>13
     DEF HandTurn, OwnsOK, SnapOK
<1> QED  BY <1>9, <1>14

\* A revert touches nothing a run of a later directory owns.
LEMMA RevertSpares ==
    ASSUME IInv, NEW r \in Runs, ~Overlapped(r), NEW i \in FactId, i \in Touched(r),
           IsAfter(owner[i], r), Recorded(owner[i]), owner[i] \notin strayed,
           <<owner[i], i>> \notin renamed
    PROVE  owner[i] < r
<1> DEFINE s == owner[i]
<1>1. saves \in Seq(Runs) /\ \A m, n \in DOMAIN saves : saves[m] = saves[n] => m = n
  BY DEF IInv, TypeInv, HistoryOK, DirInv, SavedOK
<1>2. PICK m \in DOMAIN saves, n \in DOMAIN saves : m < n /\ saves[m] = r /\ saves[n] = s
  BY DEF IsAfter
<1>3. s \in Runs /\ s # NoRun
  BY <1>1, <1>2, RunsPlain
<1>4. i \in Touched(s)
  BY <1>3 DEF IInv, TouchInv
<1> HIDE DEF s
<1>5. ~(s > r)
  BY <1>3, <1>4 DEF Overlapped
<1>6. s # r
  <2>1. m \in Nat /\ n \in Nat
    BY <1>1
  <2> QED  BY <1>1, <1>2, <2>1
<1>7. s \in Nat /\ r \in Nat
  BY <1>3, RunsPlain
<1>8. s < r
  BY <1>5, <1>6, <1>7
<1> QED  BY <1>8 DEF s

LEMMA RevertStarts ==
    ASSUME IInv, NEW r \in Runs, RevertReads(r)
    PROVE  \E v \in Program : \E j \in Job : HandTurn(v, j)
<1>1. /\ store \in Seq(Entry) /\ ledger \in Nat /\ ledger \in 0..MaxId
      /\ runs \in [Runs -> RunDir] /\ given \in [FactId -> Nat] /\ hand \in [Program -> Job]
      /\ LinkedIn(store, Owned) /\ LinkedIn(runs[r].before, Owned)
      /\ runs[r].before \in Seq(Entry)
      /\ ~torn => Fit(store, ledger) /\ ErasIn(store, loose) /\ NumbersOK /\ Fit(runs[r].before, ledger)
  BY FilesGood
<1> DEFINE snap == runs[r].before
           T == Touched(r)
           M == Matched(r)
           back == RevertedStore(r)
           j == [stage |-> "snapped", verb |-> "revert", run |-> r, read |-> store,
                 made |-> back, created |-> {}, subject |-> NoId, account |-> Undecided]
<1>2. M \in SUBSET T
  BY DEF Touched
<1>3. back = Without(store, T) \o Among(snap, M)
  BY DEF RevertedStore, Snapshot
<1>4. /\ ~Busy("pipeline") /\ ~Overlapped(r)
      /\ hand' = [hand EXCEPT !["pipeline"] = j]
      /\ undone' = undone \cup {<<r, owner[i], i>> :
              i \in {k \in ChangedBy(back) :
                        IsAfter(owner[k], r) /\ Recorded(owner[k]) /\ owner[k] \notin strayed}}
      /\ UNCHANGED <<store, ledger, runs, given, torn, saves, owner, strayed, settled, readings, loose,
                     renamed>>
  BY DEF RevertReads, Holds
<1>5. /\ j.verb = "revert" /\ j.read = store /\ j.made = back /\ j.created = {}
      /\ j.stage = "snapped" /\ j.run = r /\ j.subject = NoId /\ j.account = Undecided
      /\ j = [stage |-> j.stage, verb |-> j.verb, run |-> j.run, read |-> j.read, made |-> j.made,
              created |-> j.created, subject |-> j.subject, account |-> j.account]
  OBVIOUS
<1> HIDE DEF snap, T, M, back, j
<1>6. RevertWell(store, snap, T, M, back)
  BY <1>1, <1>2, <1>3, RevertMade DEF snap
<1>7. /\ \A keys, last : Fit(store, last) /\ Fit(snap, last) /\ ErasIn(store, keys)
                => JobSafe(j, keys, last)
      /\ \A R : LinkedIn(store, R) /\ LinkedIn(snap, R) => JobLinked(j, R)
  <2>1. snap \in Seq(Entry)
    BY <1>1 DEF snap
  <2> QED  BY <1>1, <1>2, <1>5, <1>6, <2>1, RevertInHand
<1>8. j \in Job
  <2>1. back \in Seq(Entry)
    BY <1>6 DEF RevertWell
  <2> QED  BY <1>1, <1>5, <2>1 DEF Job
<1>9. HoldOK("pipeline", j, runs')
  BY <1>5 DEF HoldOK, Busied
<1>10. torn \/ (NumbersOK' /\ JobSafe(j, loose', ledger') /\ ToldOK(j, runs', ledger'))
  <2>1. NumbersOK' = NumbersOK /\ ledger' = ledger
    BY <1>4 DEF NumbersOK
  <2>2. ToldOK(j, runs', ledger')
    BY <1>5 DEF ToldOK
  <2>3. loose' = loose
    BY <1>4
  <2>4. torn \/ (NumbersOK /\ JobSafe(j, loose, ledger))
    BY <1>1, <1>7 DEF snap
  <2> QED  BY <2>1, <2>2, <2>3, <2>4
<1>11. JobLinked(j, Owned)
  BY <1>1, <1>7 DEF snap
<1>12. ASSUME NEW x \in undone' PROVE Excused(x, renamed')
  <2>1. CASE x \in undone
    BY <1>4, <2>1 DEF IInv, TouchInv
  <2>2. CASE x \notin undone
    <3>1. PICK i \in ChangedBy(back) :
            /\ x = <<r, owner[i], i>>
            /\ IsAfter(owner[i], r) /\ Recorded(owner[i]) /\ owner[i] \notin strayed
      BY <1>4, <1>12, <2>2
    <3>2. i \in FactId /\ At(store, i) # At(back, i)
      BY DEF ChangedBy
    <3>3. i \in Touched(r)
      BY <1>6, <3>2 DEF RevertWell, T
    <3>4. owner[i] < r \/ <<owner[i], i>> \in renamed
      BY <1>4, <3>1, <3>2, <3>3, RevertSpares
    <3> QED  BY <1>4, <3>1, <3>4 DEF Excused
  <2> QED  BY <2>1, <2>2
<1>13. "pipeline" \in Program
  BY DEF Program
<1>14. RunsStep
  BY <1>4 DEF RunsStep
<1>15. ReachOK(j, runs', renamed') /\ ~Busied(j)
  BY <1>5 DEF ReachOK, Busied
<1>16. HandTurn("pipeline", j)
  BY <1>1, <1>4, <1>5, <1>8, <1>9, <1>10, <1>11, <1>12, <1>14, <1>15
     DEF HandTurn, OwnsOK, SnapOK
<1> QED  BY <1>8, <1>13, <1>16

-----------------------------------------------------------------------------
(***************************************************************************)
(* What stays true while nothing is written.                               *)
(***************************************************************************)
LEMMA TouchedSame ==
    ASSUME NEW s, runs'[s] = runs[s]
    PROVE  Touched(s)' = Touched(s) /\ Recorded(s)' = Recorded(s)
BY DEF Touched, Matched, Snapshot, Recorded

LEMMA FitGrows ==
    ASSUME NEW st \in Seq(Entry), NEW last \in Nat, NEW more \in Nat, last <= more, Fit(st, last)
    PROVE  Fit(st, more)
<1>1. \A n \in DOMAIN st : st[n].id \in FactId
  BY IdsAreFacts
<1>2. \A n \in DOMAIN st : st[n].id \in Nat
  BY <1>1, RunsPlain
<1>3. \A n \in DOMAIN st : st[n].id <= more
  BY <1>2 DEF Fit, IdsUpTo
<1> QED  BY <1>3 DEF Fit, IdsUpTo

LEMMA SafeGrows ==
    ASSUME NEW j \in Job, NEW keys, NEW wider, keys \subseteq wider,
           NEW last \in Nat, NEW more \in Nat, last <= more, JobSafe(j, keys, last)
    PROVE  JobSafe(j, wider, more)
<1>1. j.made \in Seq(Entry) /\ j.read \in Seq(Entry)
  BY DEF Job
<1>2. Fit(j.made, more) /\ Fit(j.read, more)
  BY <1>1, FitGrows DEF JobSafe
<1>3. ErasOK(j, wider)
  BY DEF JobSafe, ErasOK
<1> QED  BY <1>2, <1>3 DEF JobSafe

\* A verb in a hand is none or at work.
LEMMA AtWork ==
    ASSUME DirInv, NEW w \in Program
    PROVE  /\ hand[w].verb = "apply" => w = "pipeline" /\ Busied(hand[w])
           /\ Busied(hand[w]) => hand[w].run \in Runs /\ Busy(w) /\ hand[w].verb \in Verb
<1>1. HoldOK(w, hand[w], runs)
  BY DEF DirInv, HoldsOK
<1> QED  BY <1>1 DEF HoldOK, Busied, Busy, Program, Idle

\* The hands and the directories of a step that saves nothing: a hand that was
\* at work has what it had.
LEMMA HandsStay ==
    ASSUME IInv, NEW v \in Program, Busied(hand[v]) => runs'[hand[v].run] = runs[hand[v].run],
           renamed \subseteq renamed'
    PROVE  /\ HoldOK(v, hand[v], runs')
           /\ ReachOK(hand[v], runs', renamed') /\ OwnsOK(hand[v], runs', renamed') /\ SnapOK(hand[v], runs')
           /\ \A last : ToldOK(hand[v], runs, last) => ToldOK(hand[v], runs', last)
<1>1. /\ HoldOK(v, hand[v], runs)
      /\ ReachOK(hand[v], runs, renamed) /\ OwnsOK(hand[v], runs, renamed) /\ SnapOK(hand[v], runs)
  BY DEF IInv, DirInv, HoldsOK, TouchInv
<1>2. Busied(hand[v]) => runs'[hand[v].run] = runs[hand[v].run]
  OBVIOUS
<1>3. hand[v].verb = "apply" => Busied(hand[v])
  BY AtWork DEF IInv
<1>4. HoldOK(v, hand[v], runs')
  BY <1>1, <1>2 DEF HoldOK
<1>5. ReachOK(hand[v], runs', renamed')
  BY <1>1, <1>2 DEF ReachOK
<1>6. OwnsOK(hand[v], runs', renamed')
  BY <1>1, <1>2 DEF OwnsOK
<1>7. SnapOK(hand[v], runs')
  BY <1>1, <1>2 DEF SnapOK
<1>8. \A last : ToldOK(hand[v], runs, last) => ToldOK(hand[v], runs', last)
  BY <1>2, <1>3 DEF ToldOK
<1> QED  BY <1>4, <1>5, <1>6, <1>7, <1>8

\* What runs have touched, while what is recorded stays.
LEMMA TouchStays ==
    ASSUME IInv, RunsKept, UNCHANGED <<owner, strayed>>, renamed \subseteq renamed'
    PROVE  (\A s \in Runs, i \in FactId :
                owner[i] = s /\ Recorded(s) =>
                    s \in strayed \/ i \in Touched(s) \/ <<s, i>> \in renamed)'
<1> SUFFICES ASSUME NEW s \in Runs, NEW i \in FactId, owner[i] = s, Recorded(s)'
             PROVE  s \in strayed \/ i \in Touched(s)' \/ <<s, i>> \in renamed'
  OBVIOUS
<1>1. runs'[s] = runs[s]
  BY DEF RunsKept, Recorded
<1>2. Touched(s)' = Touched(s) /\ Recorded(s)
  BY <1>1, TouchedSame
<1> QED  BY <1>2 DEF IInv, TouchInv

LEMMA TurnKeeps ==
    ASSUME IInv, NEW w \in Program, NEW j \in Job, HandTurn(w, j)
    PROVE  IInv'
<1>1. /\ store \in Seq(Entry) /\ ledger \in Nat /\ ledger \in 0..MaxId
      /\ runs \in [Runs -> RunDir] /\ hand \in [Program -> Job]
      /\ \A r \in Runs : runs[r].before \in Seq(Entry)
      /\ LinkedIn(store, Owned) /\ \A r \in Runs : LinkedIn(runs[r].before, Owned)
      /\ ~torn => Fit(store, ledger) /\ ErasIn(store, loose)
      /\ ~torn => \A r \in Runs : Fit(runs[r].before, ledger)
  BY FilesGood
<1>2. /\ hand' = [hand EXCEPT ![w] = j] /\ RunsStep
      /\ HoldOK(w, j, runs')
      /\ Busied(j) =>
            /\ \A v \in Program : v # w /\ Busied(hand[v]) => hand[v].run # j.run
            /\ j.stage # "saved" => \A n \in DOMAIN saves : saves[n] # j.run
      /\ UNCHANGED <<store, torn, saves, owner, strayed, settled, readings>>
      /\ loose \subseteq loose' /\ renamed \subseteq renamed'
      /\ ledger' \in 0..MaxId /\ given' \in [FactId -> Nat]
      /\ ledger <= ledger' /\ (ledger' # ledger => w = "pipeline")
      /\ torn \/ (NumbersOK' /\ JobSafe(j, loose', ledger') /\ ToldOK(j, runs', ledger'))
      /\ JobLinked(j, Owned)
      /\ ReachOK(j, runs', renamed') /\ OwnsOK(j, runs', renamed') /\ SnapOK(j, runs')
      /\ \A x \in undone' : Excused(x, renamed')
  BY DEF HandTurn
<1>3. hand'[w] = j /\ \A v \in Program : v # w => hand'[v] = hand[v]
  BY <1>1, <1>2
<1>4. RunsKept
  BY <1>2, RunsStepKeeps DEF IInv
<1>5. /\ runs' \in [Runs -> RunDir] /\ DirsOK'
      /\ \A s \in Runs : runs'[s].before = runs[s].before
      /\ \A n \in DOMAIN saves : saves[n] \in Runs /\ runs'[saves[n]] = runs[saves[n]]
  BY <1>4 DEF RunsKept
<1>6. ledger' \in Nat
  BY <1>2
<1>7. TypeInv'
  BY <1>1, <1>2, <1>5 DEF IInv, TypeInv, FilesOK, HandsOK, HistoryOK
<1>8. HoldsOK'
  BY <1>2, <1>3, <1>4, HandsStay DEF HoldsOK, RunsKept
<1>9. Apart'
  <2>1. Apart
    BY DEF IInv, DirInv
  <2>2. "service" \in Program /\ "pipeline" \in Program
    BY DEF Program
  <2>3. CASE w = "service"
    BY <1>2, <1>3, <2>2, <2>3 DEF Apart
  <2>4. CASE w = "pipeline"
    BY <1>2, <1>3, <2>2, <2>4 DEF Apart
  <2> QED  BY <2>3, <2>4 DEF Program
<1>10. SavedOK'
  <2>1. SavedOK
    BY DEF IInv, DirInv
  <2>2. \A v \in Program : Busied(hand'[v]) /\ hand'[v].stage # "saved" =>
            \A n \in DOMAIN saves : saves[n] # hand'[v].run
    BY <1>2, <1>3, <2>1 DEF SavedOK
  <2> QED  BY <1>2, <1>5, <2>1, <2>2 DEF SavedOK
<1>11. DirInv'
  BY <1>5, <1>8, <1>9, <1>10 DEF DirInv
<1>12. IdInv'
  <2> SUFFICES ASSUME ~torn PROVE (NumbersOK /\ Fit(store, ledger) /\ \A r \in Runs : Fit(runs[r].before, ledger))'
    BY <1>2 DEF IdInv
  <2>1. Fit(store, ledger')
    BY <1>1, <1>2, <1>6, FitGrows
  <2>2. \A r \in Runs : Fit(runs[r].before, ledger')
    BY <1>1, <1>2, <1>6, FitGrows
  <2> QED  BY <1>2, <1>5, <2>1, <2>2
<1>13. EraInv' /\ KeepInv'
  <2>1. EraInv'
    BY <1>2 DEF IInv, EraInv, ErasIn
  <2>2. KeepInv'
    BY <1>2 DEF IInv, KeepInv, SettledOK, ReadingsOK
  <2> QED  BY <2>1, <2>2
<1>14. HandInv'
  <2> SUFFICES ASSUME ~torn, NEW v \in Program, v # w
               PROVE  JobSafe(hand[v], loose', ledger') /\ ToldOK(hand[v], runs', ledger')
    BY <1>2, <1>3 DEF HandInv
  <2>1. JobSafe(hand[v], loose, ledger) /\ ToldOK(hand[v], runs, ledger) /\ hand[v] \in Job
    BY <1>1 DEF IInv, HandInv
  <2>2. JobSafe(hand[v], loose', ledger')
    BY <1>1, <1>2, <1>6, <2>1, SafeGrows
  <2>3. ToldOK(hand[v], runs', ledger)
    BY <1>2, <1>4, <2>1, HandsStay DEF RunsKept
  <2>4. CASE ledger' = ledger
    BY <2>2, <2>3, <2>4
  <2>5. CASE ledger' # ledger
    <3>1. hand[v].verb # "apply"
      BY <1>2, <2>5, AtWork DEF IInv
    <3> QED  BY <2>2, <3>1 DEF ToldOK
  <2> QED  BY <2>4, <2>5
<1>15. LinkInv'
  <2>1. Owned' = Owned
    BY <1>2 DEF Owned
  <2>2. \A v \in Program : JobLinked(hand'[v], Owned)
    BY <1>2, <1>3 DEF IInv, LinkInv
  <2> QED  BY <1>1, <1>2, <1>5, <2>1, <2>2 DEF LinkInv
<1>16. TouchInv'
  <2>1. (\A s \in Runs, i \in FactId :
            owner[i] = s /\ Recorded(s) =>
                s \in strayed \/ i \in Touched(s) \/ <<s, i>> \in renamed)'
    BY <1>2, <1>4, TouchStays
  <2>2. ASSUME NEW v \in Program
        PROVE  (ReachOK(hand[v], runs, renamed) /\ OwnsOK(hand[v], runs, renamed) /\ SnapOK(hand[v], runs))'
    <3>1. CASE v = w
      BY <1>2, <1>3, <3>1 DEF OwnsOK, SnapOK
    <3>2. CASE v # w
      <4>1. ReachOK(hand[v], runs', renamed') /\ OwnsOK(hand[v], runs', renamed') /\ SnapOK(hand[v], runs')
        BY <1>2, <1>4, HandsStay DEF RunsKept
      <4> QED  BY <1>2, <1>3, <3>2, <4>1 DEF OwnsOK, SnapOK
    <3> QED  BY <3>1, <3>2
  <2> QED  BY <1>2, <2>1, <2>2 DEF TouchInv
<1> QED  BY <1>7, <1>11, <1>12, <1>13, <1>14, <1>15, <1>16 DEF IInv

\* A pipeline run claims its directory.
LEMMA BeginTurns ==
    ASSUME IInv, Begin
    PROVE  \E w \in Program : \E j \in Job : HandTurn(w, j)
<1> DEFINE j == hand["pipeline"]
<1>1. hand \in [Program -> Job] /\ ledger \in Nat /\ ledger \in 0..MaxId /\ given \in [FactId -> Nat]
  BY FilesGood
<1>2. PICK r \in NextRun : runs' = [runs EXCEPT ![r].verb = "apply"]
  BY DEF Begin
<1>3. UNCHANGED <<store, ledger, hand, given, torn, saves, owner, strayed, undone, settled, readings, loose,
                renamed>>
  BY DEF Begin, history
<1>4. "pipeline" \in Program /\ "apply" \in Verb
  BY DEF Program, Verb
<1>5. RunsStep
  BY <1>2, <1>4, FreshRun DEF IInv
<1>6. RunsKept
  BY <1>5, RunsStepKeeps DEF IInv
<1>7. /\ HoldOK("pipeline", j, runs')
      /\ ReachOK(j, runs', renamed') /\ OwnsOK(j, runs', renamed') /\ SnapOK(j, runs')
      /\ \A last : ToldOK(j, runs, last) => ToldOK(j, runs', last)
  BY <1>3, <1>4, <1>6, HandsStay DEF RunsKept
<1>8. hand' = [hand EXCEPT !["pipeline"] = j] /\ j \in Job
  BY <1>1, <1>3, <1>4
<1>9. Busied(j) => /\ \A v \in Program : v # "pipeline" /\ Busied(hand[v]) => hand[v].run # j.run
                   /\ j.stage # "saved" => \A n \in DOMAIN saves : saves[n] # j.run
  BY <1>4 DEF IInv, DirInv, Apart, SavedOK, Program
<1>10. torn \/ (NumbersOK' /\ JobSafe(j, loose', ledger') /\ ToldOK(j, runs', ledger'))
  BY <1>3, <1>4, <1>7 DEF IInv, IdInv, HandInv, NumbersOK
<1>11. JobLinked(j, Owned) /\ \A x \in undone' : Excused(x, renamed')
  BY <1>3, <1>4 DEF IInv, LinkInv, TouchInv
<1>12. ledger <= ledger' /\ ledger' \in 0..MaxId /\ given' \in [FactId -> Nat] /\ ledger' = ledger
  BY <1>1, <1>3
<1>13. UNCHANGED <<store, torn, saves, owner, strayed, settled, readings, loose, renamed>>
  BY <1>3
<1> HIDE DEF j
<1>14. HandTurn("pipeline", j)
  BY <1>5, <1>7, <1>8, <1>9, <1>10, <1>11, <1>12, <1>13 DEF HandTurn
<1> QED  BY <1>4, <1>8, <1>14

LEMMA IdleOK ==
    ASSUME LadderAssumption
    PROVE  /\ Idle \in Job /\ Idle.made = <<>> /\ Idle.read = <<>> /\ Idle.stage = "idle"
           /\ ~Busied(Idle) /\ \A keys, last : JobSafe(Idle, keys, last)
           /\ \A R : JobLinked(Idle, R)
<1>1. Idle.made = <<>> /\ Idle.read = <<>> /\ Idle.stage = "idle" /\ Idle.verb = "none"
  BY DEF Idle
<1>2. Idle \in Job
  BY DEF Idle, Job
<1>3. \A keys, last : JobSafe(Idle, keys, last)
  BY <1>1 DEF JobSafe, Fit, Distinct, IdsUpTo, ErasOK, CarryOK
<1>4. \A R : JobLinked(Idle, R)
  BY <1>1 DEF JobLinked, LinkedIn
<1> QED  BY <1>1, <1>2, <1>3, <1>4 DEF Busied

LEMMA DiesTurns ==
    ASSUME IInv, NEW w \in Program, Dies(w)
    PROVE  \E v \in Program : \E j \in Job : HandTurn(v, j)
<1>1. hand \in [Program -> Job] /\ ledger \in Nat /\ ledger \in 0..MaxId /\ given \in [FactId -> Nat]
  BY FilesGood
<1>2. /\ hand' = [hand EXCEPT ![w] = Idle]
      /\ UNCHANGED <<store, ledger, runs, given, torn, saves, owner, strayed, undone, settled, readings, loose,
                     renamed>>
  BY DEF Dies, history
<1>3. /\ Idle \in Job /\ Idle.stage = "idle" /\ ~Busied(Idle) /\ JobSafe(Idle, loose, ledger)
      /\ JobLinked(Idle, Owned)
  BY IdleOK, LadderAssumption
<1>4. Idle.verb = "none"
  BY DEF Idle
<1>5. HoldOK(w, Idle, runs')
  BY <1>3, <1>4 DEF HoldOK
<1>6. ReachOK(Idle, runs', renamed') /\ OwnsOK(Idle, runs', renamed') /\ SnapOK(Idle, runs') /\ ToldOK(Idle, runs', ledger')
  BY <1>3, <1>4 DEF ReachOK, OwnsOK, SnapOK, ToldOK
<1>7. \A x \in undone' : Excused(x, renamed')
  BY <1>2 DEF IInv, TouchInv
<1>8. torn \/ NumbersOK'
  BY <1>2 DEF IInv, IdInv, NumbersOK
<1>9. HandTurn(w, Idle)
  BY <1>1, <1>2, <1>3, <1>5, <1>6, <1>7, <1>8 DEF HandTurn, RunsStep
<1> QED  BY <1>3, <1>9

-----------------------------------------------------------------------------
(***************************************************************************)
(* The snapshot, the record, and the ledger that is lost.                  *)
(***************************************************************************)
LEMMA OthersRun ==
    ASSUME DirInv, NEW w \in Program, NEW v \in Program, v # w, Busied(hand[w]), Busied(hand[v])
    PROVE  hand[v].run # hand[w].run
BY DEF DirInv, Apart, Program

LEMMA SnapsKeeps ==
    ASSUME IInv, NEW w \in Program, Snaps(w)
    PROVE  IInv'
<1> DEFINE r == hand[w].run
           d == [runs[r] EXCEPT !.snapped = TRUE, !.before = store]
           j == [hand[w] EXCEPT !.stage = "snapped"]
<1>1. /\ store \in Seq(Entry) /\ runs \in [Runs -> RunDir] /\ hand \in [Program -> Job]
      /\ LinkedIn(store, Owned) /\ \A s \in Runs : LinkedIn(runs[s].before, Owned)
      /\ ~torn => Fit(store, ledger)
      /\ ~torn => \A s \in Runs : Fit(runs[s].before, ledger)
  BY FilesGood
<1>2. /\ hand[w].stage = "read" /\ hand' = [hand EXCEPT ![w].stage = "snapped"]
      /\ runs' = [runs EXCEPT ![r].snapped = TRUE, ![r].before = store]
      /\ strayed' = IF store = hand[w].read THEN strayed ELSE strayed \cup {r}
      /\ UNCHANGED <<store, ledger, given, torn, saves, owner, undone, settled, readings, loose, renamed>>
  BY DEF Snaps
<1>3. HoldOK(w, hand[w], runs)
  BY DEF IInv, DirInv, HoldsOK
<1>4. Busied(hand[w]) /\ hand[w].verb # "revert"
  BY <1>2, <1>3 DEF HoldOK, Busied
<1>5. /\ r \in Runs /\ runs[r].verb = hand[w].verb /\ hand[w].verb \in Verb
      /\ ~runs[r].mapped /\ runs[r].args = NoId
  BY <1>3, <1>4 DEF HoldOK
<1>6. \A n \in DOMAIN saves : saves[n] # r
  BY <1>2, <1>4 DEF IInv, DirInv, SavedOK
<1>7. hand[w] \in Job /\ runs[r] \in RunDir
  BY <1>1, <1>5
<1>8. /\ j \in Job /\ j.stage = "snapped" /\ j.verb = hand[w].verb /\ j.run = r
      /\ j.read = hand[w].read /\ j.made = hand[w].made /\ j.created = hand[w].created
      /\ j.subject = hand[w].subject /\ j.account = hand[w].account
  BY <1>7 DEF Job
<1>9. /\ d \in RunDir /\ d.verb = hand[w].verb /\ d.snapped /\ d.before = store /\ ~d.mapped
      /\ d.args = NoId /\ d.delta = runs[r].delta
  BY <1>1, <1>5, <1>7 DEF RunDir
<1>10. hand' = [hand EXCEPT ![w] = j] /\ hand'[w] = j /\ \A v \in Program : v # w => hand'[v] = hand[v]
  BY <1>1, <1>2
<1>11. runs' = [runs EXCEPT ![r] = d] /\ runs'[r] = d /\ \A s \in Runs : s # r => runs'[s] = runs[s]
  BY <1>1, <1>2, <1>5
<1> HIDE DEF r, d, j
<1>12. \A v \in Program : v # w /\ Busied(hand[v]) => runs'[hand[v].run] = runs[hand[v].run]
  <2>1. \A v \in Program : v # w /\ Busied(hand[v]) => hand[v].run # r /\ hand[v].run \in Runs
    BY <1>4, OthersRun, AtWork DEF IInv, r
  <2> QED  BY <1>11, <2>1
<1>13. \A v \in Program : v # w =>
        /\ HoldOK(v, hand[v], runs')
        /\ ReachOK(hand[v], runs', renamed') /\ OwnsOK(hand[v], runs', renamed') /\ SnapOK(hand[v], runs')
        /\ ToldOK(hand[v], runs, ledger) => ToldOK(hand[v], runs', ledger)
  BY <1>2, <1>12, HandsStay
<1>14. Busied(j)
  BY <1>4, <1>8 DEF Busied
<1>15. strayed \subseteq strayed' /\ (r \in strayed' \/ store = j.read) /\ strayed' \subseteq Runs
  BY <1>2, <1>5, <1>8 DEF IInv, TypeInv, HistoryOK
<1>16. TypeInv'
  <2>1. FilesOK'
    <3>1. runs' \in [Runs -> RunDir]
      BY <1>1, <1>9, <1>11
    <3> QED  BY <1>2, <3>1 DEF IInv, TypeInv, FilesOK
  <2>2. HandsOK'
    BY <1>1, <1>8, <1>10 DEF HandsOK
  <2>3. HistoryOK'
    BY <1>2, <1>15 DEF IInv, TypeInv, HistoryOK
  <2> QED  BY <2>1, <2>2, <2>3 DEF TypeInv
<1>17. DirsOK'
  <2>1. DirOK(d)
    BY <1>5, <1>9 DEF DirOK, Verb
  <2> QED  BY <1>11, <2>1 DEF DirsOK, IInv, DirInv
<1>18. HoldsOK'
  <2>1. HoldOK(w, j, runs')
    BY <1>3, <1>4, <1>5, <1>8, <1>9, <1>11 DEF HoldOK, Busied, r
  <2> QED  BY <1>10, <1>13, <2>1 DEF HoldsOK
<1>19. Apart'
  <2>1. \A v \in Program : Busied(hand'[v]) <=> Busied(hand[v])
    BY <1>4, <1>10, <1>14
  <2>2. \A v \in Program : hand'[v].run = hand[v].run
    BY <1>8, <1>10 DEF r
  <2>3. "service" \in Program /\ "pipeline" \in Program
    BY DEF Program
  <2> QED  BY <2>1, <2>2, <2>3 DEF Apart, IInv, DirInv
<1>20. SavedOK'
  <2>1. SavedOK
    BY DEF IInv, DirInv
  <2>2. \A n \in DOMAIN saves : saves[n] \in Runs
    BY DEF IInv, TypeInv, HistoryOK
  <2>3. \A n \in DOMAIN saves : runs'[saves[n]].verb # "free" /\ runs'[saves[n]].snapped
    BY <1>6, <1>11, <2>1, <2>2 DEF SavedOK
  <2>4. \A v \in Program : Busied(hand'[v]) /\ hand'[v].stage # "saved" =>
            \A n \in DOMAIN saves : saves[n] # hand'[v].run
    BY <1>6, <1>8, <1>10, <2>1 DEF SavedOK
  <2> QED  BY <1>2, <2>1, <2>3, <2>4 DEF SavedOK
<1>21. IdInv'
  <2>1. ~torn => \A s \in Runs : Fit(runs'[s].before, ledger)
    BY <1>1, <1>9, <1>11
  <2> QED  BY <1>2, <2>1 DEF IInv, IdInv, NumbersOK
<1>22. EraInv' /\ KeepInv'
  BY <1>2 DEF IInv, EraInv, KeepInv, SettledOK, ReadingsOK
<1>23. HandInv'
  <2> SUFFICES ASSUME ~torn, NEW v \in Program
               PROVE  JobSafe(hand'[v], loose, ledger) /\ ToldOK(hand'[v], runs', ledger)
    BY <1>2 DEF HandInv
  <2>1. JobSafe(hand[v], loose, ledger) /\ ToldOK(hand[v], runs, ledger)
    BY DEF IInv, HandInv
  <2>2. CASE v = w
    <3>1. JobSafe(j, loose, ledger)
      BY <1>8, <2>1, <2>2 DEF JobSafe, ErasOK, CarryOK, CarriedOver, Displaced
    <3>2. ToldOK(j, runs', ledger)
      <4>1. runs'[j.run].delta = runs[hand[w].run].delta
        BY <1>8, <1>9, <1>11 DEF r
      <4>2. \A delta, last : Told(j, delta, last) = Told(hand[w], delta, last)
        BY <1>8 DEF Told
      <4>3. \A delta, last : Tells(j, delta, last) = Tells(hand[w], delta, last)
        BY <1>8, <4>2 DEF Tells
      <4> QED  BY <1>2, <1>8, <2>1, <2>2, <4>1, <4>3 DEF ToldOK
    <3> QED  BY <1>10, <2>2, <3>1, <3>2
  <2>3. CASE v # w
    BY <1>10, <1>13, <2>1, <2>3
  <2> QED  BY <2>2, <2>3
<1>24. LinkInv'
  <2>1. Owned' = Owned
    BY <1>2 DEF Owned
  <2>2. \A v \in Program : JobLinked(hand'[v], Owned)
    BY <1>8, <1>10 DEF IInv, LinkInv, JobLinked, Coming
  <2>3. \A s \in Runs : LinkedIn(runs'[s].before, Owned)
    BY <1>1, <1>9, <1>11
  <2> QED  BY <1>1, <1>2, <2>1, <2>2, <2>3 DEF LinkInv
<1>25. TouchInv'
  <2>1. ASSUME NEW s \in Runs, NEW i \in FactId, owner'[i] = s, Recorded(s)'
        PROVE  s \in strayed' \/ i \in Touched(s)' \/ <<s, i>> \in renamed'
    <3>1. s # r
      BY <1>9, <1>11, <2>1 DEF Recorded
    <3>2. Touched(s)' = Touched(s) /\ Recorded(s)
      BY <1>11, <2>1, <3>1, TouchedSame
    <3> QED  BY <1>2, <1>15, <2>1, <3>2 DEF IInv, TouchInv
  <2>2. ASSUME NEW v \in Program
        PROVE  (ReachOK(hand[v], runs, renamed) /\ OwnsOK(hand[v], runs, renamed) /\ SnapOK(hand[v], runs))'
    <3>1. CASE v = w
      <4>1. ReachOK(hand[w], runs, renamed)
        BY DEF IInv, TouchInv
      <4>2. runs'[j.run].delta = runs[hand[w].run].delta /\ runs'[j.run].before = store
        BY <1>8, <1>9, <1>11 DEF r
      <4>3. ReachOK(j, runs', renamed')
        <5>1. renamed' = renamed /\ j.read = hand[w].read /\ j.made = hand[w].made
              /\ j.run = hand[w].run /\ j.verb = hand[w].verb
              /\ j.created = hand[w].created /\ j.subject = hand[w].subject
          BY <1>2, <1>8 DEF r
        <5>2. Busied(hand[w])
          BY <1>4
        <5> QED  BY <4>1, <4>2, <5>1, <5>2 DEF ReachOK
      <4> QED  BY <1>8, <1>10, <1>15, <3>1, <4>2, <4>3 DEF OwnsOK, SnapOK
    <3>2. CASE v # w
      <4>1. ReachOK(hand[v], runs', renamed') /\ OwnsOK(hand[v], runs', renamed') /\ SnapOK(hand[v], runs')
        BY <1>13, <3>2
      <4> QED  BY <1>2, <1>10, <1>15, <3>2, <4>1 DEF OwnsOK, SnapOK
    <3> QED  BY <3>1, <3>2
  <2>3. \A x \in undone' : Excused(x, renamed')
    BY <1>2 DEF IInv, TouchInv
  <2> QED  BY <2>1, <2>2, <2>3 DEF TouchInv
<1> QED  BY <1>16, <1>17, <1>18, <1>19, <1>20, <1>21, <1>22, <1>23, <1>24, <1>25 DEF IInv, DirInv

LEMMA RecordsKeeps ==
    ASSUME IInv, NEW w \in Program, Records(w)
    PROVE  IInv'
<1> DEFINE r == hand[w].run
           d == IF hand[w].verb = "apply"
                THEN [runs[r] EXCEPT !.mapped = TRUE, !.created = hand[w].created]
                ELSE [runs[r] EXCEPT !.args = hand[w].subject]
<1>1. /\ store \in Seq(Entry) /\ runs \in [Runs -> RunDir] /\ hand \in [Program -> Job]
      /\ LinkedIn(store, Owned) /\ \A s \in Runs : LinkedIn(runs[s].before, Owned)
      /\ ~torn => Fit(store, ledger)
      /\ ~torn => \A s \in Runs : Fit(runs[s].before, ledger)
  BY FilesGood
<1>2. /\ hand[w].stage = "saved" /\ hand' = [hand EXCEPT ![w] = Idle]
      /\ runs' = IF hand[w].verb = "apply"
                 THEN [runs EXCEPT ![r].mapped = TRUE, ![r].created = hand[w].created]
                 ELSE [runs EXCEPT ![r].args = hand[w].subject]
      /\ UNCHANGED <<store, ledger, given, torn, saves, owner, strayed, undone, settled, readings, loose,
                     renamed>>
  BY DEF Records, history
<1>3. HoldOK(w, hand[w], runs)
  BY DEF IInv, DirInv, HoldsOK
<1>4. Busied(hand[w]) /\ hand[w].verb # "revert"
  BY <1>2, <1>3 DEF HoldOK, Busied
<1>5. /\ r \in Runs /\ runs[r].verb = hand[w].verb /\ hand[w].verb \in Verb
      /\ ~runs[r].mapped /\ runs[r].args = NoId /\ runs[r].snapped
      /\ hand[w].verb # "apply" => hand[w].subject \in FactId
  BY <1>2, <1>3, <1>4 DEF HoldOK
<1>7. hand[w] \in Job /\ runs[r] \in RunDir
  BY <1>1, <1>5
<1>8. /\ d \in RunDir /\ d.verb = hand[w].verb /\ d.snapped /\ d.before = runs[r].before
      /\ d.delta = runs[r].delta
      /\ hand[w].verb = "apply" => d.args = NoId /\ d.created = hand[w].created
      /\ hand[w].verb # "apply" => ~d.mapped /\ d.args = hand[w].subject
  <2>1. hand[w].created \in SUBSET FactId /\ hand[w].subject \in FactId \cup {NoId}
    BY <1>7 DEF Job
  <2>2. CASE hand[w].verb = "apply"
    BY <1>5, <1>7, <2>1, <2>2 DEF RunDir
  <2>3. CASE hand[w].verb # "apply"
    BY <1>5, <1>7, <2>1, <2>3 DEF RunDir
  <2> QED  BY <2>2, <2>3
<1>10. hand'[w] = Idle /\ \A v \in Program : v # w => hand'[v] = hand[v]
  BY <1>1, <1>2
<1>11. runs' = [runs EXCEPT ![r] = d] /\ runs'[r] = d /\ \A s \in Runs : s # r => runs'[s] = runs[s]
  BY <1>1, <1>2, <1>5
<1> HIDE DEF r, d
<1>12. \A v \in Program : v # w /\ Busied(hand[v]) => runs'[hand[v].run] = runs[hand[v].run]
  <2>1. \A v \in Program : v # w /\ Busied(hand[v]) => hand[v].run # r /\ hand[v].run \in Runs
    BY <1>4, OthersRun, AtWork DEF IInv, r
  <2> QED  BY <1>11, <2>1
<1>13. \A v \in Program : v # w =>
        /\ HoldOK(v, hand[v], runs')
        /\ ReachOK(hand[v], runs', renamed') /\ OwnsOK(hand[v], runs', renamed') /\ SnapOK(hand[v], runs')
        /\ ToldOK(hand[v], runs, ledger) => ToldOK(hand[v], runs', ledger)
  BY <1>2, <1>12, HandsStay
<1>14. /\ Idle \in Job /\ Idle.stage = "idle" /\ ~Busied(Idle) /\ JobSafe(Idle, loose, ledger)
       /\ JobLinked(Idle, Owned) /\ Idle.verb = "none"
  BY IdleOK, LadderAssumption DEF Idle
<1>16. TypeInv'
  <2>1. FilesOK'
    <3>1. runs' \in [Runs -> RunDir]
      BY <1>1, <1>8, <1>11
    <3> QED  BY <1>2, <3>1 DEF IInv, TypeInv, FilesOK
  <2>2. HandsOK'
    BY <1>1, <1>2, <1>14 DEF HandsOK
  <2>3. HistoryOK'
    BY <1>2 DEF IInv, TypeInv, HistoryOK
  <2> QED  BY <2>1, <2>2, <2>3 DEF TypeInv
<1>17. DirsOK'
  <2>1. DirOK(d)
    BY <1>5, <1>8 DEF DirOK, Verb
  <2> QED  BY <1>11, <2>1 DEF DirsOK, IInv, DirInv
<1>18. HoldsOK'
  <2>1. HoldOK(w, Idle, runs')
    BY <1>14 DEF HoldOK
  <2> QED  BY <1>10, <1>13, <2>1 DEF HoldsOK
<1>19. Apart'
  <2>1. "service" \in Program /\ "pipeline" \in Program
    BY DEF Program
  <2> QED  BY <1>10, <1>14, <2>1 DEF Apart, IInv, DirInv
<1>20. SavedOK'
  <2>1. SavedOK
    BY DEF IInv, DirInv
  <2>2. \A n \in DOMAIN saves : saves[n] \in Runs
    BY DEF IInv, TypeInv, HistoryOK
  <2>3. \A n \in DOMAIN saves : runs'[saves[n]].verb # "free" /\ runs'[saves[n]].snapped
    BY <1>5, <1>8, <1>11, <2>1, <2>2 DEF SavedOK, Verb
  <2>4. \A v \in Program : Busied(hand'[v]) /\ hand'[v].stage # "saved" =>
            \A n \in DOMAIN saves : saves[n] # hand'[v].run
    BY <1>10, <1>14, <2>1 DEF SavedOK
  <2> QED  BY <1>2, <2>1, <2>3, <2>4 DEF SavedOK
<1>21. IdInv'
  <2>1. ~torn => \A s \in Runs : Fit(runs'[s].before, ledger)
    BY <1>1, <1>5, <1>8, <1>11
  <2> QED  BY <1>2, <2>1 DEF IInv, IdInv, NumbersOK
<1>22. EraInv' /\ KeepInv'
  BY <1>2 DEF IInv, EraInv, KeepInv, SettledOK, ReadingsOK
<1>23. HandInv'
  <2> SUFFICES ASSUME ~torn, NEW v \in Program
               PROVE  JobSafe(hand'[v], loose, ledger) /\ ToldOK(hand'[v], runs', ledger)
    BY <1>2 DEF HandInv
  <2>1. JobSafe(hand[v], loose, ledger) /\ ToldOK(hand[v], runs, ledger)
    BY DEF IInv, HandInv
  <2>2. CASE v = w
    BY <1>10, <1>14, <2>2 DEF ToldOK
  <2>3. CASE v # w
    BY <1>10, <1>13, <2>1, <2>3
  <2> QED  BY <2>2, <2>3
<1>24. LinkInv'
  <2>1. Owned' = Owned
    BY <1>2 DEF Owned
  <2>2. \A v \in Program : JobLinked(hand'[v], Owned)
    BY <1>10, <1>14 DEF IInv, LinkInv
  <2>3. \A s \in Runs : LinkedIn(runs'[s].before, Owned)
    BY <1>1, <1>5, <1>8, <1>11
  <2> QED  BY <1>1, <1>2, <2>1, <2>2, <2>3 DEF LinkInv
<1>25. TouchInv'
  <2>1. ASSUME NEW s \in Runs, NEW i \in FactId, owner[i] = s, Recorded(s)'
        PROVE  s \in strayed \/ i \in Touched(s)' \/ <<s, i>> \in renamed'
    <3>1. CASE s # r
      <4>1. Touched(s)' = Touched(s) /\ Recorded(s)
        BY <1>11, <2>1, <3>1, TouchedSame
      <4> QED  BY <1>2, <2>1, <4>1 DEF IInv, TouchInv
    <3>2. CASE s = r /\ hand[w].verb = "apply"
      <4>1. \/ s \in strayed \/ <<s, i>> \in renamed
            \/ i \in hand[w].created \cup Named(runs[r].before, runs[r].delta)
        BY <1>2, <1>4, <2>1, <3>2 DEF IInv, TouchInv, OwnsOK, r
      <4>2. Touched(s)' = hand[w].created \cup Named(runs[r].before, runs[r].delta)
        BY <1>8, <1>11, <3>2 DEF Touched, Matched, Snapshot, Named
      <4> QED  BY <1>2, <4>1, <4>2
    <3>3. CASE s = r /\ hand[w].verb # "apply"
      <4>1. s \in strayed \/ <<s, i>> \in renamed \/ i = hand[w].subject
        BY <1>2, <1>4, <2>1, <3>3 DEF IInv, TouchInv, OwnsOK, r
      <4>2. hand[w].subject \in Touched(s)'
        BY <1>5, <1>8, <1>11, <3>3, RunsPlain DEF Touched, Matched
      <4> QED  BY <1>2, <4>1, <4>2
    <3> QED  BY <3>1, <3>2, <3>3
  <2>2. ASSUME NEW v \in Program
        PROVE  (ReachOK(hand[v], runs, renamed) /\ OwnsOK(hand[v], runs, renamed) /\ SnapOK(hand[v], runs))'
    <3>1. CASE v = w
      <4>1. hand'[v].stage = "idle"
        BY <1>10, <1>14, <3>1
      <4> QED  BY <4>1 DEF ReachOK, OwnsOK, SnapOK, Busied
    <3>2. CASE v # w
      <4>1. ReachOK(hand[v], runs', renamed') /\ OwnsOK(hand[v], runs', renamed') /\ SnapOK(hand[v], runs')
        BY <1>13, <3>2
      <4>2. hand'[v] = hand[v] /\ owner' = owner /\ strayed' = strayed /\ renamed' = renamed
        BY <1>2, <1>10, <3>2
      <4> QED  BY <4>1, <4>2 DEF OwnsOK, SnapOK
    <3> QED  BY <3>1, <3>2
  <2>3. \A x \in undone' : Excused(x, renamed')
    BY <1>2 DEF IInv, TouchInv
  <2> QED  BY <1>2, <2>1, <2>2, <2>3 DEF TouchInv
<1> QED  BY <1>16, <1>17, <1>18, <1>19, <1>20, <1>21, <1>22, <1>23, <1>24, <1>25 DEF IInv, DirInv

\* With the ledger gone, what still holds is what never was about numbers.
LEMMA TearsKeeps ==
    ASSUME IInv, Tears
    PROVE  IInv'
<1>1. /\ ledger' = 0 /\ torn' = TRUE
      /\ UNCHANGED <<store, runs, hand, given, saves, owner, strayed, undone, settled, readings, loose,
                     renamed>>
  BY DEF Tears
<1>2. 0 \in 0..MaxId
  BY LadderAssumption
<1>3. TypeInv'
  BY <1>1, <1>2 DEF IInv, TypeInv, FilesOK, HandsOK, HistoryOK
<1>4. DirInv'
  BY <1>1 DEF IInv, DirInv, DirsOK, HoldsOK, Apart, SavedOK
<1>5. IdInv' /\ EraInv' /\ KeepInv' /\ HandInv'
  BY <1>1 DEF IdInv, EraInv, KeepInv, HandInv
<1>6. LinkInv'
  BY <1>1 DEF IInv, LinkInv, Owned
<1>7. TouchInv'
  BY <1>1 DEF IInv, TouchInv, OwnsOK, SnapOK, Recorded, Touched, Matched, Snapshot
<1> QED  BY <1>3, <1>4, <1>5, <1>6, <1>7 DEF IInv

LEMMA NothingKeeps ==
    ASSUME IInv, UNCHANGED vars
    PROVE  IInv'
<1>1. UNCHANGED <<store, ledger, runs, hand, given, torn, saves, owner, strayed, undone, settled,
                  readings, loose, renamed>>
  BY DEF vars, history
<1>2. TypeInv'
  BY <1>1 DEF IInv, TypeInv, FilesOK, HandsOK, HistoryOK
<1>3. DirInv'
  BY <1>1 DEF IInv, DirInv, DirsOK, HoldsOK, Apart, SavedOK
<1>4. IdInv' /\ EraInv' /\ KeepInv' /\ HandInv'
  BY <1>1 DEF IInv, IdInv, NumbersOK, EraInv, KeepInv, SettledOK, ReadingsOK, HandInv
<1>5. LinkInv'
  BY <1>1 DEF IInv, LinkInv, Owned
<1>6. TouchInv'
  BY <1>1 DEF IInv, TouchInv, OwnsOK, SnapOK, Recorded, Touched, Matched, Snapshot
<1> QED  BY <1>2, <1>3, <1>4, <1>5, <1>6 DEF IInv

-----------------------------------------------------------------------------
(***************************************************************************)
(* A save.                                                                 *)
(***************************************************************************)
LEMMA CarriedKept ==
    ASSUME NEW j, CarryOK(j), Distinct(j.made), j.verb \notin {"none", "revert", "edit"},
           NEW m \in DOMAIN j.made, NEW n \in DOMAIN j.read, j.made[m].id = j.read[n].id
    PROVE  m = n /\ CarriedOver(j, n)
<1>1. CarriedOver(j, n) /\ n \in DOMAIN j.made
  BY DEF CarryOK
<1>2. j.made[n].id = j.read[n].id
  BY <1>1 DEF CarriedOver, Keeps
<1> QED  BY <1>1, <1>2 DEF Distinct

\* What a save does, in the terms of the invariant.
Lost(j) == RunsOver(j) \cup (IF j.verb \in {"revert", "edit"} THEN ChangedBy(j.made) ELSE {})

LEMMA SaveParts ==
    ASSUME IInv, NEW w \in Program, Saves(w), NEW j, j = hand[w]
    PROVE  /\ j \in Job /\ j.stage = "snapped" /\ j.verb \in Verb \cup {"revert"}
           /\ j.made \in Seq(Entry) /\ j.read \in Seq(Entry)
           /\ j.verb # "revert" => Busied(j) /\ j.run \in Runs
           /\ store' = j.made
           /\ hand' = [hand EXCEPT ![w] = IF j.verb = "revert" THEN Idle ELSE [j EXCEPT !.stage = "saved"]]
           /\ saves' = IF j.verb = "revert" THEN saves ELSE Append(saves, j.run)
           /\ owner' = [i \in FactId |->
                    IF At(j.read, i) # At(j.made, i) /\ j.verb # "revert" THEN j.run ELSE owner[i]]
           /\ settled' = [i \in FactId |->
                    IF j.verb = "resolve" /\ i = j.subject THEN j.account
                    ELSE IF i \in Lost(j) THEN Undecided ELSE settled[i]]
           /\ readings' = {x \in readings \ Displaced(j) : x[1] \notin Lost(j)}
                    \cup (IF j.verb = "apply"
                          THEN Told(j, runs[j.run].delta, ledger - Cardinality(j.created)) ELSE {})
           /\ UNCHANGED <<ledger, runs, given, torn, strayed, undone, renamed>>
<1>1. hand \in [Program -> Job]
  BY FilesGood
<1>2. HoldOK(w, j, runs) /\ j \in Job /\ j.stage = "snapped"
  BY <1>1 DEF IInv, DirInv, HoldsOK, Saves
<1>3. j.verb \in Verb \cup {"revert"} /\ (j.verb # "revert" => Busied(j) /\ j.run \in Runs)
  BY <1>2 DEF HoldOK, Busied
<1>4. j.made \in Seq(Entry) /\ j.read \in Seq(Entry)
  BY <1>2 DEF Job
<1>5. SavesHistory(j) /\ store' = j.made /\ UNCHANGED <<ledger, runs, given, torn, strayed, undone, renamed>>
  BY DEF Saves
<1>6. hand' = [hand EXCEPT ![w] = IF j.verb = "revert" THEN Idle ELSE [j EXCEPT !.stage = "saved"]]
  BY <1>1 DEF Saves
<1>7. /\ saves' = IF j.verb = "revert" THEN saves ELSE Append(saves, j.run)
      /\ owner' = [i \in FactId |->
                    IF At(j.read, i) # At(j.made, i) /\ j.verb # "revert" THEN j.run ELSE owner[i]]
  BY <1>5 DEF SavesHistory
<1>8. settled' = [i \in FactId |->
                    IF j.verb = "resolve" /\ i = j.subject THEN j.account
                    ELSE IF i \in Lost(j) THEN Undecided ELSE settled[i]]
  BY <1>5 DEF SavesHistory, Lost
<1>9. readings' = {x \in readings \ Displaced(j) : x[1] \notin Lost(j)}
                    \cup (IF j.verb = "apply"
                          THEN Told(j, runs[j.run].delta, ledger - Cardinality(j.created)) ELSE {})
  BY <1>5 DEF SavesHistory, Lost, Told
<1> QED  BY <1>2, <1>3, <1>4, <1>5, <1>6, <1>7, <1>8, <1>9

\* Keys a save leaves with a second live era are loose from then on.
LEMMA SavesEras ==
    ASSUME IInv, ~torn, NEW w \in Program, Saves(w)
    PROVE  loose \subseteq loose' /\ ErasIn(store', loose')
<1> DEFINE j == hand[w]
           made == j.made
           wrote == ChangedBy(made)
           over == RunsOver(j)
<1>1. store' = made /\ j \in Job /\ made \in Seq(Entry)
  BY SaveParts
<1>2. loose' = loose \cup {e.key : e \in {made[n] : n \in
                {m \in DOMAIN made : IsOpen(made[m]) /\ j.verb \in {"revert", "edit"}
                                           /\ made[m].id \in wrote}}}
                     \cup {made[Find(made, i)].key : i \in over \cap Ids(made)}
                     \cup {store[Find(store, i)].key : i \in over \cap Ids(store)}
  BY DEF Saves, SavesHistory
<1>3. JobSafe(j, loose, ledger)
  BY DEF IInv, HandInv
<1> HIDE DEF j, made, wrote, over
<1>4. Distinct(made) /\ ErasOK(j, loose)
  BY <1>3 DEF JobSafe, Fit, made
<1>5. ASSUME NEW m \in DOMAIN made, IsOpen(made[m]), j.verb \in {"revert", "edit"},
             ~InStore(j.read, made[m])
      PROVE  made[m].key \in loose'
  <2> DEFINE i == made[m].id
  <2>1. i \in FactId /\ i \in Ids(made)
    BY <1>1, IdsAreFacts DEF Ids
  <2>2. CASE i \in wrote
    BY <1>2, <1>5, <2>2
  <2>3. CASE i \notin wrote
    <3>1. At(store, i) = At(made, i)
      BY <2>1, <2>3 DEF wrote, ChangedBy
    <3>2. made[m] \in At(made, i)
      BY DEF At
    <3>3. made[m] \notin At(j.read, i)
      BY <1>5 DEF At, InStore
    <3>4. i \in over
      BY <2>1, <3>1, <3>2, <3>3 DEF over, RunsOver
    <3>5. Find(made, i) \in DOMAIN made /\ made[Find(made, i)].id = i
      BY <1>1, FoundById
    <3>6. Find(made, i) = m
      BY <1>4, <3>5 DEF Distinct
    <3>7. made[Find(made, i)].key \in loose'
      BY <1>2, <2>1, <3>4
    <3> QED  BY <3>6, <3>7
  <2> QED  BY <2>2, <2>3
<1>6. ASSUME NEW m \in DOMAIN made, NEW n \in DOMAIN made, m # n, Rivals(made[m], made[n])
      PROVE  made[m].key \in loose'
  <2>1. \/ made[m].key \in loose
        \/ /\ j.verb \in {"revert", "edit"}
           /\ ~InStore(j.read, made[m]) \/ ~InStore(j.read, made[n])
    BY <1>4, <1>6 DEF ErasOK, made
  <2>2. IsOpen(made[m]) /\ IsOpen(made[n]) /\ made[m].key = made[n].key
    BY <1>6 DEF Rivals
  <2> QED  BY <1>2, <1>5, <2>1, <2>2
<1> QED  BY <1>1, <1>2, <1>6 DEF ErasIn

\* An entry nobody changed behind the verb's back was read as it is.
LEMMA NotRunOver ==
    ASSUME store \in Seq(Entry), NEW j, NEW i \in FactId, i \notin RunsOver(j), i \in Ids(store)
    PROVE  \E n \in DOMAIN j.read : \E m \in DOMAIN store :
                j.read[n].id = i /\ store[m].id = i /\ j.read[n] = store[m]
<1>1. At(store, i) = At(j.read, i)
  BY DEF RunsOver
<1>2. PICK m \in DOMAIN store : store[m].id = i
  BY DEF Ids
<1>3. store[m] \in At(j.read, i)
  BY <1>1, <1>2 DEF At
<1>4. PICK n \in DOMAIN j.read : j.read[n] = store[m]
  BY <1>3 DEF At
<1> QED  BY <1>2, <1>4

\* What a revert or an edit leaves alone is in the store it makes as it was.
LEMMA LeftAlone ==
    ASSUME NEW made, NEW i \in FactId, i \notin ChangedBy(made), i \in Ids(store)
    PROVE  /\ i \in Ids(made)
           /\ \A m \in DOMAIN made : made[m].id = i =>
                \E n \in DOMAIN store : store[n].id = i /\ store[n] = made[m]
<1>1. At(store, i) = At(made, i)
  BY DEF ChangedBy
<1>2. i \in Ids(made)
  BY <1>1, AtNone
<1>3. ASSUME NEW m \in DOMAIN made, made[m].id = i
      PROVE  \E n \in DOMAIN store : store[n].id = i /\ store[n] = made[m]
  <2>1. PICK n \in DOMAIN store : store[n] = made[m]
    BY <1>1, <1>3, AtSame
  <2> QED  BY <1>3, <2>1
<1> QED  BY <1>2, <1>3

LEMMA SavesSettled ==
    ASSUME IInv, ~torn, NEW w \in Program, Saves(w)
    PROVE  SettledOK'
<1> DEFINE j == hand[w]
           made == j.made
<1>1. /\ store' = made /\ made \in Seq(Entry) /\ j \in Job /\ store \in Seq(Entry)
      /\ j.verb \in Verb \cup {"revert"}
      /\ settled' = [i \in FactId |->
                    IF j.verb = "resolve" /\ i = j.subject THEN j.account
                    ELSE IF i \in Lost(j) THEN Undecided ELSE settled[i]]
  BY SaveParts, FilesGood
<1>2. JobSafe(j, loose, ledger) /\ SettledOK /\ settled \in [FactId -> Account \cup {Undecided}]
  BY DEF IInv, HandInv, KeepInv, TypeInv, HistoryOK
<1> HIDE DEF j, made
<1>3. Distinct(made) /\ CarryOK(j)
  BY <1>2 DEF JobSafe, Fit, made
<1> SUFFICES ASSUME NEW i \in FactId, settled'[i] # Undecided
             PROVE  i \in Ids(made) /\ \A m \in DOMAIN made : made[m].id = i => Stands(made[m], settled'[i])
  BY <1>1 DEF SettledOK
<1>4. CASE j.verb = "resolve" /\ i = j.subject
  <2>1. settled'[i] = j.account
    BY <1>1, <1>4
  <2>2. PICK n \in DOMAIN j.read : j.read[n].id = i
    BY <1>3, <1>4 DEF CarryOK
  <2>3. CarriedOver(j, n) /\ n \in DOMAIN made
    BY <1>3, <1>4 DEF CarryOK, made
  <2>4. made[n].id = i /\ Stands(made[n], j.account)
    BY <1>4, <2>2, <2>3 DEF CarriedOver, made
  <2>5. \A m \in DOMAIN made : made[m].id = i => m = n
    BY <1>3, <2>3, <2>4 DEF Distinct
  <2> QED  BY <2>1, <2>3, <2>4, <2>5 DEF Ids
<1>5. CASE ~(j.verb = "resolve" /\ i = j.subject)
  <2>1. i \notin Lost(j) /\ settled'[i] = settled[i] /\ settled[i] # Undecided
    BY <1>1, <1>5
  <2>2. i \in Ids(store) /\ \A n \in DOMAIN store : store[n].id = i => Stands(store[n], settled[i])
    BY <1>2, <2>1 DEF SettledOK
  <2>3. CASE j.verb \in {"revert", "edit"}
    <3>1. i \notin ChangedBy(made)
      BY <2>1, <2>3 DEF Lost, made
    <3> QED  BY <2>1, <2>2, <3>1, LeftAlone
  <2>4. CASE j.verb \notin {"revert", "edit"}
    <3>1. j.verb \notin {"none", "revert", "edit"}
      BY <1>1, <2>4 DEF Verb
    <3>2. i \notin RunsOver(j)
      BY <2>1 DEF Lost
    <3>3. PICK n \in DOMAIN j.read : j.read[n].id = i /\ Stands(j.read[n], settled[i])
      BY <1>1, <2>2, <3>2, NotRunOver
    <3>4. CarriedOver(j, n) /\ n \in DOMAIN made
      BY <1>3, <3>1 DEF CarryOK, made
    <3>5. Keeps(j.read[n], made[n])
      BY <1>5, <3>3, <3>4 DEF CarriedOver, made
    <3>6. settled[i] \in Account /\ settled[i].value # None
      <4>1. settled[i] \in Account
        BY <1>2, <2>1
      <4>2. settled[i].value \in Values
        BY <4>1 DEF Account
      <4> QED  BY <4>1, <4>2, LadderAssumption
    <3>7. made[n].id = i /\ Stands(made[n], settled[i])
      BY <3>3, <3>5, <3>6 DEF Keeps, Stands
    <3>8. \A m \in DOMAIN made : made[m].id = i => m = n
      BY <1>3, <3>4, <3>7 DEF Distinct
    <3> QED  BY <2>1, <3>4, <3>7, <3>8 DEF Ids
  <2> QED  BY <2>3, <2>4
<1> QED  BY <1>4, <1>5

LEMMA SavesReadings ==
    ASSUME IInv, ~torn, NEW w \in Program, Saves(w)
    PROVE  ReadingsOK'
<1> DEFINE j == hand[w]
           made == j.made
           delta == runs[j.run].delta
           last == ledger - Cardinality(j.created)
<1>1. /\ store' = made /\ made \in Seq(Entry) /\ j \in Job /\ store \in Seq(Entry)
      /\ j.verb \in Verb \cup {"revert"} /\ j.stage = "snapped"
      /\ j.verb # "revert" => Busied(j)
      /\ readings' = {x \in readings \ Displaced(j) : x[1] \notin Lost(j)}
                    \cup (IF j.verb = "apply" THEN Told(j, delta, last) ELSE {})
  BY SaveParts, FilesGood
<1>2. JobSafe(j, loose, ledger) /\ ReadingsOK /\ ToldOK(j, runs, ledger) /\ HoldOK(w, j, runs)
  BY DEF IInv, HandInv, KeepInv, DirInv, HoldsOK
<1> HIDE DEF j, made
<1>3. Distinct(made) /\ CarryOK(j)
  BY <1>2 DEF JobSafe, Fit, made
<1>4. \A m \in DOMAIN made : made[m].id \in FactId
  BY <1>1, IdsAreFacts
<1> SUFFICES ASSUME NEW x \in readings'
             PROVE  /\ x \in FactId \X Values /\ x[1] \in Ids(made)
                    /\ \A m \in DOMAIN made : made[m].id = x[1] => Says(made[m], x[2])
  BY <1>1 DEF ReadingsOK
<1>5. CASE x \in readings /\ x \notin Displaced(j) /\ x[1] \notin Lost(j)
  <2> DEFINE i == x[1]
             v == x[2]
  <2>1. /\ x \in FactId \X Values /\ i \in Ids(store)
        /\ \A n \in DOMAIN store : store[n].id = i => Says(store[n], v)
    BY <1>2, <1>5 DEF ReadingsOK
  <2>2. i \in FactId /\ v \in Values /\ x = <<i, v>> /\ v # None
    BY <2>1, LadderAssumption
  <2> HIDE DEF i, v
  <2>3. CASE j.verb \in {"revert", "edit"}
    <3>1. i \notin ChangedBy(made)
      BY <1>5, <2>3 DEF Lost, made, i
    <3>2. i \in Ids(made) /\ \A m \in DOMAIN made : made[m].id = i => Says(made[m], v)
      BY <2>1, <2>2, <3>1, LeftAlone
    <3> QED  BY <2>1, <3>2 DEF i, v
  <2>4. CASE j.verb \notin {"revert", "edit"}
    <3>1. j.verb \notin {"none", "revert", "edit"}
      BY <1>1, <2>4 DEF Verb
    <3>2. i \notin RunsOver(j)
      BY <1>5 DEF Lost, i
    <3>3. PICK n \in DOMAIN j.read : j.read[n].id = i /\ Says(j.read[n], v)
      BY <1>1, <2>1, <2>2, <3>2, NotRunOver
    <3>4. CarriedOver(j, n) /\ n \in DOMAIN made
      BY <1>3, <3>1 DEF CarryOK, made
    <3>5. CASE ~(j.verb = "resolve" /\ i = j.subject)
      <4>1. Keeps(j.read[n], made[n])
        BY <3>3, <3>4, <3>5 DEF CarriedOver, made
      <4>2. made[n].id = i /\ Says(made[n], v)
        BY <2>2, <3>3, <4>1 DEF Keeps, Says
      <4>3. \A m \in DOMAIN made : made[m].id = i => m = n
        BY <1>3, <3>4, <4>2 DEF Distinct
      <4>4. i \in Ids(made) /\ \A m \in DOMAIN made : made[m].id = i => Says(made[m], v)
        BY <3>4, <4>2, <4>3 DEF Ids
      <4> QED  BY <2>1, <4>4 DEF i, v
    <3>6. ASSUME j.verb = "resolve" /\ i = j.subject
          PROVE  i \in Ids(made) /\ \A m \in DOMAIN made : made[m].id = i => Says(made[m], v)
      <4>1. <<j.subject, v>> \notin Displaced(j)
        BY <1>5, <2>2, <3>6
      <4>2. made[n].id = i /\ Says(made[n], v)
        BY <2>2, <3>3, <3>4, <3>6, <4>1 DEF CarriedOver, made
      <4>3. \A m \in DOMAIN made : made[m].id = i => m = n
        BY <1>3, <3>4, <4>2 DEF Distinct
      <4> QED  BY <3>4, <4>2, <4>3 DEF Ids
    <3> QED  BY <2>1, <3>5, <3>6 DEF i, v
  <2> QED  BY <2>3, <2>4
<1>6. CASE j.verb = "apply" /\ x \in Told(j, delta, last)
  <2>1. Tells(j, delta, last)
    BY <1>1, <1>2, <1>6 DEF ToldOK
  <2>2. PICK n \in DOMAIN made : made[n].id = x[1] /\ Says(made[n], x[2])
    BY <1>6, <2>1 DEF Tells, made
  <2>3. delta \in Deltas
    BY <1>1, <1>2, <1>6 DEF HoldOK
  <2>4. DeltaOK(delta)
    BY <2>3, DeltasOK
  <2>5. x \in FactId \X Values
    <3> DEFINE plan == Plan(j.read, delta, last)
    <3>1. plan.live = Live(j.read, delta)
      BY DEF Plan
    <3> HIDE DEF plan, delta, last
    <3>2. PICK k \in plan.live : delta[k].value # None /\ x = <<plan.id[k], delta[k].value>>
      BY <1>6 DEF Told, plan
    <3>3. k \in DOMAIN delta /\ delta[k] \in Reading
      BY <2>4, <3>1, LiveSettles DEF DeltaOK
    <3>4. delta[k].value \in Values
      BY <3>2, <3>3, ReadingParts
    <3>5. plan.id[k] = x[1] /\ x[1] \in FactId
      BY <1>4, <2>2, <3>2
    <3> QED  BY <3>2, <3>4, <3>5
  <2>6. \A m \in DOMAIN made : made[m].id = x[1] => m = n
    BY <1>3, <2>2 DEF Distinct
  <2> QED  BY <2>2, <2>5, <2>6 DEF Ids
<1> QED  BY <1>1, <1>5, <1>6

LEMMA EveryIdOwned ==
    ASSUME IInv, NEW w \in Program, Saves(w)
    PROVE  /\ Owned \subseteq Owned' /\ Coming(hand[w]) \subseteq Owned'
           /\ owner' \in [FactId -> Runs \cup {NoRun}]
<1> DEFINE j == hand[w]
<1>1. /\ j.verb # "revert" => j.run \in Runs
      /\ owner' = [i \in FactId |->
                    IF At(j.read, i) # At(j.made, i) /\ j.verb # "revert" THEN j.run ELSE owner[i]]
  BY SaveParts
<1>2. owner \in [FactId -> Runs \cup {NoRun}]
  BY DEF IInv, TypeInv, HistoryOK
<1> HIDE DEF j
<1>3. \A i \in Owned : owner'[i] # NoRun
  BY <1>1, RunsPlain DEF Owned
<1>4. \A i \in Coming(j) : owner'[i] # NoRun
  BY <1>1, RunsPlain DEF Coming
<1> QED  BY <1>1, <1>2, <1>3, <1>4 DEF Owned, Coming, j

LEMMA WithinMore ==
    ASSUME NEW st, NEW R, NEW S, R \subseteq S, LinkedIn(st, R)
    PROVE  LinkedIn(st, S)
BY DEF LinkedIn, Within

LEMMA SavesTypes ==
    ASSUME IInv, NEW w \in Program, Saves(w)
    PROVE  TypeInv' /\ DirInv'
<1> DEFINE j == hand[w]
           k == IF j.verb = "revert" THEN Idle ELSE [j EXCEPT !.stage = "saved"]
<1>1. /\ j \in Job /\ j.stage = "snapped" /\ j.verb \in Verb \cup {"revert"}
      /\ j.made \in Seq(Entry)
      /\ j.verb # "revert" => Busied(j) /\ j.run \in Runs
      /\ store' = j.made /\ hand' = [hand EXCEPT ![w] = k]
      /\ saves' = IF j.verb = "revert" THEN saves ELSE Append(saves, j.run)
      /\ owner' = [i \in FactId |->
                    IF At(j.read, i) # At(j.made, i) /\ j.verb # "revert" THEN j.run ELSE owner[i]]
      /\ settled' = [i \in FactId |->
                    IF j.verb = "resolve" /\ i = j.subject THEN j.account
                    ELSE IF i \in Lost(j) THEN Undecided ELSE settled[i]]
      /\ UNCHANGED <<ledger, runs, given, torn, strayed, undone, renamed>>
  BY SaveParts
<1>2. hand \in [Program -> Job] /\ saves \in Seq(Runs) /\ settled \in [FactId -> Account \cup {Undecided}]
  BY DEF IInv, TypeInv, HandsOK, HistoryOK
<1>3. HoldOK(w, j, runs) /\ SavedOK /\ Apart
  BY DEF IInv, DirInv, HoldsOK
<1>4. /\ j.verb = "revert" => k = Idle
      /\ j.verb # "revert" =>
            /\ k \in Job /\ k.stage = "saved" /\ k.verb = j.verb /\ k.run = j.run /\ k.made = j.made
            /\ k.read = j.read /\ k.created = j.created /\ k.subject = j.subject
  BY <1>1 DEF Job
<1>5. hand'[w] = k /\ \A v \in Program : v # w => hand'[v] = hand[v]
  BY <1>1, <1>2
<1>6. \A m \in DOMAIN saves : j.verb # "revert" => saves[m] # j.run
  BY <1>1, <1>3 DEF SavedOK
<1>7. Idle \in Job /\ Idle.stage = "idle" /\ ~Busied(Idle) /\ Idle.verb = "none"
  BY IdleOK, LadderAssumption DEF Idle
<1>8. runs' = runs
  BY <1>1
<1> HIDE DEF j, k
<1>9. TypeInv'
  <2>1. FilesOK'
    BY <1>1 DEF IInv, TypeInv, FilesOK
  <2>2. HandsOK'
    BY <1>1, <1>2, <1>4, <1>7 DEF HandsOK
  <2>3. saves' \in Seq(Runs)
    BY <1>1, <1>2
  <2>4. settled' \in [FactId -> Account \cup {Undecided}]
    <3>1. j.account \in Account \cup {Undecided}
      BY <1>1 DEF Job
    <3> QED  BY <1>1, <1>2, <3>1
  <2>5. owner' \in [FactId -> Runs \cup {NoRun}]
    BY EveryIdOwned
  <2>6. HistoryOK'
    BY <1>1, <2>3, <2>4, <2>5 DEF IInv, TypeInv, HistoryOK
  <2> QED  BY <2>1, <2>2, <2>6 DEF TypeInv
<1>10. DirsOK'
  BY <1>8 DEF IInv, DirInv, DirsOK
<1>11. HoldsOK'
  <2>1. HoldOK(w, k, runs)
    BY <1>1, <1>3, <1>4, <1>7 DEF HoldOK, Busied
  <2> QED  BY <1>5, <1>8, <2>1 DEF HoldsOK, IInv, DirInv
<1>12. Apart'
  <2>1. \A v \in Program : Busied(hand'[v]) => Busied(hand[v]) /\ hand'[v].run = hand[v].run
    BY <1>1, <1>4, <1>5, <1>7 DEF j
  <2>2. "service" \in Program /\ "pipeline" \in Program
    BY DEF Program
  <2> QED  BY <1>3, <2>1, <2>2 DEF Apart
<1>13. SavedOK'
  <2>1. CASE j.verb = "revert"
    <3>1. saves' = saves /\ owner' = owner
      <4>1. owner' = [i \in FactId |-> owner[i]] /\ owner \in [FactId -> Runs \cup {NoRun}]
        BY <1>1, <2>1 DEF IInv, TypeInv, HistoryOK
      <4> QED  BY <1>1, <2>1, <4>1
    <3>2. \A v \in Program : Busied(hand'[v]) => hand'[v] = hand[v]
      BY <1>4, <1>5, <1>7, <2>1
    <3> QED  BY <1>3, <1>8, <3>1, <3>2 DEF SavedOK
  <2>2. CASE j.verb # "revert"
    <3>1. /\ DOMAIN saves' = 1..(Len(saves) + 1) /\ DOMAIN saves = 1..Len(saves) /\ Len(saves) \in Nat
          /\ saves'[Len(saves) + 1] = j.run /\ \A m \in DOMAIN saves : saves'[m] = saves[m]
      BY <1>1, <1>2, <2>2
    <3>2. \A m \in DOMAIN saves' : m \in DOMAIN saves \/ m = Len(saves) + 1
      BY <3>1
    <3>3. \A m, n \in DOMAIN saves' : saves'[m] = saves'[n] => m = n
      <4> SUFFICES ASSUME NEW m \in DOMAIN saves', NEW n \in DOMAIN saves', saves'[m] = saves'[n]
                   PROVE  m = n
        OBVIOUS
      <4>1. m \in DOMAIN saves /\ n \in DOMAIN saves => m = n
        BY <1>3, <3>1 DEF SavedOK
      <4> QED  BY <1>6, <2>2, <3>1, <3>2, <4>1
    <3>4. runs[j.run].verb # "free" /\ runs[j.run].snapped
      BY <1>1, <1>3, <2>2 DEF HoldOK, Verb
    <3>5. \A m \in DOMAIN saves' : runs[saves'[m]].verb # "free" /\ runs[saves'[m]].snapped
      BY <1>3, <3>1, <3>2, <3>4 DEF SavedOK
    <3>6. ASSUME NEW v \in Program, Busied(hand'[v]), hand'[v].stage # "saved", NEW m \in DOMAIN saves'
          PROVE  saves'[m] # hand'[v].run
      <4>1. v # w /\ hand'[v] = hand[v]
        BY <1>4, <1>5, <2>2, <3>6
      <4>2. hand[v].run # j.run
        BY <1>1, <2>2, <3>6, <4>1, OthersRun DEF IInv, j
      <4>3. \A n \in DOMAIN saves : saves[n] # hand[v].run
        BY <1>3, <3>6, <4>1 DEF SavedOK
      <4> QED  BY <3>1, <3>2, <4>1, <4>2, <4>3
    <3>7. ASSUME NEW i \in FactId, owner'[i] # NoRun PROVE \E m \in DOMAIN saves' : saves'[m] = owner'[i]
      <4>1. CASE owner'[i] = j.run
        <5>1. Len(saves) + 1 \in DOMAIN saves'
          BY <3>1
        <5> QED  BY <3>1, <4>1, <5>1
      <4>2. CASE owner'[i] # j.run
        <5>1. owner'[i] = owner[i]
          BY <1>1, <4>2
        <5>2. PICK m \in DOMAIN saves : saves[m] = owner[i]
          BY <1>3, <3>7, <5>1 DEF SavedOK
        <5>3. m \in DOMAIN saves'
          BY <3>1
        <5> QED  BY <3>1, <5>1, <5>2, <5>3
      <4> QED  BY <4>1, <4>2
    <3> QED  BY <1>8, <3>3, <3>5, <3>6, <3>7 DEF SavedOK
  <2> QED  BY <2>1, <2>2
<1> QED  BY <1>9, <1>10, <1>11, <1>12, <1>13 DEF DirInv

\* The hands and the links after a save.
LEMMA SavesHands ==
    ASSUME IInv, ~torn, NEW w \in Program, Saves(w)
    PROVE  HandInv'
<1> DEFINE j == hand[w]
           k == IF j.verb = "revert" THEN Idle ELSE [j EXCEPT !.stage = "saved"]
<1>1. /\ j \in Job /\ hand' = [hand EXCEPT ![w] = k]
      /\ UNCHANGED <<ledger, runs, torn>>
  BY SaveParts
<1>2. hand \in [Program -> Job]
  BY FilesGood
<1>3. \A v \in Program : JobSafe(hand[v], loose, ledger) /\ ToldOK(hand[v], runs, ledger)
  BY DEF IInv, HandInv
<1>4. hand'[w] = k /\ \A v \in Program : v # w => hand'[v] = hand[v]
  BY <1>1, <1>2
<1>5. loose \subseteq loose'
  BY SavesEras
<1>6. /\ j.verb = "revert" => k = Idle
      /\ j.verb # "revert" =>
            /\ k.stage = "saved" /\ k.verb = j.verb /\ k.made = j.made /\ k.read = j.read
            /\ k.subject = j.subject /\ k.account = j.account
  BY <1>1 DEF Job
<1>7. Idle.verb = "none" /\ \A keys, last : JobSafe(Idle, keys, last)
  BY IdleOK, LadderAssumption DEF Idle
<1>8. JobSafe(j, loose, ledger)
  BY <1>3
<1> HIDE DEF j, k
<1>9. JobSafe(k, loose, ledger) /\ ToldOK(k, runs, ledger)
  <2>1. CASE j.verb = "revert"
    BY <1>6, <1>7, <2>1 DEF ToldOK
  <2>2. CASE j.verb # "revert"
    BY <1>6, <1>8, <2>2 DEF JobSafe, ErasOK, CarryOK, CarriedOver, Displaced, ToldOK
  <2> QED  BY <2>1, <2>2
<1>10. \A v \in Program : JobSafe(hand'[v], loose, ledger) /\ ToldOK(hand'[v], runs, ledger)
  BY <1>3, <1>4, <1>9
<1>11. \A v \in Program : JobSafe(hand'[v], loose', ledger)
  BY <1>5, <1>10 DEF JobSafe, ErasOK
<1> QED  BY <1>1, <1>10, <1>11 DEF HandInv

LEMMA SavesLinks ==
    ASSUME IInv, NEW w \in Program, Saves(w)
    PROVE  LinkInv'
<1> DEFINE j == hand[w]
           k == IF j.verb = "revert" THEN Idle ELSE [j EXCEPT !.stage = "saved"]
<1>1. /\ j \in Job /\ store' = j.made /\ hand' = [hand EXCEPT ![w] = k] /\ runs' = runs
  BY SaveParts
<1>2. hand \in [Program -> Job]
  BY FilesGood
<1>3. hand'[w] = k /\ \A v \in Program : v # w => hand'[v] = hand[v]
  BY <1>1, <1>2
<1>4. Owned \subseteq Owned' /\ Coming(j) \subseteq Owned'
  BY EveryIdOwned
<1>5. \A v \in Program : JobLinked(hand[v], Owned)
  BY DEF IInv, LinkInv
<1>6. /\ j.verb = "revert" => k = Idle
      /\ j.verb # "revert" => k.verb = j.verb /\ k.made = j.made /\ k.read = j.read
  BY <1>1 DEF Job
<1>7. JobLinked(Idle, Owned)
  BY IdleOK, LadderAssumption
<1>8. JobLinked(j, Owned)
  BY <1>5
<1> HIDE DEF j, k
<1>9. JobLinked(k, Owned)
  BY <1>6, <1>7, <1>8 DEF JobLinked, Coming
<1>10. \A v \in Program : JobLinked(hand'[v], Owned)
  BY <1>3, <1>5, <1>9
<1>11. \A v \in Program : JobLinked(hand'[v], Owned')
  <2> SUFFICES ASSUME NEW v \in Program PROVE JobLinked(hand'[v], Owned')
    OBVIOUS
  <2>1. LinkedIn(hand'[v].made, Owned \cup Coming(hand'[v]))
    BY <1>10 DEF JobLinked
  <2>2. Owned \cup Coming(hand'[v]) \subseteq Owned' \cup Coming(hand'[v])
    BY <1>4
  <2> QED  BY <2>1, <2>2, WithinMore DEF JobLinked
<1>12. LinkedIn(store', Owned')
  <2>1. LinkedIn(j.made, Owned \cup Coming(j)) /\ Owned \cup Coming(j) \subseteq Owned'
    BY <1>4, <1>8 DEF JobLinked
  <2> QED  BY <1>1, <2>1, WithinMore
<1>13. \A r \in Runs : LinkedIn(runs[r].before, Owned')
  <2>1. \A r \in Runs : LinkedIn(runs[r].before, Owned)
    BY FilesGood
  <2> QED  BY <1>4, <2>1, WithinMore
<1> QED  BY <1>1, <1>11, <1>12, <1>13 DEF LinkInv

\* What a save makes a run's own, its record will say.
LEMMA SavesTouch ==
    ASSUME IInv, NEW w \in Program, Saves(w)
    PROVE  TouchInv'
<1> DEFINE j == hand[w]
           k == IF j.verb = "revert" THEN Idle ELSE [j EXCEPT !.stage = "saved"]
<1>1. /\ j \in Job /\ j.stage = "snapped"
      /\ j.verb # "revert" => Busied(j) /\ j.run \in Runs
      /\ hand' = [hand EXCEPT ![w] = k]
      /\ owner' = [i \in FactId |->
                    IF At(j.read, i) # At(j.made, i) /\ j.verb # "revert" THEN j.run ELSE owner[i]]
      /\ UNCHANGED <<runs, strayed, undone, renamed>>
  BY SaveParts
<1>2. hand \in [Program -> Job]
  BY FilesGood
<1>3. hand'[w] = k /\ \A v \in Program : v # w => hand'[v] = hand[v]
  BY <1>1, <1>2
<1>4. /\ j.verb = "revert" => k = Idle
      /\ j.verb # "revert" =>
            /\ k.stage = "saved" /\ k.verb = j.verb /\ k.run = j.run /\ k.made = j.made
            /\ k.read = j.read /\ k.created = j.created /\ k.subject = j.subject
  BY <1>1 DEF Job
<1>5. /\ HoldOK(w, j, runs) /\ ReachOK(j, runs, renamed) /\ SnapOK(j, runs)
  BY DEF IInv, DirInv, HoldsOK, TouchInv
<1>6. j.verb # "revert" => \A i \in FactId : owner[i] # j.run
  <2>1. SavedOK /\ (j.verb # "revert" => \A n \in DOMAIN saves : saves[n] # j.run)
    BY <1>1 DEF IInv, DirInv, SavedOK
  <2>2. j.verb # "revert" => j.run # NoRun
    BY <1>1, RunsPlain
  <2> QED  BY <2>1, <2>2 DEF SavedOK
<1>7. ~Busied(Idle)
  BY IdleOK, LadderAssumption
<1>8. \A v \in Program : v # w /\ Busied(hand[v]) /\ j.verb # "revert" => hand[v].run # j.run
  BY <1>1, OthersRun DEF IInv
<1> HIDE DEF j, k
<1>9. \A i \in FactId : owner'[i] = IF At(j.read, i) # At(j.made, i) /\ j.verb # "revert" THEN j.run ELSE owner[i]
  BY <1>1
<1>10. ASSUME NEW s \in Runs, NEW i \in FactId, owner'[i] = s, Recorded(s)'
       PROVE  s \in strayed' \/ i \in Touched(s)' \/ <<s, i>> \in renamed'
  <2>1. Recorded(s) /\ Touched(s)' = Touched(s)
    BY <1>1, <1>10, TouchedSame
  <2>2. owner[i] = s
    <3>1. CASE owner'[i] = owner[i]
      BY <1>10, <3>1
    <3>2. CASE j.verb # "revert" /\ s = j.run
      <4>1. ~Recorded(s)
        BY <1>1, <1>5, <3>2 DEF HoldOK, Recorded
      <4> QED  BY <2>1, <4>1
    <3> QED  BY <1>9, <1>10, <3>1, <3>2
  <2> QED  BY <1>1, <2>1, <2>2 DEF IInv, TouchInv
<1>11. ASSUME NEW v \in Program
       PROVE  (ReachOK(hand[v], runs, renamed) /\ OwnsOK(hand[v], runs, renamed) /\ SnapOK(hand[v], runs))'
  <2>1. CASE v = w /\ j.verb = "revert"
    <3>1. ~Busied(hand'[v])
      BY <1>3, <1>4, <1>7, <2>1
    <3> QED  BY <3>1 DEF ReachOK, OwnsOK, SnapOK
  <2>2. CASE v = w /\ j.verb # "revert"
    <3>1. Busied(j) /\ runs' = runs /\ strayed' = strayed /\ renamed' = renamed /\ hand'[v] = k
      BY <1>1, <1>3, <2>2
    <3>2. ReachOK(k, runs, renamed)
      BY <1>4, <1>5, <2>2, <3>1 DEF ReachOK
    <3>3. k.verb = "apply" => k.run \in strayed \/ runs[k.run].before = k.read
      BY <1>1, <1>4, <1>5, <2>2, <3>1 DEF SnapOK
    <3>4. ASSUME NEW i \in FactId, owner'[i] = k.run
          PROVE  \/ k.run \in strayed \/ <<k.run, i>> \in renamed
                 \/ k.verb = "apply" /\ i \in k.created \cup Named(runs[k.run].before, runs[k.run].delta)
                 \/ k.verb # "apply" /\ i = k.subject
      <4>1. At(k.read, i) # At(k.made, i)
        BY <1>4, <1>6, <1>9, <2>2, <3>4
      <4>2. Busied(k)
        BY <1>4, <2>2 DEF Busied
      <4>3. \/ <<k.run, i>> \in renamed
            \/ k.verb = "apply" /\ i \in k.created \cup Named(k.read, runs[k.run].delta)
            \/ k.verb # "apply" /\ i = k.subject
        BY <3>2, <4>1, <4>2 DEF ReachOK
      <4> QED  BY <3>3, <4>3
    <3>5. OwnsOK(hand[v], runs, renamed)'
      BY <3>1, <3>4 DEF OwnsOK
    <3>6. SnapOK(hand[v], runs)'
      BY <3>1, <3>3 DEF SnapOK
    <3> QED  BY <3>1, <3>2, <3>5, <3>6
  <2>3. CASE v # w
    <3>1. ReachOK(hand[v], runs, renamed) /\ OwnsOK(hand[v], runs, renamed) /\ SnapOK(hand[v], runs)
      BY DEF IInv, TouchInv
    <3>2. runs' = runs /\ strayed' = strayed /\ renamed' = renamed /\ hand'[v] = hand[v]
      BY <1>1, <1>3, <2>3
    <3>3. Busied(hand[v]) => \A i \in FactId : owner'[i] = hand[v].run => owner[i] = hand[v].run
      BY <1>8, <1>9, <2>3
    <3> QED  BY <3>1, <3>2, <3>3 DEF OwnsOK, SnapOK
  <2> QED  BY <2>1, <2>2, <2>3
<1>12. \A x \in undone' : Excused(x, renamed')
  BY <1>1 DEF IInv, TouchInv
<1> QED  BY <1>10, <1>11, <1>12 DEF TouchInv

LEMMA SavesKeeps ==
    ASSUME IInv, NEW w \in Program, Saves(w)
    PROVE  IInv'
<1>1. TypeInv' /\ DirInv' /\ LinkInv' /\ TouchInv'
  BY SavesTypes, SavesLinks, SavesTouch
<1>2. store' = hand[w].made /\ UNCHANGED <<ledger, runs, given, torn>>
  BY SaveParts
<1>3. CASE torn
  BY <1>1, <1>2, <1>3 DEF IInv, IdInv, EraInv, KeepInv, HandInv
<1>4. CASE ~torn
  <2>1. HandInv' /\ ErasIn(store', loose') /\ SettledOK' /\ ReadingsOK'
    BY <1>4, SavesHands, SavesEras, SavesSettled, SavesReadings
  <2>2. Fit(hand[w].made, ledger)
    BY <1>4 DEF IInv, HandInv, JobSafe
  <2>3. IdInv'
    BY <1>2, <2>2 DEF IInv, IdInv, NumbersOK
  <2> QED  BY <1>1, <2>1, <2>3 DEF IInv, EraInv, KeepInv
<1> QED  BY <1>3, <1>4

-----------------------------------------------------------------------------
(***************************************************************************)
(* The invariant, and what it says.                                        *)
(***************************************************************************)
LEMMA InitHolds ==
    ASSUME LadderAssumption, Init
    PROVE  IInv
<1>1. /\ store = <<>> /\ ledger = 0 /\ torn = FALSE /\ saves = <<>> /\ strayed = {} /\ undone = {}
      /\ runs = [r \in Runs |-> Free] /\ hand = [w \in Program |-> Idle]
      /\ given = [i \in FactId |-> 0] /\ owner = [i \in FactId |-> NoRun]
      /\ settled = [i \in FactId |-> Undecided] /\ readings = {}
  BY DEF Init
<1>2. /\ Idle \in Job /\ Idle.stage = "idle" /\ ~Busied(Idle) /\ JobSafe(Idle, loose, ledger)
      /\ Idle.verb = "none"
  BY IdleOK DEF Idle
<1>3. JobLinked(Idle, Owned)
  BY IdleOK
<1>4. \A w \in Program : hand[w] = Idle
  BY <1>1
<1>5. \A r \in Runs : runs[r] = Free
  BY <1>1
<1>6. Free \in RunDir /\ Free.before = <<>> /\ Free.args = NoId /\ ~Free.mapped /\ ~Free.snapped
  BY DEF Free, RunDir
<1>7. \A i \in FactId : owner[i] = NoRun /\ given[i] = 0 /\ settled[i] = Undecided
  BY <1>1
<1>8. TypeInv
  <2>1. 0 \in 0..MaxId
    BY LadderAssumption
  <2>2. FilesOK
    BY <1>1, <1>6, <2>1 DEF FilesOK
  <2>3. HandsOK
    BY <1>1, <1>2 DEF HandsOK
  <2>4. given \in [FactId -> Nat] /\ owner \in [FactId -> Runs \cup {NoRun}]
    BY <1>1
  <2>5. settled \in [FactId -> Account \cup {Undecided}]
    BY <1>1
  <2>6. saves \in Seq(Runs)
    BY <1>1
  <2>7. torn \in BOOLEAN
    BY <1>1, Zenon
  <2>8. HistoryOK
    BY <1>1, <2>4, <2>5, <2>6, <2>7 DEF HistoryOK
  <2> QED  BY <2>2, <2>3, <2>8 DEF TypeInv
<1>9. DirInv
  <2>1. DirsOK
    BY <1>5, <1>6 DEF DirsOK, DirOK, Free
  <2>2. HoldsOK
    BY <1>2, <1>4 DEF HoldsOK, HoldOK
  <2>3. Apart
    BY <1>2, <1>4 DEF Apart, Program
  <2>4. SavedOK
    BY <1>1, <1>2, <1>4, <1>7 DEF SavedOK
  <2> QED  BY <2>1, <2>2, <2>3, <2>4 DEF DirInv
<1>10. IdInv
  BY <1>1, <1>5, <1>6, <1>7 DEF IdInv, NumbersOK, Fit, Distinct, IdsUpTo
<1>11. EraInv /\ KeepInv
  BY <1>1, <1>7 DEF EraInv, ErasIn, KeepInv, SettledOK, ReadingsOK
<1>12. HandInv
  BY <1>2, <1>4 DEF HandInv, ToldOK
<1>13. LinkInv
  BY <1>1, <1>3, <1>4, <1>5, <1>6 DEF LinkInv, LinkedIn
<1>14. TouchInv
  BY <1>1, <1>2, <1>4, <1>7, RunsPlain DEF TouchInv, ReachOK, OwnsOK, SnapOK
<1> QED  BY <1>8, <1>9, <1>10, <1>11, <1>12, <1>13, <1>14 DEF IInv

\* Whatever a verb has read, made and recorded, and wherever it stopped, the
\* store, the copies in hand and the run directories fit together: a step of
\* `merge facts` or of the service's resolve keeps them so.
THEOREM StoreInvariant == Spec => []IInv
<1>1. Init => IInv
  BY InitHolds, LadderAssumption
<1>2. ASSUME IInv, [Next]_vars
      PROVE  IInv'
  <2>1. CASE Begin
    BY <1>2, <2>1, BeginTurns, TurnKeeps
  <2>2. CASE \E r \in Runs : \E delta \in Deltas : ApplyReads(r, delta)
    BY <1>2, <2>2, ApplyStarts, TurnKeeps
  <2>3. CASE (\E w \in Program : Resolve(w)) \/ Retire \/ Promote \/ Edit
    <3>1. PICK w \in Program : \E verb, n, after, a :
                /\ ByHand(w, verb, n, after, a) /\ HandChange(store, verb, n, after, a)
                /\ w = "service" => verb = "resolve"
      BY <1>2, <2>3, VerbChanges DEF IInv, TypeInv, FilesOK
    <3>2. PICK verb, n, after, a :
                /\ ByHand(w, verb, n, after, a) /\ HandChange(store, verb, n, after, a)
                /\ w = "service" => verb = "resolve"
      BY <3>1
    <3>3. \E v \in Program : \E j \in Job : HandTurn(v, j)
      BY <1>2, <3>2, HandStarts
    <3> QED  BY <1>2, <3>3, TurnKeeps
  <2>4. CASE \E r \in Runs : RevertReads(r)
    BY <1>2, <2>4, RevertStarts, TurnKeeps
  <2>5. CASE \E w \in Program : Snaps(w)
    BY <1>2, <2>5, SnapsKeeps
  <2>6. CASE \E w \in Program : Saves(w)
    BY <1>2, <2>6, SavesKeeps
  <2>7. CASE \E w \in Program : Records(w)
    BY <1>2, <2>7, RecordsKeeps
  <2>8. CASE \E w \in Program : Dies(w)
    BY <1>2, <2>8, DiesTurns, TurnKeeps
  <2>9. CASE Tears
    BY <1>2, <2>9, TearsKeeps
  <2>10. CASE UNCHANGED vars
    BY <1>2, <2>10, NothingKeeps
  <2> QED  BY <1>2, <2>1, <2>2, <2>3, <2>4, <2>5, <2>6, <2>7, <2>8, <2>9, <2>10 DEF Next
<1> QED  BY <1>1, <1>2, PTL DEF Spec

LEMMA FitCounts ==
    ASSUME NEW st \in Seq(Entry), Distinct(st)
    PROVE  Cardinality(Ids(st)) = Len(st)
<1> DEFINE f == [n \in DOMAIN st |-> st[n].id]
<1>1. DOMAIN st = 1..Len(st) /\ Len(st) \in Nat
  OBVIOUS
<1>2. 1 \in Int /\ Len(st) \in Int
  BY <1>1
<1>3. IsFiniteSet(DOMAIN st) /\ Cardinality(DOMAIN st) = Len(st)
  <2>1. IsFiniteSet(1..Len(st)) /\ Cardinality(1..Len(st)) = IF 1 > Len(st) THEN 0 ELSE Len(st) - 1 + 1
    BY <1>2, FS_Interval
  <2> QED  BY <1>1, <2>1
<1>4. \A x, y \in DOMAIN st : f[x] = f[y] => x = y
  BY DEF Distinct
<1>5. Ids(st) = {f[x] : x \in DOMAIN st}
  BY DEF Ids
<1> HIDE DEF f
<1> QED  BY <1>3, <1>4, <1>5, AsManyValues

\* However the two programs' verbs overlap, stop half way or are reverted, no
\* two entries have one id, no id is minted twice, and a key has one live era
\* unless an edit, a revert or a save over another's gave it a second: what
\* `upsert` and `mint` in the merge rely on.
THEOREM OneOfEachAlways == Spec => []OneOfEach
<1>1. IInv => OneOfEach
  <2> SUFFICES ASSUME IInv PROVE OneOfEach
    OBVIOUS
  <2>1. OneEntryPerId
    <3>1. CASE torn
      BY <3>1 DEF OneEntryPerId
    <3>2. CASE ~torn
      <4>1. store \in Seq(Entry) /\ Distinct(store)
        BY <3>2, FilesGood DEF Fit
      <4> QED  BY <4>1, FitCounts DEF OneEntryPerId
    <3> QED  BY <3>1, <3>2
  <2>2. IdsGivenOnce
    BY DEF IInv, IdInv, NumbersOK, IdsGivenOnce
  <2>3. OneEraPerKey
    BY DEF IInv, EraInv, ErasIn, Rivals, OneEraPerKey
  <2> QED  BY <2>1, <2>2, <2>3 DEF OneOfEach
<1> QED  BY <1>1, StoreInvariant, PTL

\* What somebody chose in a dispute is what the entry says, whatever a later
\* apply reads, until an edit, a revert or a save over it: the ladder of
\* `merge_into` never reopens what `resolve` closed.
THEOREM SettledStandsAlways == Spec => []SettledStands
<1>1. IInv => SettledStands
  <2> SUFFICES ASSUME IInv, NEW n \in DOMAIN store, settled[store[n].id] # Undecided, ~torn
               PROVE  Stands(store[n], settled[store[n].id])
    BY DEF SettledStands, Stands
  <2>1. store[n].id \in FactId
    BY FilesGood, IdsAreFacts
  <2> QED  BY <2>1 DEF IInv, KeepInv, SettledOK
<1> QED  BY <1>1, StoreInvariant, PTL

\* No reading an apply reported is dropped in silence: it is the entry's value
\* or one of its accounts, until an edit, a revert or a save over it, or a
\* resolve that replaces a value no account held.
THEOREM ReadingsKeptAlways == Spec => []ReadingsKept
<1>1. IInv => ReadingsKept
  BY DEF IInv, KeepInv, ReadingsOK, Says, ReadingsKept
<1> QED  BY <1>1, StoreInvariant, PTL

\* `revert` never undoes the recorded change a run with a newer directory made
\* to an entry, unless that run's snapshot was not of the store it had read, or
\* its delta has another key for the entry than the gate gave it.
THEOREM RevertTakesOnlyItsOwnAlways == Spec => []RevertTakesOnlyItsOwn
<1>1. IInv => RevertTakesOnlyItsOwn
  BY DEF IInv, TouchInv, Excused, RevertTakesOnlyItsOwn
<1> QED  BY <1>1, StoreInvariant, PTL

\* Every link of every entry names an entry some run wrote, never one the gate
\* held back, and a note is about something: even with the ledger lost.
THEOREM LinksAlwaysResolve == Spec => []LinksResolve
<1>1. IInv => LinksResolve
  <2> SUFFICES ASSUME IInv, NEW n \in DOMAIN store
               PROVE  /\ \A l \in LinksOf(store[n]) : owner[l] # NoRun
                      /\ store[n].key \in Notes => store[n].about # NoId
    BY DEF LinksResolve, LinksOf
  <2>1. Within(store[n], Owned)
    BY FilesGood DEF LinkedIn
  <2> QED  BY <2>1 DEF Within, Owned
<1> QED  BY <1>1, StoreInvariant, PTL
=============================================================================
