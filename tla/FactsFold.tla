------------------------------ MODULE FactsFold ------------------------------
(***************************************************************************)
(* What a facts run makes of its units' answers                            *)
(* (engine/facts_plan/assemble.py): the verdict on one document, a retry   *)
(* laid over the attempt before it, the entries the decisions come to, the *)
(* entries two units both wrote, the review folded in, and what is held    *)
(* back and why.                                                           *)
(*                                                                         *)
(* An id is <<"S", n>> (a candidate), <<"N", unit, n>> (the n-th entry a   *)
(* unit minted) or <<"F", n>> (an entry of the store).                     *)
(* A decision is [act, into, keys, refs, home, link, val, ok, sound]: act  *)
(* keep, drop, merge or split; keys the key of each part; refs the ids it  *)
(* points at, home the table it sits on, link the rule a column of it is   *)
(* derived by; ok, whether the unit's gate lets it through; sound, whether *)
(* the assembly's does.  A minted entry is a decision with a kind and with *)
(* src, what it was read off first.  A document is [torn, whole, dec, new]:*)
(* unreadable, refused outright, the decisions by candidate and the minted *)
(* entries.                                                                *)
(***************************************************************************)
EXTENDS Integers, FiniteSets, Sequences, SequencesExt, FiniteSetsExt, FactsPlan

CONSTANTS RecordedBudget,   \* how many lines a transcript is told of phase 1
          TableLines,       \* the lines a table takes there, its columns with it
          EntryLines        \* the lines any other entry takes

ASSUME RecordedAssumption == {RecordedBudget, TableLines, EntryLines} \subseteq Nat

NoId == <<"-", 0>>
MaxAttempts == 2

Keep(keys) == [act |-> "keep", into |-> NoId, keys |-> keys, refs |-> {}, home |-> NoId,
               link |-> NoId, val |-> 1, ok |-> TRUE, sound |-> TRUE]
Torn == [torn |-> TRUE, whole |-> TRUE, dec |-> <<>>, new |-> <<>>]

\* Unit names in the order they are folded in.
Before(u, v) == \/ u[1] < v[1]
                \/ u[1] = v[1] /\ (u[2] < v[2] \/ (u[2] = v[2] /\ u[3] < v[3]))

-----------------------------------------------------------------------------
(* The verdict on one document: kinds, a function from candidates to kinds *)

\* A merge into another kind stands as its own entry when it can, and a link
\* to a candidate the run does not have is cut.
Repaired(kinds, c, d) ==
    LET cross == d.act = "merge" /\ c \in DOMAIN kinds /\ d.into \in DOMAIN kinds
                 /\ kinds[c] # kinds[d.into]
        known(r) == r[1] = "S" => r \in DOMAIN kinds
    IN [d EXCEPT !.act = IF cross /\ d.keys # <<>> THEN "keep" ELSE @,
                 !.ok = @ /\ ~ (cross /\ d.keys = <<>>),
                 !.refs = {r \in @ : known(r)},
                 !.home = IF known(@) THEN @ ELSE NoId,
                 !.link = IF known(@) THEN @ ELSE NoId]

\* A note must be about something: one whose every reference was cut is refused.
RepairedNew(kinds, n) ==
    LET r == Repaired(kinds, NoId, n)
    IN [r EXCEPT !.ok = @ /\ ~ (n.kind = "note" /\ n.refs # {} /\ r.refs = {})]

Judged(kinds, doc) ==
    [doc EXCEPT !.dec = [c \in DOMAIN @ |->
                            LET d == Repaired(kinds, c, @[c])
                            IN [d EXCEPT !.ok = @ /\ c \in DOMAIN kinds]],
                !.new = [i \in DOMAIN @ |-> RepairedNew(kinds, @[i])]]

\* An item the gate refuses costs itself; a refusal no item owns, the document.
RefusedItems(doc) ==
    {c \in DOMAIN doc.dec : ~ doc.dec[c].ok} \cup {<<"new", i>> : i \in {j \in DOMAIN doc.new : ~ doc.new[j].ok}}

-----------------------------------------------------------------------------
(* A unit's attempts *)

\* Defect: half a document counts as an attempt.
TornCounts(attempts) == attempts
Readable(attempts) == AtPlaces(attempts, {i \in DOMAIN attempts : ~ attempts[i].torn})
Admissible(attempts) ==
    LET read == Readable(attempts)
    IN AtPlaces(read, {i \in DOMAIN read : ~ read[i].whole})

\* What a unit's directory says of it: nothing usable and an attempt left is
\* pending, two attempts refused outright and none before them is failed.
StateOf(kinds, attempts) ==
    LET read == Readable(attempts)
        last == Judged(kinds, read[Len(read)])
    IN IF read = <<>> THEN "pending"
       ELSE IF ~ last.whole
            THEN IF RefusedItems(last) # {} /\ Len(read) < MaxAttempts THEN "retry" ELSE "done"
       ELSE IF Len(read) < MaxAttempts THEN "pending"
       ELSE IF \E i \in 1..(Len(read) - 1) : ~ read[i].whole THEN "done" ELSE "failed"

Folded(doc) ==
    [dec |-> [c \in {x \in DOMAIN doc.dec : doc.dec[x].ok} |-> doc.dec[c]],
     refused |-> {c \in DOMAIN doc.dec : ~ doc.dec[c].ok},
     new |-> doc.new]

\* Defect: a retry replaces the attempt before it.
LaterOnly(u, first, later) == later
\* A retry is laid over the attempt before it: its decisions by candidate, its
\* minted entries by kind and key, its own handles renumbered to their slots.
Overlay(u, first, later) ==
    LET same(a, b) == a.kind = b.kind /\ a.keys = b.keys
        slot(news, n) == Max({i \in DOMAIN news : same(news[i], n)} \cup {0})
        place(acc, n) ==
            LET i == slot(acc.new, n)
            IN IF i = 0
               THEN [new |-> Append(acc.new, n), at |-> Append(acc.at, Len(acc.new) + 1)]
               ELSE [new |-> [acc.new EXCEPT ![i] = IF n.ok \/ ~ @.ok THEN n ELSE @],
                     at |-> Append(acc.at, i)]
        laid[n \in 0..Len(later.new)] ==
            IF n = 0 THEN [new |-> first.new, at |-> <<>>] ELSE place(laid[n - 1], later.new[n])
        placed == laid[Len(later.new)]
        moved(r) == IF r[1] = "N" /\ r[2] = u /\ r[3] \in DOMAIN placed.at
                    THEN <<"N", u, placed.at[r[3]]>> ELSE r
        renumbered(d) == [d EXCEPT !.refs = {moved(r) : r \in @}, !.home = moved(@),
                                   !.link = moved(@)]
        fresh(i) == \E j \in DOMAIN later.new : placed.at[j] = i /\ placed.new[i] = later.new[j]
    IN [dec |-> [c \in DOMAIN first.dec \cup DOMAIN later.dec |->
                    IF c \in DOMAIN later.dec THEN renumbered(later.dec[c]) ELSE first.dec[c]],
        refused |-> (first.refused \cup later.refused) \ (DOMAIN first.dec \cup DOMAIN later.dec),
        new |-> [i \in DOMAIN placed.new |->
                    IF fresh(i) THEN renumbered(placed.new[i]) ELSE placed.new[i]]]

Nothing == [dec |-> <<>>, refused |-> {}, new |-> <<>>]
Answer(kinds, u, attempts) ==
    LET docs == Admissible(attempts)
        doc(n) == Folded(Judged(kinds, docs[n]))
        merged[n \in 0..Len(docs)] ==
            IF n = 0 THEN Nothing ELSE IF n = 1 THEN doc(1) ELSE Overlay(u, merged[n - 1], doc(n))
    IN merged[Len(docs)]

-----------------------------------------------------------------------------
(* The units' decisions, together.  A run is [kinds, unitOf, aside, over,  *)
(* store, answers, types, failed]: the candidates' kinds and units, what   *)
(* was set aside, the store's ids, each unit's answer and type, and the    *)
(* units no attempt of which could be used.                                *)

RunOf(e, p, out, only) ==
    LET units == {u \in p.units : u.id \in only}
        kinds == [c \in DOMAIN e.cands |-> e.cands[c].kind]
        holder(c) == {u \in p.units : c \in u.cands}
    IN [kinds |-> kinds,
        unitOf |-> [c \in DOMAIN e.cands |->
                       IF holder(c) = {} THEN <<0, 0, 0>> ELSE (CHOOSE u \in holder(c) : TRUE).id],
        aside |-> p.aside, over |-> p.over, store |-> e.store,
        answers |-> [u \in {x.id : x \in units} |-> Answer(kinds, u, out[u])],
        failed |-> {u \in {x.id : x \in units} : Admissible(out[u]) = <<>>}]

\* What each unit minted and its gate let through stands as a candidate and
\* its own decision to keep it; a candidate was read off a workbook.
Minted(run) == UNION {{<<"N", u, i>> : i \in {j \in DOMAIN run.answers[u].new :
                                                run.answers[u].new[j].ok}} : u \in DOMAIN run.answers}
\* Any unit may decide any candidate; the last unit in order has it.
Deciders(run, c) == {u \in DOMAIN run.answers : c \in DOMAIN run.answers[u].dec}
LastOf(units) == CHOOSE u \in units : \A v \in units \ {u} : Before(v, u)
Decisions(run) ==
    LET decided == {c \in DOMAIN run.kinds : Deciders(run, c) # {}}
    IN [c \in decided \cup Minted(run) |->
           IF c[1] = "N" THEN With(run.answers[c[2]].new[c[3]], [unit |-> c[2]])
           ELSE LET u == LastOf(Deciders(run, c))
                IN With(run.answers[u].dec[c], [unit |-> u, kind |-> run.kinds[c], src |-> "sheet"])]

-----------------------------------------------------------------------------
(* The entries the decisions come to *)

\* A merge is followed to what it ends in; a cycle ends nowhere.
TargetOf(by, c) ==
    LET step(x) == IF x \in DOMAIN by THEN IF by[x].act = "merge" THEN by[x].into ELSE x ELSE x
        end == FoldLeft(LAMBDA x, n : step(x), c, [n \in 1..(Cardinality(DOMAIN by) + 1) |-> n])
    IN IF step(end) = end THEN end ELSE NoId

\* The entry a decision makes, or one part of it; what was merged into it is
\* what it holds.  A part of a split is nobody's target.
EntryOf(by, c, n) ==
    LET d == by[c]
    IN [id |-> c, part |-> IF d.act = "split" THEN n ELSE 0, unit |-> d.unit, kind |-> d.kind,
        key |-> d.keys[n], refs |-> d.refs, home |-> d.home, link |-> d.link, val |-> d.val,
        src |-> d.src, sound |-> d.sound,
        holds |-> IF d.act = "split" THEN {}
                  ELSE {x \in DOMAIN by : by[x].act = "merge" /\ TargetOf(by, x) = c}]

Stands(run, by, c) == c[1] = "S" => run.unitOf[c] \notin run.failed
Parts(d) == IF d.act = "split" THEN DOMAIN d.keys ELSE {1}
KeptEntries(run, by) ==
    UNION {{EntryOf(by, c, n) : n \in Parts(by[c])} :
               c \in {x \in DOMAIN by : by[x].act \in {"keep", "split"} /\ Stands(run, by, x)}}

Held(id, why) == [id |-> id, why |-> why, with |-> {}]
\* An entry held back takes along what was merged into it.
HeldEntry(x, why) == [id |-> x.id, why |-> why, with |-> x.holds]
\* The candidates no entry comes of, each under the reason the owner reads.
NotDecided(run, by) ==
    {Held(c, IF c \in run.aside THEN "oversized"
             ELSE IF run.unitOf[c] \in run.failed THEN "failed"
             ELSE IF \E u \in DOMAIN run.answers : c \in run.answers[u].refused THEN "refused"
             ELSE "not_decided")
        : c \in {x \in DOMAIN run.kinds : x \notin DOMAIN by \/ ~ Stands(run, by, x)}}
RefusedNew(run) ==
    UNION {{Held(<<"N", u, i>>, "refused") :
                i \in {j \in DOMAIN run.answers[u].new : ~ run.answers[u].new[j].ok}} : u \in DOMAIN run.answers}
TooLarge(run) == {Held(<<"U", u>>, "oversized") : u \in run.over}
\* Defect: a merge that ends nowhere is not named.
UnmergedButCycles(by, kept) ==
    {Held(c, "target_dropped") :
        c \in {x \in DOMAIN by : by[x].act = "merge" /\ TargetOf(by, x) \notin {k.id : k \in kept} \cup {NoId}}}
\* A merge whose target nobody kept waits for it.
Unmerged(by, kept) ==
    LET whole == {k.id : k \in {x \in kept : x.part = 0}}
        merges == {c \in DOMAIN by : by[c].act = "merge"}
    IN {Held(c, IF TargetOf(by, c) = NoId THEN "cycle" ELSE "target_dropped") :
            c \in {x \in merges : TargetOf(by, x) \notin whole}}

-----------------------------------------------------------------------------
(* References.  An entry pointing at one no unit kept waits for it, and so *)
(* does whatever points at that entry; a table whose column is derived by  *)
(* an entry that waits keeps its place and loses the link.                 *)

Ids(entries) == {x.id : x \in entries}
Handles(x) == {r \in x.refs \cup {x.link} : r[1] \in {"S", "N"}}
Unlinked(entries, gone) ==
    {[x EXCEPT !.link = IF @ \in gone THEN NoId ELSE @] : x \in entries}

\* References to the store that name nothing in it are cut, unless a note
\* would then be about nothing: that one is held back.
CutUnknown(run, entries) ==
    LET unknown(x) == {r \in x.refs : r[1] = "F" /\ r \notin run.store}
        all(x) == x.kind = "note" /\ x.refs # {} /\ x.refs = unknown(x)
    IN {IF all(x) THEN x ELSE [x EXCEPT !.refs = @ \ unknown(x)] : x \in entries}

ResolveRound(run, acc) ==
    LET have == Ids(acc.live)
        waits(x) == Handles(x) \ have # {}
        unknown(x) == \E r \in x.refs : r[1] = "F" /\ r \notin run.store
        out == {x \in acc.live : waits(x) \/ unknown(x)}
    IN [live |-> Unlinked(acc.live \ out, Ids(out)),
        held |-> acc.held \cup {HeldEntry(x, IF waits(x) THEN "waits" ELSE "unknown_ref") : x \in out}]

\* A reference to something that was split means its last part.
Part(entries, id) ==
    LET parts == {x \in entries : x.id = id}
    IN (CHOOSE x \in parts : \A y \in parts : y.key <= x.key).part
\* A home nobody kept costs an entry its place and nothing else.
Resolved(run, entries) ==
    LET have == Ids(entries)
        home(x) == IF x.home \in have \cup run.store THEN x.home ELSE NoId
        names(S) == {<<r, Part(entries, r)>> : r \in S \cap have}
    IN {With([x EXCEPT !.home = home(x)],
             [refTo |-> names(x.refs), linkTo |-> names({x.link}), homeTo |-> names({home(x)})])
        : x \in entries}
PointsTo(x) == x.refTo \cup x.linkTo \cup x.homeTo

Built(run, by) ==
    LET kept == KeptEntries(run, by)
        round[n \in 0..Cardinality(kept)] ==
            IF n = 0 THEN [live |-> CutUnknown(run, kept), held |-> {}]
            ELSE ResolveRound(run, round[n - 1])
        end == round[Cardinality(kept)]
    IN [entries |-> Resolved(run, end.live),
        held |-> NotDecided(run, by) \cup RefusedNew(run) \cup TooLarge(run)
                 \cup Unmerged(by, kept) \cup end.held,
        dropped |-> {c \in DOMAIN by : by[c].act = "drop" /\ Stands(run, by, c)}]

-----------------------------------------------------------------------------
(* One address, written twice: what was read off a form is kept before a   *)
(* process and both before what was said, a unit of phase 1 before one of  *)
(* phase 2, the lower before the higher.  A leaf the two disagree on is two*)
(* accounts when their sources differ in type, a drift for the reviewer    *)
(* when they do not.                                                       *)

Address(x) == <<x.kind, x.key>>
Name(x) == <<x.id, x.part>>
IdBefore(a, b) == \/ a[1] = "N" /\ b[1] = "S"
                  \/ a[1] = "S" /\ b[1] = "S" /\ a[2] < b[2]
                  \/ a[1] = "N" /\ b[1] = "N" /\ (Before(a[2], b[2]) \/ (a[2] = b[2] /\ a[3] < b[3]))
NameBefore(x, y) == IdBefore(x.id, y.id) \/ (x.id = y.id /\ x.part < y.part)

FormSources == {"sheet", "script", "comment", "validation", "cf", "photo", "pdf", "docx"}
SourceRank(x) == IF x.src \in FormSources THEN 0 ELSE IF x.src = "process" THEN 1 ELSE 2
Phase(x) == PhaseOf(x.unit[1])
KeptBefore(x, y) ==
    \/ SourceRank(x) < SourceRank(y)
    \/ /\ SourceRank(x) = SourceRank(y)
       /\ \/ Phase(x) < Phase(y)
          \/ Phase(x) = Phase(y) /\ Before(x.unit, y.unit)
          \/ x.unit = y.unit /\ NameBefore(x, y)
CrossUnit(entries) ==
    LET twins(x) == {y \in entries : Address(y) = Address(x)}
        keeper(x) == CHOOSE y \in twins(x) : \A z \in twins(x) \ {y} : KeptBefore(y, z)
        differ(x) == {y \in twins(x) : y.val # x.val}
    IN {With([x EXCEPT !.holds = (UNION {y.holds \cup {y.id} : y \in twins(x)}) \ {x.id}],
             [twins |-> {Name(y) : y \in twins(x) \ {x}},
              drift |-> \E y \in differ(x) : y.src = x.src,
              accounts |-> {y.val : y \in {z \in differ(x) : z.src # x.src}}])
        : x \in {keeper(y) : y \in entries}}

\* What the reviewer is shown, and what its stamp is the digest of.
Digest(built) ==
    LET shown == CrossUnit(built.entries)
    IN [rows |-> {[at |-> Address(x), val |-> x.val, drift |-> x.drift,
                   twins |-> x.twins, home |-> x.home] : x \in shown},
        dropped |-> built.dropped]

-----------------------------------------------------------------------------
(* The review: a sequence of [act, on, into, keys, val, ok, sound], on and *)
(* into being addresses; fix settles a drift.  What cannot be applied is   *)
(* held back decision by decision, never the whole of it.                  *)

Hits(draft, a) == {x \in draft : Address(x) = a}
HitOf(draft, a) == CHOOSE x \in Hits(draft, a) : TRUE
Applies(draft, v) ==
    /\ v.ok
    /\ IF v.act = "fix" THEN \E x \in Hits(draft, v.on) : x.drift
       ELSE /\ Hits(draft, v.on) # {}
            /\ v.act = "merge" => Hits(draft, v.into) # {}
\* The candidates a decision changes: its own, and a merge's target.
Touched(draft, v) ==
    {HitOf(draft, v.on).id} \cup (IF v.act = "merge" THEN {HitOf(draft, v.into).id} ELSE {})

\* Defect: the review reaches the estate's candidates only.
ReviewsCandidates(draft, by, v) ==
    LET c == HitOf(draft, v.on).id
    IN IF v.act = "fix" \/ c[1] = "N" THEN by ELSE [by EXCEPT ![c] = [@ EXCEPT !.act = v.act]]
\* A review decision is laid over the unit's, and keeps what it does not say.
LaidOver(d, v, into) ==
    [d EXCEPT !.act = v.act,
              !.into = IF v.act = "merge" THEN into ELSE @,
              !.keys = IF v.keys = <<>> THEN @ ELSE v.keys,
              !.val = IF v.val = 0 THEN @ ELSE v.val]
Reviewed(draft, by, v) ==
    LET c == HitOf(draft, v.on).id
    IN IF v.act = "fix" THEN by
       ELSE [by EXCEPT ![c] = LaidOver(@, v, HitOf(draft, v.into).id)]
Settled(draft, review, applied, entries) ==
    LET fixes(x) == {n \in applied : review[n].act = "fix" /\ review[n].on = Address(x)}
    IN {IF fixes(x) = {} THEN x ELSE [x EXCEPT !.val = review[Max(fixes(x))].val, !.drift = FALSE]
        : x \in entries}

Draft(run) == CrossUnit(Built(run, Decisions(run)).entries)
Standing(draft, review, held) == {n \in DOMAIN review : n \notin held /\ Applies(draft, review[n])}
Laid(draft, by, review, applied) ==
    LET laid[n \in 0..Len(review)] ==
            IF n = 0 THEN by
            ELSE IF n \in applied THEN Reviewed(draft, laid[n - 1], review[n]) ELSE laid[n - 1]
    IN laid[Len(review)]
Touching(draft, review, applied, id) == {n \in applied : id \in Touched(draft, review[n])}

\* One fold of the review without the decisions held back so far, and the
\* entries the assembly's gate then refuses.
Outcome(draft, review, applied, built, entries) ==
    LET sound(x) == x.sound /\ \A n \in Touching(draft, review, applied, x.id) : review[n].sound
    IN [built |-> built, entries |-> entries, held |-> DOMAIN review \ applied,
        unsound |-> {x \in entries : ~ sound(x)}]
Landing(draft, review, applied, built) ==
    Outcome(draft, review, applied, built, Settled(draft, review, applied, CrossUnit(built.entries)))
Pass(run, draft, review, applied) ==
    Landing(draft, review, applied, Built(run, Laid(draft, Decisions(run), review, applied)))
\* The decisions that touch an entry it refuses: they are held back next.
Blamed(draft, review, p) ==
    UNION {Touching(draft, review, DOMAIN review \ p.held, x.id) : x \in p.unsound}

\* Defect: only the refused entry waits.
HoldOnlyThem(entries, unsound) ==
    [kept |-> entries \ unsound, held |-> {HeldEntry(x, "refused") : x \in unsound}]
\* What waits when some do: they, and whatever points at what waits.
Waiting(entries, names) ==
    LET closed(W) == \A x \in entries : PointsTo(x) \cap W # {} => Name(x) \in W
    IN {n \in {Name(x) : x \in entries} :
           \A W \in SUBSET {Name(x) : x \in entries} : names \subseteq W /\ closed(W) => n \in W}
\* An entry the gate refuses waits, with whatever points at it; the rest lands.
HoldBack(entries, unsound) ==
    LET names == {Name(x) : x \in unsound}
        severed == {[x EXCEPT !.linkTo = IF Name(x) \in names THEN @ ELSE @ \ names] : x \in entries}
        waiting == Waiting(severed, names)
    IN [kept |-> {x \in severed : Name(x) \notin waiting},
        held |-> {HeldEntry(x, "refused") : x \in {y \in severed : Name(y) \in waiting}}]

\* Steps 0 to 9.  Nothing is written when nothing at all can be assembled.
Delta(last, back) ==
    [ok |-> back.kept # {}, entries |-> back.kept, held |-> last.built.held \cup back.held,
     dropped |-> last.built.dropped, losers |-> UNION {x.twins : x \in last.entries},
     reviewHeld |-> last.held]
Written(last) == Delta(last, HoldBack(last.entries, last.unsound))
HeldFrom(run, draft, review) ==
    LET over(held) == Pass(run, draft, review, Standing(draft, review, held))
    IN FoldLeft(LAMBDA held, n : held \cup Blamed(draft, review, over(held)), {},
                [n \in 1..(Len(review) + 1) |-> n])
AssembledOf(run, draft, review, held) ==
    Written(Pass(run, draft, review, Standing(draft, review, held)))
AssembledFrom(run, draft, review) == AssembledOf(run, draft, review, HeldFrom(run, draft, review))
Assembled(run, review) == AssembledFrom(run, Draft(run), review)

-----------------------------------------------------------------------------
(* What phase 2 is told: phase 1's entries before any review, kind by kind *)
(* and then by id, each whole, until the first that does not fit.          *)

PhaseEntries(run) == Built(run, Decisions(run)).entries
KindRank(x) == IF x.kind = "record" THEN 1 ELSE IF x.kind = "measurement" THEN 2
               ELSE IF x.kind = "rule" THEN 3 ELSE 4
ToldBefore(x, y) ==
    \/ KindRank(x) < KindRank(y)
    \/ KindRank(x) = KindRank(y) /\ NameBefore(x, y)
LinesOf(x) == {Name(x)} \X (1..(IF x.kind = "record" THEN TableLines ELSE EntryLines))
Length(entries) == Cardinality(UNION {LinesOf(x) : x \in entries})
Until(entries, x) == {y \in entries : y = x \/ ToldBefore(y, x)}
\* Defect: an entry that does not fit is skipped and the next one told.
SkipsTheLong(entries) ==
    LET order == Ordered(entries, ToldBefore)
        told[n \in 0..Cardinality(entries)] ==
            IF n = 0 THEN {}
            ELSE IF Length(told[n - 1] \cup {order[n]}) <= RecordedBudget
                 THEN told[n - 1] \cup {order[n]} ELSE told[n - 1]
    IN told[Cardinality(entries)]
RecordedSlice(entries) == {x \in entries : Length(Until(entries, x)) <= RecordedBudget}
=============================================================================
