------------------------------ MODULE FactsPlan ------------------------------
(***************************************************************************)
(* How a facts run is planned (engine/facts_plan/build.py): which files it *)
(* can read, which candidates and lines go to which unit, and what is set  *)
(* aside because no unit could hold it.  A plan is a function of the       *)
(* estate, the files and their cached texts; FactsRun says when it is made.*)
(*                                                                         *)
(* An estate is a record: books, a sequence of [short, key, twin, alone];  *)
(* cands, a function from ids <<"S", n>> to [kind, at, script, size] where *)
(* at is a set of <<short, tab>>; talks, a sequence of recordings, each    *)
(* the sequence of its lines' sizes; files, a function from file numbers   *)
(* to [kind, side, size], side being the name of its cached text.          *)
(***************************************************************************)
EXTENDS Integers, FiniteSets, Sequences, SequencesExt, FiniteSetsExt, Listing

CONSTANTS FormBudget,     \* what an input of phase 1 may weigh
          TalkBudget,     \* what a transcript unit's input may weigh
          ChunkBudget     \* what a chunk of a transcript may weigh

ASSUME BudgetsAssumption == {FormBudget, TalkBudget, ChunkBudget} \subseteq Nat

\* A unit is named <<type, n, m>>, the types in the order their names sort.
Att == 1
Talk == 2
Book == 3
PhaseOf(type) == IF type = Talk THEN 2 ELSE 1

\* A record with the fields of another.
With(x, y) == [f \in DOMAIN x \cup DOMAIN y |-> IF f \in DOMAIN x THEN x[f] ELSE y[f]]

Ordered(S, before(_, _)) ==
    LET rank(x) == Cardinality({y \in S : before(y, x)}) + 1
    IN [n \in 1..Cardinality(S) |-> CHOOSE x \in S : rank(x) = n]

-----------------------------------------------------------------------------
(* Attachments and their cached texts *)

NoText == 0
\* Defect: a cached text is never compared with its file again.
AnyTextServes(work, cache, side, f) == cache[side].text = NoText
NeedsConversion(work, cache, side, f) ==
    cache[side].text = NoText \/ cache[side].digest # work[f]
Present(e, work) == {f \in DOMAIN e.files : work[f] # NoText}
Convertible(e, work) == {f \in Present(e, work) : e.files[f].kind \in {"photo", "paper"}}
Photos(e, work) == {f \in Present(e, work) : e.files[f].kind = "photo"}

\* One decision: a text is served for a file that is there and whose digest
\* still matches, and every other file is named to the owner.
Served(e, work, cache) ==
    {f \in Convertible(e, work) : ~ NeedsConversion(work, cache, e.files[f].side, f)}
Unread(e, work, cache) ==
    {f \in Present(e, work) : e.files[f].kind # "plain"} \ Served(e, work, cache)

\* A grouping is used when it covers the photos exactly once.
Usable(groups, photos) ==
    /\ UNION groups = photos
    /\ \A g, h \in groups : g # h => g \cap h = {}
GroupsOf(e, work, groups) ==
    LET photos == Photos(e, work)
    IN IF Usable(groups, photos) THEN groups ELSE {{p} : p \in photos}

\* One unit per group of photos, then one per other text; a text two files
\* share belongs to the photo its digest was read off.
AttachmentGroups(e, work, cache, groups) ==
    LET served == Served(e, work, cache)
        shown == {g \cap served : g \in GroupsOf(e, work, groups)} \ {{}}
        sorted(S) == [n \in 1..Cardinality(S) |->
                         CHOOSE g \in S : Min(g) = InOrder({Min(h) : h \in S})[n]]
    IN sorted(shown) \o sorted({{f} : f \in served \ Photos(e, work)})

-----------------------------------------------------------------------------
(* Groups of workbooks *)

Shorts(e) == {e.books[i].short : i \in DOMAIN e.books}

\* The key each workbook is grouped under: its own when it is a reference
\* book, and the lower of the two for a named pair of twins, pair by pair.
Keys(e) ==
    LET named == [s \in Shorts(e) |->
                     LET w == CHOOSE b \in Range(e.books) : b.short = s
                     IN IF w.alone THEN w.short ELSE w.key]
        paired(k, w) ==
            IF w.twin \in DOMAIN k
            THEN LET low == Min({k[w.short], k[w.twin]})
                 IN [k EXCEPT ![w.short] = low, ![w.twin] = low]
            ELSE k
        keyed[n \in 0..Len(e.books)] ==
            IF n = 0 THEN named ELSE paired(keyed[n - 1], e.books[n])
    IN keyed[Len(e.books)]

Candidates(e) == Ordered(DOMAIN e.cands, LAMBDA a, b : a[2] < b[2])
Homes(e, c) == {a[1] : a \in e.cands[c].at} \cap Shorts(e)

\* A candidate that sits on two groups makes them one, named by the lower.
Joined(e) ==
    LET join(root, c) ==
            LET met == {root[s] : s \in Homes(e, c)}
            IN [s \in DOMAIN root |-> IF root[s] \in met THEN Min(met) ELSE root[s]]
        joined[n \in 0..Cardinality(DOMAIN e.cands)] ==
            IF n = 0 THEN Keys(e) ELSE join(joined[n - 1], Candidates(e)[n])
    IN joined[Cardinality(DOMAIN e.cands)]

\* A script's rule sits on no tab: it goes with the workbook that names it.
HomeOf(e, root, c) ==
    IF Homes(e, c) # {} THEN root[CHOOSE s \in Homes(e, c) : TRUE]
    ELSE IF e.cands[c].script \in Shorts(e) THEN root[e.cands[c].script] ELSE 0
Axis(e, c) == IF e.cands[c].at = {} THEN 0 ELSE Min({a[2] : a \in e.cands[c].at})

-----------------------------------------------------------------------------
(* Fitting a unit to its budget *)

Total(size(_), S) == FoldSet(LAMBDA x, n : n + size(x), 0, S)
Weight(e, u) == Total(LAMBDA c : e.cands[c].size, u.cands)
                + Total(LAMBDA l : e.talks[l[1]][l[2]], u.lines)
                + Total(LAMBDA f : e.files[f].size, u.files)
Fits(e, u) == Weight(e, u) <= IF u.type = Talk THEN TalkBudget ELSE FormBudget

\* A unit with no axis left: its largest candidates step out until it fits.
Largest(e, cands) ==
    Ordered(cands, LAMBDA a, b : \/ e.cands[a].size > e.cands[b].size
                                 \/ e.cands[a].size = e.cands[b].size /\ a[2] < b[2])
\* Defect: a unit with no axis left is planned as it is.
TakenWhole(e, u) == u
SetAside(e, u) ==
    LET order == Largest(e, u.cands)
        left(n) == [u EXCEPT !.cands = @ \ {order[i] : i \in 1..n}]
        n == Min({k \in 0..Len(order) : Fits(e, left(k))} \cup {Len(order)})
    IN left(n)

Unit(type, n, m, cands, lines, files) ==
    [id |-> <<type, n, m>>, type |-> type, phase |-> PhaseOf(type),
     cands |-> cands, lines |-> lines, files |-> files]

\* One table per unit: a workbook group splits by tab, not only over budget.
BookUnits(e) ==
    LET root == Joined(e)
        mine(r) == {c \in DOMAIN e.cands : HomeOf(e, root, c) = r}
        part(r, s, tab) == Unit(Book, s, tab, {c \in mine(r) : Axis(e, c) = tab}, {}, {})
        units(r) ==
            LET s == Min({x \in Shorts(e) : root[x] = r})
                tabs == {Axis(e, c) : c \in mine(r)}
            IN IF Cardinality(tabs) > 1 THEN {part(r, s, t) : t \in tabs}
               ELSE IF tabs = {} THEN {} ELSE {Unit(Book, s, 0, mine(r), {}, {})}
    IN {SetAside(e, u) : u \in UNION {units(r) : r \in Range(root)}}

\* A transcript is cut into chunks of whole lines, each begun where the one
\* before it is full.
Chunks(e, r) ==
    LET lines == e.talks[r]
        size(a, b) == Total(LAMBDA n : lines[n], a..b)
        first[n \in 1..Len(lines)] ==
            IF n = 1 THEN 1
            ELSE LET a == first[n - 1]
                 IN IF size(a, n - 1) > 0 /\ size(a, n) > ChunkBudget THEN n ELSE a
    IN {<<first[n], n>> : n \in {m \in 1..Len(lines) : m = Len(lines) \/ first[m + 1] = m + 1}}

\* A chunk that does not fit is cut into halves, and they into theirs; a line
\* is never cut.
Span(e, r, a, b) == Unit(Talk, r, a, {}, {<<r, n>> : n \in a..b}, {})
Halves(e, r, span) ==
    LET a == span[1]  b == span[2]  mid == (a + b) \div 2
    IN IF Fits(e, Span(e, r, a, b)) \/ b <= a THEN {span} ELSE {<<a, mid>>, <<mid + 1, b>>}
Spans(e, r) ==
    LET cut[n \in 0..Len(e.talks[r])] ==
            IF n = 0 THEN Chunks(e, r) ELSE UNION {Halves(e, r, s) : s \in cut[n - 1]}
    IN cut[Len(e.talks[r])]
TalkUnits(e) == UNION {{Span(e, r, s[1], s[2]) : s \in Spans(e, r)} : r \in DOMAIN e.talks}

AttUnits(e, work, cache, groups) ==
    LET order == AttachmentGroups(e, work, cache, groups)
    IN {Unit(Att, n, 0, {}, {}, order[n]) : n \in DOMAIN order}

-----------------------------------------------------------------------------
(* The plan *)

PlannedUnits(e, work, cache, groups) ==
    BookUnits(e) \cup TalkUnits(e) \cup AttUnits(e, work, cache, groups)

\* What the run tells its owner it could not take on: candidates too large
\* for a unit, units still over budget, files it cannot read.
Plan(e, work, cache, groups) ==
    LET units == PlannedUnits(e, work, cache, groups)
        placed == UNION {u.cands : u \in units}
    IN [units |-> units,
        aside |-> {c \in DOMAIN e.cands : HomeOf(e, Joined(e), c) # 0} \ placed,
        over |-> {u.id : u \in {v \in units : ~ Fits(e, v)}},
        unread |-> Unread(e, work, cache),
        shown |-> [f \in UNION {u.files : u \in units} |-> cache[e.files[f].side].text]]

\* Each candidate in one unit or set aside, each line and each served text
\* read as often as it was chosen: anything else refuses the build.
Refused(e, work, cache, p) ==
    LET owners(c) == Cardinality({u \in p.units : c \in u.cands})
        readers(l) == Cardinality({u \in p.units : l \in u.lines})
        texts == {e.files[f].side : f \in Served(e, work, cache)}
        times(s) == Total(LAMBDA u : Cardinality({f \in u.files : e.files[f].side = s}), p.units)
        wanted(s) == Cardinality({f \in Served(e, work, cache) : e.files[f].side = s})
    IN \/ \E c \in DOMAIN e.cands : owners(c) # (IF c \in p.aside THEN 0 ELSE 1)
       \/ \E r \in DOMAIN e.talks : \E n \in DOMAIN e.talks[r] : readers(<<r, n>>) # 1
       \/ \E s \in texts : times(s) # wanted(s)
=============================================================================
