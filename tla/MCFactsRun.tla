----------------------------- MODULE MCFactsRun -----------------------------
(***************************************************************************)
(* Estates for model checking FactsRun: one whose plan is hard to make, one*)
(* whose units answer in several attempts, one whose answers cross in every*)
(* way, and one where two units write the same entry and a review follows. *)
(***************************************************************************)
EXTENDS FactsRun

S(n) == <<"S", n>>
N(u, i) == <<"N", u, i>>
F1 == <<"F", 1>>
Cand(kind, at, size) == [kind |-> kind, at |-> at, script |-> 0, size |-> size]
Book1(short, key) == [short |-> short, key |-> key, twin |-> 0, alone |-> FALSE]
NoLimit == [edits |-> 0, torn |-> 0, crossed |-> 0, builds |-> 1, deaths |-> 0, faults |-> 0, losses |-> 0]
Bare == [books |-> <<>>, cands |-> <<>>, talks |-> <<>>, files |-> <<>>, work |-> <<>>, contents |-> {},
         groupings |-> {}, reviews |-> {}, store |-> {}, answers |-> <<>>, goes |-> TRUE, limit |-> NoLimit]

Doc(dec, new) == [torn |-> FALSE, whole |-> FALSE, dec |-> dec, new |-> new]
Whole == [Doc(<<>>, <<>>) EXCEPT !.whole = TRUE]
K(n) == Keep(<<n>>)
New(kind, key) == K(key) @@ [kind |-> kind, src |-> "sheet"]
Off(src, kind, key) == [New(kind, key) EXCEPT !.src = src]
Heard(kind, key) == Off("voice", kind, key)

-----------------------------------------------------------------------------
(* Two photos of one name, a paper and a file nobody can read; workbooks   *)
(* made one group by a shared table, twins by name, a reference book, a    *)
(* script, a table too large, and a transcript to cut and halve.           *)
Planning ==
    [Bare EXCEPT
        !.books = <<[short |-> 1, key |-> 11, twin |-> 0, alone |-> FALSE],
                    [short |-> 2, key |-> 12, twin |-> 0, alone |-> FALSE],
                    [short |-> 3, key |-> 13, twin |-> 4, alone |-> FALSE],
                    [short |-> 4, key |-> 14, twin |-> 0, alone |-> FALSE],
                    [short |-> 5, key |-> 13, twin |-> 0, alone |-> TRUE]>>,
        !.cands = S(1) :> Cand("record", {<<1, 1>>, <<2, 1>>}, 2) @@ S(2) :> Cand("record", {<<2, 2>>}, 3)
                  @@ S(3) :> Cand("rule", {<<2, 2>>}, 2) @@ S(4) :> Cand("record", {<<3, 1>>}, 6)
                  @@ S(5) :> Cand("rule", {<<4, 1>>}, 2) @@ S(6) :> Cand("record", {<<5, 3>>}, 1)
                  @@ S(7) :> [Cand("rule", {}, 1) EXCEPT !.script = 1],
        !.talks = <<<<1, 1, 3, 1, 1, 6>>>>,
        !.files = <<[kind |-> "photo", side |-> 1, size |-> 2], [kind |-> "photo", side |-> 1, size |-> 2],
                    [kind |-> "paper", side |-> 2, size |-> 6], [kind |-> "other", side |-> 3, size |-> 1]>>,
        !.work = <<1, 2, 1, 1>>, !.contents = {0, 2},
        !.groupings = {{{1, 2}}, {{1}}},
        !.goes = FALSE,
        !.limit = [NoLimit EXCEPT !.edits = 1, !.torn = 1, !.crossed = 1, !.builds = 2]]

-----------------------------------------------------------------------------
(* Two forms and a meeting, each answered in up to two attempts, with      *)
(* agents that die, a poll that cannot render and a plan made again.       *)
WB1 == <<Book, 1, 0>>
WB2 == <<Book, 2, 0>>
TR == <<Talk, 1, 1>>
TR2 == <<Talk, 2, 1>>
AT1 == <<Att, 1, 0>>
Lives ==
    LET c1 == S(1) :> K(1)
        c2 == S(2) :> K(2)
        bad == [K(1) EXCEPT !.ok = FALSE]
        half == Doc(c1 @@ S(2) :> bad, <<[New("note", 7) EXCEPT !.ok = FALSE], New("note", 8)>>)
        again == Doc(S(2) :> [K(2) EXCEPT !.refs = {N(WB1, 1)}],
                     <<New("note", 9), New("note", 7), [New("note", 8) EXCEPT !.ok = FALSE]>>)
        first == {Doc(c1 @@ c2, <<>>), half, Whole}
        heard == Doc(<<>>, <<[Heard("note", 5) EXCEPT !.refs = {N(WB1, 1), S(2)}]>>)
    IN [Bare EXCEPT
        !.books = <<Book1(1, 11)>>,
        !.cands = S(1) :> Cand("record", {<<1, 1>>}, 1) @@ S(2) :> Cand("rule", {<<1, 1>>}, 1),
        !.talks = <<<<1, 1>>, <<1>>>>,
        !.files = <<[kind |-> "paper", side |-> 1, size |-> 1]>>, !.work = <<1>>,
        !.answers = WB1 :> <<first, {Doc(c1 @@ c2, <<>>), again, Whole}>>
                    @@ AT1 :> <<{Doc(<<>>, <<Off("docx", "record", 3)>>), Whole}, {Doc(<<>>, <<Off("docx", "record", 3)>>), Whole}>>
                    @@ TR :> <<{heard, Whole}, {heard, Whole}>> @@ TR2 :> <<{Doc(<<>>, <<>>)}, {Whole}>>,
        !.limit = [NoLimit EXCEPT !.builds = 2, !.deaths = 1, !.faults = 1]]

-----------------------------------------------------------------------------
(* Three candidates of two workbooks and every way their decisions cross.  *)
Crossing ==
    LET ways(others, links, key) ==
            {K(key), [K(key) EXCEPT !.act = "drop"], Keep(<<key, key + 10>>)} \cup
            {[K(key) EXCEPT !.refs = {o}] : o \in links} \cup
            {[K(key) EXCEPT !.home = o] : o \in links} \cup {[K(key) EXCEPT !.link = o] : o \in links} \cup
            {[K(key) EXCEPT !.act = "merge", !.into = o] : o \in others}
        odd(key) == {[K(key) EXCEPT !.sound = FALSE], [K(key) EXCEPT !.ok = FALSE],
                     [K(key) EXCEPT !.refs = {F1}], [K(key) EXCEPT !.refs = {S(9)}]}
        split(d) == IF Len(d.keys) = 2 THEN [d EXCEPT !.act = "split"] ELSE d
        wb1 == {Doc(S(1) :> split(d) @@ S(2) :> split(f), <<>>) :
                    d \in ways({S(2), S(3)}, {S(2)}, 1) \cup odd(1),
                    f \in ways({S(1), S(3)}, {S(3)}, 2)}
        wb2 == {Doc(S(3) :> split(d), <<>>) : d \in ways({S(1)}, {S(1)}, 3) \cup odd(3)}
               \cup {Doc(S(2) :> K(2), <<>>), Doc(S(3) :> K(1), <<New("rule", 2)>>)}
    IN [Bare EXCEPT
        !.books = <<Book1(1, 11), Book1(2, 12)>>,
        !.cands = S(1) :> Cand("rule", {<<1, 1>>}, 1) @@ S(2) :> Cand("rule", {<<1, 1>>}, 1)
                  @@ S(3) :> Cand("rule", {<<2, 1>>}, 1),
        !.answers = WB1 :> <<wb1, {Whole}>> @@ WB2 :> <<wb2, {Whole}>>]

-----------------------------------------------------------------------------
(* A form and a meeting that write the same entry, an entry that points at *)
(* it, and a review that keeps, drops, merges, splits and settles.         *)
V(act, on, into, keys) == [act |-> act, on |-> on, into |-> into, keys |-> keys, val |-> 0,
                           ok |-> TRUE, sound |-> TRUE]
Reviews(verdicts) == {[torn |-> FALSE, of |-> <<v>>] : v \in verdicts}
                     \cup {[torn |-> FALSE, of |-> <<vw[1], vw[2]>>] :
                              vw \in {x \in verdicts \X verdicts : x[1].on # x[2].on}}
                     \cup {[torn |-> TRUE, of |-> <<>>]}
Reviewed1 ==
    LET a == <<"rule", 1>>  b == <<"rule", 2>>
        verdicts == {V("drop", a, a, <<>>), V("drop", b, b, <<>>), V("keep", a, a, <<2>>),
                     [V("keep", b, b, <<2>>) EXCEPT !.sound = FALSE], [V("keep", b, b, <<4>>) EXCEPT !.ok = FALSE],
                     V("merge", a, b, <<>>), [V("merge", b, a, <<>>) EXCEPT !.sound = FALSE],
                     V("split", b, b, <<2, 3>>), [V("fix", a, a, <<>>) EXCEPT !.val = 2]}
        wb1 == {Doc(S(1) :> K(1) @@ S(2) :> d, <<>>) : d \in {K(2), [K(2) EXCEPT !.refs = {S(1)}], [K(1) EXCEPT !.val = 2]}}
        tr == {Doc(<<>>, <<[Heard("rule", 1) EXCEPT !.val = v, !.refs = r]>>) : v \in {1, 2}, r \in {{}, {F1}}}
              \cup {Doc(<<>>, <<[New("rule", 1) EXCEPT !.val = 2]>>)}
              \cup {Doc(<<>>, <<[Heard("rule", 2) EXCEPT !.refs = {S(1)}]>>)}
              \cup {Doc(<<>>, <<Heard("rule", 1), [Heard("note", 6) EXCEPT !.refs = {N(TR, 1)}]>>),
                    Doc(<<>>, <<[Heard("note", 6) EXCEPT !.refs = {F1}]>>)}
    IN [Bare EXCEPT
        !.books = <<Book1(1, 11)>>,
        !.cands = S(1) :> Cand("rule", {<<1, 1>>}, 1) @@ S(2) :> Cand("rule", {<<1, 1>>}, 1),
        !.talks = <<<<1>>>>,
        !.answers = WB1 :> <<wb1, {Whole}>> @@ TR :> <<tr, {Whole}>>,
        !.reviews = Reviews(verdicts), !.store = {F1},
        !.limit = [NoLimit EXCEPT !.losses = 1]]

AllEstates == {Planning, Lives, Crossing, Reviewed1}
TwinEstates == {Reviewed1}
=============================================================================
