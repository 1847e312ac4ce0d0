--------------------------- MODULE FactsRunProofs ---------------------------
(***************************************************************************)
(* What a facts run promises, for every estate: the forms are decided      *)
(* before a transcript is read, a unit is given up only after two refusals *)
(* of its own and keeps what its gate let through, every link of what is   *)
(* written lands on something written, nothing the estate holds is lost    *)
(* without being named, what a review drops is gone, a unit is shown what  *)
(* the file says, and no plan is one its build refuses.                    *)
(***************************************************************************)
EXTENDS FactsRun, Induction

-----------------------------------------------------------------------------
(* A unit's attempts.                                                      *)

IsSequence(s) == \E T : s \in Seq(T)

\* The ascending order of 1..c is 1, 2, ..., c.
LEMMA WholeOrder ==
    ASSUME NEW c \in Nat
    PROVE  \A k \in 1..c : InOrder(1..c)[k] = k
<1>1. IsFiniteSet(1..c) /\ Cardinality(1..c) = c /\ 1..c \in SUBSET Nat
  <2>1. 1..c \in SUBSET Nat
    OBVIOUS
  <2> QED  BY <2>1, FirstNumbers
<1>2. ASSUME NEW k \in 1..c PROVE Rank(1..c, k) = k
  <2>1. {m \in 1..c : m <= k} = 1..k
    OBVIOUS
  <2>2. Cardinality(1..k) = k
    <3>1. k \in Nat
      OBVIOUS
    <3> QED  BY <3>1, FirstNumbers
  <2> QED  BY <2>1, <2>2 DEF Rank
<1>3. \A k \in 1..c : InOrder(1..c)[k] \in 1..c /\ Rank(1..c, InOrder(1..c)[k]) = k
  BY <1>1, RankIsPlace
<1> QED  BY <1>2, <1>3

\* All the places of a sequence give the sequence.
LEMMA AllPlaces ==
    ASSUME NEW T, NEW s \in Seq(T)
    PROVE  AtPlaces(s, DOMAIN s) = s
<1>1. Len(s) \in Nat /\ DOMAIN s = 1..Len(s) /\ s = [k \in 1..Len(s) |-> s[k]]
  OBVIOUS
<1> DEFINE c == Len(s)
<1>2. Cardinality(1..c) = c
  <2>1. c \in Nat
    BY <1>1
  <2> HIDE DEF c
  <2> QED  BY <2>1, FirstNumbers
<1>3. \A k \in 1..c : InOrder(1..c)[k] = k
  BY <1>1, WholeOrder
<1>4. AtPlaces(s, 1..c) = [k \in 1..c |-> s[InOrder(1..c)[k]]]
  BY <1>2 DEF AtPlaces
<1>5. [k \in 1..c |-> s[InOrder(1..c)[k]]] = [k \in 1..c |-> s[k]]
  BY <1>3
<1> QED  BY <1>1, <1>4, <1>5

ReadablePlaces(s) == {i \in DOMAIN s : ~ s[i].torn}

\* What can be read of a unit's attempts: attempts of its, none of them torn.
LEMMA ReadableParts ==
    ASSUME NEW T, NEW s \in Seq(T)
    PROVE  LET r == Readable(s) IN
           /\ r \in Seq(T)
           /\ Len(r) = Cardinality(ReadablePlaces(s)) /\ DOMAIN r = 1..Len(r) /\ Len(r) \in Nat
           /\ \A k \in DOMAIN r : /\ InOrder(ReadablePlaces(s))[k] \in ReadablePlaces(s)
                                  /\ r[k] = s[InOrder(ReadablePlaces(s))[k]] /\ ~ r[k].torn
           /\ \A k, l \in DOMAIN r :
                k # l => InOrder(ReadablePlaces(s))[k] # InOrder(ReadablePlaces(s))[l]
<1> DEFINE P == ReadablePlaces(s)
           r == AtPlaces(s, P)
<1>1. P \in SUBSET (DOMAIN s)
  BY DEF ReadablePlaces
<1>2. Readable(s) = r
  BY DEF Readable, ReadablePlaces
<1>3. \A n \in P : ~ s[n].torn
  BY DEF ReadablePlaces
<1>4. /\ r \in Seq(T) /\ DOMAIN r = 1..Cardinality(P) /\ Len(r) = Cardinality(P)
      /\ \A k \in DOMAIN r : InOrder(P)[k] \in P /\ r[k] = s[InOrder(P)[k]]
      /\ \A k, l \in DOMAIN r : k # l => InOrder(P)[k] # InOrder(P)[l]
  <2> HIDE DEF P
  <2> QED  BY <1>1, PartOfSequence
<1>5. Len(r) \in Nat
  BY <1>4
<1> HIDE DEF P, r
<1>6. \A k \in DOMAIN r : ~ r[k].torn
  BY <1>3, <1>4
<1> QED  BY <1>2, <1>4, <1>5, <1>6 DEF P

\* Reading a second time takes nothing more away, so a unit's state and its
\* answer are what they were before its torn attempts were removed.
LEMMA ReadableTwice ==
    ASSUME NEW s, IsSequence(s)
    PROVE  /\ IsSequence(Readable(s))
           /\ Readable(Readable(s)) = Readable(s)
           /\ Admissible(Readable(s)) = Admissible(s)
           /\ \A kinds : StateOf(kinds, Readable(s)) = StateOf(kinds, s)
           /\ \A kinds, u : Answer(kinds, u, Readable(s)) = Answer(kinds, u, s)
<1>1. PICK T : s \in Seq(T)
  BY DEF IsSequence
<1> DEFINE r == Readable(s)
<1>2. r \in Seq(T) /\ \A k \in DOMAIN r : ~ r[k].torn
  BY <1>1, ReadableParts
<1>3. Readable(r) = r
  <2> HIDE DEF r
  <2>1. {i \in DOMAIN r : ~ r[i].torn} = DOMAIN r
    BY <1>2
  <2>2. Readable(r) = AtPlaces(r, DOMAIN r)
    BY <2>1, Zenon DEF Readable
  <2> QED  BY <1>2, <2>2, AllPlaces
<1>4. Admissible(r) = Admissible(s)
  BY <1>3 DEF Admissible
<1>5. \A kinds : StateOf(kinds, r) = StateOf(kinds, s)
  BY <1>3 DEF StateOf
<1>6. \A kinds, u : Answer(kinds, u, r) = Answer(kinds, u, s)
  BY <1>4 DEF Answer
<1> QED  BY <1>2, <1>3, <1>4, <1>5, <1>6 DEF IsSequence

\* An attempt more is a sequence still.
LEMMA OneMore ==
    ASSUME NEW s, IsSequence(s), NEW d
    PROVE  /\ IsSequence(Append(s, d))
           /\ DOMAIN Append(s, d) = DOMAIN s \cup {Len(s) + 1}
           /\ Append(s, d)[Len(s) + 1] = d
           /\ \A i \in DOMAIN s : Append(s, d)[i] = s[i]
<1>1. PICK T : s \in Seq(T)
  BY DEF IsSequence
<1>2. s \in Seq(T \cup {d}) /\ d \in T \cup {d}
  BY <1>1
<1>3. Append(s, d) \in Seq(T \cup {d})
  BY <1>2
<1>4. /\ DOMAIN Append(s, d) = DOMAIN s \cup {Len(s) + 1}
      /\ Append(s, d)[Len(s) + 1] = d
      /\ \A i \in DOMAIN s : Append(s, d)[i] = s[i]
  BY <1>2
<1> QED  BY <1>3, <1>4 DEF IsSequence

-----------------------------------------------------------------------------
(* The plan's units.                                                       *)

\* A unit is named after its type, and its phase follows from it.
NamedAfterItsType(u) == u.id[1] = u.type /\ u.phase = PhaseOf(u.type)

LEMMA UnitsAreNamed ==
    ASSUME NEW e, NEW w, NEW c, NEW g
    PROVE  \A u \in Plan(e, w, c, g).units : NamedAfterItsType(u)
<1>1. ASSUME NEW type, NEW n, NEW m, NEW cands, NEW lines, NEW files
      PROVE  NamedAfterItsType(Unit(type, n, m, cands, lines, files))
  BY DEF NamedAfterItsType, Unit
<1>2. ASSUME NEW type, NEW n, NEW m, NEW cands, NEW lines, NEW files
      PROVE  NamedAfterItsType(SetAside(e, Unit(type, n, m, cands, lines, files)))
  BY DEF NamedAfterItsType, Unit, SetAside
<1>3. \A u \in BookUnits(e) : NamedAfterItsType(u)
  <2> SUFFICES ASSUME NEW u \in BookUnits(e) PROVE NamedAfterItsType(u)
    OBVIOUS
  <2> DEFINE root == Joined(e)
             mine(r) == {x \in DOMAIN e.cands : HomeOf(e, root, x) = r}
             part(r, s, tab) == Unit(Book, s, tab, {x \in mine(r) : Axis(e, x) = tab}, {}, {})
             units(r) ==
               LET s == Min({x \in Shorts(e) : root[x] = r})
                   tabs == {Axis(e, x) : x \in mine(r)}
               IN IF Cardinality(tabs) > 1 THEN {part(r, s, t) : t \in tabs}
                  ELSE IF tabs = {} THEN {} ELSE {Unit(Book, s, 0, mine(r), {}, {})}
  <2>1. BookUnits(e) = {SetAside(e, v) : v \in UNION {units(r) : r \in Range(root)}}
    BY DEF BookUnits
  <2>2. PICK r \in Range(root) : \E v \in units(r) : u = SetAside(e, v)
    BY <2>1
  <2>3. PICK v \in units(r) : u = SetAside(e, v)
    BY <2>2
  <2>4. \E n, m, cands : v = Unit(Book, n, m, cands, {}, {})
    BY <2>3
  <2> QED  BY <1>2, <2>3, <2>4
<1>4. \A u \in TalkUnits(e) : NamedAfterItsType(u)
  <2> SUFFICES ASSUME NEW u \in TalkUnits(e) PROVE NamedAfterItsType(u)
    OBVIOUS
  <2>1. PICK r \in DOMAIN e.talks : \E s \in Spans(e, r) : u = Span(e, r, s[1], s[2])
    BY DEF TalkUnits
  <2>2. PICK s \in Spans(e, r) : u = Span(e, r, s[1], s[2])
    BY <2>1
  <2> QED  BY <1>1, <2>2 DEF Span
<1>5. \A u \in AttUnits(e, w, c, g) : NamedAfterItsType(u)
  BY <1>1 DEF AttUnits
<1>6. Plan(e, w, c, g).units = PlannedUnits(e, w, c, g)
  BY DEF Plan
<1> QED  BY <1>3, <1>4, <1>5, <1>6 DEF PlannedUnits

\* What some units' answers come to is the same wherever those answers are.
LEMMA SameAnswersSameRun ==
    ASSUME NEW e, NEW p, NEW only, NEW out1, NEW out2,
           \A u \in only : /\ Admissible(out1[u]) = Admissible(out2[u])
                           /\ \A kinds : Answer(kinds, u, out1[u]) = Answer(kinds, u, out2[u])
    PROVE  RunOf(e, p, out1, only) = RunOf(e, p, out2, only)
<1> DEFINE units == {u \in p.units : u.id \in only}
           named == {x.id : x \in units}
           kinds == [c \in DOMAIN e.cands |-> e.cands[c].kind]
<1>1. named \subseteq only
  OBVIOUS
<1>2. [u \in named |-> Answer(kinds, u, out1[u])] = [u \in named |-> Answer(kinds, u, out2[u])]
  <2> HIDE DEF kinds, named
  <2> QED  BY <1>1
<1>3. {u \in named : Admissible(out1[u]) = <<>>} = {u \in named : Admissible(out2[u]) = <<>>}
  <2> HIDE DEF kinds, named
  <2> QED  BY <1>1
<1> QED  BY <1>2, <1>3, Zenon DEF RunOf

-----------------------------------------------------------------------------
(* What every state of a run has.                                          *)

Spent(e, l, what) == l[what] < e.limit[what]
AttemptFields == DocumentFields \cup {"for"}
IsAttempt(d) == DOMAIN d = AttemptFields /\ IsDocument(d)

\* A unit's attempts are documents its agents wrote, or halves of some; what
\* is asked and what is told is asked of and told to units of the plan.
BaseInv ==
    /\ estate \in Estates
    /\ left \in [Bounds -> Nat] /\ \A what \in Bounds : left[what] <= estate.limit[what]
    /\ \A u \in plan.units : NamedAfterItsType(u) /\ u.id \in DOMAIN out
    /\ \A u \in DOMAIN out : IsSequence(out[u]) /\ \A i \in DOMAIN out[u] : IsAttempt(out[u][i])
    /\ asked \subseteq Names(plan.units)
    /\ DOMAIN told = Names(InPhase(2))

LEMMA WrittenIsAttempt ==
    ASSUME NEW doc, DOMAIN doc = DocumentFields, IsDocument(doc), NEW i
    PROVE  IsAttempt(With(doc, [for |-> i])) /\ (With(doc, [for |-> i])).for = i
<1> DEFINE d == With(doc, [for |-> i])
<1>1. DOMAIN d = AttemptFields /\ d = [k \in AttemptFields |-> IF k \in DocumentFields THEN doc[k] ELSE i]
  BY DEF AttemptFields, DocumentFields, With
<1>2. d.torn = doc.torn /\ d.whole = doc.whole /\ d.dec = doc.dec /\ d.new = doc.new /\ d.for = i
  BY <1>1 DEF AttemptFields, DocumentFields
<1> HIDE DEF d
<1>3. IsDocument(d)
  BY <1>2, Zenon DEF IsDocument
<1>4. IsAttempt(d)
  BY <1>1, <1>3 DEF IsAttempt
<1> QED  BY <1>2, <1>4 DEF d

LEMMA TornIsDocument == DOMAIN Torn = DocumentFields /\ IsDocument(Torn)
  BY DEF Torn, DocumentFields, IsDocument

\* A document written is one more attempt of its unit, and nobody else's.
LEMMA WritesParts ==
    ASSUME BaseInv, NEW u \in asked, NEW doc, DOMAIN doc = DocumentFields, IsDocument(doc),
           Writes(u, doc)
    PROVE  /\ u \in DOMAIN out /\ DOMAIN out' = DOMAIN out /\ asked' = asked \ {u}
           /\ \A v \in DOMAIN out \ {u} : out'[v] = out[v]
           /\ out'[u] = Append(out[u], With(doc, [for |-> InputsOf(u)]))
           /\ \A v \in DOMAIN out : IsSequence(out'[v]) /\ \A i \in DOMAIN out'[v] : IsAttempt(out'[v][i])
<1> DEFINE d == With(doc, [for |-> InputsOf(u)])
<1>1. u \in DOMAIN out
  BY DEF BaseInv, Names
<1>2. /\ DOMAIN out' = DOMAIN out /\ asked' = asked \ {u} /\ out'[u] = Append(out[u], d)
      /\ \A v \in DOMAIN out \ {u} : out'[v] = out[v]
  BY <1>1 DEF Writes
<1>3. IsAttempt(d)
  BY WrittenIsAttempt
<1>4. IsSequence(out[u]) /\ \A i \in DOMAIN out[u] : IsAttempt(out[u][i])
  BY <1>1 DEF BaseInv
<1> HIDE DEF d
<1>5. IsSequence(Append(out[u], d)) /\ \A i \in DOMAIN Append(out[u], d) : IsAttempt(Append(out[u], d)[i])
  BY <1>3, <1>4, OneMore
<1>6. \A v \in DOMAIN out : IsSequence(out'[v]) /\ \A i \in DOMAIN out'[v] : IsAttempt(out'[v][i])
  BY <1>2, <1>5 DEF BaseInv
<1> QED  BY <1>1, <1>2, <1>6 DEF d

\* An answer is a document the estate has for the unit.
LEMMA AnswersParts ==
    ASSUME BaseInv, NEW u \in asked, Answers(u)
    PROVE  \E doc : DOMAIN doc = DocumentFields /\ IsDocument(doc) /\ Writes(u, doc)
<1>1. u \in DOMAIN estate.answers /\ Attempt(u) \in DOMAIN estate.answers[u]
  BY DEF Answers
<1>2. PICK doc \in estate.answers[u][Attempt(u)] : Writes(u, doc)
  BY DEF Answers
<1>3. IsEstate(estate)
  BY EstatesAssumption DEF BaseInv
<1>4. DOMAIN doc = DocumentFields /\ IsDocument(doc)
  BY <1>1, <1>3 DEF IsEstate
<1> QED  BY <1>2, <1>4

LEMMA SpendsParts ==
    ASSUME BaseInv, NEW what \in Bounds, Spends(what)
    PROVE  /\ left' \in [Bounds -> Nat] /\ Spent(estate, left', what)
           /\ \A w \in Bounds : left'[w] <= left[w] /\ left'[w] <= estate.limit[w]
           /\ \A w \in Bounds \ {what} : left'[w] = left[w]
<1>1. left \in [Bounds -> Nat] /\ left[what] > 0 /\ left' = [left EXCEPT ![what] = @ - 1]
  BY DEF BaseInv, Spends
<1>2. IsEstate(estate)
  BY EstatesAssumption DEF BaseInv
<1>3. estate.limit \in [Bounds -> Nat] /\ \A w \in Bounds : left[w] <= estate.limit[w]
  BY <1>2 DEF IsEstate, BaseInv
<1>4. left' \in [Bounds -> Nat] /\ left'[what] = left[what] - 1 /\ \A w \in Bounds \ {what} : left'[w] = left[w]
  BY <1>1
<1>5. \A w \in Bounds : left[w] \in Nat /\ estate.limit[w] \in Nat
  BY <1>1, <1>3
<1>6. \A w \in Bounds : left'[w] <= left[w] /\ left'[w] <= estate.limit[w]
  BY <1>3, <1>4, <1>5
<1>7. left'[what] < estate.limit[what]
  BY <1>3, <1>4, <1>5
<1> QED  BY <1>4, <1>6, <1>7 DEF Spent

\* What has happened has happened.
LEMMA SpendsStays ==
    ASSUME BaseInv, left' = left \/ \E what \in Bounds : Spends(what)
    PROVE  \A what \in Bounds : Spent(estate, left, what) => Spent(estate, left', what)
<1>1. CASE left' = left
  BY <1>1 DEF Spent
<1>2. ASSUME NEW what \in Bounds, Spends(what)
      PROVE  \A w \in Bounds : Spent(estate, left, w) => Spent(estate, left', w)
  <2>1. IsEstate(estate)
    BY EstatesAssumption DEF BaseInv
  <2>2. \A w \in Bounds : left[w] \in Nat /\ left'[w] \in Nat /\ estate.limit[w] \in Nat /\ left'[w] <= left[w]
    BY <1>2, <2>1, SpendsParts DEF IsEstate, BaseInv
  <2> QED  BY <2>2 DEF Spent
<1> QED  BY <1>1, <1>2

LEMMA BaseInit == Init => BaseInv
<1> SUFFICES ASSUME Init PROVE BaseInv
  OBVIOUS
<1>1. estate \in Estates /\ left = estate.limit /\ plan = NoPlan /\ out = <<>> /\ asked = {} /\ told = <<>>
  BY DEF Init
<1>2. IsEstate(estate)
  BY <1>1, EstatesAssumption
<1>3. left \in [Bounds -> Nat] /\ \A what \in Bounds : left[what] <= estate.limit[what]
  BY <1>1, <1>2 DEF IsEstate
<1>4. plan.units = {} /\ DOMAIN out = {} /\ DOMAIN told = {}
  BY <1>1 DEF NoPlan
<1>5. Names(plan.units) = {} /\ Names(InPhase(2)) = {}
  BY <1>4 DEF Names, InPhase
<1> QED  BY <1>1, <1>3, <1>4, <1>5 DEF BaseInv

\* A plan made again: its units are new, its attempts stay, and what its
\* transcripts were told is forgotten.
Replanned ==
    /\ DOMAIN out' = DOMAIN out \cup Names(plan'.units)
    /\ \A u \in DOMAIN out' : out'[u] = IF u \in DOMAIN out THEN out[u] ELSE <<>>
    /\ DOMAIN told' = {x.id : x \in {y \in plan'.units : y.phase = 2}}
    /\ \A u \in DOMAIN told' : told'[u] = NotTold
    /\ \A u \in plan'.units : NamedAfterItsType(u)
    /\ plan' = With(Plan(estate, work, cache, groups), [made |-> TRUE, of |-> work])
    /\ plan'.units = Plan(estate, work, cache, groups).units /\ plan'.of = work
    /\ plan'.unread = Plan(estate, work, cache, groups).unread
    /\ plan'.shown = Plan(estate, work, cache, groups).shown

LEMMA BuildParts ==
    ASSUME NEW anyway \in BOOLEAN, Build(anyway)
    PROVE  /\ Spends("builds") /\ UNCHANGED <<estate, asked, Files, store, Reviewing, delta>>
           /\ asked = {} /\ ~ delta.is
           /\ UNCHANGED <<plan, out, told>> \/ Replanned
<1> DEFINE p == Plan(estate, work, cache, groups)
<1>1. /\ Spends("builds") /\ UNCHANGED <<estate, asked, Files, store, Reviewing, delta>>
      /\ asked = {} /\ ~ delta.is
  BY DEF Build
<1>2. \/ UNCHANGED <<plan, out, told>>
      \/ /\ plan' = With(p, [made |-> TRUE, of |-> work])
         /\ out' = [u \in DOMAIN out \cup Names(p.units) |-> IF u \in DOMAIN out THEN out[u] ELSE <<>>]
         /\ told' = [u \in {x.id : x \in {y \in p.units : y.phase = 2}} |-> NotTold]
  BY DEF Build
<1>3. CASE UNCHANGED <<plan, out, told>>
  BY <1>1, <1>3
<1>4. CASE /\ plan' = With(p, [made |-> TRUE, of |-> work])
           /\ out' = [u \in DOMAIN out \cup Names(p.units) |-> IF u \in DOMAIN out THEN out[u] ELSE <<>>]
           /\ told' = [u \in {x.id : x \in {y \in p.units : y.phase = 2}} |-> NotTold]
  <2>1. DOMAIN p = {"units", "aside", "over", "unread", "shown"} /\ \A u \in p.units : NamedAfterItsType(u)
    BY UnitsAreNamed DEF Plan
  <2> HIDE DEF p
  <2>2. /\ plan'.units = p.units /\ plan'.of = work /\ plan'.unread = p.unread
        /\ plan'.shown = p.shown
    BY <1>4, <2>1 DEF With
  <2>3. Replanned
    BY <1>4, <2>1, <2>2 DEF Replanned, p
  <2> QED  BY <1>1, <2>3
<1> QED  BY <1>2, <1>3, <1>4

LEMMA BaseNext == BaseInv /\ [Next]_vars => BaseInv'
<1> SUFFICES ASSUME BaseInv, [Next]_vars PROVE BaseInv'
  OBVIOUS
<1> USE DEF BaseInv
\* What leaves the plan, the attempts, the asked and the told alone.
<1>1. ASSUME UNCHANGED <<estate, plan, out, asked, told>>, left' = left \/ \E what \in Bounds : Spends(what)
      PROVE  BaseInv'
  <2>1. left' \in [Bounds -> Nat] /\ \A what \in Bounds : left'[what] <= estate'.limit[what]
    BY <1>1, SpendsParts
  <2> QED  BY <1>1, <2>1 DEF Names, InPhase
\* What an agent writes or leaves.
<1>2. ASSUME NEW u \in asked, UNCHANGED <<estate, plan, told>>,
             left' = left \/ \E what \in Bounds : Spends(what),
             \/ \E doc : DOMAIN doc = DocumentFields /\ IsDocument(doc) /\ Writes(u, doc)
             \/ asked' = asked \ {u} /\ out' = out
      PROVE  BaseInv'
  <2>1. left' \in [Bounds -> Nat] /\ \A what \in Bounds : left'[what] <= estate'.limit[what]
    BY <1>2, SpendsParts
  <2>2. /\ DOMAIN out' = DOMAIN out /\ asked' = asked \ {u}
        /\ \A v \in DOMAIN out : IsSequence(out'[v]) /\ \A i \in DOMAIN out'[v] : IsAttempt(out'[v][i])
    <3>1. CASE \E doc : DOMAIN doc = DocumentFields /\ IsDocument(doc) /\ Writes(u, doc)
      <4>1. PICK doc : DOMAIN doc = DocumentFields /\ IsDocument(doc) /\ Writes(u, doc)
        BY <3>1
      <4> QED  BY <4>1, WritesParts
    <3>2. CASE asked' = asked \ {u} /\ out' = out
      BY <3>2
    <3> QED  BY <1>2, <3>1, <3>2
  <2> QED  BY <1>2, <2>1, <2>2 DEF Names, InPhase
<1>3. ASSUME NEW f \in DOMAIN work, Convert(f) \/ ConvertTorn(f) \/ \E c \in estate.contents : Edit(f, c) \/ ConvertCrossed(f, c)
      PROVE  BaseInv'
  BY <1>1, <1>3 DEF Convert, ConvertTorn, ConvertCrossed, Edit, Bounds
<1>4. ASSUME NEW g \in estate.groupings, GroupPhotos(g) PROVE BaseInv'
  BY <1>1, <1>4 DEF GroupPhotos
<1>5. ASSUME NEW anyway \in BOOLEAN, Build(anyway) PROVE BaseInv'
  <2>1. /\ Spends("builds") /\ UNCHANGED <<estate, asked>> /\ asked = {}
        /\ UNCHANGED <<plan, out, told>> \/ Replanned
    BY <1>5, BuildParts
  <2>2. left' \in [Bounds -> Nat] /\ \A what \in Bounds : left'[what] <= estate'.limit[what]
    BY <2>1, SpendsParts DEF Bounds
  <2>3. CASE UNCHANGED <<plan, out, told>>
    BY <1>1, <2>1, <2>3 DEF Bounds
  <2>4. CASE Replanned
    <3>1. \A u \in plan'.units : NamedAfterItsType(u) /\ u.id \in DOMAIN out'
      BY <2>4 DEF Replanned, Names
    <3>2. \A u \in DOMAIN out' : IsSequence(out'[u]) /\ \A i \in DOMAIN out'[u] : IsAttempt(out'[u][i])
      <4> SUFFICES ASSUME NEW u \in DOMAIN out'
                   PROVE  IsSequence(out'[u]) /\ \A i \in DOMAIN out'[u] : IsAttempt(out'[u][i])
        OBVIOUS
      <4>1. CASE u \in DOMAIN out
        BY <2>4, <4>1 DEF Replanned
      <4>2. CASE u \notin DOMAIN out
        <5>1. out'[u] = <<>>
          BY <2>4, <4>2 DEF Replanned
        <5>2. <<>> \in Seq({}) /\ DOMAIN <<>> = {}
          OBVIOUS
        <5> QED  BY <5>1, <5>2 DEF IsSequence
      <4> QED  BY <4>1, <4>2
    <3>3. DOMAIN told' = Names(InPhase(2))'
      BY <2>4 DEF Replanned, Names, InPhase
    <3> QED  BY <2>1, <2>2, <3>1, <3>2, <3>3 DEF Names
  <2> QED  BY <2>1, <2>3, <2>4
<1>6. ASSUME NEW reached \in SUBSET DOMAIN told, Poll(reached) PROVE BaseInv'
  <2>1. /\ out' = [u \in DOMAIN out |-> Readable(out[u])] /\ asked' = Names(OpenNow)
        /\ UNCHANGED <<estate, plan>> /\ DOMAIN told' = DOMAIN told
        /\ left' = left \/ Spends("faults")
    <3>1. DOMAIN told' = DOMAIN told
      BY <1>6 DEF Poll
    <3> QED  BY <1>6, <3>1 DEF Poll
  <2>2. left' \in [Bounds -> Nat] /\ \A what \in Bounds : left'[what] <= estate'.limit[what]
    BY <2>1, SpendsParts DEF Bounds
  <2>3. asked' \subseteq Names(plan.units)
    BY <2>1 DEF Names, OpenNow, Open, InPhase
  <2>4. \A u \in DOMAIN out' : IsSequence(out'[u]) /\ \A i \in DOMAIN out'[u] : IsAttempt(out'[u][i])
    <3> SUFFICES ASSUME NEW u \in DOMAIN out
                 PROVE  IsSequence(Readable(out[u])) /\ \A i \in DOMAIN Readable(out[u]) : IsAttempt(Readable(out[u])[i])
      BY <2>1
    <3>1. IsSequence(out[u]) /\ \A i \in DOMAIN out[u] : IsAttempt(out[u][i])
      OBVIOUS
    <3>2. PICK T : out[u] \in Seq(T)
      BY <3>1 DEF IsSequence
    <3>3. \A k \in DOMAIN Readable(out[u]) : \E n \in DOMAIN out[u] : Readable(out[u])[k] = out[u][n]
      BY <3>2, ReadableParts DEF ReadablePlaces
    <3> QED  BY <3>1, <3>3, ReadableTwice
  <2> QED  BY <2>1, <2>2, <2>3, <2>4 DEF Names, InPhase
<1>7. ASSUME NEW u \in asked, Answers(u) PROVE BaseInv'
  <2>1. \E doc : DOMAIN doc = DocumentFields /\ IsDocument(doc) /\ Writes(u, doc)
    BY <1>7, AnswersParts
  <2> QED  BY <1>2, <1>7, <2>1 DEF Answers
<1>8. ASSUME NEW u \in asked, NEW half \in BOOLEAN, Dies(u, half) PROVE BaseInv'
  <2>1. Writes(u, Torn) \/ (asked' = asked \ {u} /\ out' = out)
    BY <1>8 DEF Dies
  <2>2. Spends("deaths") /\ "deaths" \in Bounds /\ UNCHANGED <<estate, plan, told>>
    BY <1>8 DEF Dies, Bounds
  <2> QED  BY <1>2, <2>1, <2>2, TornIsDocument
<1>9. ASSUME NEW r \in estate.reviews, ReviewerWrites(r) PROVE BaseInv'
  BY <1>1, <1>9 DEF ReviewerWrites
<1>10. CASE DigestStep
  BY <1>1, <1>10 DEF DigestStep
<1>11. CASE Assemble
  BY <1>1, <1>11 DEF Assemble
<1>12. CASE Apply
  BY <1>1, <1>12 DEF Apply
<1>13. ASSUME NEW id \in store, StoreLoses(id) PROVE BaseInv'
  BY <1>1, <1>13 DEF StoreLoses, Bounds
<1>14. CASE UNCHANGED vars
  BY <1>1, <1>14 DEF vars
<1> QED
  BY <1>3, <1>4, <1>5, <1>6, <1>7, <1>8, <1>9, <1>10, <1>11, <1>12, <1>13, <1>14 DEF Next

-----------------------------------------------------------------------------
(* The forms before the talk.                                              *)

KindsOf(e) == [c \in DOMAIN e.cands |-> e.cands[c].kind]
Forms(p) == {u \in p.units : u.phase = 1}
OpenForms(e, p, o) == {u \in Forms(p) : StateOf(KindsOf(e), o[u.id]) \in {"pending", "retry"}}
Recorded(e, s, p, o) == PhaseEntries(RunOf([e EXCEPT !.store = s], p, o, {u.id : u \in Forms(p)}))

\* A transcript that is asked is asked after the last form was settled, and was
\* told what the forms recorded, or telling failed; nobody is told before, and
\* what was told is a slice of what the forms record still.
TalkInv(e, l, s, p, o, a, t) ==
    /\ \A u \in a : u[1] = Talk =>
          OpenForms(e, p, o) = {} /\ (Spent(e, l, "faults") \/ \A v \in DOMAIN t : t[v].is)
    /\ \A u \in a : u[1] # Talk => (\A v \in DOMAIN t : ~ t[v].is) /\ \A v \in a : v[1] # Talk
    /\ \A v \in DOMAIN t : t[v].is =>
          OpenForms(e, p, o) = {} /\ (Spent(e, l, "losses") \/ t[v].of = RecordedSlice(Recorded(e, s, p, o)))

SameAnswers(o, o2, ids) ==
    \A u \in ids : /\ Admissible(o2[u]) = Admissible(o[u])
                   /\ \A kinds : StateOf(kinds, o2[u]) = StateOf(kinds, o[u])
                   /\ \A kinds : Answer(kinds, u, o2[u]) = Answer(kinds, u, o[u])

LEMMA SameForms ==
    ASSUME NEW e, NEW s, NEW p, NEW o, NEW o2, SameAnswers(o, o2, {u.id : u \in Forms(p)})
    PROVE  OpenForms(e, p, o2) = OpenForms(e, p, o) /\ Recorded(e, s, p, o2) = Recorded(e, s, p, o)
<1> DEFINE ids == {u.id : u \in Forms(p)}
<1>1. \A u \in Forms(p) : u.id \in ids
  OBVIOUS
<1> HIDE DEF ids
<1>2. OpenForms(e, p, o2) = OpenForms(e, p, o)
  BY <1>1 DEF OpenForms, SameAnswers, ids
<1>3. RunOf([e EXCEPT !.store = s], p, o2, ids) = RunOf([e EXCEPT !.store = s], p, o, ids)
  <2>1. \A u \in ids : /\ Admissible(o2[u]) = Admissible(o[u])
                       /\ \A kinds : Answer(kinds, u, o2[u]) = Answer(kinds, u, o[u])
    BY DEF SameAnswers, ids
  <2> QED  BY <2>1, SameAnswersSameRun
<1> QED  BY <1>2, <1>3 DEF Recorded, ids

\* As long as no form's answers change, or no transcript is asked or told yet,
\* the units that are still asked are rightly asked.
LEMMA TalkStands ==
    ASSUME NEW e, NEW l, NEW l2, NEW s, NEW s2, NEW p, NEW o, NEW o2, NEW a, NEW a2, NEW t,
           TalkInv(e, l, s, p, o, a, t), a2 \subseteq a,
           \A what \in {"faults", "losses"} : Spent(e, l, what) => Spent(e, l2, what),
           s2 = s \/ Spent(e, l2, "losses"),
           \/ SameAnswers(o, o2, {u.id : u \in Forms(p)})
           \/ \E u \in a : u[1] # Talk
    PROVE  TalkInv(e, l2, s2, p, o2, a2, t)
<1>1. CASE SameAnswers(o, o2, {u.id : u \in Forms(p)})
  <2>1. OpenForms(e, p, o2) = OpenForms(e, p, o) /\ Recorded(e, s, p, o2) = Recorded(e, s, p, o)
    BY <1>1, SameForms
  <2>2. \A v \in DOMAIN t : t[v].is =>
          OpenForms(e, p, o2) = {} /\ (Spent(e, l2, "losses") \/ t[v].of = RecordedSlice(Recorded(e, s2, p, o2)))
    <3>1. CASE s2 = s
      BY <2>1, <3>1 DEF TalkInv
    <3>2. CASE Spent(e, l2, "losses")
      BY <2>1, <3>2 DEF TalkInv
    <3> QED  BY <3>1, <3>2
  <2> QED  BY <2>1, <2>2 DEF TalkInv
<1>2. CASE \E u \in a : u[1] # Talk
  <2>1. (\A v \in DOMAIN t : ~ t[v].is) /\ \A v \in a : v[1] # Talk
    BY <1>2 DEF TalkInv
  <2> QED  BY <2>1 DEF TalkInv
<1> QED  BY <1>1, <1>2

RightlyTold == TalkInv(estate, left, store, plan, out, asked, told)

LEMMA FormsOfThePlan ==
    ASSUME BaseInv
    PROVE  /\ Open(InPhase(1)) = OpenForms(estate, plan, out)
           /\ PhaseEntries(Run(Names(InPhase(1)))) = Recorded(estate, store, plan, out)
           /\ \A u \in Forms(plan) : u.id[1] # Talk /\ u.id \in DOMAIN out
           /\ \A u \in InPhase(2) : u.id[1] = Talk
<1>1. Open(InPhase(1)) = OpenForms(estate, plan, out)
  BY DEF Open, InPhase, State, Kinds, OpenForms, Forms, KindsOf
<1>2. Recorded(estate, store, plan, out) = PhaseEntries(Run(Names(InPhase(1))))
  BY Zenon DEF Recorded, Run, Names, InPhase, Forms
<1>3. \A u \in plan.units : NamedAfterItsType(u) /\ u.id \in DOMAIN out
  BY DEF BaseInv
<1>4. \A u \in plan.units : (u.phase = 1 <=> u.id[1] # Talk) /\ (u.phase = 2 => u.id[1] = Talk)
  BY <1>3 DEF NamedAfterItsType, PhaseOf
<1> QED  BY <1>1, <1>2, <1>3, <1>4 DEF Forms, InPhase

LEMMA RightlyToldInit == Init => RightlyTold
  BY DEF Init, RightlyTold, TalkInv

LEMMA RightlyToldNext == BaseInv /\ RightlyTold /\ [Next]_vars => RightlyTold'
<1> SUFFICES ASSUME BaseInv, RightlyTold, [Next]_vars PROVE RightlyTold'
  OBVIOUS
<1>0. TalkInv(estate, left, store, plan, out, asked, told)
  BY DEF RightlyTold
\* What leaves the attempts alone.
<1>1. ASSUME UNCHANGED <<estate, plan, out, asked, told>>,
             left' = left \/ \E what \in Bounds : Spends(what),
             store' = store \/ Spends("losses")
      PROVE  RightlyTold'
  <2>1. \A what \in {"faults", "losses"} : Spent(estate, left, what) => Spent(estate, left', what)
    BY <1>1, SpendsStays DEF Bounds
  <2>2. store' = store \/ Spent(estate, left', "losses")
    BY <1>1, SpendsParts DEF Bounds
  <2>3. SameAnswers(out, out, {u.id : u \in Forms(plan)})
    BY DEF SameAnswers
  <2>4. TalkInv(estate, left', store', plan, out, asked, told)
    BY <1>0, <2>1, <2>2, <2>3, TalkStands
  <2> QED  BY <1>1, <2>4 DEF RightlyTold
\* What an agent writes or leaves.
<1>2. ASSUME NEW u \in asked, UNCHANGED <<estate, store, plan, told>>,
             left' = left \/ \E what \in Bounds : Spends(what),
             \/ \E doc : DOMAIN doc = DocumentFields /\ IsDocument(doc) /\ Writes(u, doc)
             \/ asked' = asked \ {u} /\ out' = out
      PROVE  RightlyTold'
  <2>1. \A what \in {"faults", "losses"} : Spent(estate, left, what) => Spent(estate, left', what)
    BY <1>2, SpendsStays DEF Bounds
  <2>2. asked' \subseteq asked /\ \A v \in DOMAIN out \ {u} : out'[v] = out[v]
    <3>1. CASE \E doc : DOMAIN doc = DocumentFields /\ IsDocument(doc) /\ Writes(u, doc)
      <4>1. PICK doc : DOMAIN doc = DocumentFields /\ IsDocument(doc) /\ Writes(u, doc)
        BY <3>1
      <4> QED  BY <4>1, WritesParts
    <3>2. CASE asked' = asked \ {u} /\ out' = out
      BY <3>2
    <3> QED  BY <1>2, <3>1, <3>2
  <2>3. SameAnswers(out, out', {v.id : v \in Forms(plan)}) \/ \E v \in asked : v[1] # Talk
    <3>1. CASE u[1] # Talk
      BY <3>1
    <3>2. CASE u[1] = Talk
      <4>1. \A v \in Forms(plan) : v.id # u /\ v.id \in DOMAIN out
        BY <3>2, FormsOfThePlan
      <4>2. \A v \in Forms(plan) : out'[v.id] = out[v.id]
        BY <2>2, <4>1
      <4> QED  BY <4>2 DEF SameAnswers
    <3> QED  BY <3>1, <3>2
  <2>4. TalkInv(estate, left', store, plan, out', asked', told)
    BY <1>0, <2>1, <2>2, <2>3, TalkStands
  <2> QED  BY <1>2, <2>4 DEF RightlyTold
<1>3. ASSUME NEW f \in DOMAIN work, Convert(f) \/ ConvertTorn(f) \/ \E c \in estate.contents : Edit(f, c) \/ ConvertCrossed(f, c)
      PROVE  RightlyTold'
  BY <1>1, <1>3 DEF Convert, ConvertTorn, ConvertCrossed, Edit, Bounds
<1>4. ASSUME NEW g \in estate.groupings, GroupPhotos(g) PROVE RightlyTold'
  BY <1>1, <1>4 DEF GroupPhotos
<1>5. ASSUME NEW anyway \in BOOLEAN, Build(anyway) PROVE RightlyTold'
  <2>1. /\ Spends("builds") /\ UNCHANGED <<estate, asked, store>> /\ asked = {}
        /\ UNCHANGED <<plan, out, told>> \/ Replanned
    BY <1>5, BuildParts
  <2>2. CASE UNCHANGED <<plan, out, told>>
    BY <1>1, <2>1, <2>2 DEF Bounds
  <2>3. CASE Replanned
    <3>1. \A v \in DOMAIN told' : ~ told'[v].is
      <4>1. \A v \in DOMAIN told' : told'[v] = NotTold
        BY <2>3 DEF Replanned
      <4>2. ~ NotTold.is
        BY DEF NotTold
      <4> QED  BY <4>1, <4>2
    <3> QED  BY <2>1, <3>1 DEF RightlyTold, TalkInv
  <2> QED  BY <2>1, <2>2, <2>3
<1>6. ASSUME NEW reached \in SUBSET DOMAIN told, Poll(reached) PROVE RightlyTold'
  <2> DEFINE now == RecordedSlice(Recorded(estate, store, plan, out))
             done == OpenForms(estate, plan, out) = {}
  <2>1. /\ out' = [u \in DOMAIN out |-> Readable(out[u])] /\ asked' = Names(OpenNow)
        /\ UNCHANGED <<estate, plan, store>>
        /\ IF reached = Untold THEN left' = left ELSE Spends("faults")
    BY <1>6 DEF Poll
  <2>2. /\ told' = [u \in DOMAIN told |-> IF u \in reached THEN [is |-> TRUE, of |-> now] ELSE told[u]]
        /\ Untold = {u \in DOMAIN told : done /\ ~ told[u].is} /\ reached \subseteq Untold
    <3>1. ToldNow = now /\ (Open(InPhase(1)) = {} <=> done)
      BY FormsOfThePlan DEF ToldNow
    <3> HIDE DEF now, done
    <3>2. told' = [u \in DOMAIN told |-> IF u \in reached THEN [is |-> TRUE, of |-> ToldNow] ELSE told[u]]
      BY <1>6 DEF Poll
    <3>3. Untold = {u \in DOMAIN told : done /\ ~ told[u].is}
      BY <3>1 DEF Untold
    <3>4. reached \subseteq Untold
      BY <1>6 DEF Poll
    <3> QED  BY <3>1, <3>2, <3>3, <3>4
  <2>3. \A what \in {"faults", "losses"} : Spent(estate, left, what) => Spent(estate, left', what)
    <3>1. left' = left \/ \E what \in Bounds : Spends(what)
      BY <2>1 DEF Bounds
    <3> QED  BY <3>1, SpendsStays DEF Bounds
  <2>4. /\ OpenForms(estate, plan, out') = OpenForms(estate, plan, out)
        /\ RecordedSlice(Recorded(estate, store, plan, out')) = now
    <3>1. SameAnswers(out, out', {u.id : u \in Forms(plan)})
      <4> SUFFICES ASSUME NEW u \in {v.id : v \in Forms(plan)}
                   PROVE  /\ Admissible(out'[u]) = Admissible(out[u])
                          /\ \A kinds : StateOf(kinds, out'[u]) = StateOf(kinds, out[u])
                          /\ \A kinds : Answer(kinds, u, out'[u]) = Answer(kinds, u, out[u])
        BY DEF SameAnswers
      <4>1. u \in DOMAIN out
        BY FormsOfThePlan
      <4>2. out'[u] = Readable(out[u]) /\ IsSequence(out[u])
        BY <2>1, <4>1 DEF BaseInv
      <4> QED  BY <4>2, ReadableTwice
    <3> QED  BY <3>1, SameForms
  <2>5. \A v \in DOMAIN told : told[v].is => done /\ (Spent(estate, left', "losses") \/ told[v].of = now)
    BY <1>0, <2>3 DEF TalkInv
  <2> HIDE DEF now, done
  <2>6. \A v \in DOMAIN told' : told'[v].is => done /\ (Spent(estate, left', "losses") \/ told'[v].of = now)
    BY <2>2, <2>5
  <2>7. CASE ~ done
    <3>1. \A v \in DOMAIN told' : ~ told'[v].is
      BY <2>6, <2>7
    <3>2. \A u \in asked' : u[1] # Talk
      <4>1. OpenNow = Open(InPhase(1)) /\ OpenNow \subseteq Forms(plan)
        BY <2>7, FormsOfThePlan DEF OpenNow, OpenForms, done
      <4> QED  BY <2>1, <4>1, FormsOfThePlan DEF Names
    <3> QED  BY <3>1, <3>2 DEF RightlyTold, TalkInv
  <2>8. CASE done
    <3>1. \A u \in asked' : u[1] = Talk
      <4>1. OpenNow \subseteq InPhase(2)
        BY <2>8, FormsOfThePlan DEF OpenNow, Open, done
      <4> QED  BY <2>1, <4>1, FormsOfThePlan DEF Names
    <3>2. Spent(estate, left', "faults") \/ \A v \in DOMAIN told' : told'[v].is
      <4>1. CASE reached = Untold
        BY <2>2, <2>8, <4>1
      <4>2. CASE reached # Untold
        BY <2>1, <4>2, SpendsParts DEF Bounds
      <4> QED  BY <4>1, <4>2
    <3> QED  BY <2>1, <2>4, <2>6, <2>8, <3>1, <3>2 DEF RightlyTold, TalkInv, done
  <2> QED  BY <2>7, <2>8
<1>7. ASSUME NEW u \in asked, Answers(u) PROVE RightlyTold'
  <2>1. \E doc : DOMAIN doc = DocumentFields /\ IsDocument(doc) /\ Writes(u, doc)
    BY <1>7, AnswersParts
  <2> QED  BY <1>2, <1>7, <2>1 DEF Answers
<1>8. ASSUME NEW u \in asked, NEW half \in BOOLEAN, Dies(u, half) PROVE RightlyTold'
  <2>1. Writes(u, Torn) \/ (asked' = asked \ {u} /\ out' = out)
    BY <1>8 DEF Dies
  <2>2. Spends("deaths") /\ "deaths" \in Bounds /\ UNCHANGED <<estate, store, plan, told>>
    BY <1>8 DEF Dies, Bounds
  <2> QED  BY <1>2, <2>1, <2>2, TornIsDocument
<1>9. ASSUME NEW r \in estate.reviews, ReviewerWrites(r) PROVE RightlyTold'
  BY <1>1, <1>9 DEF ReviewerWrites
<1>10. CASE DigestStep
  BY <1>1, <1>10 DEF DigestStep
<1>11. CASE Assemble
  BY <1>1, <1>11 DEF Assemble
<1>12. CASE Apply
  BY <1>1, <1>12 DEF Apply
<1>13. ASSUME NEW id \in store, StoreLoses(id) PROVE RightlyTold'
  BY <1>1, <1>13 DEF StoreLoses, Bounds
<1>14. CASE UNCHANGED vars
  BY <1>1, <1>14 DEF vars
<1> QED
  BY <1>3, <1>4, <1>5, <1>6, <1>7, <1>8, <1>9, <1>10, <1>11, <1>12, <1>13, <1>14 DEF Next

LEMMA BaseAlways == Spec => []BaseInv
<1> QED  BY BaseInit, BaseNext, PTL DEF Spec

-----------------------------------------------------------------------------
(* Nobody fails unasked.                                                   *)

\* What a unit of a plan is given to read.
GivenBy(p, u) ==
    LET x == CHOOSE y \in p.units : y.id = u
    IN [files |-> [f \in x.files |-> p.shown[f]], lines |-> x.lines, cands |-> x.cands]

\* As long as there was one plan, every document is an answer to it.
AnswersToIt(e, l, p, o) ==
    /\ ~ Spent(e, l, "builds") => DOMAIN o = {}
    /\ l["builds"] >= e.limit["builds"] - 1 =>
         \A u \in DOMAIN o : \A i \in DOMAIN o[u] : ~ o[u][i].torn => o[u][i].for = GivenBy(p, u)

ToThePlan == AnswersToIt(estate, left, plan, out)

LEMMA BuildsAreNumbers ==
    ASSUME BaseInv
    PROVE  left["builds"] \in Nat /\ estate.limit["builds"] \in Nat /\ left["builds"] <= estate.limit["builds"]
<1>1. IsEstate(estate)
  BY EstatesAssumption DEF BaseInv
<1> QED  BY <1>1 DEF BaseInv, IsEstate, Bounds

LEMMA ToThePlanNext == BaseInv /\ ToThePlan /\ [Next]_vars => ToThePlan'
<1> SUFFICES ASSUME BaseInv, ToThePlan, [Next]_vars PROVE ToThePlan'
  OBVIOUS
<1>0. AnswersToIt(estate, left, plan, out)
  BY DEF ToThePlan
<1>a. left["builds"] \in Nat /\ estate.limit["builds"] \in Nat /\ left["builds"] <= estate.limit["builds"]
  BY BuildsAreNumbers
\* No plan is made, and every document of the new attempts was one before or
\* answers the plan.
<1>1. ASSUME UNCHANGED <<estate, plan>>, left'["builds"] = left["builds"], DOMAIN out' = DOMAIN out,
             \A u \in DOMAIN out : \A i \in DOMAIN out'[u] :
                \/ \E n \in DOMAIN out[u] : out'[u][i] = out[u][n]
                \/ out'[u][i].torn
                \/ out'[u][i].for = GivenBy(plan, u)
      PROVE  ToThePlan'
  <2>1. ~ Spent(estate, left', "builds") => DOMAIN out' = {}
    BY <1>0, <1>1 DEF AnswersToIt, Spent
  <2>2. ASSUME left'["builds"] >= estate.limit["builds"] - 1, NEW u \in DOMAIN out',
               NEW i \in DOMAIN out'[u], ~ out'[u][i].torn
        PROVE  out'[u][i].for = GivenBy(plan, u)
    BY <1>0, <1>1, <2>2 DEF AnswersToIt
  <2> QED  BY <1>1, <2>1, <2>2 DEF ToThePlan, AnswersToIt
<1>2. ASSUME UNCHANGED <<estate, plan, out>>,
             left' = left \/ \E what \in Bounds \ {"builds"} : Spends(what)
      PROVE  ToThePlan'
  <2>1. left'["builds"] = left["builds"]
    BY <1>2, SpendsParts DEF Bounds
  <2> QED  BY <1>1, <1>2, <2>1
\* What an agent writes or leaves.
<1>3. ASSUME NEW u \in asked, UNCHANGED <<estate, plan>>, left'["builds"] = left["builds"],
             \E doc : DOMAIN doc = DocumentFields /\ IsDocument(doc) /\ Writes(u, doc)
      PROVE  ToThePlan'
  <2>1. PICK doc : DOMAIN doc = DocumentFields /\ IsDocument(doc) /\ Writes(u, doc)
    BY <1>3
  <2>2. /\ u \in DOMAIN out /\ DOMAIN out' = DOMAIN out
        /\ \A v \in DOMAIN out \ {u} : out'[v] = out[v]
        /\ out'[u] = Append(out[u], With(doc, [for |-> InputsOf(u)]))
    BY <2>1, WritesParts
  <2>3. With(doc, [for |-> InputsOf(u)]).for = GivenBy(plan, u)
    <3>1. With(doc, [for |-> InputsOf(u)]).for = InputsOf(u)
      BY <2>1, WrittenIsAttempt
    <3> QED  BY <3>1 DEF InputsOf, GivenBy
  <2>4. \A i \in DOMAIN out'[u] : (\E n \in DOMAIN out[u] : out'[u][i] = out[u][n]) \/ out'[u][i].for = GivenBy(plan, u)
    <3>1. IsSequence(out[u])
      BY <2>2 DEF BaseInv
    <3> QED  BY <2>2, <2>3, <3>1, OneMore
  <2>5. \A v \in DOMAIN out : \A i \in DOMAIN out'[v] :
            \/ \E n \in DOMAIN out[v] : out'[v][i] = out[v][n]
            \/ out'[v][i].torn
            \/ out'[v][i].for = GivenBy(plan, v)
    BY <2>2, <2>4
  <2> QED  BY <1>1, <1>3, <2>2, <2>5
<1>4. ASSUME NEW f \in DOMAIN work, Convert(f) \/ ConvertTorn(f) \/ \E c \in estate.contents : Edit(f, c) \/ ConvertCrossed(f, c)
      PROVE  ToThePlan'
  BY <1>2, <1>4 DEF Convert, ConvertTorn, ConvertCrossed, Edit, Bounds
<1>5. ASSUME NEW g \in estate.groupings, GroupPhotos(g) PROVE ToThePlan'
  BY <1>2, <1>5 DEF GroupPhotos
<1>6. ASSUME NEW anyway \in BOOLEAN, Build(anyway) PROVE ToThePlan'
  <2>1. Spends("builds") /\ UNCHANGED estate /\ (UNCHANGED <<plan, out, told>> \/ Replanned)
    BY <1>6, BuildParts
  <2>2. left'["builds"] = left["builds"] - 1
    BY <2>1 DEF Spends, BaseInv, Bounds
  <2>3. Spent(estate, left', "builds")
    BY <1>a, <2>2 DEF Spent
  <2>4. ASSUME left'["builds"] >= estate.limit["builds"] - 1 PROVE \A u \in DOMAIN out' : DOMAIN out'[u] = {}
    <3>1. ~ Spent(estate, left, "builds")
      BY <1>a, <2>2, <2>4 DEF Spent
    <3>2. DOMAIN out = {}
      BY <1>0, <3>1 DEF AnswersToIt
    <3>3. ASSUME NEW u \in DOMAIN out' PROVE DOMAIN out'[u] = {}
      <4>1. CASE Replanned
        <5>1. out'[u] = <<>>
          BY <3>2, <4>1 DEF Replanned
        <5> QED  BY <5>1
      <4>2. CASE UNCHANGED <<plan, out, told>>
        BY <3>2, <3>3, <4>2
      <4> QED  BY <2>1, <4>1, <4>2
    <3> QED  BY <3>3
  <2> QED  BY <2>1, <2>3, <2>4 DEF ToThePlan, AnswersToIt
<1>7. ASSUME NEW reached \in SUBSET DOMAIN told, Poll(reached) PROVE ToThePlan'
  <2>1. /\ out' = [u \in DOMAIN out |-> Readable(out[u])] /\ UNCHANGED <<estate, plan>>
        /\ left' = left \/ Spends("faults")
    BY <1>7 DEF Poll
  <2>2. left'["builds"] = left["builds"]
    BY <2>1, SpendsParts DEF Bounds
  <2>3. \A u \in DOMAIN out : \A i \in DOMAIN out'[u] : \E n \in DOMAIN out[u] : out'[u][i] = out[u][n]
    <3> SUFFICES ASSUME NEW u \in DOMAIN out
                 PROVE  \A i \in DOMAIN Readable(out[u]) : \E n \in DOMAIN out[u] : Readable(out[u])[i] = out[u][n]
      BY <2>1
    <3>1. PICK T : out[u] \in Seq(T)
      BY DEF BaseInv, IsSequence
    <3> QED  BY <3>1, ReadableParts DEF ReadablePlaces
  <2> QED  BY <1>1, <2>1, <2>2, <2>3
<1>8. ASSUME NEW u \in asked, Answers(u) PROVE ToThePlan'
  <2>1. \E doc : DOMAIN doc = DocumentFields /\ IsDocument(doc) /\ Writes(u, doc)
    BY <1>8, AnswersParts
  <2> QED  BY <1>3, <1>8, <2>1 DEF Answers
<1>9. ASSUME NEW u \in asked, NEW half \in BOOLEAN, Dies(u, half) PROVE ToThePlan'
  <2>1. Writes(u, Torn) \/ out' = out
    BY <1>9 DEF Dies
  <2>2. Spends("deaths") /\ UNCHANGED <<estate, plan>> /\ left'["builds"] = left["builds"]
    <3>1. Spends("deaths") /\ UNCHANGED <<estate, plan>>
      BY <1>9 DEF Dies
    <3> QED  BY <3>1, SpendsParts DEF Bounds
  <2>3. CASE Writes(u, Torn)
    BY <1>3, <2>2, <2>3, TornIsDocument
  <2>4. CASE out' = out
    BY <1>2, <2>2, <2>4 DEF Bounds
  <2> QED  BY <2>1, <2>3, <2>4
<1>10. ASSUME NEW r \in estate.reviews, ReviewerWrites(r) PROVE ToThePlan'
  BY <1>2, <1>10 DEF ReviewerWrites
<1>11. CASE DigestStep
  BY <1>2, <1>11 DEF DigestStep
<1>12. CASE Assemble
  BY <1>2, <1>12 DEF Assemble
<1>13. CASE Apply
  BY <1>2, <1>13 DEF Apply
<1>14. ASSUME NEW id \in store, StoreLoses(id) PROVE ToThePlan'
  BY <1>2, <1>14 DEF StoreLoses, Bounds
<1>15. CASE UNCHANGED vars
  BY <1>2, <1>15 DEF vars
<1> QED
  BY <1>4, <1>5, <1>6, <1>7, <1>8, <1>9, <1>10, <1>11, <1>12, <1>13, <1>14, <1>15 DEF Next

LEMMA TwoOfASet ==
    ASSUME NEW S, IsFiniteSet(S), NEW i \in S, NEW j \in S, i # j
    PROVE  Cardinality(S) >= 2
<1>1. IsFiniteSet({i}) /\ Cardinality({i}) = 1
  BY FS_Singleton
<1>2. IsFiniteSet({i} \cup {j}) /\ Cardinality({i} \cup {j}) = 2
  <2> DEFINE one == {i}
  <2>1. IsFiniteSet(one) /\ Cardinality(one) = 1 /\ j \notin one
    BY <1>1
  <2> HIDE DEF one
  <2>2. /\ IsFiniteSet(one \cup {j})
        /\ Cardinality(one \cup {j}) = IF j \in one THEN Cardinality(one) ELSE Cardinality(one) + 1
    BY <2>1, FS_AddElement, Zenon
  <2>3. Cardinality(one \cup {j}) = 2
    BY <2>1, <2>2
  <2> QED  BY <2>2, <2>3 DEF one
<1>3. Cardinality({i} \cup {j}) <= Cardinality(S) /\ Cardinality(S) \in Nat
  BY <1>2, FS_Subset, FS_CardinalityType
<1> QED  BY <1>2, <1>3

\* A unit that is given up has two documents that were refused outright.
LEMMA FailedHasTwo ==
    ASSUME NEW kinds, NEW T, NEW s \in Seq(T), \A i \in DOMAIN s : IsAttempt(s[i]),
           StateOf(kinds, s) = "failed"
    PROVE  \E i, j \in DOMAIN s : /\ i # j
                                  /\ ~ s[i].torn /\ s[i].whole /\ ~ s[j].torn /\ s[j].whole
<1> DEFINE r == Readable(s)
           at == InOrder(ReadablePlaces(s))
<1>1. /\ r \in Seq(T) /\ DOMAIN r = 1..Len(r) /\ Len(r) \in Nat
      /\ \A k \in DOMAIN r : at[k] \in DOMAIN s /\ r[k] = s[at[k]] /\ ~ s[at[k]].torn
      /\ \A k, l \in DOMAIN r : k # l => at[k] # at[l]
  <2>1. ReadablePlaces(s) \subseteq DOMAIN s
    BY DEF ReadablePlaces
  <2> QED  BY <2>1, ReadableParts
<1> HIDE DEF r, at
<1>2. \A k \in DOMAIN r : IsAttempt(r[k])
  BY <1>1
<1>3. \A k \in DOMAIN r : Judged(kinds, r[k]).whole = r[k].whole
  <2> SUFFICES ASSUME NEW k \in DOMAIN r PROVE Judged(kinds, r[k]).whole = r[k].whole
    OBVIOUS
  <2>1. "whole" \in DOMAIN r[k]
    BY <1>2 DEF IsAttempt, AttemptFields, DocumentFields
  <2> QED  BY <2>1 DEF Judged
<1>4. /\ r # <<>> /\ Judged(kinds, r[Len(r)]).whole /\ ~ (Len(r) < MaxAttempts)
      /\ ~ \E i \in 1..(Len(r) - 1) : ~ r[i].whole
  <2>1. StateOf(kinds, s) = "failed"
    OBVIOUS
  <2>2. "failed" # "pending" /\ "failed" # "retry" /\ "failed" # "done"
    OBVIOUS
  <2> QED  BY <2>1, <2>2 DEF StateOf, r
<1>5. Len(r) >= 2 /\ 1 \in DOMAIN r /\ 2 \in DOMAIN r
  BY <1>1, <1>4 DEF MaxAttempts
<1>6. r[1].whole /\ r[2].whole
  <2>1. r[Len(r)].whole
    BY <1>1, <1>3, <1>4, <1>5
  <2>2. \A k \in 1..Len(r) : r[k].whole
    BY <1>1, <1>4, <2>1
  <2> QED  BY <1>1, <1>5, <2>2
<1>7. at[1] # at[2] /\ at[1] \in DOMAIN s /\ at[2] \in DOMAIN s
  BY <1>1, <1>5
<1> QED  BY <1>1, <1>5, <1>6, <1>7

LEMMA NobodyEverFailsUnasked == BaseInv /\ ToThePlan => NobodyFailsUnasked
<1> SUFFICES ASSUME BaseInv, ToThePlan, NEW u \in plan.units, State(u) = "failed",
                    ~ (left.builds < estate.limit.builds - 1)
             PROVE  Cardinality({i \in DOMAIN out[u.id] :
                               LET d == out[u.id][i]
                               IN ~ d.torn /\ d.whole /\ d.for = InputsOf(u.id)}) >= MaxAttempts
  BY DEF NobodyFailsUnasked
<1> DEFINE s == out[u.id]
           S == {i \in DOMAIN s : ~ s[i].torn /\ s[i].whole /\ s[i].for = InputsOf(u.id)}
<1>1. u.id \in DOMAIN out /\ IsSequence(s) /\ \A i \in DOMAIN s : IsAttempt(s[i])
  BY DEF BaseInv
<1>2. PICK T : s \in Seq(T)
  BY <1>1 DEF IsSequence
<1>3. StateOf(Kinds, s) = "failed"
  BY DEF State
<1>4. \A i \in DOMAIN s : ~ s[i].torn => s[i].for = InputsOf(u.id)
  <2>1. left["builds"] >= estate.limit["builds"] - 1
    BY BuildsAreNumbers
  <2>2. \A i \in DOMAIN s : ~ s[i].torn => s[i].for = GivenBy(plan, u.id)
    BY <1>1, <2>1 DEF ToThePlan, AnswersToIt
  <2>3. GivenBy(plan, u.id) = InputsOf(u.id)
    BY DEF GivenBy, InputsOf
  <2> QED  BY <2>2, <2>3
<1>5. IsFiniteSet(DOMAIN s)
  <2> HIDE DEF s
  <2> QED  BY <1>2, PlacesParts
<1> HIDE DEF s
<1>6. PICK i \in DOMAIN s, j \in DOMAIN s :
          i # j /\ ~ s[i].torn /\ s[i].whole /\ ~ s[j].torn /\ s[j].whole
  BY <1>1, <1>2, <1>3, FailedHasTwo
<1>7. i \in S /\ j \in S /\ IsFiniteSet(S)
  BY <1>4, <1>5, <1>6, FS_Subset
<1> HIDE DEF S
<1>8. Cardinality(S) >= 2
  BY <1>6, <1>7, TwoOfASet
<1> QED  BY <1>8 DEF S, s, MaxAttempts

LEMMA ToThePlanInit == Init => ToThePlan
<1> SUFFICES ASSUME Init PROVE ToThePlan
  OBVIOUS
<1>1. out = <<>> /\ left = estate.limit
  BY DEF Init
<1>2. DOMAIN out = {}
  BY <1>1
<1> QED  BY <1>2 DEF ToThePlan, AnswersToIt

-----------------------------------------------------------------------------
(* What a gate let through stands.                                         *)

Begins(a, s) == Len(a) <= Len(s) /\ \A k \in 1..Len(a) : a[k] = s[k]

\* The same places of a sequence and of a beginning of it.
LEMMA BeginsAtPlaces ==
    ASSUME NEW T, NEW s \in Seq(T), NEW a \in Seq(T), Begins(a, s),
           NEW Q \in SUBSET (DOMAIN s), NEW P, P = Q \cap DOMAIN a
    PROVE  Begins(AtPlaces(a, P), AtPlaces(s, Q))
<1>1. /\ Len(a) \in Nat /\ Len(s) \in Nat /\ Len(a) <= Len(s)
      /\ DOMAIN a = 1..Len(a) /\ DOMAIN s = 1..Len(s) /\ P \in SUBSET (DOMAIN a)
  BY DEF Begins
<1>2. /\ DOMAIN AtPlaces(a, P) = 1..Cardinality(P) /\ Len(AtPlaces(a, P)) = Cardinality(P)
      /\ \A k \in 1..Cardinality(P) : AtPlaces(a, P)[k] = a[InOrder(P)[k]]
  BY <1>1, PartOfSequence
<1>3. /\ DOMAIN AtPlaces(s, Q) = 1..Cardinality(Q) /\ Len(AtPlaces(s, Q)) = Cardinality(Q)
      /\ \A k \in 1..Cardinality(Q) : AtPlaces(s, Q)[k] = s[InOrder(Q)[k]]
  BY PartOfSequence
<1>4. IsFiniteSet(P) /\ IsFiniteSet(Q) /\ P \in SUBSET Nat /\ Q \in SUBSET Nat
  <2>1. IsFiniteSet(DOMAIN s) /\ DOMAIN s \in SUBSET Nat
    BY PlacesParts
  <2>2. P \subseteq Q /\ Q \subseteq DOMAIN s
    OBVIOUS
  <2> QED  BY <2>1, <2>2, FS_Subset
<1>5. Cardinality(P) <= Cardinality(Q) /\ Cardinality(P) \in Nat /\ Cardinality(Q) \in Nat
  BY <1>4, FS_Subset, FS_CardinalityType
<1>6. ASSUME NEW k \in 1..Cardinality(P) PROVE InOrder(P)[k] = InOrder(Q)[k] /\ InOrder(P)[k] \in DOMAIN a
  <2> DEFINE m == InOrder(P)[k]
             n == InOrder(Q)[k]
  <2>1. m \in P /\ Rank(P, m) = k
    BY <1>4, RankIsPlace
  <2>2. n \in Q /\ Rank(Q, n) = k
    BY <1>4, <1>5, RankIsPlace
  <2>3. {x \in Q : x <= m} = {x \in P : x <= m}
    <3>1. m \in 1..Len(a)
      BY <1>1, <2>1
    <3> HIDE DEF m
    <3>2. \A x \in Q : x \in Nat /\ (x <= m => x \in DOMAIN a)
      BY <1>1, <1>4, <3>1
    <3> QED  BY <3>2
  <2>4. Rank(Q, m) = k /\ m \in Q
    BY <2>1, <2>3 DEF Rank
  <2> HIDE DEF m, n
  <2>5. m = n
    BY <1>4, <2>2, <2>4, RankIsPlace
  <2> QED  BY <1>1, <2>1, <2>5 DEF m, n
<1>7. ASSUME NEW k \in 1..Cardinality(P) PROVE AtPlaces(a, P)[k] = AtPlaces(s, Q)[k]
  <2>1. k \in 1..Cardinality(Q)
    BY <1>5
  <2>2. AtPlaces(a, P)[k] = a[InOrder(P)[k]] /\ AtPlaces(s, Q)[k] = s[InOrder(Q)[k]]
    BY <1>2, <1>3, <2>1
  <2>3. a[InOrder(P)[k]] = s[InOrder(P)[k]]
    BY <1>1, <1>6 DEF Begins
  <2> QED  BY <1>6, <2>2, <2>3
<1> QED  BY <1>2, <1>3, <1>5, <1>7 DEF Begins

\* What can be used of a unit's first attempts is the beginning of what can be
\* used of all of them.
LEMMA AdmissibleBegins ==
    ASSUME NEW T, NEW s \in Seq(T), NEW a \in Seq(T), Begins(a, s)
    PROVE  Begins(Admissible(a), Admissible(s))
<1> DEFINE usable(r) == {i \in DOMAIN r : ~ r[i].whole}
<1>1. ReadablePlaces(a) = ReadablePlaces(s) \cap DOMAIN a /\ ReadablePlaces(s) \in SUBSET (DOMAIN s)
  <2>1. DOMAIN a \subseteq DOMAIN s /\ \A k \in DOMAIN a : a[k] = s[k]
    BY DEF Begins
  <2> QED  BY <2>1 DEF ReadablePlaces
<1>2. Readable(a) = AtPlaces(a, ReadablePlaces(a)) /\ Readable(s) = AtPlaces(s, ReadablePlaces(s))
  BY DEF Readable, ReadablePlaces
<1>3. Begins(Readable(a), Readable(s))
  BY <1>1, <1>2, BeginsAtPlaces
<1>4. Readable(a) \in Seq(T) /\ Readable(s) \in Seq(T)
  BY ReadableParts
<1>5. usable(Readable(a)) = usable(Readable(s)) \cap DOMAIN Readable(a)
      /\ usable(Readable(s)) \in SUBSET (DOMAIN Readable(s))
  <2>1. DOMAIN Readable(a) \subseteq DOMAIN Readable(s) /\ \A k \in DOMAIN Readable(a) : Readable(a)[k] = Readable(s)[k]
    BY <1>3, <1>4 DEF Begins
  <2> QED  BY <2>1
<1>6. Begins(AtPlaces(Readable(a), usable(Readable(a))), AtPlaces(Readable(s), usable(Readable(s))))
  <2> HIDE DEF usable
  <2> QED  BY <1>3, <1>4, <1>5, BeginsAtPlaces
<1> QED  BY <1>6 DEF Admissible

\* They are some of its attempts.
LEMMA AdmissibleParts ==
    ASSUME NEW T, NEW s \in Seq(T)
    PROVE  /\ Admissible(s) \in Seq(T)
           /\ \A k \in DOMAIN Admissible(s) : \E n \in DOMAIN s : Admissible(s)[k] = s[n]
<1> DEFINE r == Readable(s)
           P == {i \in DOMAIN r : ~ r[i].whole}
<1>1. r \in Seq(T) /\ \A k \in DOMAIN r : \E n \in DOMAIN s : r[k] = s[n]
  BY ReadableParts DEF ReadablePlaces
<1>2. Admissible(s) = AtPlaces(r, P) /\ P \in SUBSET (DOMAIN r)
  BY DEF Admissible
<1> HIDE DEF P, r
<1>3. AtPlaces(r, P) \in Seq(T) /\ \A k \in DOMAIN AtPlaces(r, P) : InOrder(P)[k] \in P /\ AtPlaces(r, P)[k] = r[InOrder(P)[k]]
  BY <1>1, <1>2, PartOfSequence
<1> QED  BY <1>1, <1>2, <1>3

\* One usable document after the other, each laid over those before.
Merges(f, kinds, u, docs) ==
    f = [n \in 0..Len(docs) |->
            IF n = 0 THEN Nothing
            ELSE IF n = 1 THEN Folded(Judged(kinds, docs[1]))
            ELSE Overlay(u, f[n - 1], Folded(Judged(kinds, docs[n])))]

LEMMA MergesExists ==
    ASSUME NEW kinds, NEW u, NEW docs, Len(docs) \in Nat
    PROVE  \E f : Merges(f, kinds, u, docs)
<1> DEFINE doc(n) == Folded(Judged(kinds, docs[n]))
           runs(f, m) == f = [n \in 0..m |-> IF n = 0 THEN Nothing ELSE IF n = 1 THEN doc(1)
                                              ELSE Overlay(u, f[n - 1], doc(n))]
           S == {m \in Nat : \E f : runs(f, m)}
<1> HIDE DEF doc
<1>1. 0 \in S
  <2>1. runs([n \in 0..0 |-> Nothing], 0)
    OBVIOUS
  <2> QED  BY <2>1
<1>2. ASSUME NEW m \in S PROVE m + 1 \in S
  <2>1. PICK f : runs(f, m)
    BY <1>2
  <2> DEFINE last == IF m + 1 = 1 THEN doc(1) ELSE Overlay(u, f[m], doc(m + 1))
             g == [n \in 0..(m + 1) |-> IF n = m + 1 THEN last ELSE f[n]]
  <2>2. m \in Nat /\ (m + 1) - 1 = m /\ m + 1 # 0
    BY <1>2
  <2>3. DOMAIN f = 0..m /\ \A n \in 0..m : f[n] = IF n = 0 THEN Nothing ELSE IF n = 1 THEN doc(1)
                                                  ELSE Overlay(u, f[n - 1], doc(n))
    BY <2>1
  <2>4. /\ g = [n \in 0..(m + 1) |-> g[n]] /\ g[m + 1] = last
        /\ \A n \in 0..m : g[n] = f[n]
    BY <2>2
  <2> HIDE DEF g
  <2>5. ASSUME NEW n \in 0..(m + 1)
        PROVE  g[n] = IF n = 0 THEN Nothing ELSE IF n = 1 THEN doc(1) ELSE Overlay(u, g[n - 1], doc(n))
    <3>1. CASE n = m + 1
      <4>1. g[n - 1] = f[m]
        <5>1. n - 1 = m /\ m \in 0..m
          BY <2>2, <3>1
        <5> QED  BY <2>4, <5>1
      <4> QED  BY <2>2, <2>4, <3>1, <4>1
    <3>2. CASE n # m + 1
      <4>1. n \in 0..m /\ (n # 0 => n - 1 \in 0..m)
        BY <2>2, <3>2
      <4>2. n # 0 => g[n - 1] = f[n - 1]
        BY <2>4, <4>1
      <4>3. g[n] = f[n]
        BY <2>4, <4>1
      <4> HIDE DEF last
      <4> QED  BY <2>3, <4>1, <4>2, <4>3
    <3> QED  BY <3>1, <3>2
  <2>6. runs(g, m + 1)
    BY <2>4, <2>5
  <2> QED  BY <2>2, <2>6
<1>3. S = Nat
  <2> HIDE DEF S
  <2>1. S \in SUBSET Nat
    BY DEF S
  <2> QED  BY <1>1, <1>2, <2>1, NatInductionSet
<1>4. \E f : runs(f, Len(docs))
  BY <1>3
<1> QED  BY <1>4 DEF Merges, doc

\* An answer is where that ends.
LEMMA AnswerIsMerged ==
    ASSUME NEW kinds, NEW u, NEW s, Len(Admissible(s)) \in Nat
    PROVE  \E f : Merges(f, kinds, u, Admissible(s)) /\ Answer(kinds, u, s) = f[Len(Admissible(s))]
<1> DEFINE docs == Admissible(s)
           f == CHOOSE g : Merges(g, kinds, u, docs)
<1>1. Merges(f, kinds, u, docs)
  BY MergesExists
<1>2. Answer(kinds, u, s) = f[Len(docs)]
  BY Zenon DEF Answer, Merges
<1> QED  BY <1>1, <1>2

\* Answers to the first documents are steps on the way to the answer to all.
LEMMA MergesAgree ==
    ASSUME NEW kinds, NEW u, NEW a, NEW s, Len(a) \in Nat, Len(s) \in Nat, Begins(a, s),
           NEW f, Merges(f, kinds, u, a), NEW g, Merges(g, kinds, u, s)
    PROVE  f[Len(a)] = g[Len(a)]
<1> DEFINE S == {n \in Nat : n <= Len(a) => f[n] = g[n]}
           doc(d) == Folded(Judged(kinds, d))
<1> HIDE DEF doc
<1>1. \A n \in 0..Len(a) : f[n] = IF n = 0 THEN Nothing ELSE IF n = 1 THEN doc(a[1])
                                  ELSE Overlay(u, f[n - 1], doc(a[n]))
  <2>1. f = [n \in 0..Len(a) |-> IF n = 0 THEN Nothing ELSE IF n = 1 THEN doc(a[1])
                                  ELSE Overlay(u, f[n - 1], doc(a[n]))]
    BY DEF Merges, doc
  <2> QED  BY <2>1
<1>2. \A n \in 0..Len(s) : g[n] = IF n = 0 THEN Nothing ELSE IF n = 1 THEN doc(s[1])
                                  ELSE Overlay(u, g[n - 1], doc(s[n]))
  <2>1. g = [n \in 0..Len(s) |-> IF n = 0 THEN Nothing ELSE IF n = 1 THEN doc(s[1])
                                  ELSE Overlay(u, g[n - 1], doc(s[n]))]
    BY DEF Merges, doc
  <2> QED  BY <2>1
<1>3. 0 \in S
  BY <1>1, <1>2
<1>4. ASSUME NEW n \in 1..Len(a), n - 1 \in S PROVE n \in S
  <2>1. n \in 0..Len(a) /\ n \in 0..Len(s) /\ n # 0 /\ n - 1 <= Len(a)
    BY DEF Begins
  <2>2. a[n] = s[n] /\ f[n - 1] = g[n - 1]
    BY <1>4, <2>1 DEF Begins
  <2>3. f[n] = g[n]
    <3>1. CASE n = 1
      BY <1>1, <1>2, <2>1, <2>2, <3>1
    <3>2. CASE n # 1
      BY <1>1, <1>2, <2>1, <2>2, <3>2
    <3> QED  BY <3>1, <3>2
  <2> QED  BY <2>3
<1>5. 0..Len(a) \subseteq S
  <2> HIDE DEF S
  <2>1. S \in SUBSET Nat
    BY DEF S
  <2> QED  BY <1>3, <1>4, <2>1, UpTo
<1>6. Len(a) \in 0..Len(a)
  OBVIOUS
<1> QED  BY <1>5, <1>6

\* What a gate let through: the candidates decided and the entries minted.
Granted(a) ==
    (DOMAIN a.dec) \cup {<<a.new[i].kind, a.new[i].keys>> : i \in {j \in DOMAIN a.new : a.new[j].ok}}
MintedFields == DecisionFields \cup {"kind", "src"}
Acts == {"keep", "drop", "merge", "split"}
IsMinted(d) == DOMAIN d = MintedFields /\ d.ok \in BOOLEAN /\ d.act = "keep" /\ KeysGiven(d)
IsDecided(d) == DOMAIN d = DecisionFields /\ d.act \in Acts /\ KeysGiven(d)
IsNews(news) == IsSequence(news) /\ \A i \in DOMAIN news : IsMinted(news[i])
IsAnswer(a) == IsNews(a.new) /\ \A c \in DOMAIN a.dec : IsDecided(a.dec[c])

\* A repair takes links, or the permission; what merges across kinds becomes a
\* keep only when it has a key.
LEMMA RepairedParts ==
    ASSUME NEW kinds, NEW c, NEW d, DecisionFields \subseteq DOMAIN d, d.ok \in BOOLEAN,
           d.act \in Acts, KeysGiven(d)
    PROVE  LET r == Repaired(kinds, c, d) IN
           /\ DOMAIN r = DOMAIN d /\ r.ok \in BOOLEAN /\ r.act \in Acts /\ KeysGiven(r)
           /\ d.act = "keep" => r.act = "keep"
           /\ \A f \in DOMAIN d \ {"act", "ok", "refs", "home", "link"} : r[f] = d[f]
<1> DEFINE cross == d.act = "merge" /\ c \in DOMAIN kinds /\ d.into \in DOMAIN kinds
                    /\ kinds[c] # kinds[d.into]
           r == Repaired(kinds, c, d)
<1>0. {"act", "ok", "keys", "refs", "home", "link"} \subseteq DOMAIN d
  BY DEF DecisionFields
<1>1. /\ DOMAIN r = DOMAIN d /\ r.act = IF cross /\ d.keys # <<>> THEN "keep" ELSE d.act
      /\ r.ok = (d.ok /\ ~ (cross /\ d.keys = <<>>)) /\ r.keys = d.keys
      /\ \A f \in DOMAIN d \ {"act", "ok", "refs", "home", "link"} : r[f] = d[f]
  BY <1>0 DEF Repaired
<1>2. d.act = "keep" => ~ cross
  OBVIOUS
<1> HIDE DEF cross, r
<1>3. r.ok \in BOOLEAN
  <2>1. (d.ok /\ ~ (cross /\ d.keys = <<>>)) \in BOOLEAN
    OBVIOUS
  <2> QED  BY <1>1, <2>1, Zenon
<1>4. r.act \in Acts /\ (d.act = "keep" => r.act = "keep")
  BY <1>1, <1>2 DEF Acts
<1>5. KeysGiven(r)
  BY <1>1 DEF KeysGiven
<1> QED  BY <1>1, <1>3, <1>4, <1>5 DEF r

LEMMA DocumentIsAnswer ==
    ASSUME NEW kinds, NEW d, IsAttempt(d)
    PROVE  IsAnswer(Folded(Judged(kinds, d)))
<1>1. /\ {"new", "dec"} \subseteq DOMAIN d /\ Len(d.new) \in Nat /\ DOMAIN d.new = 1..Len(d.new)
      /\ \A i \in DOMAIN d.new : IsDecision(d.new[i], MintedFields) /\ d.new[i].act = "keep"
      /\ \A c \in DOMAIN d.dec : IsDecision(d.dec[c], DecisionFields)
  BY DEF IsAttempt, AttemptFields, DocumentFields, IsDocument, MintedFields
<1> DEFINE news == [i \in DOMAIN d.new |-> RepairedNew(kinds, d.new[i])]
           judged(c) == LET r == Repaired(kinds, c, d.dec[c]) IN [r EXCEPT !.ok = @ /\ c \in DOMAIN kinds]
<1>2. /\ Folded(Judged(kinds, d)).new = news
      /\ \A c \in DOMAIN Folded(Judged(kinds, d)).dec :
           c \in DOMAIN d.dec /\ Folded(Judged(kinds, d)).dec[c] = judged(c)
  BY <1>1 DEF Folded, Judged
<1>3. ASSUME NEW i \in DOMAIN d.new PROVE IsMinted(news[i])
  <2> DEFINE n == d.new[i]
             r == Repaired(kinds, NoId, n)
  <2>1. DOMAIN n = MintedFields /\ n.ok \in BOOLEAN /\ n.act = "keep" /\ KeysGiven(n)
    BY <1>1 DEF IsDecision
  <2> HIDE DEF n
  <2>2. DOMAIN r = MintedFields /\ r.ok \in BOOLEAN /\ r.act = "keep" /\ KeysGiven(r)
    <3>1. DecisionFields \subseteq DOMAIN n /\ n.act \in Acts
      BY <2>1 DEF MintedFields, Acts
    <3> QED  BY <2>1, <3>1, RepairedParts
  <2> HIDE DEF r
  <2>4. RepairedNew(kinds, n) = [r EXCEPT !.ok = @ /\ ~ (n.kind = "note" /\ n.refs # {} /\ r.refs = {})]
    BY DEF RepairedNew, r
  <2>5. DOMAIN RepairedNew(kinds, n) = MintedFields
    BY <2>2, <2>4
  <2>6. /\ RepairedNew(kinds, n).ok = (r.ok /\ ~ (n.kind = "note" /\ n.refs # {} /\ r.refs = {}))
        /\ RepairedNew(kinds, n).act = r.act /\ RepairedNew(kinds, n).keys = r.keys
    BY <2>2, <2>4 DEF MintedFields, DecisionFields
  <2>7. RepairedNew(kinds, n).ok \in BOOLEAN
    BY <2>6, Zenon
  <2>8. news[i] = RepairedNew(kinds, n)
    BY DEF n
  <2>9. KeysGiven(RepairedNew(kinds, n))
    BY <2>2, <2>6 DEF KeysGiven
  <2> QED  BY <2>2, <2>5, <2>6, <2>7, <2>8, <2>9 DEF IsMinted
<1>4. IsSequence(news) /\ DOMAIN news = DOMAIN d.new
  <2>1. news \in Seq({news[i] : i \in 1..Len(d.new)})
    BY <1>1
  <2> QED  BY <2>1 DEF IsSequence
<1>5. ASSUME NEW c \in DOMAIN d.dec PROVE IsDecided(judged(c))
  <2> DEFINE n == d.dec[c]
             r == Repaired(kinds, c, n)
  <2>1. DOMAIN n = DecisionFields /\ n.ok \in BOOLEAN /\ n.act \in Acts /\ KeysGiven(n)
    BY <1>1 DEF IsDecision, Acts
  <2> HIDE DEF n
  <2>2. DOMAIN r = DecisionFields /\ r.act \in Acts /\ KeysGiven(r)
    BY <2>1, RepairedParts
  <2> HIDE DEF r
  <2>3. judged(c) = [r EXCEPT !.ok = @ /\ c \in DOMAIN kinds]
    BY DEF r, n
  <2>4. DOMAIN judged(c) = DecisionFields /\ judged(c).act = r.act /\ judged(c).keys = r.keys
    BY <2>2, <2>3 DEF DecisionFields
  <2> HIDE DEF judged
  <2>5. KeysGiven(judged(c))
    BY <2>2, <2>4 DEF KeysGiven
  <2> QED  BY <2>2, <2>4, <2>5 DEF IsDecided
<1> HIDE DEF news, judged
<1>6. IsNews(news)
  BY <1>3, <1>4 DEF IsNews
<1> QED  BY <1>2, <1>5, <1>6 DEF IsAnswer

LEMMA GreatestIs ==
    ASSUME NEW S \in SUBSET Nat, IsFiniteSet(S), S # {}
    PROVE  Max(S) \in S /\ \A y \in S : y <= Max(S)
<1> DEFINE x == InOrder(S)[Cardinality(S)]
<1>1. Cardinality(S) \in Nat /\ Cardinality(S) # 0
  BY FS_CardinalityType, FS_EmptySet
<1>2. x \in S /\ Rank(S, x) = Cardinality(S)
  BY <1>1, RankIsPlace
<1>3. S = {m \in S : m <= x}
  BY <1>2, RankParts
<1>4. \A y \in S : x >= y
  BY <1>2, <1>3
<1> HIDE DEF x
<1>5. Max(S) \in S /\ \A y \in S : Max(S) >= y
  BY <1>2, <1>4 DEF Max
<1>6. \A y \in S : y \in Nat /\ Max(S) \in Nat
  BY <1>5
<1> QED  BY <1>5, <1>6

\* A retry's entries, laid one by one over those of the attempts before it.
Same(a, b) == a.kind = b.kind /\ a.keys = b.keys
Slot(news, n) == Max({i \in DOMAIN news : Same(news[i], n)} \cup {0})
Place(acc, n) ==
    LET i == Slot(acc.new, n)
    IN IF i = 0
       THEN [new |-> Append(acc.new, n), at |-> Append(acc.at, Len(acc.new) + 1)]
       ELSE [new |-> [acc.new EXCEPT ![i] = IF n.ok \/ ~ @.ok THEN n ELSE @],
             at |-> Append(acc.at, i)]
Lays(f, first, later) ==
    f = [n \in 0..Len(later.new) |->
            IF n = 0 THEN [new |-> first.new, at |-> <<>>] ELSE Place(f[n - 1], later.new[n])]
GrantedNew(news) == {<<news[i].kind, news[i].keys>> : i \in {j \in DOMAIN news : news[j].ok}}

LEMMA PlaceKeeps ==
    ASSUME NEW acc, IsNews(acc.new), NEW n, IsMinted(n)
    PROVE  IsNews(Place(acc, n).new) /\ GrantedNew(acc.new) \subseteq GrantedNew(Place(acc, n).new)
<1> DEFINE news == acc.new
           i == Slot(news, n)
           P == {j \in DOMAIN news : Same(news[j], n)} \cup {0}
<1>1. PICK T : news \in Seq(T)
  BY DEF IsNews, IsSequence
<1>2. \A j \in DOMAIN news : IsMinted(news[j])
  BY DEF IsNews
<1> HIDE DEF news
<1>3. i \in P
  <2>1. IsFiniteSet(DOMAIN news) /\ DOMAIN news \in SUBSET Nat
    BY <1>1, PlacesParts
  <2> DEFINE Q == {j \in DOMAIN news : Same(news[j], n)}
  <2>2. Q \subseteq DOMAIN news /\ P = Q \cup {0} /\ P # {}
    OBVIOUS
  <2>5. i = Max(P)
    BY Zenon DEF Slot
  <2> HIDE DEF P, Q
  <2>3. IsFiniteSet(P)
    <3>1. IsFiniteSet(Q)
      BY <2>1, <2>2, FS_Subset
    <3> QED  BY <2>2, <3>1, FS_AddElement
  <2>4. P \in SUBSET Nat
    BY <2>1, <2>2
  <2> HIDE DEF P, i
  <2> QED  BY <2>2, <2>3, <2>4, <2>5, GreatestIs
<1> HIDE DEF i
<1>4. CASE i = 0
  <2> DEFINE more == Append(news, n)
  <2>1. Place(acc, n).new = more
    BY <1>4 DEF Place, i, news
  <2>2. /\ IsSequence(more) /\ DOMAIN more = DOMAIN news \cup {Len(news) + 1}
        /\ more[Len(news) + 1] = n /\ \A j \in DOMAIN news : more[j] = news[j]
    BY <1>1, OneMore DEF IsSequence
  <2> HIDE DEF more
  <2>3. IsNews(more)
    BY <1>2, <2>2 DEF IsNews
  <2>4. GrantedNew(news) \subseteq GrantedNew(more)
    BY <2>2 DEF GrantedNew
  <2> QED  BY <2>1, <2>3, <2>4 DEF news
<1>5. CASE i # 0
  <2> DEFINE laid == [news EXCEPT ![i] = IF n.ok \/ ~ @.ok THEN n ELSE @]
  <2>1. Place(acc, n).new = laid
    BY <1>5 DEF Place, i, news
  <2>2. i \in DOMAIN news /\ Same(news[i], n)
    BY <1>3, <1>5
  <2>3. /\ DOMAIN laid = DOMAIN news
        /\ \A j \in DOMAIN news : laid[j] = IF j = i THEN IF n.ok \/ ~ news[i].ok THEN n ELSE news[i] ELSE news[j]
    BY <1>1, <2>2
  <2>4. IsSequence(laid)
    <3>1. laid \in Seq(T \cup {n})
      <4>1. news \in Seq(T \cup {n}) /\ n \in T \cup {n} /\ news[i] \in T
        BY <1>1, <2>2
      <4> QED  BY <2>2, <4>1
    <3> QED  BY <3>1 DEF IsSequence
  <2> HIDE DEF laid
  <2>5. IsNews(laid)
    BY <1>2, <2>2, <2>3, <2>4 DEF IsNews
  <2>6. GrantedNew(news) \subseteq GrantedNew(laid)
    <3> SUFFICES ASSUME NEW j \in DOMAIN news, news[j].ok
                 PROVE  <<news[j].kind, news[j].keys>> \in GrantedNew(laid)
      BY DEF GrantedNew
    <3>1. laid[j].ok /\ laid[j].kind = news[j].kind /\ laid[j].keys = news[j].keys
      BY <2>2, <2>3 DEF Same
    <3> QED  BY <2>3, <3>1 DEF GrantedNew
  <2> QED  BY <2>1, <2>5, <2>6 DEF news
<1> QED  BY <1>4, <1>5

LEMMA LaysExists ==
    ASSUME NEW first, NEW later, Len(later.new) \in Nat
    PROVE  \E f : Lays(f, first, later)
<1> DEFINE start == [new |-> first.new, at |-> <<>>]
           runs(f, m) == f = [n \in 0..m |-> IF n = 0 THEN start ELSE Place(f[n - 1], later.new[n])]
           S == {m \in Nat : \E f : runs(f, m)}
<1> HIDE DEF start
<1>1. 0 \in S
  <2>1. runs([n \in 0..0 |-> start], 0)
    OBVIOUS
  <2> QED  BY <2>1
<1>2. ASSUME NEW m \in S PROVE m + 1 \in S
  <2>1. PICK f : runs(f, m)
    BY <1>2
  <2> DEFINE last == Place(f[m], later.new[m + 1])
             g == [n \in 0..(m + 1) |-> IF n = m + 1 THEN last ELSE f[n]]
  <2>2. m \in Nat /\ (m + 1) - 1 = m /\ m + 1 # 0
    BY <1>2
  <2>3. DOMAIN f = 0..m /\ \A n \in 0..m : f[n] = IF n = 0 THEN start ELSE Place(f[n - 1], later.new[n])
    BY <2>1
  <2>4. /\ g = [n \in 0..(m + 1) |-> g[n]] /\ g[m + 1] = last
        /\ \A n \in 0..m : g[n] = f[n]
    BY <2>2
  <2> HIDE DEF g
  <2>5. ASSUME NEW n \in 0..(m + 1)
        PROVE  g[n] = IF n = 0 THEN start ELSE Place(g[n - 1], later.new[n])
    <3>1. CASE n = m + 1
      <4>1. g[n - 1] = f[m]
        <5>1. n - 1 = m /\ m \in 0..m
          BY <2>2, <3>1
        <5> QED  BY <2>4, <5>1
      <4> QED  BY <2>2, <2>4, <3>1, <4>1
    <3>2. CASE n # m + 1
      <4>1. n \in 0..m /\ (n # 0 => n - 1 \in 0..m)
        BY <2>2, <3>2
      <4>2. n # 0 => g[n - 1] = f[n - 1]
        BY <2>4, <4>1
      <4>3. g[n] = f[n]
        BY <2>4, <4>1
      <4> HIDE DEF last
      <4> QED  BY <2>3, <4>1, <4>2, <4>3
    <3> QED  BY <3>1, <3>2
  <2>6. runs(g, m + 1)
    BY <2>4, <2>5
  <2> QED  BY <2>2, <2>6
<1>3. S = Nat
  <2> HIDE DEF S
  <2>1. S \in SUBSET Nat
    BY DEF S
  <2> QED  BY <1>1, <1>2, <2>1, NatInductionSet
<1>4. \E f : runs(f, Len(later.new))
  BY <1>3
<1> QED  BY <1>4 DEF Lays, start

\* The overlay is what they come to, its own handles renumbered.
Renumbered(d, n) ==
    n = d \/ \E refs, home, link : n = [d EXCEPT !.refs = refs, !.home = home, !.link = link]
AreRenumbered(news, made) ==
    made = [i \in DOMAIN news |-> made[i]] /\ \A i \in DOMAIN news : Renumbered(news[i], made[i])

LEMMA RenumberedParts ==
    ASSUME NEW d, NEW n, Renumbered(d, n)
    PROVE  DOMAIN n = DOMAIN d /\ \A f \in DOMAIN d \ {"refs", "home", "link"} : n[f] = d[f]
  BY DEF Renumbered

LEMMA OverlayIsLaid ==
    ASSUME NEW u, NEW first, NEW later, Len(later.new) \in Nat
    PROVE  \E f : /\ Lays(f, first, later)
                  /\ DOMAIN Overlay(u, first, later).dec = DOMAIN first.dec \cup DOMAIN later.dec
                  /\ \A c \in DOMAIN first.dec \cup DOMAIN later.dec :
                       \/ c \in DOMAIN later.dec /\ Renumbered(later.dec[c], Overlay(u, first, later).dec[c])
                       \/ c \in DOMAIN first.dec /\ Renumbered(first.dec[c], Overlay(u, first, later).dec[c])
                  /\ AreRenumbered(f[Len(later.new)].new, Overlay(u, first, later).new)
<1> DEFINE f == CHOOSE g : Lays(g, first, later)
           placed == f[Len(later.new)]
           moved(r) == IF r[1] = "N" /\ r[2] = u /\ r[3] \in DOMAIN placed.at
                       THEN <<"N", u, placed.at[r[3]]>> ELSE r
           renumbered(d) == [d EXCEPT !.refs = {moved(r) : r \in @}, !.home = moved(@), !.link = moved(@)]
           fresh(i) == \E j \in DOMAIN later.new : placed.at[j] = i /\ placed.new[i] = later.new[j]
           dec == [c \in DOMAIN first.dec \cup DOMAIN later.dec |->
                      IF c \in DOMAIN later.dec THEN renumbered(later.dec[c]) ELSE first.dec[c]]
           refused == (first.refused \cup later.refused) \ (DOMAIN first.dec \cup DOMAIN later.dec)
           new == [i \in DOMAIN placed.new |-> IF fresh(i) THEN renumbered(placed.new[i]) ELSE placed.new[i]]
<1>1. Lays(f, first, later)
  BY LaysExists
<1>2. Overlay(u, first, later) = [dec |-> dec, refused |-> refused, new |-> new]
  BY Zenon DEF Overlay, Lays, Place, Slot, Same
<1> HIDE DEF f
<1>3. \A d : Renumbered(d, renumbered(d)) /\ Renumbered(d, d)
  BY Zenon DEF Renumbered
<1> HIDE DEF renumbered, fresh
<1>4. Overlay(u, first, later).new = new /\ DOMAIN Overlay(u, first, later).dec = DOMAIN first.dec \cup DOMAIN later.dec
  BY <1>2
<1>5. AreRenumbered(placed.new, new)
  <2>1. new = [i \in DOMAIN placed.new |-> new[i]]
    OBVIOUS
  <2>2. ASSUME NEW i \in DOMAIN placed.new PROVE Renumbered(placed.new[i], new[i])
    <3>1. new[i] = IF fresh(i) THEN renumbered(placed.new[i]) ELSE placed.new[i]
      BY <2>2
    <3> HIDE DEF new, placed
    <3> QED  BY <1>3, <3>1
  <2> HIDE DEF new, placed
  <2> QED  BY <2>1, <2>2 DEF AreRenumbered
<1>6. AreRenumbered(placed.new, Overlay(u, first, later).new)
  <2> HIDE DEF new, placed
  <2> QED  BY <1>4, <1>5
<1>7. ASSUME NEW c \in DOMAIN first.dec \cup DOMAIN later.dec
      PROVE  \/ c \in DOMAIN later.dec /\ Renumbered(later.dec[c], Overlay(u, first, later).dec[c])
             \/ c \in DOMAIN first.dec /\ Renumbered(first.dec[c], Overlay(u, first, later).dec[c])
  <2>1. Overlay(u, first, later).dec[c] = IF c \in DOMAIN later.dec THEN renumbered(later.dec[c]) ELSE first.dec[c]
    BY <1>2
  <2> HIDE DEF dec, refused, new, placed
  <2> QED  BY <1>3, <2>1
<1> HIDE DEF new, dec, refused
<1> QED  BY <1>1, <1>4, <1>6, <1>7, Zenon

\* A retry takes nothing back of what the attempts before it were granted.
LEMMA OverlayKeeps ==
    ASSUME NEW u, NEW first, IsAnswer(first), NEW later, IsAnswer(later)
    PROVE  IsAnswer(Overlay(u, first, later)) /\ Granted(first) \subseteq Granted(Overlay(u, first, later))
<1> DEFINE made == Overlay(u, first, later)
<1>1. IsNews(first.new) /\ IsNews(later.new)
  BY DEF IsAnswer, IsNews
<1>2. PICK T : later.new \in Seq(T)
  BY <1>1 DEF IsNews, IsSequence
<1>3. Len(later.new) \in Nat /\ DOMAIN later.new = 1..Len(later.new)
  BY <1>2
<1>4. PICK f : /\ Lays(f, first, later)
               /\ DOMAIN made.dec = DOMAIN first.dec \cup DOMAIN later.dec
               /\ \A c \in DOMAIN first.dec \cup DOMAIN later.dec :
                    \/ c \in DOMAIN later.dec /\ Renumbered(later.dec[c], made.dec[c])
                    \/ c \in DOMAIN first.dec /\ Renumbered(first.dec[c], made.dec[c])
               /\ AreRenumbered(f[Len(later.new)].new, made.new)
  BY <1>3, OverlayIsLaid
<1> HIDE DEF made
<1>5. IsNews(f[Len(later.new)].new) /\ GrantedNew(first.new) \subseteq GrantedNew(f[Len(later.new)].new)
  <2> DEFINE S == {n \in Nat : n <= Len(later.new) =>
                      IsNews(f[n].new) /\ GrantedNew(first.new) \subseteq GrantedNew(f[n].new)}
  <2>1. \A n \in 0..Len(later.new) :
          f[n] = IF n = 0 THEN [new |-> first.new, at |-> <<>>] ELSE Place(f[n - 1], later.new[n])
    BY <1>4 DEF Lays
  <2>2. 0 \in S
    <3>1. f[0] = [new |-> first.new, at |-> <<>>]
      BY <1>3, <2>1
    <3>2. f[0].new = first.new
      BY <3>1
    <3> QED  BY <1>1, <3>2
  <2>3. ASSUME NEW n \in 1..Len(later.new), n - 1 \in S PROVE n \in S
    <3>1. n \in 0..Len(later.new) /\ n # 0 /\ n - 1 <= Len(later.new) /\ n \in DOMAIN later.new
      BY <1>3
    <3>2. f[n] = Place(f[n - 1], later.new[n])
      BY <2>1, <3>1
    <3>3. IsNews(f[n - 1].new) /\ GrantedNew(first.new) \subseteq GrantedNew(f[n - 1].new)
      BY <2>3, <3>1
    <3>4. IsMinted(later.new[n])
      BY <1>1, <3>1 DEF IsNews
    <3>5. IsNews(f[n].new) /\ GrantedNew(f[n - 1].new) \subseteq GrantedNew(f[n].new)
      BY <3>2, <3>3, <3>4, PlaceKeeps
    <3> QED  BY <3>3, <3>5
  <2>4. 0..Len(later.new) \subseteq S
    <3> HIDE DEF S
    <3>1. S \in SUBSET Nat
      BY DEF S
    <3> QED  BY <1>3, <2>2, <2>3, <3>1, UpTo
  <2>5. Len(later.new) \in 0..Len(later.new)
    BY <1>3
  <2> QED  BY <2>4, <2>5
<1> DEFINE news == f[Len(later.new)].new
<1>6. PICK T2 : news \in Seq(T2)
  BY <1>5 DEF IsNews, IsSequence
<1>7. made.new = [i \in DOMAIN news |-> made.new[i]] /\ \A i \in DOMAIN news : Renumbered(news[i], made.new[i])
  BY <1>4 DEF AreRenumbered
<1>8. IsNews(news) /\ GrantedNew(first.new) \subseteq GrantedNew(news)
  BY <1>5
<1> HIDE DEF news
<1>9. ASSUME NEW i \in DOMAIN news
      PROVE  /\ IsMinted(made.new[i]) /\ made.new[i].ok = news[i].ok
             /\ made.new[i].kind = news[i].kind /\ made.new[i].keys = news[i].keys
  <2>1. IsMinted(news[i])
    BY <1>8 DEF IsNews
  <2>2. {"ok", "kind", "keys", "act"} \subseteq DOMAIN news[i]
    BY <2>1 DEF IsMinted, MintedFields, DecisionFields
  <2>3. /\ DOMAIN made.new[i] = DOMAIN news[i] /\ made.new[i].ok = news[i].ok /\ made.new[i].act = news[i].act
        /\ made.new[i].kind = news[i].kind /\ made.new[i].keys = news[i].keys
    BY <1>7, <2>2, RenumberedParts
  <2> QED  BY <2>1, <2>3 DEF IsMinted, KeysGiven
<1>10. IsSequence(made.new) /\ DOMAIN made.new = DOMAIN news
  <2>1. DOMAIN news = 1..Len(news) /\ Len(news) \in Nat
    BY <1>6
  <2>2. made.new \in Seq({made.new[i] : i \in DOMAIN news})
    BY <1>7, <2>1
  <2> QED  BY <1>7, <2>2 DEF IsSequence
<1>11. IsAnswer(made)
  <2>1. IsNews(made.new)
    BY <1>9, <1>10 DEF IsNews
  <2>2. ASSUME NEW d, NEW n, Renumbered(d, n), IsDecided(d) PROVE IsDecided(n)
    <3>1. {"act", "keys"} \subseteq DOMAIN d
      BY <2>2 DEF IsDecided, DecisionFields
    <3>2. DOMAIN n = DOMAIN d /\ n.act = d.act /\ n.keys = d.keys
      BY <2>2, <3>1, RenumberedParts
    <3> QED  BY <2>2, <3>2 DEF IsDecided, KeysGiven
  <2>3. \A c \in DOMAIN made.dec : IsDecided(made.dec[c])
    BY <1>4, <2>2 DEF IsAnswer
  <2> QED  BY <2>1, <2>3 DEF IsAnswer
<1>12. GrantedNew(news) \subseteq GrantedNew(made.new)
  <2> SUFFICES ASSUME NEW j \in DOMAIN news, news[j].ok
               PROVE  <<news[j].kind, news[j].keys>> \in GrantedNew(made.new)
    BY DEF GrantedNew
  <2> QED  BY <1>9, <1>10 DEF GrantedNew
<1>13. Granted(first) \subseteq Granted(made)
  <2>1. \A a : Granted(a) = DOMAIN a.dec \cup GrantedNew(a.new)
    BY DEF Granted, GrantedNew
  <2> QED  BY <1>4, <1>8, <1>12, <2>1
<1> QED  BY <1>11, <1>13 DEF made

LEMMA NothingGranted == IsAnswer(Nothing) /\ Granted(Nothing) = {}
<1>1. Nothing.new = <<>> /\ Nothing.dec = <<>>
  BY DEF Nothing
<1>2. <<>> \in Seq({}) /\ DOMAIN <<>> = {}
  OBVIOUS
<1> QED  BY <1>1, <1>2 DEF IsAnswer, IsNews, IsSequence, Granted

LEMMA GrantedGrows ==
    ASSUME NEW kinds, NEW u, NEW docs, Len(docs) \in Nat, \A k \in 1..Len(docs) : IsAttempt(docs[k]),
           NEW f, Merges(f, kinds, u, docs), NEW m \in 0..Len(docs)
    PROVE  IsAnswer(f[m]) /\ Granted(f[m]) \subseteq Granted(f[Len(docs)])
<1> DEFINE S == {n \in Nat : n <= Len(docs) =>
                    IsAnswer(f[n]) /\ (m <= n => Granted(f[m]) \subseteq Granted(f[n]))}
           doc(n) == Folded(Judged(kinds, docs[n]))
<1>1. \A n \in 0..Len(docs) : f[n] = IF n = 0 THEN Nothing ELSE IF n = 1 THEN doc(1)
                                     ELSE Overlay(u, f[n - 1], doc(n))
  <2> HIDE DEF doc
  <2>1. f = [n \in 0..Len(docs) |-> IF n = 0 THEN Nothing ELSE IF n = 1 THEN doc(1)
                                     ELSE Overlay(u, f[n - 1], doc(n))]
    BY Zenon DEF Merges, doc
  <2> QED  BY <2>1
<1>2. \A n \in 1..Len(docs) : IsAnswer(doc(n))
  BY DocumentIsAnswer
<1> HIDE DEF doc
<1>3. f[0] = Nothing
  BY <1>1
<1>4. 0 \in S
  <2>1. m <= 0 => m = 0
    OBVIOUS
  <2> QED  BY <1>3, <2>1, NothingGranted
<1>5. ASSUME NEW n \in 1..Len(docs), n - 1 \in S PROVE n \in S
  <2>1. n \in 0..Len(docs) /\ n # 0 /\ n - 1 <= Len(docs) /\ n \in Nat
    OBVIOUS
  <2>2. IsAnswer(f[n - 1]) /\ (m <= n - 1 => Granted(f[m]) \subseteq Granted(f[n - 1]))
    BY <1>5, <2>1
  <2>3. IsAnswer(f[n]) /\ Granted(f[n - 1]) \subseteq Granted(f[n])
    <3>1. CASE n = 1
      <4>1. f[n] = doc(1) /\ f[n - 1] = Nothing
        BY <1>1, <1>3, <2>1, <3>1
      <4> QED  BY <1>2, <3>1, <4>1, NothingGranted
    <3>2. CASE n # 1
      <4>1. f[n] = Overlay(u, f[n - 1], doc(n))
        BY <1>1, <2>1, <3>2
      <4> QED  BY <1>2, <2>2, <4>1, OverlayKeeps
    <3> QED  BY <3>1, <3>2
  <2>4. m <= n => m = n \/ m <= n - 1
    BY <2>1
  <2> QED  BY <2>1, <2>2, <2>3, <2>4
<1>6. 0..Len(docs) \subseteq S
  <2> HIDE DEF S
  <2>1. S \in SUBSET Nat
    BY DEF S
  <2> QED  BY <1>4, <1>5, <2>1, UpTo
<1>7. Len(docs) \in 0..Len(docs) /\ m <= Len(docs)
  OBVIOUS
<1> QED  BY <1>6, <1>7

\* Whatever a unit's attempts, its answer is one.
LEMMA AnswerIsAnswer ==
    ASSUME NEW kinds, NEW u, NEW s, IsSequence(s), \A i \in DOMAIN s : IsAttempt(s[i])
    PROVE  IsAnswer(Answer(kinds, u, s))
<1>1. PICK T : s \in Seq(T)
  BY DEF IsSequence
<1> DEFINE all == Admissible(s)
<1>2. all \in Seq(T) /\ \A k \in DOMAIN all : \E i \in DOMAIN s : all[k] = s[i]
  BY <1>1, AdmissibleParts
<1> HIDE DEF all
<1>3. Len(all) \in Nat /\ DOMAIN all = 1..Len(all) /\ \A k \in 1..Len(all) : IsAttempt(all[k])
  BY <1>2
<1>4. PICK f : Merges(f, kinds, u, all) /\ Answer(kinds, u, s) = f[Len(all)]
  BY <1>3, AnswerIsMerged DEF all
<1>5. Len(all) \in 0..Len(all)
  BY <1>3
<1> QED  BY <1>3, <1>4, <1>5, GrantedGrows

\* Whatever the first attempts of a unit came to, all of them come to.
LEMMA AdmittedAlwaysStands == BaseInv => AdmittedStands
<1> SUFFICES ASSUME BaseInv, NEW u \in DOMAIN out, NEW n \in DOMAIN out[u]
             PROVE  Has(u, SubSeq(out[u], 1, n)) \subseteq Has(u, out[u])
  BY DEF AdmittedStands
<1> DEFINE s == out[u]
           a == SubSeq(s, 1, n)
<1>1. \A i \in DOMAIN s : IsAttempt(s[i])
  BY DEF BaseInv
<1>2. PICK T : s \in Seq(T)
  BY DEF BaseInv, IsSequence
<1>3. \A t : Has(u, t) = Granted(Answer(Kinds, u, t))
  BY DEF Has, Granted
<1>4. a \in Seq(T) /\ Begins(a, s)
  <2>1. Len(s) \in Nat /\ n \in 1..Len(s)
    BY <1>2
  <2> HIDE DEF s
  <2>2. a \in Seq(T) /\ Len(a) = n /\ \A k \in 1..n : a[k] = s[k]
    BY <1>2, <2>1
  <2> HIDE DEF a
  <2> QED  BY <2>1, <2>2 DEF Begins
<1> DEFINE all == Admissible(s)
           some == Admissible(a)
<1> HIDE DEF s, a
<1>5. all \in Seq(T) /\ some \in Seq(T) /\ \A k \in DOMAIN all : \E i \in DOMAIN s : all[k] = s[i]
  BY <1>2, <1>4, AdmissibleParts
<1>6. Begins(some, all)
  BY <1>2, <1>4, AdmissibleBegins
<1>7. Len(all) \in Nat /\ Len(some) \in Nat /\ DOMAIN all = 1..Len(all)
  BY <1>5
<1>8. PICK f : Merges(f, Kinds, u, some) /\ Answer(Kinds, u, a) = f[Len(some)]
  BY <1>7, AnswerIsMerged
<1>9. PICK g : Merges(g, Kinds, u, all) /\ Answer(Kinds, u, s) = g[Len(all)]
  BY <1>7, AnswerIsMerged
<1> HIDE DEF all, some
<1>10. f[Len(some)] = g[Len(some)]
  BY <1>6, <1>7, <1>8, <1>9, MergesAgree
<1>11. Len(some) \in 0..Len(all) /\ \A k \in 1..Len(all) : IsAttempt(all[k])
  BY <1>1, <1>5, <1>6, <1>7 DEF Begins
<1>12. Granted(g[Len(some)]) \subseteq Granted(g[Len(all)])
  BY <1>7, <1>9, <1>11, GrantedGrows
<1> QED  BY <1>3, <1>8, <1>9, <1>10, <1>12 DEF s, a

\* No attempt of a unit is charged to it unasked or takes back what an earlier
\* one was granted: an agent's death costs nothing, a unit is given up after
\* two documents that answer the very plan it has, and a retry is laid over the
\* attempts before it (unit_states, _overlay).
THEOREM AttemptsAreAlwaysFair == Spec => []AttemptsAreFair
<1>1. BaseInv /\ ToThePlan => AttemptsAreFair
  BY NobodyEverFailsUnasked, AdmittedAlwaysStands DEF AttemptsAreFair
<1>2. Spec => []ToThePlan
  BY BaseAlways, ToThePlanInit, ToThePlanNext, PTL DEF Spec
<1> QED  BY <1>1, <1>2, BaseAlways, PTL

-----------------------------------------------------------------------------
(* A plan has few units.                                                   *)

LEMMA LeastOf ==
    ASSUME NEW S \in SUBSET Nat, S # {}
    PROVE  Min(S) \in S /\ Min(S) \in Nat
<1>1. \E x \in S : \A y \in S : x <= y
  BY Least
<1> QED  BY <1>1 DEF Min

LEMMA BooksParts ==
    ASSUME NEW e, IsEstate(e)
    PROVE  /\ Len(e.books) \in Nat /\ DOMAIN e.books = 1..Len(e.books) /\ IsFiniteSet(DOMAIN e.books)
           /\ \A i \in DOMAIN e.books :
                e.books[i].short \in Nat \ {0} /\ e.books[i].key \in Nat \ {0} /\ e.books[i].twin \in Nat
<1> DEFINE b == e.books
           W == [short : Nat \ {0}, key : Nat \ {0}, twin : Nat, alone : BOOLEAN]
<1>1. b \in Seq(W)
  BY Zenon DEF IsEstate
<1>2. \A w \in W : w.short \in Nat \ {0} /\ w.key \in Nat \ {0} /\ w.twin \in Nat
  OBVIOUS
<1> HIDE DEF b, W
<1>3. Len(b) \in Nat /\ DOMAIN b = 1..Len(b) /\ IsFiniteSet(DOMAIN b) /\ \A i \in DOMAIN b : b[i] \in W
  BY <1>1, PlacesParts
<1> QED  BY <1>2, <1>3 DEF b

LEMMA ShortsParts ==
    ASSUME NEW e, IsEstate(e)
    PROVE  IsFiniteSet(Shorts(e)) /\ Shorts(e) \in SUBSET Nat
<1> DEFINE S == DOMAIN e.books
           f == [i \in S |-> e.books[i].short]
<1>1. IsFiniteSet(S) /\ \A i \in S : f[i] \in Nat
  BY BooksParts
<1>2. Shorts(e) = {f[i] : i \in S}
  BY DEF Shorts
<1> HIDE DEF f, S
<1> QED  BY <1>1, <1>2, ImageIsFinite

\* The keys of the workbooks, pair by pair of twins.
NamedKeys(e) ==
    [s \in Shorts(e) |->
        LET w == CHOOSE b \in Range(e.books) : b.short = s
        IN IF w.alone THEN w.short ELSE w.key]
PairedKeys(k, w) ==
    IF w.twin \in DOMAIN k
    THEN LET low == Min({k[w.short], k[w.twin]})
         IN [k EXCEPT ![w.short] = low, ![w.twin] = low]
    ELSE k
PairsUp(f, e) ==
    f = [n \in 0..Len(e.books) |-> IF n = 0 THEN NamedKeys(e) ELSE PairedKeys(f[n - 1], e.books[n])]

LEMMA KeysParts ==
    ASSUME NEW e, IsEstate(e)
    PROVE  Keys(e) \in [Shorts(e) -> Nat \ {0}]
<1> DEFINE T == [Shorts(e) -> Nat \ {0}]
           N == Len(e.books)
           f == CHOOSE g : PairsUp(g, e)
<1>1. N \in Nat /\ DOMAIN e.books = 1..N
      /\ \A i \in DOMAIN e.books :
           e.books[i].short \in Nat \ {0} /\ e.books[i].key \in Nat \ {0} /\ e.books[i].twin \in Nat
  BY BooksParts
<1>2. NamedKeys(e) \in T
  <2> SUFFICES ASSUME NEW s \in Shorts(e)
               PROVE  LET w == CHOOSE b \in Range(e.books) : b.short = s
                      IN (IF w.alone THEN w.short ELSE w.key) \in Nat \ {0}
    BY DEF NamedKeys
  <2>1. PICK i \in DOMAIN e.books : e.books[i].short = s
    BY DEF Shorts
  <2>2. e.books[i] \in Range(e.books)
    BY DEF Range
  <2> DEFINE w == CHOOSE b \in Range(e.books) : b.short = s
  <2>3. w \in Range(e.books)
    BY <2>1, <2>2
  <2> HIDE DEF w
  <2>4. w.short \in Nat \ {0} /\ w.key \in Nat \ {0}
    BY <1>1, <2>3 DEF Range
  <2>5. (IF w.alone THEN w.short ELSE w.key) \in Nat \ {0}
    BY <2>4
  <2> QED  BY <2>5 DEF w
<1>3. ASSUME NEW n \in 1..N, NEW k \in T PROVE PairedKeys(k, e.books[n]) \in T
  <2> DEFINE w == e.books[n]
  <2>1. w.short \in Shorts(e)
    BY <1>1 DEF Shorts
  <2> HIDE DEF w
  <2>2. CASE w.twin \in DOMAIN k
    <3>1. {k[w.short], k[w.twin]} \in SUBSET (Nat \ {0}) /\ {k[w.short], k[w.twin]} # {}
      BY <2>1, <2>2
    <3>2. Min({k[w.short], k[w.twin]}) \in Nat \ {0}
      BY <3>1, LeastOf
    <3> QED  BY <2>1, <2>2, <3>2 DEF PairedKeys, w
  <2>3. CASE w.twin \notin DOMAIN k
    BY <2>3 DEF PairedKeys, w
  <2> QED  BY <2>2, <2>3
<1>4. \E g : PairsUp(g, e)
  <2> DEFINE step == [p \in Nat \X T |-> IF p[1] \in 1..N THEN PairedKeys(p[2], e.books[p[1]]) ELSE p[2]]
  <2>1. step \in [Nat \X T -> T]
    BY <1>3
  <2>2. \A n \in 1..N, k \in T : step[<<n, k>>] = PairedKeys(k, e.books[n])
    OBVIOUS
  <2> HIDE DEF step, T
  <2>3. PICK g : IsRun(g, T, NamedKeys(e), step, N)
    BY <1>1, <1>2, <2>1, RunExists
  <2>4. g \in [0..N -> T] /\ g[0] = NamedKeys(e) /\ \A n \in 1..N : g[n] = step[<<n, g[n - 1]>>]
    BY <2>3 DEF IsRun
  <2>5. ASSUME NEW n \in 0..N PROVE g[n] = IF n = 0 THEN NamedKeys(e) ELSE PairedKeys(g[n - 1], e.books[n])
    <3>1. CASE n = 0
      BY <2>4, <3>1
    <3>2. CASE n # 0
      <4>1. n \in 1..N /\ n - 1 \in 0..N
        BY <1>1, <3>2
      <4> QED  BY <2>2, <2>4, <3>2, <4>1
    <3> QED  BY <3>1, <3>2
  <2>6. PairsUp(g, e)
    BY <2>4, <2>5 DEF PairsUp
  <2> QED  BY <2>6
<1>5. PairsUp(f, e)
  BY <1>4
<1>6. Keys(e) = f[N]
  BY Zenon DEF Keys, PairsUp, NamedKeys, PairedKeys
<1> HIDE DEF f
<1>7. \A n \in 0..N : f[n] \in T
  <2>1. \A n \in 0..N : f[n] = IF n = 0 THEN NamedKeys(e) ELSE PairedKeys(f[n - 1], e.books[n])
    BY <1>5 DEF PairsUp
  <2>2. f[0] \in T
    BY <1>1, <1>2, <2>1
  <2>3. \A n \in 1..N : f[n - 1] \in T => f[n] \in T
    <3> SUFFICES ASSUME NEW n \in 1..N, f[n - 1] \in T PROVE f[n] \in T
      OBVIOUS
    <3>1. f[n] = PairedKeys(f[n - 1], e.books[n])
      BY <1>1, <2>1
    <3> QED  BY <1>3, <3>1
  <2> HIDE DEF T
  <2> QED  BY <1>1, <2>2, <2>3, RunStays
<1> QED  BY <1>1, <1>6, <1>7

\* The groups of workbooks, joined candidate by candidate.
JoinedBy(e, root, c) ==
    LET met == {root[s] : s \in Homes(e, c)}
    IN [s \in DOMAIN root |-> IF root[s] \in met THEN Min(met) ELSE root[s]]
JoinsUp(f, e) ==
    f = [n \in 0..Cardinality(DOMAIN e.cands) |->
            IF n = 0 THEN Keys(e) ELSE JoinedBy(e, f[n - 1], Candidates(e)[n])]

LEMMA JoinedParts ==
    ASSUME NEW e, IsEstate(e)
    PROVE  Joined(e) \in [Shorts(e) -> Nat \ {0}]
<1> DEFINE T == [Shorts(e) -> Nat \ {0}]
           N == Cardinality(DOMAIN e.cands)
           f == CHOOSE g : JoinsUp(g, e)
<1>1. N \in Nat
  BY FS_CardinalityType DEF IsEstate
<1>2. Keys(e) \in T
  BY KeysParts
<1>3. ASSUME NEW c, NEW root \in T PROVE JoinedBy(e, root, c) \in T
  <2> DEFINE met == {root[s] : s \in Homes(e, c)}
  <2>1. met \in SUBSET (Nat \ {0})
    <3>1. Homes(e, c) \subseteq Shorts(e)
      BY DEF Homes
    <3> QED  BY <3>1
  <2>2. JoinedBy(e, root, c) = [s \in DOMAIN root |-> IF root[s] \in met THEN Min(met) ELSE root[s]]
    BY DEF JoinedBy
  <2> HIDE DEF met
  <2>3. \A s \in Shorts(e) : (IF root[s] \in met THEN Min(met) ELSE root[s]) \in Nat \ {0}
    BY <2>1, LeastOf
  <2> QED  BY <2>2, <2>3
<1> HIDE DEF T
<1>4. \E g : JoinsUp(g, e)
  <2> DEFINE step == [p \in Nat \X T |-> JoinedBy(e, p[2], Candidates(e)[p[1]])]
  <2>1. step \in [Nat \X T -> T]
    BY <1>3
  <2>2. \A n \in 1..N, k \in T : step[<<n, k>>] = JoinedBy(e, k, Candidates(e)[n])
    OBVIOUS
  <2> HIDE DEF step
  <2>3. PICK g : IsRun(g, T, Keys(e), step, N)
    BY <1>1, <1>2, <2>1, RunExists
  <2>4. g \in [0..N -> T] /\ g[0] = Keys(e) /\ \A n \in 1..N : g[n] = step[<<n, g[n - 1]>>]
    BY <2>3 DEF IsRun
  <2> HIDE DEF N
  <2>5. ASSUME NEW n \in 0..N PROVE g[n] = IF n = 0 THEN Keys(e) ELSE JoinedBy(e, g[n - 1], Candidates(e)[n])
    <3>1. CASE n = 0
      BY <2>4, <3>1
    <3>2. CASE n # 0
      <4>1. n \in 1..N /\ n - 1 \in 0..N
        BY <1>1, <3>2
      <4> QED  BY <2>2, <2>4, <3>2, <4>1
    <3> QED  BY <3>1, <3>2
  <2>6. g = [n \in 0..N |-> IF n = 0 THEN Keys(e) ELSE JoinedBy(e, g[n - 1], Candidates(e)[n])]
    BY <2>4, <2>5
  <2> QED  BY <2>6 DEF JoinsUp, N
<1>5. JoinsUp(f, e)
  BY <1>4
<1>6. Joined(e) = f[N]
  BY Zenon DEF Joined, JoinsUp, JoinedBy
<1> HIDE DEF f
<1>7. \A n \in 0..N : f[n] \in T
  <2>1. \A n \in 0..N : f[n] = IF n = 0 THEN Keys(e) ELSE JoinedBy(e, f[n - 1], Candidates(e)[n])
    BY <1>5 DEF JoinsUp
  <2> HIDE DEF N
  <2>2. f[0] \in T
    BY <1>1, <1>2, <2>1
  <2>3. \A n \in 1..N : f[n - 1] \in T => f[n] \in T
    <3> SUFFICES ASSUME NEW n \in 1..N, f[n - 1] \in T PROVE f[n] \in T
      OBVIOUS
    <3>1. f[n] = JoinedBy(e, f[n - 1], Candidates(e)[n])
      BY <1>1, <2>1
    <3> QED  BY <1>3, <3>1
  <2> QED  BY <1>1, <2>2, <2>3, RunStays
<1>8. N \in 0..N
  BY <1>1
<1> QED  BY <1>6, <1>7, <1>8 DEF T

UnitNames == Nat \X Nat \X Nat

LEMMA CandsParts ==
    ASSUME NEW e, IsEstate(e)
    PROVE  /\ IsFiniteSet(DOMAIN e.cands)
           /\ \A c \in DOMAIN e.cands :
                /\ c[2] \in Nat /\ c = <<"S", c[2]>>
                /\ e.cands[c].at \subseteq Nat \X Nat /\ e.cands[c].size \in Nat
                /\ Homes(e, c) = {} => e.cands[c].script \in Shorts(e)
<1>1. IsFiniteSet(DOMAIN e.cands) /\ \A c \in DOMAIN e.cands : IsCandidate(e, c)
  BY Zenon DEF IsEstate
<1> QED  BY <1>1 DEF IsCandidate

LEMMA AxisParts ==
    ASSUME NEW e, IsEstate(e), NEW c \in DOMAIN e.cands
    PROVE  Axis(e, c) \in Nat
<1> DEFINE S == {a[2] : a \in e.cands[c].at}
<1>1. e.cands[c].at \subseteq Nat \X Nat
  BY CandsParts
<1>2. S \in SUBSET Nat /\ (e.cands[c].at # {} => S # {})
  BY <1>1
<1> HIDE DEF S
<1>3. e.cands[c].at # {} => Min(S) \in Nat
  BY <1>2, LeastOf
<1> QED  BY <1>3 DEF Axis, S

\* The units of a plan's forms on workbooks.
LEMMA BookUnitsParts ==
    ASSUME NEW e, IsEstate(e)
    PROVE  IsFiniteSet(BookUnits(e)) /\ \A u \in BookUnits(e) : u.id \in UnitNames
<1> DEFINE root == Joined(e)
           mine(r) == {x \in DOMAIN e.cands : HomeOf(e, root, x) = r}
           part(r, s, tab) == Unit(Book, s, tab, {x \in mine(r) : Axis(e, x) = tab}, {}, {})
           short(r) == Min({x \in Shorts(e) : root[x] = r})
           tabs(r) == {Axis(e, x) : x \in mine(r)}
           units(r) == IF Cardinality(tabs(r)) > 1 THEN {part(r, short(r), t) : t \in tabs(r)}
                       ELSE IF tabs(r) = {} THEN {} ELSE {Unit(Book, short(r), 0, mine(r), {}, {})}
<1>1. BookUnits(e) = {SetAside(e, v) : v \in UNION {units(r) : r \in Range(root)}}
  BY DEF BookUnits
<1>2. root \in [Shorts(e) -> Nat] /\ IsFiniteSet(Shorts(e)) /\ Shorts(e) \in SUBSET Nat
  BY JoinedParts, ShortsParts
<1>3. IsFiniteSet(DOMAIN e.cands)
  BY DEF IsEstate
<1>4. ASSUME NEW r \in Range(root) PROVE short(r) \in Nat
  <2>1. {x \in Shorts(e) : root[x] = r} # {} /\ {x \in Shorts(e) : root[x] = r} \in SUBSET Nat
    BY <1>2 DEF Range
  <2> QED  BY <2>1, LeastOf
<1>5. \A r : \A t \in tabs(r) : t \in Nat
  BY AxisParts
<1>6. ASSUME NEW r \in Range(root), NEW v \in units(r) PROVE v.id \in UnitNames
  <2>1. \E n, m, cands : v = Unit(Book, n, m, cands, {}, {}) /\ n \in Nat /\ m \in Nat
    <3>1. CASE Cardinality(tabs(r)) > 1
      <4>1. PICK t \in tabs(r) : v = part(r, short(r), t)
        BY <1>6, <3>1
      <4>2. short(r) \in Nat /\ t \in Nat
        BY <1>4, <1>5
      <4> QED  BY <4>1, <4>2
    <3>2. CASE ~ (Cardinality(tabs(r)) > 1)
      <4>1. v = Unit(Book, short(r), 0, mine(r), {}, {})
        BY <1>6, <3>2
      <4>2. short(r) \in Nat
        BY <1>4
      <4> QED  BY <4>1, <4>2
    <3> QED  BY <3>1, <3>2
  <2> QED  BY <2>1 DEF Unit, UnitNames, Book
<1>7. ASSUME NEW r \in Range(root) PROVE IsFiniteSet(units(r))
  <2>1. IsFiniteSet(tabs(r))
    <3> DEFINE M == mine(r)
               g == [x \in M |-> Axis(e, x)]
    <3>1. IsFiniteSet(M)
      <4>1. M \subseteq DOMAIN e.cands
        OBVIOUS
      <4> HIDE DEF M
      <4> QED  BY <1>3, <4>1, FS_Subset
    <3>2. tabs(r) = {g[x] : x \in M}
      OBVIOUS
    <3> HIDE DEF M, g
    <3> QED  BY <3>1, <3>2, ImageIsFinite
  <2>2. CASE Cardinality(tabs(r)) > 1
    <3> DEFINE g == [t \in tabs(r) |-> part(r, short(r), t)]
    <3>1. units(r) = {g[t] : t \in tabs(r)}
      BY <2>2
    <3> HIDE DEF g, units, tabs
    <3> QED  BY <2>1, <3>1, ImageIsFinite
  <2>3. CASE ~ (Cardinality(tabs(r)) > 1)
    <3>1. units(r) = {} \/ \E v : units(r) = {v}
      BY <2>3
    <3> HIDE DEF units
    <3> QED  BY <3>1, FS_EmptySet, FS_Singleton
  <2> QED  BY <2>2, <2>3
<1> HIDE DEF units, root
<1>8. IsFiniteSet(UNION {units(r) : r \in Range(root)})
  <2> DEFINE g == [r \in Range(root) |-> units(r)]
             h == [x \in Shorts(e) |-> root[x]]
  <2>1. Range(root) = {h[x] : x \in Shorts(e)}
    BY <1>2 DEF Range
  <2>2. IsFiniteSet(Range(root))
    <3> HIDE DEF h
    <3> QED  BY <1>2, <2>1, ImageIsFinite
  <2>3. {units(r) : r \in Range(root)} = {g[r] : r \in Range(root)}
    OBVIOUS
  <2>4. \A U \in {g[r] : r \in Range(root)} : IsFiniteSet(U)
    BY <1>7
  <2>5. IsFiniteSet({g[r] : r \in Range(root)})
    <3> HIDE DEF g
    <3> QED  BY <2>2, ImageIsFinite
  <2> HIDE DEF g
  <2> QED  BY <2>3, <2>4, <2>5, FS_UNION
<1> DEFINE all == UNION {units(r) : r \in Range(root)}
           put == [v \in all |-> SetAside(e, v)]
<1>9. \A v \in all : v.id \in UnitNames /\ SetAside(e, v).id = v.id
  <2> SUFFICES ASSUME NEW r \in Range(root), NEW v \in units(r)
               PROVE  v.id \in UnitNames /\ SetAside(e, v).id = v.id
    OBVIOUS
  <2>1. "id" \in DOMAIN v
    BY DEF units, Unit
  <2> QED  BY <1>6, <2>1 DEF SetAside
<1>10. BookUnits(e) = {put[v] : v \in all}
  BY <1>1
<1>11. \A v \in all : put[v] = SetAside(e, v)
  OBVIOUS
<1> HIDE DEF put, all
<1>12. IsFiniteSet(all)
  BY <1>8 DEF all
<1>13. IsFiniteSet(BookUnits(e))
  BY <1>10, <1>12, ImageIsFinite
<1> QED  BY <1>9, <1>10, <1>11, <1>13

\* The first line of each line's chunk.
Firsts(f, lines) ==
    f = [n \in 1..Len(lines) |->
            IF n = 1 THEN 1
            ELSE LET a == f[n - 1]
                 IN IF Total(LAMBDA k : lines[k], a..(n - 1)) > 0 /\ Total(LAMBDA k : lines[k], a..n) > ChunkBudget
                    THEN n ELSE a]

LEMMA FirstsExists ==
    ASSUME NEW lines, Len(lines) \in Nat
    PROVE  \E f : Firsts(f, lines)
<1> DEFINE over(a, n) == Total(LAMBDA k : lines[k], a..(n - 1)) > 0 /\ Total(LAMBDA k : lines[k], a..n) > ChunkBudget
           runs(f, m) == f = [n \in 1..m |-> IF n = 1 THEN 1 ELSE IF over(f[n - 1], n) THEN n ELSE f[n - 1]]
           S == {m \in Nat : \E f : runs(f, m)}
<1> HIDE DEF over
<1>1. 0 \in S
  <2>1. runs([n \in 1..0 |-> 1], 0)
    OBVIOUS
  <2> QED  BY <2>1
<1>2. ASSUME NEW m \in S PROVE m + 1 \in S
  <2>1. PICK f : runs(f, m)
    BY <1>2
  <2> DEFINE last == IF m + 1 = 1 THEN 1 ELSE IF over(f[m], m + 1) THEN m + 1 ELSE f[m]
             g == [n \in 1..(m + 1) |-> IF n = m + 1 THEN last ELSE f[n]]
  <2>2. m \in Nat /\ (m + 1) - 1 = m
    BY <1>2
  <2>3. \A n \in 1..m : f[n] = IF n = 1 THEN 1 ELSE IF over(f[n - 1], n) THEN n ELSE f[n - 1]
    BY <2>1
  <2>4. /\ g = [n \in 1..(m + 1) |-> g[n]] /\ g[m + 1] = last
        /\ \A n \in 1..m : g[n] = f[n]
    BY <2>2
  <2> HIDE DEF g
  <2>5. ASSUME NEW n \in 1..(m + 1)
        PROVE  g[n] = IF n = 1 THEN 1 ELSE IF over(g[n - 1], n) THEN n ELSE g[n - 1]
    <3>1. CASE n = m + 1
      <4>1. n # 1 => g[n - 1] = f[m]
        <5>1. n # 1 => n - 1 = m /\ m \in 1..m
          BY <2>2, <3>1
        <5> QED  BY <2>4, <5>1
      <4> QED  BY <2>4, <3>1, <4>1
    <3>2. CASE n # m + 1
      <4>1. n \in 1..m /\ (n # 1 => n - 1 \in 1..m)
        BY <2>2, <3>2
      <4>2. (n # 1 => g[n - 1] = f[n - 1]) /\ g[n] = f[n]
        BY <2>4, <4>1
      <4> HIDE DEF last
      <4> QED  BY <2>3, <4>1, <4>2
    <3> QED  BY <3>1, <3>2
  <2>6. runs(g, m + 1)
    BY <2>4, <2>5
  <2> QED  BY <2>2, <2>6
<1>3. S = Nat
  <2> HIDE DEF S
  <2>1. S \in SUBSET Nat
    BY DEF S
  <2> QED  BY <1>1, <1>2, <2>1, NatInductionSet
<1>4. \E f : runs(f, Len(lines))
  BY <1>3
<1> QED  BY <1>4 DEF Firsts, over

LEMMA ChunksParts ==
    ASSUME NEW e, IsEstate(e), NEW r \in DOMAIN e.talks
    PROVE  IsFiniteSet(Chunks(e, r)) /\ Chunks(e, r) \subseteq Nat \X Nat
<1> DEFINE lines == e.talks[r]
           N == Len(lines)
           f == CHOOSE g : Firsts(g, lines)
           P == {m \in 1..N : m = N \/ f[m + 1] = m + 1}
<1>1. N \in Nat
  <2>1. e.talks \in Seq(Seq(Nat))
    BY Zenon DEF IsEstate
  <2>2. e.talks[r] \in Seq(Nat)
    BY <2>1
  <2> QED  BY <2>2
<1>2. Firsts(f, lines)
  BY <1>1, FirstsExists
<1>3. Chunks(e, r) = {<<f[n], n>> : n \in P}
  BY Zenon DEF Chunks, Firsts
<1> HIDE DEF f, lines
<1>4. \A n \in 1..N : f[n] = n \/ f[n] = 1 \/ (n # 1 /\ f[n] = f[n - 1])
  BY <1>2 DEF Firsts
<1> HIDE DEF N
<1>5. \A n \in 0..N : n = 0 \/ f[n] \in Nat
  <2> DEFINE S == {n \in Nat : n = 0 \/ f[n] \in Nat}
  <2>1. 0 \in S
    OBVIOUS
  <2>2. ASSUME NEW n \in 1..N, n - 1 \in S PROVE n \in S
    <3>1. n \in Nat /\ (n # 1 => f[n - 1] \in Nat)
      BY <2>2
    <3> QED  BY <1>4, <3>1
  <2>3. 0..N \subseteq S
    <3>1. S \in SUBSET Nat
      OBVIOUS
    <3> HIDE DEF S
    <3> QED  BY <1>1, <2>1, <2>2, <3>1, UpTo
  <2> QED  BY <2>3
<1>6. \A n \in P : n \in Nat /\ f[n] \in Nat
  <2> SUFFICES ASSUME NEW n \in P PROVE n \in Nat /\ f[n] \in Nat
    OBVIOUS
  <2>1. n \in 0..N /\ n # 0
    BY <1>1
  <2> QED  BY <1>5, <2>1
<1>7. IsFiniteSet(P)
  <2>1. IsFiniteSet(1..N) /\ P \subseteq 1..N
    BY <1>1, FirstNumbers
  <2> HIDE DEF P
  <2> QED  BY <2>1, FS_Subset
<1> DEFINE g == [n \in P |-> <<f[n], n>>]
<1>8. Chunks(e, r) = {g[n] : n \in P} /\ \A n \in P : g[n] = <<f[n], n>>
  BY <1>3
<1> HIDE DEF g, P
<1>9. IsFiniteSet({g[n] : n \in P})
  BY <1>7, ImageIsFinite
<1>10. \A n \in P : g[n] \in Nat \X Nat
  BY <1>6, <1>8
<1> QED  BY <1>8, <1>9, <1>10

\* Rounds of halving.
Cuts(f, e, r) ==
    f = [n \in 0..Len(e.talks[r]) |->
            IF n = 0 THEN Chunks(e, r) ELSE UNION {Halves(e, r, s) : s \in f[n - 1]}]

LEMMA SpansParts ==
    ASSUME NEW e, IsEstate(e), NEW r \in DOMAIN e.talks
    PROVE  /\ \E g : Cuts(g, e, r)
           /\ IsFiniteSet(Spans(e, r)) /\ Spans(e, r) \subseteq Nat \X Nat
<1> DEFINE N == Len(e.talks[r])
           T == {S \in SUBSET (Nat \X Nat) : IsFiniteSet(S)}
           halved(S) == UNION {Halves(e, r, s) : s \in S}
           f == CHOOSE g : Cuts(g, e, r)
<1>1. N \in Nat
  <2>1. e.talks \in Seq(Seq(Nat))
    BY Zenon DEF IsEstate
  <2>2. e.talks[r] \in Seq(Nat)
    BY <2>1
  <2> QED  BY <2>2
<1>2. Chunks(e, r) \in T
  BY ChunksParts
<1>3. ASSUME NEW S \in T PROVE halved(S) \in T
  <2>1. ASSUME NEW s \in S PROVE IsFiniteSet(Halves(e, r, s)) /\ Halves(e, r, s) \subseteq Nat \X Nat
    <3> DEFINE a == s[1]
               b == s[2]
               mid == (a + b) \div 2
    <3>1. s \in Nat \X Nat /\ a \in Nat /\ b \in Nat
      BY <2>1
    <3>2. mid \in Nat
      BY <3>1
    <3>3. Halves(e, r, s) = {s} \/ Halves(e, r, s) = {<<a, mid>>, <<mid + 1, b>>}
      BY DEF Halves
    <3> HIDE DEF mid, a, b
    <3>4. CASE Halves(e, r, s) = {s}
      BY <3>1, <3>4, FS_Singleton
    <3>5. CASE Halves(e, r, s) = {<<a, mid>>, <<mid + 1, b>>}
      <4>1. IsFiniteSet({<<a, mid>>})
        BY FS_Singleton
      <4>2. IsFiniteSet({<<a, mid>>} \cup {<<mid + 1, b>>})
        BY <4>1, FS_AddElement
      <4>3. {<<a, mid>>} \cup {<<mid + 1, b>>} = {<<a, mid>>, <<mid + 1, b>>}
        OBVIOUS
      <4>4. <<a, mid>> \in Nat \X Nat /\ <<mid + 1, b>> \in Nat \X Nat
        BY <3>1, <3>2
      <4> QED  BY <3>5, <4>2, <4>3, <4>4
    <3> QED  BY <3>3, <3>4, <3>5
  <2> DEFINE h == [s \in S |-> Halves(e, r, s)]
  <2>2. {Halves(e, r, s) : s \in S} = {h[s] : s \in S} /\ \A s \in S : h[s] = Halves(e, r, s)
    OBVIOUS
  <2>3. IsFiniteSet(S)
    BY <1>3
  <2> HIDE DEF h, T
  <2>4. IsFiniteSet({h[s] : s \in S}) /\ \A U \in {h[s] : s \in S} : IsFiniteSet(U)
    BY <2>1, <2>2, <2>3, ImageIsFinite
  <2>5. IsFiniteSet(UNION {h[s] : s \in S})
    BY <2>4, FS_UNION
  <2>6. halved(S) \subseteq Nat \X Nat
    BY <2>1
  <2> QED  BY <2>2, <2>5, <2>6 DEF T
<1> HIDE DEF T
<1>4. \E g : Cuts(g, e, r)
  <2> DEFINE step == [p \in Nat \X T |-> halved(p[2])]
  <2>1. step \in [Nat \X T -> T]
    BY <1>3
  <2>2. \A n \in 1..N, S \in T : step[<<n, S>>] = halved(S)
    OBVIOUS
  <2> HIDE DEF step, halved
  <2>3. PICK g : IsRun(g, T, Chunks(e, r), step, N)
    BY <1>1, <1>2, <2>1, RunExists
  <2>4. g \in [0..N -> T] /\ g[0] = Chunks(e, r) /\ \A n \in 1..N : g[n] = step[<<n, g[n - 1]>>]
    BY <2>3 DEF IsRun
  <2> HIDE DEF N
  <2>5. ASSUME NEW n \in 0..N PROVE g[n] = IF n = 0 THEN Chunks(e, r) ELSE halved(g[n - 1])
    <3>1. CASE n = 0
      BY <2>4, <3>1
    <3>2. CASE n # 0
      <4>1. n \in 1..N /\ n - 1 \in 0..N
        BY <1>1, <3>2
      <4> QED  BY <2>2, <2>4, <3>2, <4>1
    <3> QED  BY <3>1, <3>2
  <2>6. g = [n \in 0..N |-> IF n = 0 THEN Chunks(e, r) ELSE halved(g[n - 1])]
    BY <2>4, <2>5
  <2> QED  BY <2>6 DEF Cuts, N, halved
<1>5. Cuts(f, e, r)
  BY <1>4
<1>6. Spans(e, r) = f[N]
  BY Zenon DEF Spans, Cuts
<1> HIDE DEF f
<1>7. \A n \in 0..N : f[n] \in T
  <2>1. \A n \in 0..N : f[n] = IF n = 0 THEN Chunks(e, r) ELSE halved(f[n - 1])
    BY <1>5 DEF Cuts
  <2> HIDE DEF N, halved
  <2>2. f[0] \in T
    BY <1>1, <1>2, <2>1
  <2>3. \A n \in 1..N : f[n - 1] \in T => f[n] \in T
    <3> SUFFICES ASSUME NEW n \in 1..N, f[n - 1] \in T PROVE f[n] \in T
      OBVIOUS
    <3>1. f[n] = halved(f[n - 1])
      BY <1>1, <2>1
    <3> QED  BY <1>3, <3>1
  <2> QED  BY <1>1, <2>2, <2>3, RunStays
<1>8. N \in 0..N
  BY <1>1
<1> QED  BY <1>4, <1>6, <1>7, <1>8 DEF T

LEMMA TalkUnitsParts ==
    ASSUME NEW e, IsEstate(e)
    PROVE  IsFiniteSet(TalkUnits(e)) /\ \A u \in TalkUnits(e) : u.id \in UnitNames
<1> DEFINE R == DOMAIN e.talks
           spans(r) == {Span(e, r, s[1], s[2]) : s \in Spans(e, r)}
           f == [r \in R |-> spans(r)]
<1>1. IsFiniteSet(R) /\ R \in SUBSET Nat
  <2>1. e.talks \in Seq(Seq(Nat))
    BY Zenon DEF IsEstate
  <2> QED  BY <2>1, PlacesParts
<1>2. \A r \in R : IsFiniteSet(Spans(e, r)) /\ Spans(e, r) \subseteq Nat \X Nat
  BY SpansParts
<1>3. \A r \in R : IsFiniteSet(f[r])
  <2> SUFFICES ASSUME NEW r \in R PROVE IsFiniteSet(spans(r))
    OBVIOUS
  <2> DEFINE S == Spans(e, r)
             g == [s \in S |-> Span(e, r, s[1], s[2])]
  <2>1. spans(r) = {g[s] : s \in S} /\ IsFiniteSet(S)
    BY <1>2
  <2> HIDE DEF g, spans, S
  <2> QED  BY <2>1, ImageIsFinite
<1>4. TalkUnits(e) = UNION {f[r] : r \in R}
  BY DEF TalkUnits
<1>5. \A u \in TalkUnits(e) : u.id \in UnitNames
  <2> SUFFICES ASSUME NEW u \in TalkUnits(e) PROVE u.id \in UnitNames
    OBVIOUS
  <2>1. PICK r \in R : \E s \in Spans(e, r) : u = Span(e, r, s[1], s[2])
    BY DEF TalkUnits
  <2>2. PICK s \in Spans(e, r) : u = Span(e, r, s[1], s[2])
    BY <2>1
  <2>3. r \in Nat /\ s[1] \in Nat
    BY <1>1, <1>2, <2>2
  <2> QED  BY <2>2, <2>3 DEF Span, Unit, UnitNames, Talk
<1> HIDE DEF f, R
<1>6. IsFiniteSet({f[r] : r \in R}) /\ \A U \in {f[r] : r \in R} : IsFiniteSet(U)
  BY <1>1, <1>3, ImageIsFinite
<1>7. IsFiniteSet(UNION {f[r] : r \in R})
  BY <1>6, FS_UNION
<1> QED  BY <1>4, <1>5, <1>7

LEMMA AttUnitsParts ==
    ASSUME NEW e, IsEstate(e), NEW w, NEW c, NEW g
    PROVE  IsFiniteSet(AttUnits(e, w, c, g)) /\ \A u \in AttUnits(e, w, c, g) : u.id \in UnitNames
<1> DEFINE served == Served(e, w, c)
           A == {h \cap served : h \in GroupsOf(e, w, g)} \ {{}}
           B == {{f} : f \in served \ Photos(e, w)}
           sorted(S) == [n \in 1..Cardinality(S) |->
                            CHOOSE h \in S : Min(h) = InOrder({Min(k) : k \in S})[n]]
           order == AttachmentGroups(e, w, c, g)
<1>1. IsFiniteSet(served)
  <2>1. served \subseteq DOMAIN e.files
    BY DEF Served, Convertible, Present
  <2>2. IsFiniteSet(DOMAIN e.files)
    BY DEF IsEstate
  <2> QED  BY <2>1, <2>2, FS_Subset
<1>2. order = sorted(A) \o sorted(B)
  BY DEF AttachmentGroups
<1>3. A \subseteq SUBSET served /\ B \subseteq SUBSET served
  OBVIOUS
<1> HIDE DEF A, B, served
<1>4. Cardinality(A) \in Nat /\ Cardinality(B) \in Nat
  BY <1>1, <1>3, FS_SUBSET, FS_Subset, FS_CardinalityType
<1>5. ASSUME NEW S, Cardinality(S) \in Nat PROVE \E T : sorted(S) \in Seq(T)
  <2> DEFINE k == Cardinality(S)
             v(n) == CHOOSE h \in S : Min(h) = InOrder({Min(j) : j \in S})[n]
             T == {v(n) : n \in 1..k}
  <2> HIDE DEF v
  <2>1. [n \in 1..k |-> v(n)] \in [1..k -> T]
    OBVIOUS
  <2>2. [n \in 1..k |-> v(n)] \in Seq(T)
    BY <1>5, <2>1
  <2>3. sorted(S) = [n \in 1..k |-> v(n)]
    BY Zenon DEF v
  <2> QED  BY <2>2, <2>3
<1> HIDE DEF sorted
<1>6. PICK T : sorted(A) \in Seq(T)
  BY <1>4, <1>5
<1>7. PICK U : sorted(B) \in Seq(U)
  BY <1>4, <1>5
<1>8. order \in Seq(T \cup U)
  BY <1>2, <1>6, <1>7
<1>9. IsFiniteSet(DOMAIN order) /\ DOMAIN order \in SUBSET Nat
  BY <1>8, PlacesParts
<1> DEFINE f == [n \in DOMAIN order |-> Unit(Att, n, 0, {}, {}, order[n])]
<1>10. AttUnits(e, w, c, g) = {f[n] : n \in DOMAIN order}
  BY DEF AttUnits
<1>11. \A n \in DOMAIN order : f[n].id \in UnitNames
  BY <1>9 DEF Unit, UnitNames, Att
<1> HIDE DEF f, order
<1> QED  BY <1>9, <1>10, <1>11, ImageIsFinite

\* A plan has finitely many units, each named by three numbers.
LEMMA UnitsParts ==
    ASSUME NEW e, IsEstate(e), NEW w, NEW c, NEW g
    PROVE  /\ IsFiniteSet(Plan(e, w, c, g).units)
           /\ \A u \in Plan(e, w, c, g).units : u.id \in UnitNames
<1>1. Plan(e, w, c, g).units = BookUnits(e) \cup TalkUnits(e) \cup AttUnits(e, w, c, g)
  BY DEF Plan, PlannedUnits
<1>2. IsFiniteSet(BookUnits(e)) /\ IsFiniteSet(TalkUnits(e)) /\ IsFiniteSet(AttUnits(e, w, c, g))
  BY BookUnitsParts, TalkUnitsParts, AttUnitsParts
<1>3. IsFiniteSet(BookUnits(e) \cup TalkUnits(e))
  BY <1>2, FS_Union
<1>4. IsFiniteSet(BookUnits(e) \cup TalkUnits(e) \cup AttUnits(e, w, c, g))
  BY <1>2, <1>3, FS_Union
<1> QED  BY <1>1, <1>4, BookUnitsParts, TalkUnitsParts, AttUnitsParts

-----------------------------------------------------------------------------
(* Who decides a candidate.                                                *)

\* Units are folded in one order.
LEMMA BeforeIsAnOrder ==
    /\ \A u \in UnitNames : ~ Before(u, u)
    /\ \A u, v \in UnitNames : u # v => Before(u, v) \/ Before(v, u)
    /\ \A u, v, w \in UnitNames : Before(u, v) /\ Before(v, w) => Before(u, w)
<1>1. \A u \in UnitNames : /\ u[1] \in Nat /\ u[2] \in Nat /\ u[3] \in Nat
                           /\ u = <<u[1], u[2], u[3]>>
  BY DEF UnitNames
<1>2. \A u \in UnitNames : ~ Before(u, u)
  BY <1>1 DEF Before
<1>3. ASSUME NEW u \in UnitNames, NEW v \in UnitNames, u # v PROVE Before(u, v) \/ Before(v, u)
  <2>1. u[1] # v[1] \/ u[2] # v[2] \/ u[3] # v[3]
    BY <1>1, <1>3
  <2> QED  BY <1>1, <2>1 DEF Before
<1>4. ASSUME NEW u \in UnitNames, NEW v \in UnitNames, NEW w \in UnitNames, Before(u, v), Before(v, w)
      PROVE  Before(u, w)
  BY <1>1, <1>4 DEF Before
<1> QED  BY <1>2, <1>3, <1>4

LEMMA LastOfUnits ==
    ASSUME NEW units \in SUBSET UnitNames, IsFiniteSet(units), units # {}
    PROVE  LastOf(units) \in units
<1> DEFINE R == {p \in UnitNames \X UnitNames : Before(p[1], p[2])}
<1>1. \A u, v \in UnitNames : <<u, v>> \in R <=> Before(u, v)
  OBVIOUS
<1> HIDE DEF R
<1>2. /\ \A x \in units : <<x, x>> \notin R
      /\ \A x, y \in units : x # y => <<x, y>> \in R \/ <<y, x>> \in R
      /\ \A x, y, z \in units : <<x, y>> \in R /\ <<y, z>> \in R => <<x, z>> \in R
  <2>1. \A x \in units : x \in UnitNames
    OBVIOUS
  <2> QED  BY <1>1, <2>1, BeforeIsAnOrder
<1>3. PICK x \in units : \A y \in units \ {x} : <<y, x>> \in R
  BY <1>2, LastInOrder
<1>4. \A y \in units \ {x} : Before(y, x)
  BY <1>1, <1>3
<1> QED  BY <1>4 DEF LastOf

-----------------------------------------------------------------------------
(* Decisions that can be carried out.                                      *)

ChoiceFields == DecisionFields \cup {"kind", "unit", "src"}
\* A decision under the candidate it is about, or the entry a unit minted.
IsChoice(c, d) ==
    /\ \/ c[2] \in Nat /\ c = <<"S", c[2]>>
       \/ c[3] \in Nat /\ c = <<"N", d.unit, c[3]>>
    /\ DOMAIN d = ChoiceFields /\ d.unit \in UnitNames /\ d.act \in Acts /\ KeysGiven(d)
AreChoices(by) == IsFiniteSet(DOMAIN by) /\ \A c \in DOMAIN by : IsChoice(c, by[c])

\* A run whose units are few and whose answers are answers.
IsRunOf(run) ==
    /\ IsFiniteSet(DOMAIN run.answers) /\ DOMAIN run.answers \subseteq UnitNames
    /\ \A u \in DOMAIN run.answers : IsAnswer(run.answers[u])
    /\ IsFiniteSet(DOMAIN run.kinds)
    /\ \A c \in DOMAIN run.kinds : c[2] \in Nat /\ c = <<"S", c[2]>>

LEMMA MintedParts ==
    ASSUME NEW run, IsRunOf(run)
    PROVE  /\ IsFiniteSet(Minted(run))
           /\ \A c \in Minted(run) :
                /\ c = <<"N", c[2], c[3]>> /\ c[2] \in DOMAIN run.answers /\ c[3] \in Nat
                /\ c[3] \in DOMAIN run.answers[c[2]].new
<1> DEFINE made(u) == {<<"N", u, i>> : i \in {j \in DOMAIN run.answers[u].new : run.answers[u].new[j].ok}}
           f == [u \in DOMAIN run.answers |-> made(u)]
<1>1. Minted(run) = UNION {f[u] : u \in DOMAIN run.answers}
  <2>1. Minted(run) = UNION {made(u) : u \in DOMAIN run.answers}
    BY DEF Minted
  <2> HIDE DEF made
  <2> QED  BY <2>1
<1>2. ASSUME NEW u \in DOMAIN run.answers
      PROVE  /\ IsFiniteSet(f[u])
             /\ \A c \in f[u] : /\ c = <<"N", c[2], c[3]>> /\ c[2] = u /\ c[3] \in Nat
                                /\ c[3] \in DOMAIN run.answers[u].new
  <2> DEFINE D == DOMAIN run.answers[u].new
             ok == {j \in D : run.answers[u].new[j].ok}
             g == [i \in ok |-> <<"N", u, i>>]
  <2>1. IsFiniteSet(D) /\ D \in SUBSET Nat
    <3>1. IsSequence(run.answers[u].new)
      BY DEF IsRunOf, IsAnswer, IsNews
    <3>2. PICK T : run.answers[u].new \in Seq(T)
      BY <3>1 DEF IsSequence
    <3> QED  BY <3>2, PlacesParts
  <2>2. ok \subseteq D
    OBVIOUS
  <2>3. f[u] = {g[i] : i \in ok}
    OBVIOUS
  <2>4. \A i \in ok : g[i] = <<"N", u, i>>
    OBVIOUS
  <2>5. IsFiniteSet(ok)
    <3> HIDE DEF ok, D
    <3> QED  BY <2>1, <2>2, FS_Subset
  <2> HIDE DEF g, ok, D, f
  <2>6. IsFiniteSet(f[u])
    BY <2>3, <2>5, ImageIsFinite
  <2>7. \A c \in f[u] : \E i \in ok : c = <<"N", u, i>>
    BY <2>3, <2>4
  <2> QED  BY <2>1, <2>2, <2>6, <2>7 DEF D
<1> HIDE DEF f
<1>3. IsFiniteSet({f[u] : u \in DOMAIN run.answers})
  BY ImageIsFinite DEF IsRunOf
<1>4. IsFiniteSet(Minted(run))
  BY <1>1, <1>2, <1>3, FS_UNION
<1> QED  BY <1>1, <1>2, <1>4

\* The decisions of the units, together, can be carried out.
LEMMA DecisionsAreChoices ==
    ASSUME NEW run, IsRunOf(run)
    PROVE  AreChoices(Decisions(run))
<1> DEFINE decided == {c \in DOMAIN run.kinds : Deciders(run, c) # {}}
           by == Decisions(run)
<1>1. /\ DOMAIN by = decided \cup Minted(run)
      /\ \A c \in DOMAIN by :
           by[c] = IF c[1] = "N" THEN With(run.answers[c[2]].new[c[3]], [unit |-> c[2]])
                   ELSE LET u == LastOf(Deciders(run, c))
                        IN With(run.answers[u].dec[c], [unit |-> u, kind |-> run.kinds[c], src |-> "sheet"])
  BY DEF Decisions
<1>2. IsFiniteSet(DOMAIN by)
  <2>1. IsFiniteSet(decided)
    <3>1. decided \in SUBSET (DOMAIN run.kinds)
      OBVIOUS
    <3> HIDE DEF decided
    <3> QED  BY <3>1, FS_Subset DEF IsRunOf
  <2>2. IsFiniteSet(Minted(run)) /\ DOMAIN by = decided \cup Minted(run)
    BY <1>1, MintedParts
  <2> HIDE DEF decided, by
  <2> QED  BY <2>1, <2>2, FS_Union
<1> HIDE DEF by
<1>3. ASSUME NEW c \in Minted(run) PROVE IsChoice(c, by[c])
  <2>1. /\ c = <<"N", c[2], c[3]>> /\ c[2] \in DOMAIN run.answers /\ c[3] \in Nat
        /\ c[3] \in DOMAIN run.answers[c[2]].new /\ c[2] \in UnitNames
    BY MintedParts DEF IsRunOf
  <2> DEFINE n == run.answers[c[2]].new[c[3]]
             d == With(n, [unit |-> c[2]])
  <2>2. IsMinted(n)
    BY <2>1 DEF IsRunOf, IsAnswer, IsNews
  <2>3. by[c] = d
    <3>1. c[1] = "N"
      BY <2>1
    <3> QED  BY <1>1, <3>1
  <2> HIDE DEF n
  <2>4. DOMAIN d = ChoiceFields /\ d.unit = c[2] /\ d.act = n.act /\ d.keys = n.keys
    BY <2>2 DEF IsMinted, MintedFields, DecisionFields, ChoiceFields, With
  <2> HIDE DEF d
  <2> QED  BY <2>1, <2>2, <2>3, <2>4 DEF IsChoice, IsMinted, KeysGiven, Acts
<1>4. ASSUME NEW c \in decided PROVE IsChoice(c, by[c])
  <2>1. c[2] \in Nat /\ c = <<"S", c[2]>> /\ c[1] = "S"
    BY DEF IsRunOf
  <2> DEFINE u == LastOf(Deciders(run, c))
             n == run.answers[u].dec[c]
             d == With(n, [unit |-> u, kind |-> run.kinds[c], src |-> "sheet"])
  <2>2. u \in Deciders(run, c)
    <3>1. Deciders(run, c) \in SUBSET (DOMAIN run.answers) /\ Deciders(run, c) # {}
      BY DEF Deciders
    <3>2. Deciders(run, c) \in SUBSET UnitNames /\ IsFiniteSet(Deciders(run, c))
      BY <3>1, FS_Subset DEF IsRunOf
    <3> QED  BY <3>1, <3>2, LastOfUnits
  <2>3. u \in DOMAIN run.answers /\ c \in DOMAIN run.answers[u].dec /\ u \in UnitNames
    BY <2>2 DEF Deciders, IsRunOf
  <2>4. by[c] = d
    BY <1>1, <2>1
  <2> HIDE DEF u
  <2>5. IsDecided(n)
    BY <2>3 DEF IsRunOf, IsAnswer
  <2> HIDE DEF n
  <2>6. DOMAIN d = ChoiceFields /\ d.unit = u /\ d.act = n.act /\ d.keys = n.keys
    BY <2>5 DEF IsDecided, DecisionFields, ChoiceFields, With
  <2> HIDE DEF d
  <2> QED  BY <2>1, <2>3, <2>4, <2>5, <2>6 DEF IsChoice, IsDecided, KeysGiven
<1> QED  BY <1>1, <1>2, <1>3, <1>4 DEF AreChoices, by

-----------------------------------------------------------------------------
(* The review, decision by decision.                                       *)

\* A review decision leaves a decision that can be carried out.
LEMMA ReviewedAreChoices ==
    ASSUME NEW draft, NEW by, AreChoices(by), NEW v, v.act \in Acts \cup {"fix"}, KeysGiven(v)
    PROVE  AreChoices(Reviewed(draft, by, v)) /\ DOMAIN Reviewed(draft, by, v) = DOMAIN by
<1> DEFINE new == Reviewed(draft, by, v)
<1>1. CASE v.act = "fix"
  BY <1>1 DEF Reviewed
<1>2. CASE v.act # "fix"
  <2> DEFINE c == HitOf(draft, v.on).id
             into == HitOf(draft, v.into).id
             laid(d) == LaidOver(d, v, into)
  <2>1. new = [by EXCEPT ![c] = laid(@)]
    BY <1>2 DEF Reviewed
  <2> HIDE DEF c, new
  <2>2. DOMAIN new = DOMAIN by /\ \A x \in DOMAIN by : new[x] = IF x = c THEN laid(by[x]) ELSE by[x]
    BY <2>1
  <2>3. ASSUME NEW x \in DOMAIN by PROVE IsChoice(x, laid(by[x]))
    <3> DEFINE d == by[x]
               n == laid(d)
    <3>1. IsChoice(x, d)
      BY DEF AreChoices
    <3> HIDE DEF d
    <3>2. DOMAIN n = ChoiceFields /\ n.unit = d.unit /\ n.act = v.act
          /\ n.keys = IF v.keys = <<>> THEN d.keys ELSE v.keys
        BY <3>1 DEF IsChoice, ChoiceFields, DecisionFields, LaidOver
    <3>3. KeysGiven(n)
      <4>1. n.keys \in Seq(Nat)
        BY <3>1, <3>2 DEF IsChoice, KeysGiven
      <4>2. n.act \in {"keep", "split"} => n.keys # <<>>
        BY <3>2 DEF KeysGiven
      <4> QED  BY <4>1, <4>2 DEF KeysGiven
    <3> HIDE DEF n
    <3>4. n.act \in Acts
      BY <1>2, <3>2
    <3>5. IsChoice(x, n)
      BY <3>1, <3>2, <3>3, <3>4, Zenon DEF IsChoice
    <3> QED  BY <3>5 DEF n, d
  <2> HIDE DEF laid
  <2>4. AreChoices(new)
    BY <2>2, <2>3 DEF AreChoices
  <2> QED  BY <2>2, <2>4 DEF new
<1> QED  BY <1>1, <1>2

Follows(f, draft, by, votes, applied, m) ==
    f = [n \in 0..m |-> IF n = 0 THEN by
                        ELSE IF n \in applied THEN Reviewed(draft, f[n - 1], votes[n]) ELSE f[n - 1]]

LEMMA FollowsExists ==
    ASSUME NEW draft, NEW by, NEW votes, NEW applied, NEW k \in Nat
    PROVE  \E f : Follows(f, draft, by, votes, applied, k)
<1> DEFINE next(x, n) == IF n \in applied THEN Reviewed(draft, x, votes[n]) ELSE x
           runs(f, m) == f = [n \in 0..m |-> IF n = 0 THEN by ELSE next(f[n - 1], n)]
           S == {m \in Nat : \E f : runs(f, m)}
<1>0. \A f, m : runs(f, m) <=> Follows(f, draft, by, votes, applied, m)
  BY Zenon DEF Follows
<1> HIDE DEF next
<1>1. 0 \in S
  <2>1. runs([n \in 0..0 |-> by], 0)
    OBVIOUS
  <2> QED  BY <2>1
<1>2. ASSUME NEW m \in S PROVE m + 1 \in S
  <2>1. PICK f : runs(f, m)
    BY <1>2
  <2> DEFINE g == [n \in 0..(m + 1) |-> IF n = m + 1 THEN next(f[m], m + 1) ELSE f[n]]
  <2>2. m \in Nat /\ (m + 1) - 1 = m /\ m + 1 # 0
    BY <1>2
  <2>3. DOMAIN f = 0..m /\ \A n \in 0..m : f[n] = IF n = 0 THEN by ELSE next(f[n - 1], n)
    BY <2>1
  <2>4. /\ g = [n \in 0..(m + 1) |-> g[n]] /\ g[m + 1] = next(f[m], m + 1)
        /\ \A n \in 0..m : g[n] = f[n]
    BY <2>2
  <2> HIDE DEF g
  <2>5. ASSUME NEW n \in 0..(m + 1) PROVE g[n] = IF n = 0 THEN by ELSE next(g[n - 1], n)
    <3>1. CASE n = m + 1
      <4>1. n - 1 = m /\ m \in 0..m
        BY <2>2, <3>1
      <4>2. g[n - 1] = f[m]
        BY <2>4, <4>1
      <4> QED  BY <2>2, <2>4, <3>1, <4>2
    <3>2. CASE n # m + 1
      <4>1. n \in 0..m /\ (n # 0 => n - 1 \in 0..m)
        BY <2>2, <3>2
      <4>2. (n # 0 => g[n - 1] = f[n - 1]) /\ g[n] = f[n]
        BY <2>4, <4>1
      <4> QED  BY <2>3, <4>1, <4>2
    <3> QED  BY <3>1, <3>2
  <2>6. runs(g, m + 1)
    BY <2>4, <2>5
  <2> QED  BY <2>2, <2>6
<1>3. S = Nat
  <2> HIDE DEF S
  <2>1. S \in SUBSET Nat
    BY DEF S
  <2> QED  BY <1>1, <1>2, <2>1, NatInductionSet
<1>4. \E f : runs(f, k)
  BY <1>3
<1> QED  BY <1>0, <1>4

\* What can be carried out before the review can be carried out after it, and is
\* about the same.
LEMMA LaidAreChoices ==
    ASSUME NEW draft, NEW by, AreChoices(by), NEW votes, NEW applied,
           Len(votes) \in Nat, \A n \in 1..Len(votes) : votes[n].act \in Acts \cup {"fix"} /\ KeysGiven(votes[n])
    PROVE  AreChoices(Laid(draft, by, votes, applied)) /\ DOMAIN Laid(draft, by, votes, applied) = DOMAIN by
<1> DEFINE k == Len(votes)
           f == CHOOSE g : Follows(g, draft, by, votes, applied, k)
<1>1. Follows(f, draft, by, votes, applied, k)
  BY FollowsExists
<1>2. Laid(draft, by, votes, applied) = f[k]
  BY Zenon DEF Laid, Follows
<1> HIDE DEF f
<1>3. \A n \in 0..k : f[n] = IF n = 0 THEN by
                             ELSE IF n \in applied THEN Reviewed(draft, f[n - 1], votes[n]) ELSE f[n - 1]
  BY <1>1 DEF Follows
<1> DEFINE S == {n \in Nat : AreChoices(f[n]) /\ DOMAIN f[n] = DOMAIN by}
<1>4. 0 \in S
  BY <1>3
<1>5. \A n \in 1..k : n - 1 \in S => n \in S
  <2> SUFFICES ASSUME NEW n \in 1..k, n - 1 \in S PROVE n \in S
    OBVIOUS
  <2>1. n \in 0..k /\ n # 0 /\ n \in Nat
    OBVIOUS
  <2>2. AreChoices(f[n - 1]) /\ DOMAIN f[n - 1] = DOMAIN by
    OBVIOUS
  <2>3. f[n] = IF n \in applied THEN Reviewed(draft, f[n - 1], votes[n]) ELSE f[n - 1]
    BY <1>3, <2>1
  <2>4. AreChoices(f[n]) /\ DOMAIN f[n] = DOMAIN by
    BY <2>2, <2>3, ReviewedAreChoices
  <2> QED  BY <2>1, <2>4
<1>6. 0..k \subseteq S
  <2> HIDE DEF S
  <2>1. S \in SUBSET Nat
    BY DEF S
  <2> QED  BY <1>4, <1>5, <2>1, UpTo
<1>7. k \in 0..k
  OBVIOUS
<1> QED  BY <1>2, <1>6, <1>7

-----------------------------------------------------------------------------
(* Entries.                                                                *)

EntryFields == {"id", "part", "unit", "kind", "key", "refs", "home", "link", "val", "src", "sound", "holds"}
IsEntry(x) ==
    /\ \/ x.id[2] \in Nat /\ x.id = <<"S", x.id[2]>>
       \/ x.id[3] \in Nat /\ x.id = <<"N", x.unit, x.id[3]>>
    /\ EntryFields \subseteq DOMAIN x
    /\ x.part \in Nat /\ x.key \in Nat /\ x.unit \in UnitNames
\* Finitely many, each under a name of its own.
AreEntries(E) ==
    /\ IsFiniteSet(E) /\ \A x \in E : IsEntry(x)
    /\ \A x, y \in E : Name(x) = Name(y) => x = y
AreBare(E) == AreEntries(E) /\ \A x \in E : DOMAIN x = EntryFields

\* What an entry keeps while its references are followed: all but where it
\* points.
Stays(x, y) == \A k \in EntryFields \ {"refs", "home", "link"} : y[k] = x[k]

LEMMA StaysParts ==
    ASSUME NEW x, NEW y, Stays(x, y)
    PROVE  /\ Name(y) = Name(x) /\ y.id = x.id /\ y.holds = x.holds /\ Address(y) = Address(x)
           /\ IsEntry(x) /\ EntryFields \subseteq DOMAIN y => IsEntry(y)
<1>1. /\ y.id = x.id /\ y.part = x.part /\ y.unit = x.unit /\ y.kind = x.kind /\ y.key = x.key
      /\ y.src = x.src /\ y.holds = x.holds
  BY DEF Stays, EntryFields
<1>2. IsEntry(x) /\ EntryFields \subseteq DOMAIN y => IsEntry(y)
  BY <1>1, Zenon DEF IsEntry
<1> QED  BY <1>1, <1>2 DEF Name, Address

LEMMA StaysOn ==
    ASSUME NEW x, NEW y, NEW z, Stays(x, y), Stays(y, z)
    PROVE  Stays(x, z)
BY DEF Stays

\* Entries changed one by one, each under its name, are entries.
LEMMA EntriesStay ==
    ASSUME NEW E, AreEntries(E), NEW f, \A x \in E : IsEntry(f[x]) /\ Name(f[x]) = Name(x)
    PROVE  AreEntries({f[x] : x \in E})
<1>1. IsFiniteSet({f[x] : x \in E})
  BY ImageIsFinite DEF AreEntries
<1>2. \A x, y \in E : Name(f[x]) = Name(f[y]) => f[x] = f[y]
  BY DEF AreEntries
<1> QED  BY <1>1, <1>2 DEF AreEntries

LEMMA FewerEntries ==
    ASSUME NEW E, AreEntries(E), NEW F \in SUBSET E
    PROVE  AreEntries(F)
<1>1. IsFiniteSet(F)
  BY FS_Subset DEF AreEntries
<1> QED  BY <1>1 DEF AreEntries

\* The decisions to keep come to entries.
LEMMA KeptParts ==
    ASSUME NEW run, NEW by, AreChoices(by)
    PROVE  /\ AreBare(KeptEntries(run, by))
           /\ \A c \in DOMAIN by : by[c].act \in {"keep", "split"} /\ Stands(run, by, c) =>
                \E x \in KeptEntries(run, by) : x.id = c
           /\ \A x \in KeptEntries(run, by) :
                x.part = 0 => x.holds = {y \in DOMAIN by : by[y].act = "merge" /\ TargetOf(by, y) = x.id}
<1> DEFINE C == {x \in DOMAIN by : by[x].act \in {"keep", "split"} /\ Stands(run, by, x)}
           made == [c \in C |-> {EntryOf(by, c, n) : n \in Parts(by[c])}]
           kept == KeptEntries(run, by)
<1>1. kept = UNION {made[c] : c \in C} /\ C \subseteq DOMAIN by
  <2> DEFINE of(c) == {EntryOf(by, c, n) : n \in Parts(by[c])}
  <2>1. kept = UNION {of(c) : c \in C} /\ C \subseteq DOMAIN by
    BY DEF KeptEntries
  <2>2. \A c \in C : made[c] = of(c)
    OBVIOUS
  <2> HIDE DEF of, C, made
  <2> QED  BY <2>1, <2>2
<1>2. \A c \in C : made[c] = {EntryOf(by, c, n) : n \in Parts(by[c])}
  OBVIOUS
<1>3. IsFiniteSet(C)
  <2> HIDE DEF C
  <2> QED  BY <1>1, FS_Subset DEF AreChoices
<1>4. ASSUME NEW c \in C
      PROVE  /\ IsFiniteSet(Parts(by[c])) /\ 1 \in Parts(by[c])
             /\ by[c].act # "split" => Parts(by[c]) = {1}
             /\ \A n \in Parts(by[c]) : n \in Nat \ {0} /\ by[c].keys[n] \in Nat
  <2>1. by[c].keys \in Seq(Nat) /\ by[c].keys # <<>>
    BY DEF AreChoices, IsChoice, KeysGiven
  <2> DEFINE k == by[c].keys
  <2>2. /\ Len(k) \in Nat /\ DOMAIN k = 1..Len(k) /\ DOMAIN k \in SUBSET Nat
        /\ IsFiniteSet(DOMAIN k) /\ \A i \in DOMAIN k : k[i] \in Nat
    BY <2>1, PlacesParts
  <2>3. Len(k) # 0
    BY <2>1
  <2> HIDE DEF k
  <2>4. 1 \in DOMAIN k /\ IsFiniteSet({1})
    <3>1. 1 \in DOMAIN k
      BY <2>2, <2>3
    <3>2. IsFiniteSet({1})
      BY FS_Singleton
    <3> QED  BY <3>1, <3>2
  <2>5. Parts(by[c]) = IF by[c].act = "split" THEN DOMAIN k ELSE {1}
    BY DEF Parts, k
  <2>6. \A n \in DOMAIN k : n \in Nat \ {0}
    BY <2>2
  <2>7. \A n \in Parts(by[c]) : n \in DOMAIN k
    BY <2>4, <2>5
  <2> QED  BY <2>2, <2>4, <2>5, <2>6, <2>7 DEF k
<1>5. ASSUME NEW c \in C, NEW n \in Parts(by[c])
      PROVE  /\ IsEntry(EntryOf(by, c, n)) /\ DOMAIN EntryOf(by, c, n) = EntryFields
             /\ EntryOf(by, c, n).id = c
             /\ EntryOf(by, c, n).part = IF by[c].act = "split" THEN n ELSE 0
             /\ by[c].act # "split" =>
                  EntryOf(by, c, n).holds = {y \in DOMAIN by : by[y].act = "merge" /\ TargetOf(by, y) = c}
  <2> DEFINE x == EntryOf(by, c, n)
  <2>1. /\ DOMAIN x = EntryFields /\ x.id = c /\ x.part = IF by[c].act = "split" THEN n ELSE 0
        /\ x.unit = by[c].unit /\ x.key = by[c].keys[n]
        /\ by[c].act # "split" => x.holds = {y \in DOMAIN by : by[y].act = "merge" /\ TargetOf(by, y) = c}
    BY DEF EntryOf, EntryFields
  <2> HIDE DEF x
  <2>2. IsChoice(c, by[c])
    BY DEF AreChoices
  <2>3. x.part \in Nat /\ x.key \in Nat /\ x.unit \in UnitNames
    BY <1>4, <2>1, <2>2 DEF IsChoice
  <2>4. \/ x.id[2] \in Nat /\ x.id = <<"S", x.id[2]>>
        \/ x.id[3] \in Nat /\ x.id = <<"N", x.unit, x.id[3]>>
    BY <2>1, <2>2 DEF IsChoice
  <2>5. IsEntry(x)
    BY <2>1, <2>3, <2>4, Zenon DEF IsEntry
  <2> QED  BY <2>1, <2>5 DEF x
<1>6. ASSUME NEW c \in C PROVE IsFiniteSet(made[c])
  <2> DEFINE f == [n \in Parts(by[c]) |-> EntryOf(by, c, n)]
  <2>1. made[c] = {f[n] : n \in Parts(by[c])}
    BY <1>2
  <2> HIDE DEF f, made
  <2> QED  BY <1>4, <2>1, ImageIsFinite
<1> HIDE DEF C, made, kept
<1>7. IsFiniteSet({made[c] : c \in C})
  BY <1>3, ImageIsFinite
<1>8. IsFiniteSet(kept)
  BY <1>1, <1>6, <1>7, FS_UNION
<1>9. \A x \in kept : \E c \in C : \E n \in Parts(by[c]) : x = EntryOf(by, c, n)
  BY <1>1, <1>2
<1>10. ASSUME NEW x \in kept, NEW y \in kept, Name(x) = Name(y) PROVE x = y
  <2>1. PICK c \in C : \E n \in Parts(by[c]) : x = EntryOf(by, c, n)
    BY <1>9
  <2>2. PICK n \in Parts(by[c]) : x = EntryOf(by, c, n)
    BY <2>1
  <2>3. PICK d \in C : \E m \in Parts(by[d]) : y = EntryOf(by, d, m)
    BY <1>9
  <2>4. PICK m \in Parts(by[d]) : y = EntryOf(by, d, m)
    BY <2>3
  <2>5. x.id = y.id /\ x.part = y.part
    BY <1>10 DEF Name
  <2>6. c = d
    BY <1>5, <2>2, <2>4, <2>5
  <2>7. n = m
    <3>1. CASE by[c].act = "split"
      BY <1>5, <2>2, <2>4, <2>5, <2>6, <3>1
    <3>2. CASE by[c].act # "split"
      BY <1>4, <2>6, <3>2
    <3> QED  BY <3>1, <3>2
  <2> QED  BY <2>2, <2>4, <2>6, <2>7
<1>11. \A x \in kept : IsEntry(x) /\ DOMAIN x = EntryFields
  BY <1>5, <1>9
<1>12. ASSUME NEW c \in DOMAIN by, by[c].act \in {"keep", "split"}, Stands(run, by, c)
       PROVE  \E x \in kept : x.id = c
  <2>1. c \in C
    BY <1>12 DEF C
  <2>2. EntryOf(by, c, 1) \in kept
    BY <1>1, <1>2, <1>4, <2>1
  <2> QED  BY <1>4, <1>5, <2>1, <2>2
<1>13. ASSUME NEW x \in kept, x.part = 0
       PROVE  x.holds = {y \in DOMAIN by : by[y].act = "merge" /\ TargetOf(by, y) = x.id}
  <2>1. PICK c \in C : \E n \in Parts(by[c]) : x = EntryOf(by, c, n)
    BY <1>9
  <2>2. PICK n \in Parts(by[c]) : x = EntryOf(by, c, n)
    BY <2>1
  <2>3. by[c].act # "split"
    BY <1>4, <1>5, <1>13, <2>2
  <2> QED  BY <1>5, <2>2, <2>3
<1>14. AreBare(kept)
  BY <1>8, <1>10, <1>11 DEF AreEntries, AreBare
<1> QED  BY <1>12, <1>13, <1>14 DEF kept

-----------------------------------------------------------------------------
(* References.                                                             *)

\* A reference to nothing in the store is cut, and no entry with it.
LEMMA CutParts ==
    ASSUME NEW run, NEW E, AreBare(E)
    PROVE  /\ AreBare(CutUnknown(run, E))
           /\ \A x \in E : \E y \in CutUnknown(run, E) : Stays(x, y)
<1> DEFINE unknown(x) == {r \in x.refs : r[1] = "F" /\ r \notin run.store}
           all(x) == x.kind = "note" /\ x.refs # {} /\ x.refs = unknown(x)
           f == [x \in E |-> IF all(x) THEN x ELSE [x EXCEPT !.refs = @ \ unknown(x)]]
<1>1. CutUnknown(run, E) = {f[x] : x \in E}
  BY DEF CutUnknown
<1>2. ASSUME NEW x \in E PROVE Stays(x, f[x]) /\ DOMAIN f[x] = DOMAIN x
  <2>1. f[x] = x \/ f[x] = [x EXCEPT !.refs = x.refs \ unknown(x)]
    BY Zenon
  <2>2. DOMAIN x = EntryFields
    BY DEF AreBare
  <2> HIDE DEF f, unknown
  <2> QED  BY <2>1, <2>2 DEF Stays
<1> HIDE DEF f
<1>3. \A x \in E : IsEntry(f[x]) /\ Name(f[x]) = Name(x)
  <2> SUFFICES ASSUME NEW x \in E PROVE IsEntry(f[x]) /\ Name(f[x]) = Name(x)
    OBVIOUS
  <2>1. IsEntry(x)
    BY DEF AreEntries, AreBare
  <2>2. EntryFields \subseteq DOMAIN f[x]
    BY <1>2, <2>1 DEF IsEntry
  <2> QED  BY <1>2, <2>1, <2>2, StaysParts
<1>4. AreEntries({f[x] : x \in E})
  BY <1>3, EntriesStay DEF AreBare
<1>5. \A x \in E : DOMAIN f[x] = EntryFields
  BY <1>2 DEF AreBare
<1> QED  BY <1>1, <1>2, <1>4, <1>5 DEF AreBare

\* Each of these is still live, but for where it points, or held with all that
\* was merged into it.
Accounted(x, live, held) ==
    \/ \E y \in live : Stays(x, y)
    \/ \E h \in held : h.id = x.id /\ h.with = x.holds
Follow(acc, E) ==
    AreBare(acc.live) /\ \A x \in E : Accounted(x, acc.live, acc.held)

LEMMA RoundFollows ==
    ASSUME NEW run, NEW acc, NEW E, Follow(acc, E)
    PROVE  Follow(ResolveRound(run, acc), E)
<1> DEFINE have == Ids(acc.live)
           waits(x) == Handles(x) \ have # {}
           unknown(x) == \E r \in x.refs : r[1] = "F" /\ r \notin run.store
           back == {x \in acc.live : waits(x) \/ unknown(x)}
           gone == Ids(back)
           rest == acc.live \ back
           f == [x \in rest |-> [x EXCEPT !.link = IF @ \in gone THEN NoId ELSE @]]
           h(x) == HeldEntry(x, IF waits(x) THEN "waits" ELSE "unknown_ref")
           new == ResolveRound(run, acc)
<1>1. new.live = {f[x] : x \in rest} /\ new.held = acc.held \cup {h(x) : x \in back}
  BY DEF ResolveRound, Unlinked
<1>2. \A x \in rest : Stays(x, f[x]) /\ DOMAIN f[x] = EntryFields
  <2> SUFFICES ASSUME NEW x \in rest PROVE Stays(x, f[x]) /\ DOMAIN f[x] = EntryFields
    OBVIOUS
  <2>1. DOMAIN x = EntryFields
    BY DEF Follow, AreBare
  <2>2. f[x] = [x EXCEPT !.link = IF x.link \in gone THEN NoId ELSE x.link]
    OBVIOUS
  <2> HIDE DEF f, gone, rest
  <2> QED  BY <2>1, <2>2 DEF Stays
<1>3. back \subseteq acc.live /\ rest = acc.live \ back
  OBVIOUS
<1>4. \A x \in back : h(x) \in new.held /\ h(x).id = x.id /\ h(x).with = x.holds
  BY <1>1 DEF HeldEntry
<1> HIDE DEF back, f, h, rest, new
<1>5. AreEntries(rest)
  BY <1>3, FewerEntries DEF Follow, AreBare
<1>6. \A x \in rest : IsEntry(f[x]) /\ Name(f[x]) = Name(x)
  <2> SUFFICES ASSUME NEW x \in rest PROVE IsEntry(f[x]) /\ Name(f[x]) = Name(x)
    OBVIOUS
  <2>1. IsEntry(x)
    BY <1>5 DEF AreEntries
  <2>2. EntryFields \subseteq DOMAIN f[x]
    BY <1>2, <2>1 DEF IsEntry
  <2> QED  BY <1>2, <2>1, <2>2, StaysParts
<1>7. AreEntries({f[x] : x \in rest})
  BY <1>5, <1>6, EntriesStay
<1>8. AreBare(new.live)
  BY <1>1, <1>2, <1>7 DEF AreBare
<1>9. ASSUME NEW x \in E PROVE Accounted(x, new.live, new.held)
  <2>1. CASE \E g \in acc.held : g.id = x.id /\ g.with = x.holds
    BY <1>1, <2>1 DEF Accounted
  <2>2. CASE \E y \in acc.live : Stays(x, y)
    <3>1. PICK y \in acc.live : Stays(x, y)
      BY <2>2
    <3>2. CASE y \in back
      <4>1. y.id = x.id /\ y.holds = x.holds
        BY <3>1, StaysParts
      <4> QED  BY <1>4, <3>2, <4>1 DEF Accounted
    <3>3. CASE y \in rest
      <4>1. f[y] \in new.live /\ Stays(x, f[y])
        BY <1>1, <1>2, <3>1, <3>3, StaysOn
      <4> QED  BY <4>1 DEF Accounted
    <3> QED  BY <1>3, <3>2, <3>3
  <2> QED  BY <2>1, <2>2 DEF Accounted, Follow
<1> QED  BY <1>8, <1>9 DEF Follow, new

Rounds(f, run, kept, m) ==
    f = [n \in 0..m |-> IF n = 0 THEN [live |-> CutUnknown(run, kept), held |-> {}]
                        ELSE ResolveRound(run, f[n - 1])]

LEMMA RoundsExist ==
    ASSUME NEW run, NEW kept, NEW k \in Nat
    PROVE  \E f : Rounds(f, run, kept, k)
<1> DEFINE first == [live |-> CutUnknown(run, kept), held |-> {}]
           runs(f, m) == f = [n \in 0..m |-> IF n = 0 THEN first ELSE ResolveRound(run, f[n - 1])]
           S == {m \in Nat : \E f : runs(f, m)}
<1>0. \A f, m : runs(f, m) <=> Rounds(f, run, kept, m)
  BY Zenon DEF Rounds
<1> HIDE DEF first
<1>1. 0 \in S
  <2>1. runs([n \in 0..0 |-> first], 0)
    OBVIOUS
  <2> QED  BY <2>1
<1>2. ASSUME NEW m \in S PROVE m + 1 \in S
  <2>1. PICK f : runs(f, m)
    BY <1>2
  <2> DEFINE g == [n \in 0..(m + 1) |-> IF n = m + 1 THEN ResolveRound(run, f[m]) ELSE f[n]]
  <2>2. m \in Nat /\ (m + 1) - 1 = m /\ m + 1 # 0
    BY <1>2
  <2>3. DOMAIN f = 0..m /\ \A n \in 0..m : f[n] = IF n = 0 THEN first ELSE ResolveRound(run, f[n - 1])
    BY <2>1
  <2>4. /\ g = [n \in 0..(m + 1) |-> g[n]] /\ g[m + 1] = ResolveRound(run, f[m])
        /\ \A n \in 0..m : g[n] = f[n]
    BY <2>2
  <2> HIDE DEF g
  <2>5. ASSUME NEW n \in 0..(m + 1) PROVE g[n] = IF n = 0 THEN first ELSE ResolveRound(run, g[n - 1])
    <3>1. CASE n = m + 1
      <4>1. n - 1 = m /\ m \in 0..m
        BY <2>2, <3>1
      <4>2. g[n - 1] = f[m]
        BY <2>4, <4>1
      <4> QED  BY <2>2, <2>4, <3>1, <4>2
    <3>2. CASE n # m + 1
      <4>1. n \in 0..m /\ (n # 0 => n - 1 \in 0..m)
        BY <2>2, <3>2
      <4>2. (n # 0 => g[n - 1] = f[n - 1]) /\ g[n] = f[n]
        BY <2>4, <4>1
      <4> QED  BY <2>3, <4>1, <4>2
    <3> QED  BY <3>1, <3>2
  <2>6. runs(g, m + 1)
    BY <2>4, <2>5
  <2> QED  BY <2>2, <2>6
<1>3. S = Nat
  <2> HIDE DEF S
  <2>1. S \in SUBSET Nat
    BY DEF S
  <2> QED  BY <1>1, <1>2, <2>1, NatInductionSet
<1>4. \E f : runs(f, k)
  BY <1>3
<1> QED  BY <1>0, <1>4

\* After the last round every entry that was kept is accounted for.
LEMMA RoundsFollow ==
    ASSUME NEW run, NEW kept, AreBare(kept), NEW k \in Nat, NEW f, Rounds(f, run, kept, k)
    PROVE  Follow(f[k], kept)
<1>1. \A n \in 0..k : f[n] = IF n = 0 THEN [live |-> CutUnknown(run, kept), held |-> {}]
                             ELSE ResolveRound(run, f[n - 1])
  BY DEF Rounds
<1> DEFINE S == {n \in Nat : Follow(f[n], kept)}
<1>2. 0 \in S
  <2>1. f[0].live = CutUnknown(run, kept)
    BY <1>1
  <2> QED  BY <2>1, CutParts DEF Follow, Accounted
<1>3. \A n \in 1..k : n - 1 \in S => n \in S
  <2> SUFFICES ASSUME NEW n \in 1..k, n - 1 \in S PROVE n \in S
    OBVIOUS
  <2>1. f[n] = ResolveRound(run, f[n - 1]) /\ n \in Nat
    BY <1>1
  <2> QED  BY <2>1, RoundFollows
<1>4. 0..k \subseteq S
  <2> HIDE DEF S
  <2>1. S \in SUBSET Nat
    BY DEF S
  <2> QED  BY <1>2, <1>3, <2>1, UpTo
<1>5. k \in 0..k
  OBVIOUS
<1> QED  BY <1>4, <1>5

\* An id that is had names the last part of what has it.
LEMMA PartIsThere ==
    ASSUME NEW E, AreEntries(E), NEW r \in Ids(E)
    PROVE  \E y \in E : Name(y) = <<r, Part(E, r)>>
<1> DEFINE parts == {x \in E : x.id = r}
           keyOf == [x \in parts |-> x.key]
           last == CHOOSE x \in parts : \A y \in parts : y.key <= x.key
<1>1. parts # {} /\ parts \subseteq E /\ \A x \in parts : x.id = r /\ keyOf[x] = x.key /\ x.key \in Nat
  BY DEF Ids, AreEntries, IsEntry
<1>2. Part(E, r) = last.part
  BY DEF Part
<1>3. \E x \in parts : \A y \in parts : y.key <= x.key
  <2> HIDE DEF parts, keyOf
  <2>1. IsFiniteSet(parts)
    BY <1>1, FS_Subset DEF AreEntries
  <2>2. {keyOf[x] : x \in parts} \in SUBSET Nat /\ {keyOf[x] : x \in parts} # {}
    BY <1>1
  <2>3. IsFiniteSet({keyOf[x] : x \in parts})
    BY <2>1, ImageIsFinite
  <2>4. \E m \in {keyOf[x] : x \in parts} : \A n \in {keyOf[x] : x \in parts} : n <= m
    BY <2>2, <2>3, GreatestIs
  <2> QED  BY <1>1, <2>4
<1>4. last \in parts
  BY <1>3
<1> HIDE DEF last, parts
<1> QED  BY <1>1, <1>2, <1>4 DEF Name

LinkFields == {"refTo", "linkTo", "homeTo"}
AreLinked(E) ==
    /\ AreEntries(E) /\ \A x \in E : DOMAIN x = EntryFields \cup LinkFields
    /\ \A x \in E : PointsTo(x) \subseteq {Name(y) : y \in E}

\* What points into the assembly points at an entry of it.
LEMMA ResolvedParts ==
    ASSUME NEW run, NEW E, AreBare(E)
    PROVE  /\ AreLinked(Resolved(run, E))
           /\ \A x \in E : \E y \in Resolved(run, E) : Stays(x, y)
           /\ \A y \in Resolved(run, E) : \E x \in E : Stays(x, y)
<1> DEFINE have == Ids(E)
           home(x) == IF x.home \in have \cup run.store THEN x.home ELSE NoId
           names(S) == {<<r, Part(E, r)>> : r \in S \cap have}
           placed(x) == [x EXCEPT !.home = home(x)]
           f == [x \in E |-> With(placed(x), [refTo |-> names(x.refs), linkTo |-> names({x.link}),
                                              homeTo |-> names({home(x)})])]
           F == Resolved(run, E)
<1>1. F = {f[x] : x \in E}
  BY DEF Resolved
<1>2. ASSUME NEW x \in E
      PROVE  /\ Stays(x, f[x]) /\ DOMAIN f[x] = EntryFields \cup LinkFields
             /\ PointsTo(f[x]) = names(x.refs) \cup names({x.link}) \cup names({home(x)})
  <2> DEFINE p == placed(x)
             a == names(x.refs)
             b == names({x.link})
             c == names({home(x)})
             y == With(p, [refTo |-> a, linkTo |-> b, homeTo |-> c])
  <2>1. DOMAIN x = EntryFields
    BY DEF AreBare
  <2>2. DOMAIN p = EntryFields /\ \A k \in EntryFields \ {"refs", "home", "link"} : p[k] = x[k]
    BY <2>1
  <2>3. f[x] = y
    OBVIOUS
  <2> HIDE DEF p, a, b, c, f
  <2>4. /\ DOMAIN y = DOMAIN p \cup LinkFields
        /\ \A k \in EntryFields : y[k] = p[k]
        /\ y.refTo = a /\ y.linkTo = b /\ y.homeTo = c
    BY <2>1, <2>2 DEF With, LinkFields, EntryFields
  <2> HIDE DEF y
  <2>5. Stays(x, y)
    BY <2>2, <2>4 DEF Stays
  <2>6. PointsTo(y) = a \cup b \cup c
    BY <2>4, Zenon DEF PointsTo
  <2> QED  BY <2>1, <2>2, <2>3, <2>4, <2>5, <2>6 DEF a, b, c
<1>3. \A S : \A t \in names(S) : \E y \in E : Name(y) = t
  BY PartIsThere DEF AreBare
<1> HIDE DEF f, names, home, F
<1>4. \A x \in E : IsEntry(f[x]) /\ Name(f[x]) = Name(x)
  <2> SUFFICES ASSUME NEW x \in E PROVE IsEntry(f[x]) /\ Name(f[x]) = Name(x)
    OBVIOUS
  <2>1. IsEntry(x)
    BY DEF AreEntries, AreBare
  <2> DEFINE y == f[x]
  <2>2. Stays(x, y) /\ EntryFields \subseteq DOMAIN y
    BY <1>2
  <2> HIDE DEF y
  <2>3. IsEntry(y) /\ Name(y) = Name(x)
    BY <2>1, <2>2, StaysParts
  <2> QED  BY <2>3 DEF y
<1>5. AreEntries(F)
  BY <1>1, <1>4, EntriesStay DEF AreBare
<1>6. \A x \in F : DOMAIN x = EntryFields \cup LinkFields /\ PointsTo(x) \subseteq {Name(y) : y \in F}
  <2> SUFFICES ASSUME NEW x \in E
               PROVE  DOMAIN f[x] = EntryFields \cup LinkFields /\ PointsTo(f[x]) \subseteq {Name(y) : y \in F}
    BY <1>1
  <2>1. \A t \in PointsTo(f[x]) : \E y \in E : Name(y) = t
    BY <1>2, <1>3
  <2>2. \A y \in E : Name(y) \in {Name(z) : z \in F}
    BY <1>1, <1>4
  <2> QED  BY <1>2, <2>1, <2>2
<1> QED  BY <1>1, <1>2, <1>5, <1>6 DEF AreLinked, F

-----------------------------------------------------------------------------
(* One address, written twice.                                             *)

\* Entries are told apart by their ids.
LEMMA IdsInOrder ==
    ASSUME NEW x, NEW y, NEW z, IsEntry(x), IsEntry(y), IsEntry(z)
    PROVE  /\ ~ IdBefore(x.id, x.id)
           /\ x.id # y.id => IdBefore(x.id, y.id) \/ IdBefore(y.id, x.id)
           /\ IdBefore(x.id, y.id) /\ IdBefore(y.id, z.id) => IdBefore(x.id, z.id)
<1> DEFINE n(w) == w.id[Len(w.id)]
<1>1. ASSUME NEW w, IsEntry(w)
      PROVE  /\ n(w) \in Nat /\ w.unit \in UnitNames
             /\ \/ w.id[1] = "S" /\ w.id[2] = n(w) /\ w.id = <<"S", n(w)>>
                \/ w.id[1] = "N" /\ w.id[2] = w.unit /\ w.id[3] = n(w) /\ w.id = <<"N", w.unit, n(w)>>
  <2>0. w.unit \in UnitNames
    BY <1>1, Zenon DEF IsEntry
  <2>1. CASE w.id[2] \in Nat /\ w.id = <<"S", w.id[2]>>
    <3> DEFINE m == w.id[2]
    <3>1. m \in Nat /\ w.id = <<"S", m>>
      BY <2>1
    <3> HIDE DEF m
    <3>2. Len(w.id) = 2 /\ w.id[1] = "S" /\ w.id[2] = m
      BY <3>1
    <3> QED  BY <2>0, <3>1, <3>2
  <2>2. CASE w.id[3] \in Nat /\ w.id = <<"N", w.unit, w.id[3]>>
    <3> DEFINE m == w.id[3]
    <3>1. m \in Nat /\ w.id = <<"N", w.unit, m>>
      BY <2>2
    <3> HIDE DEF m
    <3>2. Len(w.id) = 3 /\ w.id[1] = "N" /\ w.id[2] = w.unit /\ w.id[3] = m
      BY <3>1
    <3> QED  BY <2>0, <3>1, <3>2
  <2> QED  BY <1>1, <2>1, <2>2, Zenon DEF IsEntry
<1> DEFINE ahead(a, b) == \/ a.id[1] = "N" /\ b.id[1] = "S"
                          \/ a.id[1] = "S" /\ b.id[1] = "S" /\ n(a) < n(b)
                          \/ a.id[1] = "N" /\ b.id[1] = "N" /\ Before(a.unit, b.unit)
                          \/ a.id[1] = "N" /\ b.id[1] = "N" /\ a.unit = b.unit /\ n(a) < n(b)
<1>2. ASSUME NEW a, NEW b, IsEntry(a), IsEntry(b) PROVE IdBefore(a.id, b.id) <=> ahead(a, b)
  <2>1. /\ \/ a.id[1] = "S" /\ a.id[2] = n(a)
           \/ a.id[1] = "N" /\ a.id[2] = a.unit /\ a.id[3] = n(a)
        /\ \/ b.id[1] = "S" /\ b.id[2] = n(b)
           \/ b.id[1] = "N" /\ b.id[2] = b.unit /\ b.id[3] = n(b)
    BY <1>1, <1>2
  <2>2. "S" # "N"
    OBVIOUS
  <2> HIDE DEF n
  <2> QED  BY <2>1, <2>2 DEF IdBefore
<1>3. /\ ~ Before(x.unit, x.unit)
      /\ x.unit # y.unit => Before(x.unit, y.unit) \/ Before(y.unit, x.unit)
      /\ Before(x.unit, y.unit) /\ Before(y.unit, z.unit) => Before(x.unit, z.unit)
  BY <1>1, BeforeIsAnOrder
<1>4. /\ n(x) \in Nat /\ n(y) \in Nat /\ n(z) \in Nat
      /\ x.id[1] \in {"S", "N"} /\ y.id[1] \in {"S", "N"} /\ z.id[1] \in {"S", "N"}
  BY <1>1
<1>5. x.id # y.id => \/ x.id[1] # y.id[1] \/ n(x) # n(y)
                     \/ x.id[1] = "N" /\ y.id[1] = "N" /\ x.unit # y.unit
  BY <1>1
<1> HIDE DEF n
<1>6. ~ ahead(x, x)
  BY <1>3, <1>4
<1>7. x.id # y.id => ahead(x, y) \/ ahead(y, x)
  BY <1>3, <1>4, <1>5
<1>8. ahead(x, y) /\ ahead(y, z) => ahead(x, z)
  BY <1>3, <1>4
<1> HIDE DEF ahead
<1> QED  BY <1>2, <1>6, <1>7, <1>8

\* Entries and parts of them are told apart by their names.
LEMMA NamesInOrder ==
    ASSUME NEW x, NEW y, NEW z, IsEntry(x), IsEntry(y), IsEntry(z)
    PROVE  /\ ~ NameBefore(x, x)
           /\ Name(x) # Name(y) => NameBefore(x, y) \/ NameBefore(y, x)
           /\ NameBefore(x, y) /\ NameBefore(y, z) => NameBefore(x, z)
<1>1. x.part \in Nat /\ y.part \in Nat /\ z.part \in Nat
  BY Zenon DEF IsEntry
<1>2. Name(x) # Name(y) => x.id # y.id \/ x.part # y.part
  BY DEF Name
<1>3. /\ ~ IdBefore(x.id, x.id)
      /\ x.id # y.id => IdBefore(x.id, y.id) \/ IdBefore(y.id, x.id)
      /\ IdBefore(x.id, y.id) /\ IdBefore(y.id, z.id) => IdBefore(x.id, z.id)
  BY IdsInOrder
<1> QED  BY <1>1, <1>2, <1>3 DEF NameBefore

\* Of two entries at one address one comes before the other.
LEMMA KeptBeforeIsAnOrder ==
    ASSUME NEW x, NEW y, NEW z, IsEntry(x), IsEntry(y), IsEntry(z)
    PROVE  /\ ~ KeptBefore(x, x)
           /\ Name(x) # Name(y) => KeptBefore(x, y) \/ KeptBefore(y, x)
           /\ KeptBefore(x, y) /\ KeptBefore(y, z) => KeptBefore(x, z)
<1>1. \A w : SourceRank(w) \in Nat /\ Phase(w) \in Nat
  BY DEF SourceRank, Phase, PhaseOf
<1>2. \A v, w : v.unit = w.unit => Phase(v) = Phase(w)
  BY DEF Phase
<1>3. /\ ~ NameBefore(x, x)
      /\ Name(x) # Name(y) => NameBefore(x, y) \/ NameBefore(y, x)
      /\ NameBefore(x, y) /\ NameBefore(y, z) => NameBefore(x, z)
  BY NamesInOrder
<1>4. /\ ~ Before(x.unit, x.unit)
      /\ x.unit # y.unit => Before(x.unit, y.unit) \/ Before(y.unit, x.unit)
      /\ Before(x.unit, y.unit) /\ Before(y.unit, z.unit) => Before(x.unit, z.unit)
  <2>1. x.unit \in UnitNames /\ y.unit \in UnitNames /\ z.unit \in UnitNames
    BY Zenon DEF IsEntry
  <2> QED  BY <2>1, BeforeIsAnOrder
<1>5. ~ KeptBefore(x, x)
  BY <1>1, <1>3, <1>4 DEF KeptBefore
<1>6. Name(x) # Name(y) => KeptBefore(x, y) \/ KeptBefore(y, x)
  BY <1>1, <1>2, <1>3, <1>4 DEF KeptBefore
<1>7. KeptBefore(x, y) /\ KeptBefore(y, z) => KeptBefore(x, z)
  BY <1>1, <1>2, <1>3, <1>4 DEF KeptBefore
<1> QED  BY <1>5, <1>6, <1>7

Twins(E, x) == {y \in E : Address(y) = Address(x)}
Keeper(E, x) == CHOOSE y \in Twins(E, x) : \A z \in Twins(E, x) \ {y} : KeptBefore(y, z)

\* One of the entries at an address is kept.
LEMMA KeeperIsTwin ==
    ASSUME NEW E, AreEntries(E), NEW x \in E
    PROVE  Keeper(E, x) \in Twins(E, x)
<1> DEFINE S == Twins(E, x)
           R == {p \in S \X S : KeptBefore(p[2], p[1])}
<1>1. S \subseteq E /\ S # {} /\ \A y \in S : IsEntry(y)
  BY DEF Twins, AreEntries
<1>2. \A y, z \in S : y # z => Name(y) # Name(z)
  BY <1>1 DEF AreEntries
<1>3. \A y, z \in S : <<y, z>> \in R <=> KeptBefore(z, y)
  OBVIOUS
<1> HIDE DEF S, R
<1>4. IsFiniteSet(S)
  BY <1>1, FS_Subset DEF AreEntries
<1>5. \A y, z, w \in S : /\ ~ KeptBefore(y, y)
                         /\ Name(y) # Name(z) => KeptBefore(y, z) \/ KeptBefore(z, y)
                         /\ KeptBefore(y, z) /\ KeptBefore(z, w) => KeptBefore(y, w)
  BY <1>1, KeptBeforeIsAnOrder
<1>6. /\ \A y \in S : <<y, y>> \notin R
      /\ \A y, z \in S : y # z => <<y, z>> \in R \/ <<z, y>> \in R
      /\ \A y, z, w \in S : <<y, z>> \in R /\ <<z, w>> \in R => <<y, w>> \in R
  BY <1>2, <1>3, <1>5
<1>7. PICK y \in S : \A z \in S \ {y} : <<z, y>> \in R
  BY <1>1, <1>4, <1>6, LastInOrder
<1>8. \A z \in S \ {y} : KeptBefore(y, z)
  BY <1>3, <1>7
<1> QED  BY <1>8 DEF Keeper, S

\* The entry kept of those at an address has taken in all the others, and points
\* where it pointed.
CrossFields == {"twins", "drift", "accounts"}
AllFields == EntryFields \cup LinkFields \cup CrossFields
TakesIn(x, y) == /\ Name(y) = Name(x) \/ Name(y) \in x.twins
                 /\ {y.id} \cup y.holds \subseteq {x.id} \cup x.holds
Covers(G, E) ==
    /\ \A x \in G : DOMAIN x = AllFields /\ \E y \in E : PointsTo(x) = PointsTo(y) /\ Address(x) = Address(y)
    /\ \A y \in E : \E x \in G : TakesIn(x, y)

\* What is kept of the entries at x's address.
KeptOf(E, x, g) ==
    /\ DOMAIN g = AllFields /\ Name(g) = Name(x) /\ PointsTo(g) = PointsTo(x) /\ Address(g) = Address(x)
    /\ g.id = x.id /\ g.holds = (UNION {y.holds \cup {y.id} : y \in Twins(E, x)}) \ {x.id}
    /\ g.twins = {Name(y) : y \in Twins(E, x) \ {x}}

LEMMA CrossUnitParts ==
    ASSUME NEW E, AreLinked(E)
    PROVE  /\ \A y \in E : /\ Keeper(E, y) \in E /\ Address(Keeper(E, y)) = Address(y)
                          /\ \E g \in CrossUnit(E) : KeptOf(E, Keeper(E, y), g)
           /\ \A g \in CrossUnit(E) : \E y \in E : KeptOf(E, Keeper(E, y), g)
<1> DEFINE differ(x) == {y \in Twins(E, x) : y.val # x.val}
           holds(x) == (UNION {y.holds \cup {y.id} : y \in Twins(E, x)}) \ {x.id}
           lost(x) == {Name(y) : y \in Twins(E, x) \ {x}}
           drift(x) == \E y \in differ(x) : y.src = x.src
           heard(x) == {y.val : y \in {z \in differ(x) : z.src # x.src}}
           f(x) == With([x EXCEPT !.holds = holds(x)],
                        [twins |-> lost(x), drift |-> drift(x), accounts |-> heard(x)])
           G == CrossUnit(E)
<1>1. G = {f(x) : x \in {Keeper(E, y) : y \in E}}
  BY Zenon DEF CrossUnit, Twins, Keeper
<1>2. \A y \in E : Keeper(E, y) \in E /\ Address(Keeper(E, y)) = Address(y)
  BY KeeperIsTwin DEF Twins, AreLinked
<1>3. ASSUME NEW x \in E
      PROVE  KeptOf(E, x, f(x))
  <2> DEFINE h == holds(x)
             a == lost(x)
             b == drift(x)
             c == heard(x)
             p == [x EXCEPT !.holds = h]
             y == With(p, [twins |-> a, drift |-> b, accounts |-> c])
  <2>1. DOMAIN x = EntryFields \cup LinkFields
    BY DEF AreLinked
  <2>2. f(x) = y
    OBVIOUS
  <2> HIDE DEF h, a, b, c, f
  <2>3. /\ DOMAIN p = EntryFields \cup LinkFields /\ p.holds = h
        /\ \A k \in (EntryFields \cup LinkFields) \ {"holds"} : p[k] = x[k]
    BY <2>1 DEF EntryFields
  <2> HIDE DEF p
  <2>4. /\ DOMAIN y = AllFields /\ y.twins = a
        /\ \A k \in EntryFields \cup LinkFields : y[k] = p[k]
    BY <2>3 DEF With, AllFields, CrossFields, EntryFields, LinkFields
  <2> HIDE DEF y
  <2>5. /\ y.id = x.id /\ y.part = x.part /\ y.holds = h /\ y.kind = x.kind /\ y.key = x.key
        /\ y.refTo = x.refTo /\ y.linkTo = x.linkTo /\ y.homeTo = x.homeTo
    BY <2>3, <2>4 DEF EntryFields, LinkFields
  <2>6. Name(y) = Name(x) /\ PointsTo(y) = PointsTo(x) /\ Address(y) = Address(x)
    BY <2>5, Zenon DEF Name, PointsTo, Address
  <2> QED  BY <2>2, <2>4, <2>5, <2>6 DEF KeptOf, h, a
<1> HIDE DEF f
<1> QED  BY <1>1, <1>2, <1>3 DEF G

LEMMA CrossUnitCovers ==
    ASSUME NEW E, AreLinked(E)
    PROVE  Covers(CrossUnit(E), E)
<1>1. ASSUME NEW g \in CrossUnit(E)
      PROVE  DOMAIN g = AllFields /\ \E y \in E : PointsTo(g) = PointsTo(y) /\ Address(g) = Address(y)
  <2>1. PICK y \in E : KeptOf(E, Keeper(E, y), g)
    BY CrossUnitParts
  <2> QED  BY <2>1, CrossUnitParts DEF KeptOf
<1>2. ASSUME NEW y \in E
      PROVE  \E g \in CrossUnit(E) : TakesIn(g, y)
  <2> DEFINE x == Keeper(E, y)
             whole == UNION {z.holds \cup {z.id} : z \in Twins(E, x)}
  <2>1. x \in E /\ y \in Twins(E, x) /\ x \in Twins(E, x)
    BY CrossUnitParts DEF Twins
  <2>2. PICK g \in CrossUnit(E) : KeptOf(E, x, g)
    BY CrossUnitParts
  <2> HIDE DEF x
  <2>3. Name(g) = Name(x) /\ g.id = x.id /\ g.holds = whole \ {x.id}
        /\ g.twins = {Name(z) : z \in Twins(E, x) \ {x}}
    BY <2>2 DEF KeptOf
  <2>4. Name(y) = Name(g) \/ Name(y) \in g.twins
    BY <2>1, <2>3
  <2>5. y.holds \cup {y.id} \subseteq whole
    BY <2>1
  <2> HIDE DEF whole
  <2>6. {y.id} \cup y.holds \subseteq {g.id} \cup g.holds
    BY <2>3, <2>5
  <2> QED  BY <2>4, <2>6, Zenon DEF TakesIn
<1> QED  BY <1>1, <1>2 DEF Covers

\* The review's fixes change what an entry says and nothing of what it took in.
LEMMA SettledCovers ==
    ASSUME NEW E, NEW G, Covers(G, E), NEW draft, NEW votes, NEW applied
    PROVE  Covers(Settled(draft, votes, applied, G), E)
<1> DEFINE fixes(x) == {n \in applied : votes[n].act = "fix" /\ votes[n].on = Address(x)}
           last(x) == votes[Max(fixes(x))].val
           f(x) == IF fixes(x) = {} THEN x ELSE [x EXCEPT !.val = last(x), !.drift = FALSE]
           F == Settled(draft, votes, applied, G)
<1>1. F = {f(x) : x \in G}
  BY Zenon DEF Settled
<1>2. ASSUME NEW x \in G
      PROVE  /\ DOMAIN f(x) = AllFields /\ PointsTo(f(x)) = PointsTo(x) /\ Name(f(x)) = Name(x)
             /\ Address(f(x)) = Address(x)
             /\ f(x).id = x.id /\ f(x).holds = x.holds /\ f(x).twins = x.twins
  <2> DEFINE v == last(x)
             y == f(x)
  <2>1. DOMAIN x = AllFields
    BY DEF Covers
  <2>2. y = x \/ y = [x EXCEPT !.val = v, !.drift = FALSE]
    BY Zenon
  <2> HIDE DEF v, y
  <2>3. DOMAIN y = AllFields /\ \A k \in AllFields \ {"val", "drift"} : y[k] = x[k]
    BY <2>1, <2>2
  <2>4. /\ y.id = x.id /\ y.part = x.part /\ y.holds = x.holds /\ y.twins = x.twins
        /\ y.kind = x.kind /\ y.key = x.key
        /\ y.refTo = x.refTo /\ y.linkTo = x.linkTo /\ y.homeTo = x.homeTo
    BY <2>3 DEF AllFields, EntryFields, LinkFields, CrossFields
  <2>5. Name(y) = Name(x) /\ PointsTo(y) = PointsTo(x) /\ Address(y) = Address(x)
    BY <2>4, Zenon DEF Name, PointsTo, Address
  <2> QED  BY <2>3, <2>4, <2>5 DEF y
<1> HIDE DEF f, F
<1>3. ASSUME NEW g \in F
      PROVE  DOMAIN g = AllFields /\ \E y \in E : PointsTo(g) = PointsTo(y) /\ Address(g) = Address(y)
  <2>1. PICK x \in G : g = f(x)
    BY <1>1
  <2>2. PICK y \in E : PointsTo(x) = PointsTo(y) /\ Address(x) = Address(y)
    BY DEF Covers
  <2> QED  BY <1>2, <2>1, <2>2
<1>4. ASSUME NEW y \in E
      PROVE  \E g \in F : TakesIn(g, y)
  <2>1. PICK x \in G : TakesIn(x, y)
    BY DEF Covers
  <2>2. TakesIn(f(x), y)
    BY <1>2, <2>1, Zenon DEF TakesIn
  <2> QED  BY <1>1, <2>2
<1> QED  BY <1>3, <1>4 DEF Covers, F

-----------------------------------------------------------------------------
(* What waits.                                                             *)

\* Nothing that lands points at what waits, and what waits is named with all it
\* took in.
LEMMA HoldBackParts ==
    ASSUME NEW E, AreLinked(E), NEW F, Covers(F, E), NEW unsound \in SUBSET F
    PROVE  /\ \A x \in HoldBack(F, unsound).kept :
                PointsTo(x) \subseteq {Name(y) : y \in HoldBack(F, unsound).kept} \cup UNION {y.twins : y \in F}
           /\ \A x \in F :
                \/ \E y \in HoldBack(F, unsound).kept : y.id = x.id /\ y.holds = x.holds
                \/ \E h \in HoldBack(F, unsound).held : h.id = x.id /\ h.with = x.holds
           /\ \A x \in HoldBack(F, unsound).kept : \E y \in E : Address(x) = Address(y)
<1> DEFINE names == {Name(x) : x \in unsound}
           cut(x) == [x EXCEPT !.linkTo = IF Name(x) \in names THEN @ ELSE @ \ names]
           severed == {cut(x) : x \in F}
           waiting == Waiting(severed, names)
           back == HoldBack(F, unsound)
<1>1. /\ back.kept = {x \in severed : Name(x) \notin waiting}
      /\ back.held = {HeldEntry(x, "refused") : x \in {y \in severed : Name(y) \in waiting}}
  BY DEF HoldBack
<1>2. ASSUME NEW x \in F
      PROVE  /\ Name(cut(x)) = Name(x) /\ PointsTo(cut(x)) \subseteq PointsTo(x)
             /\ cut(x).id = x.id /\ cut(x).holds = x.holds /\ Address(cut(x)) = Address(x)
  <2> DEFINE l == IF Name(x) \in names THEN x.linkTo ELSE x.linkTo \ names
             y == cut(x)
  <2>1. DOMAIN x = AllFields
    BY DEF Covers
  <2>2. y = [x EXCEPT !.linkTo = l] /\ l \subseteq x.linkTo
    OBVIOUS
  <2> HIDE DEF l, y
  <2>3. y.linkTo = l /\ \A k \in AllFields \ {"linkTo"} : y[k] = x[k]
    BY <2>1, <2>2 DEF AllFields, LinkFields
  <2>4. /\ y.id = x.id /\ y.part = x.part /\ y.holds = x.holds
        /\ y.refTo = x.refTo /\ y.homeTo = x.homeTo /\ y.kind = x.kind /\ y.key = x.key
    BY <2>3 DEF AllFields, EntryFields, LinkFields
  <2>5. Name(y) = Name(x) /\ PointsTo(y) \subseteq PointsTo(x) /\ Address(y) = Address(x)
    BY <2>2, <2>3, <2>4 DEF Name, PointsTo, Address
  <2> QED  BY <2>4, <2>5 DEF y
<1>3. severed = {cut(x) : x \in F}
  OBVIOUS
<1> DEFINE all == {Name(x) : x \in severed}
           closed(W) == \A x \in severed : PointsTo(x) \cap W # {} => Name(x) \in W
<1>4. waiting = {n \in all : \A W \in SUBSET all : names \subseteq W /\ closed(W) => n \in W}
  BY Zenon DEF Waiting
<1> HIDE DEF cut, severed, waiting, back, names
<1>5. ASSUME NEW x \in severed, Name(x) \notin waiting PROVE PointsTo(x) \cap waiting = {}
  <2>1. PICK W \in SUBSET all : names \subseteq W /\ closed(W) /\ Name(x) \notin W
    BY <1>4, <1>5
  <2>2. waiting \subseteq W
    BY <1>4, <2>1
  <2> QED  BY <2>1, <2>2
<1>6. ASSUME NEW x \in back.kept, NEW n \in PointsTo(x)
      PROVE  n \in {Name(y) : y \in back.kept} \cup UNION {y.twins : y \in F}
  <2>1. x \in severed /\ n \notin waiting
    BY <1>1, <1>5
  <2>2. PICK g \in F : x = cut(g)
    BY <1>3, <2>1
  <2>3. n \in PointsTo(g)
    BY <1>2, <2>2
  <2>4. PICK y \in E : n \in PointsTo(y)
    BY <2>3 DEF Covers
  <2>5. PICK z \in E : n = Name(z)
    BY <2>4 DEF AreLinked
  <2>6. PICK w \in F : TakesIn(w, z)
    BY DEF Covers
  <2>7. CASE n \in w.twins
    BY <2>7
  <2>8. CASE n = Name(w)
    <3>1. cut(w) \in severed /\ Name(cut(w)) = n
      BY <1>2, <1>3, <2>8
    <3>2. cut(w) \in back.kept
      BY <1>1, <2>1, <3>1
    <3> QED  BY <3>1, <3>2
  <2> QED  BY <2>5, <2>6, <2>7, <2>8 DEF TakesIn
<1>7. ASSUME NEW x \in F
      PROVE  \/ \E y \in back.kept : y.id = x.id /\ y.holds = x.holds
             \/ \E h \in back.held : h.id = x.id /\ h.with = x.holds
  <2>1. cut(x) \in severed /\ cut(x).id = x.id /\ cut(x).holds = x.holds
    BY <1>2, <1>3
  <2>2. CASE Name(cut(x)) \in waiting
    <3>1. HeldEntry(cut(x), "refused") \in back.held
      BY <1>1, <2>1, <2>2
    <3>2. HeldEntry(cut(x), "refused").id = x.id /\ HeldEntry(cut(x), "refused").with = x.holds
      BY <2>1 DEF HeldEntry
    <3> QED  BY <3>1, <3>2
  <2>3. CASE Name(cut(x)) \notin waiting
    BY <1>1, <2>1, <2>3
  <2> QED  BY <2>2, <2>3
<1>8. ASSUME NEW x \in back.kept PROVE \E y \in E : Address(x) = Address(y)
  <2>1. PICK g \in F : x = cut(g)
    BY <1>1, <1>3
  <2>2. PICK y \in E : Address(g) = Address(y)
    BY DEF Covers
  <2> QED  BY <1>2, <2>1, <2>2
<1> QED  BY <1>6, <1>7, <1>8 DEF back

-----------------------------------------------------------------------------
(* What the decisions come to, and what is written of it.                  *)

Named(c, E) == \E x \in E : c \in {x.id} \cup x.holds
NamedHeld(c, held) == \E h \in held : c \in {h.id} \cup h.with

\* Whatever is decided is kept, taken in, held back, or dropped.
LEMMA BuiltParts ==
    ASSUME NEW run, NEW by, AreChoices(by)
    PROVE  /\ AreLinked(Built(run, by).entries)
           /\ NotDecided(run, by) \cup RefusedNew(run) \subseteq Built(run, by).held
           /\ \A c \in DOMAIN run.kinds \cup DOMAIN by :
                \/ Named(c, Built(run, by).entries)
                \/ NamedHeld(c, Built(run, by).held)
                \/ c \in Built(run, by).dropped
                \/ c \notin DOMAIN run.kinds /\ ~ Stands(run, by, c)
<1> DEFINE kept == KeptEntries(run, by)
           k == Cardinality(kept)
           f == CHOOSE g : Rounds(g, run, kept, k)
           last == f[k]
           b == Built(run, by)
<1>1. AreBare(kept)
  BY KeptParts
<1>2. k \in Nat
  <2>1. IsFiniteSet(kept)
    BY <1>1 DEF AreBare, AreEntries
  <2> HIDE DEF kept
  <2> QED  BY <2>1, FS_CardinalityType
<1>3. Rounds(f, run, kept, k)
  <2> HIDE DEF kept, k
  <2> QED  BY <1>2, RoundsExist
<1>4. /\ b.entries = Resolved(run, f[k].live)
      /\ b.held = NotDecided(run, by) \cup RefusedNew(run) \cup TooLarge(run)
                  \cup Unmerged(by, kept) \cup f[k].held
      /\ b.dropped = {c \in DOMAIN by : by[c].act = "drop" /\ Stands(run, by, c)}
  BY Zenon DEF Built, Rounds
<1> HIDE DEF f
<1>5. Follow(last, kept)
  <2> HIDE DEF kept, k
  <2> QED  BY <1>1, <1>2, <1>3, RoundsFollow
<1> HIDE DEF b, last
<1>6. AreLinked(b.entries) /\ \A x \in last.live : \E y \in b.entries : Stays(x, y)
  BY <1>4, <1>5, ResolvedParts DEF Follow, last
<1>7. ASSUME NEW x \in kept, NEW c \in {x.id} \cup x.holds
      PROVE  Named(c, b.entries) \/ NamedHeld(c, b.held)
  <2>1. CASE \E y \in last.live : Stays(x, y)
    <3>1. PICK y \in last.live : Stays(x, y)
      BY <2>1
    <3>2. PICK z \in b.entries : Stays(y, z)
      BY <1>6
    <3>3. z.id = x.id /\ z.holds = x.holds
      BY <3>1, <3>2, StaysParts
    <3> QED  BY <3>3 DEF Named
  <2>2. CASE \E h \in last.held : h.id = x.id /\ h.with = x.holds
    BY <1>4, <2>2 DEF NamedHeld, last
  <2> QED  BY <1>5, <2>1, <2>2 DEF Follow, Accounted
<1>8. ASSUME NEW c, NEW why, Held(c, why) \in b.held PROVE NamedHeld(c, b.held)
  <2>1. Held(c, why).id = c
    BY DEF Held
  <2> QED  BY <1>8, <2>1 DEF NamedHeld
<1>9. ASSUME NEW c \in DOMAIN run.kinds, c \notin DOMAIN by \/ ~ Stands(run, by, c)
      PROVE  NamedHeld(c, b.held)
  <2>1. \E why : Held(c, why) \in NotDecided(run, by)
    BY <1>9 DEF NotDecided
  <2> QED  BY <1>4, <1>8, <2>1
<1>10. ASSUME NEW c \in DOMAIN by, Stands(run, by, c)
       PROVE  Named(c, b.entries) \/ NamedHeld(c, b.held) \/ c \in b.dropped
  <2>1. by[c].act \in Acts
    BY DEF AreChoices, IsChoice
  <2>2. CASE by[c].act \in {"keep", "split"}
    <3>1. PICK x \in kept : x.id = c
      BY <1>10, <2>2, KeptParts
    <3> QED  BY <1>7, <3>1
  <2>3. CASE by[c].act = "drop"
    BY <1>4, <1>10, <2>3
  <2>4. CASE by[c].act = "merge"
    <3>1. CASE \E x \in kept : x.part = 0 /\ x.id = TargetOf(by, c)
      <4>1. PICK x \in kept : x.part = 0 /\ x.id = TargetOf(by, c)
        BY <3>1
      <4>2. c \in x.holds
        BY <2>4, <4>1, KeptParts
      <4> QED  BY <1>7, <4>2
    <3>2. CASE ~ \E x \in kept : x.part = 0 /\ x.id = TargetOf(by, c)
      <4>1. \E why : Held(c, why) \in Unmerged(by, kept)
        <5>1. TargetOf(by, c) \notin {x.id : x \in {y \in kept : y.part = 0}}
          BY <3>2
        <5> QED  BY <2>4, <5>1 DEF Unmerged
      <4> QED  BY <1>4, <1>8, <4>1
    <3> QED  BY <3>1, <3>2
  <2> QED  BY <2>1, <2>2, <2>3, <2>4 DEF Acts
<1> QED  BY <1>4, <1>6, <1>9, <1>10 DEF b

\* What a run's units and its store come to is named in the delta that is
\* written, and what points into the delta lands in it.
Answered(run) == DOMAIN run.kinds \cup UNION {{<<"N", u, i>> : i \in DOMAIN run.answers[u].new} : u \in DOMAIN run.answers}
IsReviewOf(votes) ==
    /\ Len(votes) \in Nat /\ DOMAIN votes = 1..Len(votes)
    /\ \A n \in 1..Len(votes) : votes[n].act \in Acts \cup {"fix"} /\ KeysGiven(votes[n])

LEMMA WrittenParts ==
    ASSUME NEW run, IsRunOf(run), NEW draft, NEW votes, IsReviewOf(votes), NEW applied,
           NEW a, a = Written(Pass(run, draft, votes, applied))
    PROVE  /\ \A x \in a.entries : PointsTo(x) \subseteq {Name(y) : y \in a.entries} \cup a.losers
           /\ \A c \in Answered(run) : Named(c, a.entries) \/ NamedHeld(c, a.held) \/ c \in a.dropped
           /\ \A x \in a.entries :
                \E y \in Built(run, Laid(draft, Decisions(run), votes, applied)).entries : Address(x) = Address(y)
<1> DEFINE by == Laid(draft, Decisions(run), votes, applied)
           b == Built(run, by)
           E == b.entries
           F == Settled(draft, votes, applied, CrossUnit(E))
           last == Pass(run, draft, votes, applied)
           back == HoldBack(F, last.unsound)
<1>1. AreChoices(by) /\ DOMAIN by = DOMAIN Decisions(run)
  BY DecisionsAreChoices, LaidAreChoices DEF IsReviewOf
<1>2. /\ last.built = b /\ last.entries = F /\ last.unsound \subseteq F
  BY DEF Pass, Landing, Outcome
<1>3. /\ a.entries = back.kept /\ a.held = b.held \cup back.held
      /\ a.dropped = b.dropped /\ a.losers = UNION {x.twins : x \in F}
  BY <1>2 DEF Written, Delta
<1> HIDE DEF by
<1>4. /\ AreLinked(E)
      /\ NotDecided(run, by) \cup RefusedNew(run) \subseteq b.held
      /\ \A c \in DOMAIN run.kinds \cup DOMAIN by :
           \/ Named(c, E) \/ NamedHeld(c, b.held) \/ c \in b.dropped
           \/ c \notin DOMAIN run.kinds /\ ~ Stands(run, by, c)
  BY <1>1, BuiltParts
<1> HIDE DEF b, last
<1>5. Covers(F, E)
  <2>1. Covers(CrossUnit(E), E)
    BY <1>4, CrossUnitCovers
  <2> HIDE DEF E
  <2> QED  BY <2>1, SettledCovers
<1> HIDE DEF E, F
<1>6. /\ \A x \in back.kept : PointsTo(x) \subseteq {Name(y) : y \in back.kept} \cup UNION {y.twins : y \in F}
      /\ \A x \in F :
           \/ \E y \in back.kept : y.id = x.id /\ y.holds = x.holds
           \/ \E h \in back.held : h.id = x.id /\ h.with = x.holds
      /\ \A x \in back.kept : \E y \in E : Address(x) = Address(y)
  BY <1>2, <1>4, <1>5, HoldBackParts
<1> HIDE DEF back
<1>7. ASSUME NEW c, Named(c, E) PROVE Named(c, a.entries) \/ NamedHeld(c, a.held)
  <2>1. PICK y \in E : c \in {y.id} \cup y.holds
    BY <1>7 DEF Named
  <2>2. PICK x \in F : TakesIn(x, y)
    BY <1>5 DEF Covers
  <2>3. c \in {x.id} \cup x.holds
    BY <2>1, <2>2 DEF TakesIn
  <2>4. CASE \E z \in back.kept : z.id = x.id /\ z.holds = x.holds
    BY <1>3, <2>3, <2>4 DEF Named
  <2>5. CASE \E h \in back.held : h.id = x.id /\ h.with = x.holds
    BY <1>3, <2>3, <2>5 DEF NamedHeld
  <2> QED  BY <1>6, <2>4, <2>5
<1>8. ASSUME NEW c, NamedHeld(c, b.held) PROVE NamedHeld(c, a.held)
  BY <1>3, <1>8 DEF NamedHeld
<1>9. ASSUME NEW c \in DOMAIN run.kinds \cup DOMAIN by, c \in DOMAIN run.kinds \/ Stands(run, by, c)
      PROVE  Named(c, a.entries) \/ NamedHeld(c, a.held) \/ c \in a.dropped
  BY <1>3, <1>4, <1>7, <1>8, <1>9
<1>10. ASSUME NEW u \in DOMAIN run.answers, NEW i \in DOMAIN run.answers[u].new
       PROVE  \/ Named(<<"N", u, i>>, a.entries) \/ NamedHeld(<<"N", u, i>>, a.held)
              \/ <<"N", u, i>> \in a.dropped
  <2> DEFINE c == <<"N", u, i>>
  <2>1. CASE run.answers[u].new[i].ok
    <3>1. c \in Minted(run)
      BY <2>1 DEF Minted
    <3>2. c \in DOMAIN by
      BY <1>1, <3>1 DEF Decisions
    <3>3. Stands(run, by, c)
      BY DEF Stands
    <3> HIDE DEF c
    <3>4. Named(c, a.entries) \/ NamedHeld(c, a.held) \/ c \in a.dropped
      BY <1>9, <3>2, <3>3
    <3> QED  BY <3>4 DEF c
  <2>2. CASE ~ run.answers[u].new[i].ok
    <3>1. Held(c, "refused") \in RefusedNew(run)
      BY <2>2 DEF RefusedNew
    <3>2. Held(c, "refused") \in a.held /\ Held(c, "refused").id = c
      BY <1>3, <1>4, <3>1 DEF Held
    <3>3. NamedHeld(c, a.held)
      BY <3>2 DEF NamedHeld
    <3> QED  BY <3>3
  <2> QED  BY <2>1, <2>2
<1>11. \A c \in Answered(run) : Named(c, a.entries) \/ NamedHeld(c, a.held) \/ c \in a.dropped
  <2> SUFFICES ASSUME NEW c \in Answered(run)
               PROVE  Named(c, a.entries) \/ NamedHeld(c, a.held) \/ c \in a.dropped
    OBVIOUS
  <2>1. CASE c \in DOMAIN run.kinds
    BY <1>9, <2>1
  <2>2. CASE c \notin DOMAIN run.kinds
    <3>1. PICK u \in DOMAIN run.answers : c \in {<<"N", u, i>> : i \in DOMAIN run.answers[u].new}
      BY <2>2 DEF Answered
    <3>2. PICK i \in DOMAIN run.answers[u].new : c = <<"N", u, i>>
      BY <3>1
    <3> QED  BY <1>10, <3>2
  <2> QED  BY <2>1, <2>2
<1>12. \A x \in a.entries : PointsTo(x) \subseteq {Name(y) : y \in a.entries} \cup a.losers
  BY <1>3, <1>6
<1>13. \A x \in a.entries : \E y \in E : Address(x) = Address(y)
  BY <1>3, <1>6
<1> QED  BY <1>11, <1>12, <1>13 DEF E, b, by

-----------------------------------------------------------------------------
(* What a run folds.                                                       *)

\* What a run folds: a plan of few units, each named by numbers, and a review
\* whose entries have their keys.
FoldInv ==
    /\ IsFiniteSet(plan.units) /\ \A u \in plan.units : u.id \in UnitNames
    /\ IsReviewOf(review.of)

LEMMA EmptyReviewIsOne == IsReviewOf(<<>>)
  BY DEF IsReviewOf

LEMMA FoldInit == Init => FoldInv
<1> SUFFICES ASSUME Init PROVE FoldInv
  OBVIOUS
<1>1. plan.units = {} /\ review.of = <<>>
  BY DEF Init, NoPlan, NoReview
<1> QED  BY <1>1, EmptyReviewIsOne, FS_EmptySet DEF FoldInv

LEMMA FoldNext == BaseInv /\ FoldInv /\ [Next]_vars => FoldInv'
<1> SUFFICES ASSUME BaseInv, FoldInv, [Next]_vars PROVE FoldInv'
  OBVIOUS
<1>0. IsEstate(estate)
  BY EstatesAssumption DEF BaseInv
<1>1. ASSUME UNCHANGED <<plan, review>> PROVE FoldInv'
  BY <1>1 DEF FoldInv
<1>2. ASSUME NEW f \in DOMAIN work, Convert(f) \/ ConvertTorn(f) \/ \E c \in estate.contents : Edit(f, c) \/ ConvertCrossed(f, c)
      PROVE  FoldInv'
  BY <1>1, <1>2 DEF Convert, ConvertTorn, ConvertCrossed, Edit, Reviewing
<1>3. ASSUME NEW g \in estate.groupings, GroupPhotos(g) PROVE FoldInv'
  BY <1>1, <1>3 DEF GroupPhotos, Reviewing
<1>4. ASSUME NEW anyway \in BOOLEAN, Build(anyway) PROVE FoldInv'
  <2>1. review' = review /\ (plan' = plan \/ plan'.units = Plan(estate, work, cache, groups).units)
    BY <1>4, BuildParts DEF Reviewing, Replanned
  <2>2. CASE plan' = plan
    BY <1>1, <2>1, <2>2
  <2>3. CASE plan'.units = Plan(estate, work, cache, groups).units
    <3>1. IsFiniteSet(plan'.units) /\ \A u \in plan'.units : u.id \in UnitNames
      BY <1>0, <2>3, UnitsParts
    <3> QED  BY <2>1, <3>1 DEF FoldInv
  <2> QED  BY <2>1, <2>2, <2>3
<1>5. ASSUME NEW reached \in SUBSET DOMAIN told, Poll(reached) PROVE FoldInv'
  BY <1>1, <1>5 DEF Poll, Reviewing
<1>6. ASSUME NEW u \in asked, Answers(u) \/ \E half \in BOOLEAN : Dies(u, half) PROVE FoldInv'
  BY <1>1, <1>6 DEF Answers, Dies, Reviewing
<1>7. ASSUME NEW r \in estate.reviews, ReviewerWrites(r) PROVE FoldInv'
  <2>1. DOMAIN r = {"torn", "of"} /\ IsReview(r)
    BY <1>0 DEF IsEstate
  <2>2. review' = With(r, [is |-> TRUE, for |-> stamp.of]) /\ plan' = plan
    BY <1>7 DEF ReviewerWrites
  <2>3. review'.of = r.of
    BY <2>1, <2>2 DEF With
  <2>4. IsReviewOf(r.of)
    BY <2>1 DEF IsReview, IsReviewOf, Acts
  <2> QED  BY <2>2, <2>3, <2>4 DEF FoldInv
<1>8. CASE DigestStep
  BY <1>1, <1>8 DEF DigestStep
<1>9. CASE Assemble
  BY <1>1, <1>9 DEF Assemble, Reviewing
<1>10. CASE Apply
  BY <1>1, <1>10 DEF Apply, Reviewing
<1>11. ASSUME NEW id \in store, StoreLoses(id) PROVE FoldInv'
  BY <1>1, <1>11 DEF StoreLoses, Reviewing
<1>12. CASE UNCHANGED vars
  BY <1>1, <1>12 DEF vars, Reviewing
<1> QED
  BY <1>2, <1>3, <1>4, <1>5, <1>6, <1>7, <1>8, <1>9, <1>10, <1>11, <1>12 DEF Next

\* The units that are open, and all that was said of anything.
OpenUnits(e, p, o) == {u \in p.units : StateOf(KindsOf(e), o[u.id]) \in {"pending", "retry"}}
Said(e, p, o) ==
    DOMAIN e.cands
    \cup UNION {{<<"N", u.id, i>> : i \in DOMAIN Answer(KindsOf(e), u.id, o[u.id]).new} : u \in p.units}

\* A plan's answers make a run that can be folded, and what all of them answered
\* is all that was said.
LEMMA RunParts ==
    ASSUME BaseInv, FoldInv
    PROVE  /\ \A units \in SUBSET plan.units : IsRunOf(Run(Names(units)))
           /\ Said(estate, plan, out) \subseteq Answered(Run(Names(plan.units)))
<1> DEFINE e == [estate EXCEPT !.store = store]
           kinds == KindsOf(estate)
<1>0. IsEstate(estate)
  BY EstatesAssumption DEF BaseInv
<1>1. DOMAIN estate.cands = DOMAIN kinds /\ IsFiniteSet(DOMAIN estate.cands)
      /\ \A c \in DOMAIN estate.cands : c[2] \in Nat /\ c = <<"S", c[2]>>
  BY <1>0, CandsParts DEF KindsOf
<1>2. e.cands = estate.cands
  BY <1>0 DEF IsEstate, EstateFields
<1>3. ASSUME NEW units \in SUBSET plan.units
      PROVE  /\ Run(Names(units)).kinds = kinds
             /\ Run(Names(units)).answers = [u \in Names(units) |-> Answer(kinds, u, out[u])]
  <2> DEFINE names == Names(units)
             run == Run(names)
  <2>1. {x.id : x \in {u \in plan.units : u.id \in names}} = names
    BY DEF Names
  <2>2. run = RunOf(e, plan, out, names)
    BY DEF Run
  <2> HIDE DEF names, e, run
  <2>3. /\ run.kinds = [c \in DOMAIN e.cands |-> e.cands[c].kind]
        /\ run.answers = [u \in {x.id : x \in {u \in plan.units : u.id \in names}} |->
                            Answer([c \in DOMAIN e.cands |-> e.cands[c].kind], u, out[u])]
    BY <2>2, Zenon DEF RunOf
  <2>4. [c \in DOMAIN e.cands |-> e.cands[c].kind] = kinds
    BY <1>2 DEF KindsOf, e
  <2> HIDE DEF kinds
  <2>5. run.kinds = kinds /\ run.answers = [u \in names |-> Answer(kinds, u, out[u])]
    BY <2>1, <2>3, <2>4
  <2> QED  BY <2>5 DEF names, run
<1> HIDE DEF kinds
<1>4. ASSUME NEW units \in SUBSET plan.units PROVE IsRunOf(Run(Names(units)))
  <2> DEFINE names == Names(units)
  <2>1. IsFiniteSet(names) /\ names \subseteq UnitNames
    <3> DEFINE f == [u \in units |-> u.id]
    <3>1. names = {f[u] : u \in units}
      BY DEF Names
    <3>2. \A u \in units : f[u] \in UnitNames
      BY DEF FoldInv
    <3>3. IsFiniteSet(units)
      BY FS_Subset DEF FoldInv
    <3> HIDE DEF f, names
    <3> QED  BY <3>1, <3>2, <3>3, ImageIsFinite
  <2>2. ASSUME NEW u \in names PROVE IsAnswer(Answer(kinds, u, out[u]))
    <3>1. u \in DOMAIN out
      BY DEF BaseInv, Names
    <3>2. IsSequence(out[u]) /\ \A i \in DOMAIN out[u] : IsAttempt(out[u][i])
      BY <3>1 DEF BaseInv
    <3> QED  BY <3>2, AnswerIsAnswer
  <2>3. Run(names).kinds = kinds /\ Run(names).answers = [u \in names |-> Answer(kinds, u, out[u])]
    BY <1>3
  <2> HIDE DEF names
  <2>4. IsRunOf(Run(names))
    BY <1>1, <2>1, <2>2, <2>3 DEF IsRunOf
  <2> QED  BY <2>4 DEF names
<1> DEFINE names == Names(plan.units)
           run == Run(names)
<1>5. run.kinds = kinds /\ run.answers = [u \in names |-> Answer(kinds, u, out[u])]
  BY <1>3
<1> HIDE DEF run
<1>6. Said(estate, plan, out) \subseteq Answered(run)
  <2> SUFFICES ASSUME NEW c \in Said(estate, plan, out) PROVE c \in Answered(run)
    OBVIOUS
  <2>1. CASE c \in DOMAIN estate.cands
    BY <1>1, <1>5, <2>1 DEF Answered
  <2>2. CASE c \notin DOMAIN estate.cands
    <3>1. PICK u \in plan.units : c \in {<<"N", u.id, i>> : i \in DOMAIN Answer(kinds, u.id, out[u.id]).new}
      BY <2>2 DEF Said, kinds
    <3>2. u.id \in names
      BY DEF Names
    <3>3. run.answers[u.id] = Answer(kinds, u.id, out[u.id]) /\ u.id \in DOMAIN run.answers
      BY <1>5, <3>2
    <3> QED  BY <3>1, <3>3 DEF Answered
  <2> QED  BY <2>1, <2>2
<1> QED  BY <1>4, <1>6 DEF run

-----------------------------------------------------------------------------
(* What a transcript is told.                                              *)

\* What was recorded is told in one order.
LEMMA ToldBeforeIsAnOrder ==
    ASSUME NEW x, NEW y, NEW z, IsEntry(x), IsEntry(y), IsEntry(z)
    PROVE  /\ ~ ToldBefore(x, x)
           /\ Name(x) # Name(y) => ToldBefore(x, y) \/ ToldBefore(y, x)
           /\ ToldBefore(x, y) /\ ToldBefore(y, z) => ToldBefore(x, z)
<1>1. \A w : KindRank(w) \in Nat
  BY DEF KindRank
<1>2. /\ ~ NameBefore(x, x)
      /\ Name(x) # Name(y) => NameBefore(x, y) \/ NameBefore(y, x)
      /\ NameBefore(x, y) /\ NameBefore(y, z) => NameBefore(x, z)
  BY NamesInOrder
<1> QED  BY <1>1, <1>2 DEF ToldBefore

\* The last of some entries in that order.
LEMMA LastTold ==
    ASSUME NEW E, AreEntries(E), NEW S \in SUBSET E, S # {}
    PROVE  \E x \in S : \A y \in S \ {x} : ToldBefore(y, x)
<1> DEFINE R == {p \in S \X S : ToldBefore(p[1], p[2])}
<1>1. \A y, z \in S : <<y, z>> \in R <=> ToldBefore(y, z)
  OBVIOUS
<1> HIDE DEF R
<1>2. IsFiniteSet(S)
  BY FS_Subset DEF AreEntries
<1>3. \A y, z, w \in S : /\ ~ ToldBefore(y, y)
                         /\ y # z => ToldBefore(y, z) \/ ToldBefore(z, y)
                         /\ ToldBefore(y, z) /\ ToldBefore(z, w) => ToldBefore(y, w)
  BY ToldBeforeIsAnOrder DEF AreEntries
<1>4. /\ \A y \in S : <<y, y>> \notin R
      /\ \A y, z \in S : y # z => <<y, z>> \in R \/ <<z, y>> \in R
      /\ \A y, z, w \in S : <<y, z>> \in R /\ <<z, w>> \in R => <<y, w>> \in R
  BY <1>1, <1>3
<1>5. PICK x \in S : \A y \in S \ {x} : <<y, x>> \in R
  BY <1>2, <1>4, LastInOrder
<1> QED  BY <1>1, <1>5

\* More entries are no shorter.
LEMMA LengthGrows ==
    ASSUME NEW E, AreEntries(E), NEW F \in SUBSET E
    PROVE  Length(F) \in Nat /\ Length(E) \in Nat /\ Length(F) <= Length(E)
<1> DEFINE lines == [x \in E |-> LinesOf(x)]
           all == UNION {LinesOf(x) : x \in E}
           some == UNION {LinesOf(x) : x \in F}
<1>1. all = UNION {lines[x] : x \in E} /\ \A x \in E : lines[x] = LinesOf(x)
  OBVIOUS
<1>2. some \in SUBSET all
  OBVIOUS
<1>3. ASSUME NEW x \in E PROVE IsFiniteSet(lines[x])
  <2> DEFINE n == IF x.kind = "record" THEN TableLines ELSE EntryLines
  <2>1. n \in Nat /\ LinesOf(x) = {Name(x)} \X (1..n)
    BY RecordedAssumption DEF LinesOf
  <2> HIDE DEF n
  <2>2. IsFiniteSet({Name(x)})
    BY FS_Singleton
  <2>3. IsFiniteSet(1..n)
    <3>1. 1 \in Int /\ n \in Int
      BY <2>1
    <3> QED  BY <3>1, FS_Interval
  <2>4. IsFiniteSet({Name(x)} \X (1..n))
    BY <2>2, <2>3, FS_Product
  <2> QED  BY <1>1, <2>1, <2>4
<1> HIDE DEF lines
<1>4. IsFiniteSet({lines[x] : x \in E})
  BY ImageIsFinite DEF AreEntries
<1>5. IsFiniteSet(all)
  <2> HIDE DEF all
  <2> QED  BY <1>1, <1>3, <1>4, FS_UNION
<1>6. Cardinality(some) \in Nat /\ Cardinality(all) \in Nat /\ Cardinality(some) <= Cardinality(all)
  <2> HIDE DEF all, some
  <2> QED  BY <1>2, <1>5, FS_Subset, FS_CardinalityType
<1> QED  BY <1>6 DEF Length

\* The slice of what was recorded is a beginning of it, within the budget, and
\* no longer one would be.
LEMMA SliceIsRightlyCut ==
    ASSUME NEW E, AreEntries(E)
    PROVE  RightlyCut(RecordedSlice(E), E)
<1> DEFINE S == RecordedSlice(E)
<1>1. RecordedBudget \in Nat
  BY RecordedAssumption
<1>2. \A x \in E : x \in S <=> Length(Until(E, x)) <= RecordedBudget
  BY DEF RecordedSlice
<1>3. S \subseteq E
  BY DEF RecordedSlice
<1> HIDE DEF S
<1>4. \A x, y, z \in E : /\ ~ ToldBefore(y, y)
                         /\ y # z => ToldBefore(y, z) \/ ToldBefore(z, y)
                         /\ ToldBefore(x, y) /\ ToldBefore(y, z) => ToldBefore(x, z)
  BY ToldBeforeIsAnOrder DEF AreEntries
<1>5. ASSUME NEW F \in SUBSET E, NEW G \in SUBSET F
      PROVE  Length(G) \in Nat /\ Length(F) \in Nat /\ Length(G) <= Length(F)
  <2>1. AreEntries(F)
    BY FewerEntries
  <2> QED  BY <2>1, LengthGrows
<1>6. \A x \in E : Until(E, x) \in SUBSET E
  BY DEF Until
<1>7. ASSUME NEW x \in S, NEW y \in E, ToldBefore(y, x) PROVE y \in S
  <2>1. Until(E, y) \in SUBSET Until(E, x)
    BY <1>3, <1>4, <1>7 DEF Until
  <2>2. /\ Length(Until(E, y)) \in Nat /\ Length(Until(E, x)) \in Nat
        /\ Length(Until(E, y)) <= Length(Until(E, x))
    BY <1>3, <1>5, <1>6, <2>1
  <2> QED  BY <1>1, <1>2, <1>3, <2>2
<1>8. Length(S) <= RecordedBudget
  <2>1. CASE S = {}
    <3>1. UNION {LinesOf(x) : x \in {}} = {}
      OBVIOUS
    <3>2. Length({}) = 0
      BY <3>1, FS_EmptySet DEF Length
    <3> QED  BY <1>1, <2>1, <3>2
  <2>2. CASE S # {}
    <3>1. PICK x \in S : \A y \in S \ {x} : ToldBefore(y, x)
      BY <1>3, <2>2, LastTold
    <3>2. S \in SUBSET Until(E, x)
      BY <1>3, <3>1 DEF Until
    <3>3. Length(S) \in Nat /\ Length(Until(E, x)) \in Nat /\ Length(S) <= Length(Until(E, x))
      BY <1>3, <1>5, <1>6, <3>2
    <3> QED  BY <1>1, <1>2, <1>3, <3>3
  <2> QED  BY <2>1, <2>2
<1>9. ASSUME NEW x \in E \ S, ~ \E y \in E \ S : ToldBefore(y, x)
      PROVE  Length(S \cup {x}) > RecordedBudget
  <2>1. Until(E, x) \in SUBSET (S \cup {x}) /\ S \cup {x} \in SUBSET E
    BY <1>3, <1>9 DEF Until
  <2>2. /\ Length(Until(E, x)) \in Nat /\ Length(S \cup {x}) \in Nat
        /\ Length(Until(E, x)) <= Length(S \cup {x})
    BY <1>5, <2>1
  <2>3. ~ Length(Until(E, x)) <= RecordedBudget
    BY <1>2
  <2> QED  BY <1>1, <2>2, <2>3
<1> QED  BY <1>3, <1>7, <1>8, <1>9 DEF RightlyCut, S

\* A transcript is read only when every form is decided, and by a unit that was
\* told what the forms record, as far as its budget goes, and was told nothing
\* only where telling failed: whatever the estate, the answers, the deaths, the
\* budget and the plans made again (_gate_phases, status, recorded_slice).
THEOREM FormsAlwaysBeforeTalk == Spec => []FormsBeforeTalk
<1>1. BaseInv /\ FoldInv /\ RightlyTold => FormsBeforeTalk
  <2> SUFFICES ASSUME BaseInv, FoldInv, RightlyTold, NEW u \in InPhase(2), u.id \in asked
               PROVE  /\ Open(InPhase(1)) = {}
                      /\ told[u.id].is \/ Happened("faults")
                      /\ told[u.id].is => \/ RightlyCut(told[u.id].of, PhaseEntries(Run(Names(InPhase(1)))))
                                          \/ Happened("losses")
    BY DEF FormsBeforeTalk
  <2> DEFINE entries == PhaseEntries(Run(Names(InPhase(1))))
  <2>1. u.id[1] = Talk /\ u.id \in DOMAIN told
    BY FormsOfThePlan DEF BaseInv, Names
  <2>2. OpenForms(estate, plan, out) = {} /\ (Spent(estate, left, "faults") \/ told[u.id].is)
    BY <2>1 DEF RightlyTold, TalkInv
  <2>3. told[u.id].is => Spent(estate, left, "losses") \/ told[u.id].of = RecordedSlice(entries)
    BY <2>1, FormsOfThePlan DEF RightlyTold, TalkInv
  <2>4. RightlyCut(RecordedSlice(entries), entries)
    <3> DEFINE run == Run(Names(InPhase(1)))
    <3>1. IsRunOf(run)
      <4>1. InPhase(1) \in SUBSET plan.units
        BY DEF InPhase
      <4> QED  BY <4>1, RunParts
    <3> HIDE DEF run
    <3>2. AreEntries(PhaseEntries(run))
      BY <3>1, DecisionsAreChoices, BuiltParts DEF PhaseEntries, AreLinked
    <3>3. RightlyCut(RecordedSlice(PhaseEntries(run)), PhaseEntries(run))
      BY <3>2, SliceIsRightlyCut
    <3> QED  BY <3>3 DEF run
  <2> HIDE DEF entries
  <2>5. told[u.id].is => RightlyCut(told[u.id].of, entries) \/ Happened("losses")
    BY <2>3, <2>4 DEF Spent, Happened
  <2> QED  BY <2>2, <2>5, FormsOfThePlan DEF Spent, Happened, entries
<1>2. Spec => []FoldInv
  BY BaseAlways, FoldInit, FoldNext, PTL DEF Spec
<1>3. Spec => []RightlyTold
  BY BaseAlways, RightlyToldInit, RightlyToldNext, PTL DEF Spec
<1> QED  BY <1>1, <1>2, <1>3, BaseAlways, PTL

-----------------------------------------------------------------------------
(* The delta of a run.                                                     *)

\* A delta's links land in it; it is written when nothing is open or asked, and
\* names all that was said.
Tells(e, p, o, a, d) ==
    /\ \A x \in d.entries : PointsTo(x) \subseteq {Name(y) : y \in d.entries} \cup d.losers
    /\ d.is => /\ p.made /\ OpenUnits(e, p, o) = {} /\ a = {}
               /\ \A c \in Said(e, p, o) : Named(c, d.entries) \/ NamedHeld(c, d.held) \/ c \in d.dropped
DeltaTells == Tells(estate, plan, out, asked, delta)

LEMMA DeltaTellsInit == Init => DeltaTells
<1> SUFFICES ASSUME Init PROVE DeltaTells
  OBVIOUS
<1>1. delta.entries = {} /\ ~ delta.is
  BY DEF Init, NoDelta
<1> QED  BY <1>1 DEF DeltaTells, Tells

LEMMA DeltaTellsNext == BaseInv /\ FoldInv /\ DeltaTells /\ [Next]_vars => DeltaTells'
<1> SUFFICES ASSUME BaseInv, FoldInv, DeltaTells, [Next]_vars PROVE DeltaTells'
  OBVIOUS
<1>0. Tells(estate, plan, out, asked, delta)
  BY DEF DeltaTells
<1>1. ASSUME UNCHANGED <<estate, plan, out, asked, delta>> PROVE DeltaTells'
  BY <1>0, <1>1 DEF DeltaTells
<1>2. ASSUME delta' = delta, ~ delta.is PROVE DeltaTells'
  BY <1>0, <1>2 DEF DeltaTells, Tells
<1>3. Open(plan.units) = OpenUnits(estate, plan, out)
  BY DEF Open, State, Kinds, OpenUnits, KindsOf
<1>4. ASSUME NEW f \in DOMAIN work, Convert(f) \/ ConvertTorn(f) \/ \E c \in estate.contents : Edit(f, c) \/ ConvertCrossed(f, c)
      PROVE  DeltaTells'
  BY <1>1, <1>4 DEF Convert, ConvertTorn, ConvertCrossed, Edit
<1>5. ASSUME NEW g \in estate.groupings, GroupPhotos(g) PROVE DeltaTells'
  BY <1>1, <1>5 DEF GroupPhotos
<1>6. ASSUME NEW anyway \in BOOLEAN, Build(anyway) PROVE DeltaTells'
  BY <1>2, <1>6, BuildParts
\* Nothing is polled, and nobody answers, once a delta is written.
<1>7. ASSUME NEW reached \in SUBSET DOMAIN told, Poll(reached) PROVE DeltaTells'
  <2>1. OpenNow # {} /\ delta' = delta
    BY <1>7 DEF Poll
  <2>2. OpenNow \subseteq Open(plan.units)
    BY DEF OpenNow, Open, InPhase
  <2>3. ~ delta.is
    BY <1>0, <1>3, <2>1, <2>2 DEF Tells
  <2> QED  BY <1>2, <2>1, <2>3
<1>8. ASSUME NEW u \in asked, Answers(u) \/ \E half \in BOOLEAN : Dies(u, half) PROVE DeltaTells'
  <2>1. delta' = delta
    BY <1>8 DEF Answers, Dies
  <2>2. ~ delta.is
    BY <1>0 DEF Tells
  <2> QED  BY <1>2, <2>1, <2>2
<1>9. ASSUME NEW r \in estate.reviews, ReviewerWrites(r) PROVE DeltaTells'
  BY <1>1, <1>9 DEF ReviewerWrites
<1>10. CASE DigestStep
  BY <1>1, <1>10 DEF DigestStep
<1>11. CASE Assemble
  <2> DEFINE run == Run(Names(plan.units))
             of == IF review.is /\ ~ review.torn THEN review.of ELSE <<>>
             a == Assembled(run, of)
  <2>1. /\ plan.made /\ Open(plan.units) = {} /\ asked = {} /\ UNCHANGED <<estate, plan, out, asked>>
        /\ \/ delta' = delta
           \/ delta' = [is |-> TRUE, entries |-> a.entries, held |-> a.held,
                        dropped |-> a.dropped, losers |-> a.losers, reviewHeld |-> a.reviewHeld]
    BY <1>11 DEF Assemble, Ready, Decided
  <2>2. CASE delta' = delta
    BY <1>1, <2>1, <2>2
  <2>3. CASE delta' = [is |-> TRUE, entries |-> a.entries, held |-> a.held,
                       dropped |-> a.dropped, losers |-> a.losers, reviewHeld |-> a.reviewHeld]
    <3> HIDE DEF a
    <3>1. delta'.entries = a.entries /\ delta'.held = a.held /\ delta'.dropped = a.dropped
          /\ delta'.losers = a.losers
      BY <2>3
    <3>2. IsRunOf(run) /\ Said(estate, plan, out) \subseteq Answered(run)
      BY RunParts
    <3>3. IsReviewOf(of)
      BY EmptyReviewIsOne DEF FoldInv
    <3> HIDE DEF run, of
    <3>4. \E draft, applied : a = Written(Pass(run, draft, of, applied))
      BY Zenon DEF a, Assembled, AssembledFrom, AssembledOf
    <3>5. /\ \A x \in a.entries : PointsTo(x) \subseteq {Name(y) : y \in a.entries} \cup a.losers
          /\ \A c \in Answered(run) : Named(c, a.entries) \/ NamedHeld(c, a.held) \/ c \in a.dropped
      BY <3>2, <3>3, <3>4, WrittenParts
    <3>6. Tells(estate, plan, out, asked, delta')
      BY <1>3, <2>1, <3>1, <3>2, <3>5 DEF Tells
    <3> QED  BY <2>1, <3>6 DEF DeltaTells
  <2> QED  BY <2>1, <2>2, <2>3
<1>12. CASE Apply
  BY <1>1, <1>12 DEF Apply
<1>13. ASSUME NEW id \in store, StoreLoses(id) PROVE DeltaTells'
  BY <1>1, <1>13 DEF StoreLoses
<1>14. CASE UNCHANGED vars
  BY <1>1, <1>14 DEF vars
<1> QED
  BY <1>4, <1>5, <1>6, <1>7, <1>8, <1>9, <1>10, <1>11, <1>12, <1>13, <1>14 DEF Next

LEMMA DeltaAlwaysTells == Spec => []DeltaTells
<1>1. Spec => []FoldInv
  BY BaseAlways, FoldInit, FoldNext, PTL DEF Spec
<1> QED  BY <1>1, BaseAlways, DeltaTellsInit, DeltaTellsNext, PTL DEF Spec

\* Every reference in a delta names an entry of it or the losing one of two
\* written at the same address, whatever the units answered, the reviewer
\* decided and the gate refused (_hold_back, _cross_unit).
THEOREM LinksAlwaysLand == Spec => []LinksLand
<1>1. DeltaTells => LinksLand
  BY DEF DeltaTells, Tells, LinksLand, LandedNames
<1> QED  BY <1>1, DeltaAlwaysTells, PTL

\* When the delta is written, every candidate and every entry a unit minted is in
\* it, was merged into something that is, was dropped by a decision, or is named
\* to the owner: nothing an owner's file said is lost on the way unsaid
\* (build_rows, merge_held, held_back).
THEOREM NothingIsEverLostUnsaid == Spec => []NothingIsLostUnsaid
<1>1. DeltaTells => NothingIsLostUnsaid
  <2> SUFFICES ASSUME DeltaTells, delta.is, NEW c \in Everything
               PROVE  c \in (UNION {{x.id} \cup x.holds : x \in delta.entries})
                            \cup (UNION {{h.id} \cup h.with : h \in delta.held}) \cup delta.dropped
    BY DEF NothingIsLostUnsaid
  <2>1. Everything = Said(estate, plan, out)
    BY DEF Everything, Said, Kinds, KindsOf
  <2>2. Named(c, delta.entries) \/ NamedHeld(c, delta.held) \/ c \in delta.dropped
    BY <2>1 DEF DeltaTells, Tells
  <2> QED  BY <2>2 DEF Named, NamedHeld
<1> QED  BY <1>1, DeltaAlwaysTells, PTL

-----------------------------------------------------------------------------
(* Every file is shown as it is.                                           *)

\* Groups that share nothing are told apart by their least members: put in the
\* order of these, each has one place.
GroupAt(S, n) == CHOOSE k \in S : Min(k) = InOrder({Min(j) : j \in S})[n]
LEMMA GroupsInOrder ==
    ASSUME NEW S, IsFiniteSet(S), \A h \in S : h \in SUBSET Nat /\ h # {},
           \A g, h \in S : g # h => g \cap h = {}
    PROVE  /\ \A h \in S : \E n \in 1..Cardinality(S) : GroupAt(S, n) = h
           /\ \A n \in 1..Cardinality(S) : GroupAt(S, n) \in S
           /\ \A m, n \in 1..Cardinality(S) : GroupAt(S, m) = GroupAt(S, n) => m = n
<1> DEFINE f == [k \in S |-> Min(k)]
           mins == {f[k] : k \in S}
           at(n) == CHOOSE k \in S : Min(k) = InOrder(mins)[n]
<1>1. \A k \in S : Min(k) \in k /\ Min(k) \in Nat
  BY LeastOf
<1>2. \A k, j \in S : f[k] = f[j] => k = j
  BY <1>1
<1>3. mins = {Min(j) : j \in S} /\ \A k \in S : f[k] = Min(k)
  OBVIOUS
<1>4. \A k \in S : f[k] \in Nat
  BY <1>1
<1> HIDE DEF f
<1>5. IsFiniteSet(mins) /\ Cardinality(mins) = Cardinality(S)
  BY <1>2, AsManyValues
<1>6. mins \in SUBSET Nat /\ \A h \in S : f[h] \in mins
  BY <1>4
<1>7. \A m \in mins : \E k \in S : Min(k) = m
  BY <1>3
<1> HIDE DEF mins
<1>8. ASSUME NEW n \in 1..Cardinality(S)
      PROVE  at(n) \in S /\ Min(at(n)) = InOrder(mins)[n] /\ Rank(mins, InOrder(mins)[n]) = n
  <2>1. InOrder(mins)[n] \in mins /\ Rank(mins, InOrder(mins)[n]) = n
    BY <1>5, <1>6, RankIsPlace
  <2>2. \E k \in S : Min(k) = InOrder(mins)[n]
    BY <1>7, <2>1
  <2> QED  BY <2>1, <2>2
<1>9. ASSUME NEW h \in S PROVE \E n \in 1..Cardinality(S) : at(n) = h
  <2>1. PICK n \in 1..Cardinality(mins) : InOrder(mins)[n] = f[h]
    BY <1>5, <1>6, InOrderLists
  <2>2. n \in 1..Cardinality(S)
    BY <1>5
  <2>3. at(n) \in S /\ Min(at(n)) = f[h]
    BY <1>8, <2>1, <2>2
  <2> HIDE DEF at
  <2>4. at(n) = h
    BY <1>2, <1>3, <2>3
  <2> QED  BY <2>2, <2>4
<1>10. ASSUME NEW m \in 1..Cardinality(S), NEW n \in 1..Cardinality(S), at(m) = at(n) PROVE m = n
  <2> HIDE DEF at
  <2> QED  BY <1>8, <1>10
<1>11. \A n : GroupAt(S, n) = at(n)
  BY <1>3 DEF GroupAt
<1> HIDE DEF at
<1> QED  BY <1>8, <1>9, <1>10, <1>11

\* The photos that are read in their groups, and the other texts.
PhotoGroups(e, w, c, g) == {h \cap Served(e, w, c) : h \in GroupsOf(e, w, g)} \ {{}}
OtherTexts(e, w, c) == {{f} : f \in Served(e, w, c) \ Photos(e, w)}
InGroups(S) == [n \in 1..Cardinality(S) |-> GroupAt(S, n)]

\* Sets of files that share nothing, in order: each has one place.
Apart(S) == (\A h \in S : h \in SUBSET Nat /\ h # {}) /\ \A g, h \in S : g # h => g \cap h = {}
LEMMA InGroupsParts ==
    ASSUME NEW S, IsFiniteSet(S), Apart(S)
    PROVE  /\ InGroups(S) \in Seq(S) /\ Len(InGroups(S)) = Cardinality(S) /\ Cardinality(S) \in Nat
           /\ \A h \in S : \E n \in 1..Cardinality(S) : InGroups(S)[n] = h
           /\ \A n \in 1..Cardinality(S) : InGroups(S)[n] \in S
           /\ \A m, n \in 1..Cardinality(S) : InGroups(S)[m] = InGroups(S)[n] => m = n
<1>1. Cardinality(S) \in Nat
  BY FS_CardinalityType
<1>2. /\ \A h \in S : \E n \in 1..Cardinality(S) : GroupAt(S, n) = h
      /\ \A n \in 1..Cardinality(S) : GroupAt(S, n) \in S
      /\ \A m, n \in 1..Cardinality(S) : GroupAt(S, m) = GroupAt(S, n) => m = n
  BY GroupsInOrder DEF Apart
<1>3. InGroups(S) \in [1..Cardinality(S) -> S] /\ \A n \in 1..Cardinality(S) : InGroups(S)[n] = GroupAt(S, n)
  BY <1>2 DEF InGroups
<1>4. InGroups(S) \in Seq(S) /\ Len(InGroups(S)) = Cardinality(S)
  BY <1>1, <1>3
<1> QED  BY <1>1, <1>2, <1>3, <1>4

LEMMA GroupsAreApart ==
    ASSUME NEW e, IsEstate(e), NEW w, NEW c, NEW g
    PROVE  LET A == PhotoGroups(e, w, c, g)
               B == OtherTexts(e, w, c)
           IN /\ IsFiniteSet(A) /\ IsFiniteSet(B) /\ Apart(A) /\ Apart(B)
              /\ (UNION A) \cap (UNION B) = {} /\ (UNION A) \cup (UNION B) = Served(e, w, c)
<1> DEFINE served == Served(e, w, c)
           photos == Photos(e, w)
           A == PhotoGroups(e, w, c, g)
           B == OtherTexts(e, w, c)
<1>1. IsFiniteSet(served) /\ served \subseteq Nat
  <2>1. served \subseteq DOMAIN e.files
    BY DEF Served, Convertible, Present
  <2>2. IsFiniteSet(DOMAIN e.files) /\ DOMAIN e.files \subseteq Nat
    BY DEF IsEstate
  <2> HIDE DEF served
  <2> QED  BY <2>1, <2>2, FS_Subset
<1>2. /\ UNION GroupsOf(e, w, g) = photos
      /\ \A h, k \in GroupsOf(e, w, g) : h # k => h \cap k = {}
  <2> HIDE DEF photos
  <2>1. GroupsOf(e, w, g) = IF Usable(g, photos) THEN g ELSE {{p} : p \in photos}
    BY DEF GroupsOf, photos
  <2>2. CASE Usable(g, photos)
    BY <2>1, <2>2 DEF Usable
  <2>3. CASE ~ Usable(g, photos)
    BY <2>1, <2>3
  <2> QED  BY <2>2, <2>3
<1>3. A = {h \cap served : h \in GroupsOf(e, w, g)} \ {{}} /\ B = {{f} : f \in served \ photos}
  BY DEF PhotoGroups, OtherTexts
<1> HIDE DEF A, B, served, photos
<1>4. /\ \A h \in A : h # {} /\ \E x \in GroupsOf(e, w, g) : h = x \cap served
      /\ \A x \in GroupsOf(e, w, g) : x \cap served # {} => x \cap served \in A
  BY <1>3
<1>5. Apart(A)
  <2>1. \A h \in A : h \in SUBSET Nat /\ h # {}
    BY <1>1, <1>4
  <2>2. ASSUME NEW h \in A, NEW k \in A, h # k PROVE h \cap k = {}
    <3>1. PICK x \in GroupsOf(e, w, g) : h = x \cap served
      BY <1>4
    <3>2. PICK y \in GroupsOf(e, w, g) : k = y \cap served
      BY <1>4
    <3>3. x \cap y = {}
      BY <1>2, <2>2, <3>1, <3>2
    <3> QED  BY <3>1, <3>2, <3>3
  <2> QED  BY <2>1, <2>2 DEF Apart
<1>6. Apart(B)
  BY <1>1, <1>3 DEF Apart
<1>7. UNION A = photos \cap served
  <2>1. ASSUME NEW f \in UNION A PROVE f \in photos \cap served
    <3>1. PICK h \in A : f \in h
      OBVIOUS
    <3>2. PICK x \in GroupsOf(e, w, g) : h = x \cap served
      BY <1>4
    <3> QED  BY <1>2, <3>1, <3>2
  <2>2. ASSUME NEW f \in photos \cap served PROVE f \in UNION A
    <3>1. PICK x \in GroupsOf(e, w, g) : f \in x
      BY <1>2
    <3>2. x \cap served \in A
      BY <1>4, <3>1
    <3> QED  BY <3>1, <3>2
  <2> QED  BY <2>1, <2>2
<1>8. UNION B = served \ photos
  BY <1>3
<1>9. IsFiniteSet(A) /\ IsFiniteSet(B)
  <2>1. A \subseteq SUBSET served /\ B \subseteq SUBSET served
    BY <1>3
  <2> QED  BY <1>1, <2>1, FS_SUBSET, FS_Subset
<1>10. (UNION A) \cap (UNION B) = {} /\ (UNION A) \cup (UNION B) = served
  BY <1>7, <1>8
<1> QED  BY <1>5, <1>6, <1>9, <1>10 DEF A, B, served

\* What a unit is made of.
LEMMA UnitFields ==
    ASSUME NEW type, NEW n, NEW m, NEW cands, NEW lines, NEW files
    PROVE  LET u == Unit(type, n, m, cands, lines, files)
           IN /\ DOMAIN u = {"id", "type", "phase", "cands", "lines", "files"}
              /\ u.type = type /\ u.cands = cands /\ u.lines = lines /\ u.files = files /\ u.id = <<type, n, m>>
BY DEF Unit

\* Each file whose text is served is read by one unit.
LEMMA AttachmentsAreWhole ==
    ASSUME NEW e, IsEstate(e), NEW w, NEW c, NEW g
    PROVE  /\ \A u \in AttUnits(e, w, c, g) :
                u.type = Att /\ u.cands = {} /\ u.lines = {} /\ u.files \subseteq Served(e, w, c)
           /\ \A f \in Served(e, w, c) : \E u \in AttUnits(e, w, c, g) : f \in u.files
           /\ \A u, v \in AttUnits(e, w, c, g) : u.files \cap v.files # {} => u = v
<1> DEFINE A == PhotoGroups(e, w, c, g)
           B == OtherTexts(e, w, c)
           a == InGroups(A)
           b == InGroups(B)
           order == AttachmentGroups(e, w, c, g)
<1>1. /\ IsFiniteSet(A) /\ IsFiniteSet(B) /\ Apart(A) /\ Apart(B)
      /\ (UNION A) \cap (UNION B) = {} /\ (UNION A) \cup (UNION B) = Served(e, w, c)
  BY GroupsAreApart
<1>2. order = a \o b
  BY Zenon DEF AttachmentGroups, InGroups, GroupAt, PhotoGroups, OtherTexts
<1> HIDE DEF A, B
<1>3. /\ a \in Seq(A) /\ Len(a) = Cardinality(A) /\ Cardinality(A) \in Nat
      /\ \A h \in A : \E n \in 1..Cardinality(A) : a[n] = h
      /\ \A n \in 1..Cardinality(A) : a[n] \in A
      /\ \A m, n \in 1..Cardinality(A) : a[m] = a[n] => m = n
  BY <1>1, InGroupsParts
<1>4. /\ b \in Seq(B) /\ Len(b) = Cardinality(B) /\ Cardinality(B) \in Nat
      /\ \A h \in B : \E n \in 1..Cardinality(B) : b[n] = h
      /\ \A n \in 1..Cardinality(B) : b[n] \in B
      /\ \A m, n \in 1..Cardinality(B) : b[m] = b[n] => m = n
  BY <1>1, InGroupsParts
<1> HIDE DEF a, b, order
<1> DEFINE J == Cardinality(A)
           K == Cardinality(B)
<1>5. /\ DOMAIN order = 1..(J + K) /\ \A n \in 1..J : order[n] = a[n]
      /\ \A n \in 1..K : order[J + n] = b[n]
  <2>1. DOMAIN a = 1..J /\ DOMAIN b = 1..K /\ J \in Nat /\ K \in Nat /\ Len(a) = J /\ Len(b) = K
    BY <1>3, <1>4
  <2>2. a \in Seq(A) /\ b \in Seq(B)
    BY <1>3, <1>4
  <2> HIDE DEF J, K
  <2>3. DOMAIN (a \o b) = 1..(J + K)
    BY <2>1, <2>2
  <2>4. \A n \in 1..J : (a \o b)[n] = a[n]
    BY <2>1, <2>2
  <2>5. \A n \in 1..K : (a \o b)[J + n] = b[n]
    BY <2>1, <2>2
  <2> QED  BY <1>2, <2>3, <2>4, <2>5
<1> HIDE DEF J, K
<1>6. J \in Nat /\ K \in Nat
  BY <1>3, <1>4 DEF J, K
<1>7. ASSUME NEW n \in DOMAIN order
      PROVE  \/ n \in 1..J /\ order[n] = a[n] /\ order[n] \in A
             \/ n - J \in 1..K /\ n = J + (n - J) /\ order[n] = b[n - J] /\ order[n] \in B
  <2>1. CASE n \in 1..J
    BY <1>3, <1>5, <2>1 DEF J
  <2>2. CASE n \notin 1..J
    <3>1. n - J \in 1..K /\ n = J + (n - J)
      BY <1>5, <1>6, <2>2
    <3>2. order[n] = b[n - J]
      BY <1>5, <3>1
    <3> QED  BY <1>4, <3>1, <3>2 DEF K
  <2> QED  BY <2>1, <2>2
<1>8. ASSUME NEW m \in DOMAIN order, NEW n \in DOMAIN order, order[m] \cap order[n] # {} PROVE m = n
  <2>1. CASE order[m] \in A /\ order[n] \in A
    <3>1. order[m] \notin B /\ order[n] \notin B
      BY <1>1, <1>8, <2>1
    <3>2. m \in 1..J /\ n \in 1..J /\ order[m] = a[m] /\ order[n] = a[n]
      BY <1>7, <3>1
    <3>3. order[m] = order[n]
      BY <1>1, <1>8, <2>1 DEF Apart
    <3> QED  BY <1>3, <3>2, <3>3 DEF J
  <2>2. CASE order[m] \in B /\ order[n] \in B
    <3>1. order[m] \notin A /\ order[n] \notin A
      BY <1>1, <1>8, <2>2
    <3>2. m - J \in 1..K /\ n - J \in 1..K /\ order[m] = b[m - J] /\ order[n] = b[n - J]
          /\ m = J + (m - J) /\ n = J + (n - J)
      BY <1>7, <3>1
    <3>3. order[m] = order[n]
      BY <1>1, <1>8, <2>2 DEF Apart
    <3>4. m - J = n - J
      BY <1>4, <3>2, <3>3 DEF K
    <3> QED  BY <3>2, <3>4
  <2>3. ~ (order[m] \in A /\ order[n] \in B) /\ ~ (order[m] \in B /\ order[n] \in A)
    BY <1>1, <1>8
  <2> QED  BY <1>7, <2>1, <2>2, <2>3
<1>9. AttUnits(e, w, c, g) = {Unit(Att, n, 0, {}, {}, order[n]) : n \in DOMAIN order}
  BY DEF AttUnits, order
<1>10. \A n : LET u == Unit(Att, n, 0, {}, {}, order[n])
              IN u.type = Att /\ u.cands = {} /\ u.lines = {} /\ u.files = order[n]
  BY UnitFields
<1>11. ASSUME NEW u \in AttUnits(e, w, c, g)
       PROVE  u.type = Att /\ u.cands = {} /\ u.lines = {} /\ u.files \subseteq Served(e, w, c)
  <2>1. PICK n \in DOMAIN order : u = Unit(Att, n, 0, {}, {}, order[n])
    BY <1>9
  <2>2. order[n] \subseteq Served(e, w, c)
    BY <1>1, <1>7
  <2> QED  BY <1>10, <2>1, <2>2
<1>12. ASSUME NEW f \in Served(e, w, c) PROVE \E u \in AttUnits(e, w, c, g) : f \in u.files
  <2>1. \E n \in DOMAIN order : f \in order[n]
    <3>1. CASE f \in UNION A
      <4>1. PICK h \in A : f \in h
        BY <3>1
      <4>2. PICK n \in 1..J : a[n] = h
        BY <1>3 DEF J
      <4>3. n \in DOMAIN order /\ order[n] = h
        BY <1>5, <1>6, <4>2
      <4> QED  BY <4>1, <4>3
    <3>2. CASE f \in UNION B
      <4>1. PICK h \in B : f \in h
        BY <3>2
      <4>2. PICK n \in 1..K : b[n] = h
        BY <1>4 DEF K
      <4>3. J + n \in DOMAIN order /\ order[J + n] = h
        BY <1>5, <1>6, <4>2
      <4> QED  BY <4>1, <4>3
    <3> QED  BY <1>1, <3>1, <3>2
  <2>2. PICK n \in DOMAIN order : f \in order[n]
    BY <2>1
  <2> QED  BY <1>9, <1>10, <2>2
<1>13. ASSUME NEW u \in AttUnits(e, w, c, g), NEW v \in AttUnits(e, w, c, g), u.files \cap v.files # {} PROVE u = v
  <2>1. PICK m \in DOMAIN order : u = Unit(Att, m, 0, {}, {}, order[m])
    BY <1>9
  <2>2. PICK n \in DOMAIN order : v = Unit(Att, n, 0, {}, {}, order[n])
    BY <1>9
  <2>3. order[m] \cap order[n] # {}
    BY <1>10, <1>13, <2>1, <2>2
  <2> QED  BY <1>8, <2>1, <2>2, <2>3
<1> QED  BY <1>11, <1>12, <1>13

\* What a run plans is what it has: the files are those of the estate, and each
\* text and the digest beside it agree unless a conversion was torn between them
\* or a file was saved while it was being converted.
Crossed(e, l) == Spent(e, l, "torn") \/ Spent(e, l, "crossed")
CacheParts(e, l, w, c) ==
    /\ DOMAIN w = DOMAIN e.files
    /\ DOMAIN c = {e.files[f].side : f \in DOMAIN e.files}
    /\ Crossed(e, l) \/ \A s \in DOMAIN c : c[s].text = c[s].digest
\* Every file of the plan is shown, is named as unread, or need not be read.
PlanShows(e, l, p) ==
    p.made =>
        \A f \in DOMAIN p.of :
            \/ p.of[f] = NoText \/ e.files[f].kind = "plain" \/ f \in p.unread
            \/ f \in DOMAIN p.shown /\ p.shown[f] = p.of[f]
            \/ Crossed(e, l)
ReadsAsItIs == CacheParts(estate, left, work, cache) /\ PlanShows(estate, left, plan)

LEMMA ReadsAsItIsInit == Init => ReadsAsItIs
<1> SUFFICES ASSUME Init PROVE ReadsAsItIs
  OBVIOUS
<1>1. IsEstate(estate)
  BY EstatesAssumption DEF Init
<1>2. DOMAIN work = DOMAIN estate.files
  BY <1>1 DEF Init, IsEstate
<1>3. /\ DOMAIN cache = {estate.files[f].side : f \in DOMAIN estate.files}
      /\ \A s \in DOMAIN cache : cache[s].text = cache[s].digest
  BY DEF Init
<1>4. ~ plan.made
  BY DEF Init, NoPlan
<1> QED  BY <1>2, <1>3, <1>4 DEF ReadsAsItIs, CacheParts, PlanShows

\* A plan made now shows what the files hold now.
LEMMA PlanNowShows ==
    ASSUME NEW e, IsEstate(e), NEW l, NEW w, NEW c, NEW g, CacheParts(e, l, w, c), NEW p,
           p.of = w, p.unread = Plan(e, w, c, g).unread, p.shown = Plan(e, w, c, g).shown
    PROVE  PlanShows(e, l, p)
<1> SUFFICES ASSUME NEW f \in DOMAIN w, w[f] # NoText, e.files[f].kind # "plain", f \notin p.unread,
                    ~ Crossed(e, l)
             PROVE  f \in DOMAIN p.shown /\ p.shown[f] = w[f]
  BY DEF PlanShows
<1>1. f \in DOMAIN e.files /\ f \in Present(e, w)
  BY DEF CacheParts, Present
<1>2. f \in Served(e, w, c)
  <2>1. p.unread = Unread(e, w, c)
    BY DEF Plan
  <2> QED  BY <1>1, <2>1 DEF Unread
<1>3. ~ NeedsConversion(w, c, e.files[f].side, f)
  BY <1>2 DEF Served
<1>4. c[e.files[f].side].text = w[f]
  <2>1. e.files[f].side \in DOMAIN c
    BY <1>1 DEF CacheParts
  <2> QED  BY <1>3, <2>1 DEF CacheParts, NeedsConversion
<1>5. PICK u \in AttUnits(e, w, c, g) : f \in u.files
  BY <1>2, AttachmentsAreWhole
<1>6. p.shown = [h \in UNION {v.files : v \in PlannedUnits(e, w, c, g)} |-> c[e.files[h].side].text]
  BY DEF Plan
<1>7. u \in PlannedUnits(e, w, c, g)
  BY DEF PlannedUnits
<1> QED  BY <1>4, <1>5, <1>6, <1>7

LEMMA ReadsAsItIsNext == BaseInv /\ ReadsAsItIs /\ [Next]_vars => ReadsAsItIs'
<1> SUFFICES ASSUME BaseInv, ReadsAsItIs, [Next]_vars PROVE ReadsAsItIs'
  OBVIOUS
<1>0. IsEstate(estate) /\ CacheParts(estate, left, work, cache) /\ PlanShows(estate, left, plan)
  BY EstatesAssumption DEF BaseInv, ReadsAsItIs
<1>1. ASSUME left' = left \/ \E what \in Bounds : Spends(what)
      PROVE  Crossed(estate, left) => Crossed(estate, left')
  BY <1>1, SpendsStays DEF Bounds, Crossed
\* What leaves the files, their texts and the plan alone.
<1>2. ASSUME UNCHANGED <<estate, work, cache, plan>>, left' = left \/ \E what \in Bounds : Spends(what)
      PROVE  ReadsAsItIs'
  <2>1. CacheParts(estate, left', work, cache) /\ PlanShows(estate, left', plan)
    BY <1>0, <1>1, <1>2 DEF CacheParts, PlanShows
  <2> QED  BY <1>2, <2>1 DEF ReadsAsItIs
<1>3. ASSUME NEW f \in DOMAIN work, Convert(f) PROVE ReadsAsItIs'
  <2> DEFINE s == estate.files[f].side
  <2>1. /\ UNCHANGED <<estate, work, plan, left>>
        /\ cache' = [cache EXCEPT ![s] = [text |-> work[f], digest |-> work[f]]]
    BY <1>3 DEF Convert
  <2> HIDE DEF s
  <2>2. DOMAIN cache' = DOMAIN cache
        /\ \A t \in DOMAIN cache : cache'[t] = IF t = s THEN [text |-> work[f], digest |-> work[f]] ELSE cache[t]
    BY <2>1
  <2>3. CacheParts(estate, left, work, cache')
    BY <1>0, <2>2 DEF CacheParts
  <2> QED  BY <1>0, <2>1, <2>3 DEF ReadsAsItIs
<1>4. ASSUME NEW f \in DOMAIN work, ConvertTorn(f) \/ \E c \in estate.contents : ConvertCrossed(f, c)
      PROVE  ReadsAsItIs'
  <2>1. /\ \E what \in {"torn", "crossed"} : Spends(what)
        /\ UNCHANGED <<estate, plan>> /\ DOMAIN work' = DOMAIN work /\ DOMAIN cache' = DOMAIN cache
    BY <1>4 DEF ConvertTorn, ConvertCrossed
  <2>2. Crossed(estate, left')
    BY <2>1, SpendsParts DEF Bounds, Crossed
  <2>3. CacheParts(estate, left', work', cache') /\ PlanShows(estate, left', plan)
    BY <1>0, <2>1, <2>2 DEF CacheParts, PlanShows
  <2> QED  BY <2>1, <2>3 DEF ReadsAsItIs
<1>5. ASSUME NEW f \in DOMAIN work, NEW c \in estate.contents, Edit(f, c) PROVE ReadsAsItIs'
  <2>1. UNCHANGED <<estate, cache, plan>> /\ DOMAIN work' = DOMAIN work /\ Spends("edits") /\ "edits" \in Bounds
    BY <1>5 DEF Edit, Bounds
  <2>2. CacheParts(estate, left', work', cache) /\ PlanShows(estate, left', plan)
    BY <1>0, <1>1, <2>1 DEF CacheParts, PlanShows
  <2> QED  BY <2>1, <2>2 DEF ReadsAsItIs
<1>6. ASSUME NEW g \in estate.groupings, GroupPhotos(g) PROVE ReadsAsItIs'
  BY <1>2, <1>6 DEF GroupPhotos
<1>7. ASSUME NEW anyway \in BOOLEAN, Build(anyway) PROVE ReadsAsItIs'
  <2>1. /\ Spends("builds") /\ "builds" \in Bounds /\ UNCHANGED <<estate, work, cache>>
        /\ plan' = plan \/ Replanned
    BY <1>7, BuildParts DEF Files, Bounds
  <2>2. CASE plan' = plan
    BY <1>2, <2>1, <2>2
  <2>3. CASE Replanned
    <3>1. CacheParts(estate, left', work, cache)
      BY <1>0, <1>1, <2>1 DEF CacheParts
    <3>2. /\ plan'.of = work /\ plan'.unread = Plan(estate, work, cache, groups).unread
          /\ plan'.shown = Plan(estate, work, cache, groups).shown
      BY <2>3 DEF Replanned
    <3>3. PlanShows(estate, left', plan')
      BY <1>0, <3>1, <3>2, PlanNowShows
    <3> QED  BY <2>1, <3>1, <3>3 DEF ReadsAsItIs
  <2> QED  BY <2>1, <2>2, <2>3
<1>8. ASSUME NEW reached \in SUBSET DOMAIN told, Poll(reached) PROVE ReadsAsItIs'
  <2>1. left' = left \/ Spends("faults")
    BY <1>8 DEF Poll
  <2> QED  BY <1>2, <1>8, <2>1 DEF Poll, Files, Bounds
<1>9. ASSUME NEW u \in asked, Answers(u) \/ \E half \in BOOLEAN : Dies(u, half) PROVE ReadsAsItIs'
  BY <1>2, <1>9 DEF Answers, Dies, Files, Bounds
<1>10. ASSUME NEW r \in estate.reviews, ReviewerWrites(r) PROVE ReadsAsItIs'
  BY <1>2, <1>10 DEF ReviewerWrites, Files
<1>11. CASE DigestStep
  BY <1>2, <1>11 DEF DigestStep, Files
<1>12. CASE Assemble
  BY <1>2, <1>12 DEF Assemble, Files
<1>13. CASE Apply
  BY <1>2, <1>13 DEF Apply, Files
<1>14. ASSUME NEW id \in store, StoreLoses(id) PROVE ReadsAsItIs'
  BY <1>2, <1>14 DEF StoreLoses, Files, Bounds
<1>15. CASE UNCHANGED vars
  BY <1>2, <1>15 DEF vars, Files
<1> QED
  BY <1>3, <1>4, <1>5, <1>6, <1>7, <1>8, <1>9, <1>10, <1>11, <1>12, <1>13, <1>14, <1>15 DEF Next

\* Every file of the department is shown to a unit as it stood when the run was
\* planned, or named to the owner as unread, whatever was edited, converted or
\* grouped before, unless a conversion stopped between a text and its digest, or
\* a file was saved again while it was being converted (_attachment_state,
\* plan_units).
THEOREM ShownAlwaysAsItIs == Spec => []ShownAsItIs
<1>1. ReadsAsItIs => ShownAsItIs
  BY DEF ReadsAsItIs, PlanShows, ShownAsItIs, Happened, Spent, Crossed
<1>2. Spec => []ReadsAsItIs
  BY BaseAlways, ReadsAsItIsInit, ReadsAsItIsNext, PTL DEF Spec
<1> QED  BY <1>1, <1>2, PTL

-----------------------------------------------------------------------------
(* Fewer decisions, fewer entries.                                         *)

\* A set has no more values under a function than members.
LEMMA FewerValues ==
    ASSUME NEW S, IsFiniteSet(S), NEW f
    PROVE  /\ Cardinality({f[x] : x \in S}) \in Nat
           /\ Cardinality({f[x] : x \in S}) <= Cardinality(S)
<1> DEFINE T == {f[x] : x \in S}
           g == [x \in S |-> f[x]]
<1>1. g \in Surjection(S, T)
  BY DEF Surjection
<1>2. IsFiniteSet(T) /\ Cardinality(T) <= Cardinality(S)
  <2> HIDE DEF g, T
  <2> QED  BY <1>1, FS_Surjection
<1>3. Cardinality(T) \in Nat
  <2> HIDE DEF T
  <2> QED  BY <1>2, FS_CardinalityType
<1> QED  BY <1>2, <1>3

\* The same entry, as far as anything else is held back for it.
Alike(x, y) == y.id = x.id /\ y.kind = x.kind /\ y.key = x.key /\ y.refs = x.refs
Linked(x, L) == x.link[1] \in {"S", "N"} => x.link \in Ids(L)
\* The entries nothing is missing for.
Upright(run, L) ==
    {x \in L : Handles(x) \subseteq Ids(L) /\ \A r \in x.refs : r[1] = "F" => r \in run.store}

\* A round leaves what nothing is missing for, and cuts its link to what goes.
LEMMA RoundLeaves ==
    ASSUME NEW run, NEW acc, AreBare(acc.live)
    PROVE  LET new == ResolveRound(run, acc).live
               up == Upright(run, acc.live)
           IN /\ AreBare(new)
              /\ \A x \in up : \E y \in new :
                     Alike(x, y) /\ y.link = IF x.link \in Ids(acc.live \ up) THEN NoId ELSE x.link
              /\ \A y \in new : \E x \in up : Alike(x, y)
              /\ IsFiniteSet(up) /\ Cardinality(new) = Cardinality(up)
              /\ up = acc.live => Upright(run, new) = new
<1>0. PICK new, up : new = ResolveRound(run, acc).live /\ up = Upright(run, acc.live)
  OBVIOUS
<1> DEFINE have == Ids(acc.live)
           waits(x) == Handles(x) \ have # {}
           unknown(x) == \E r \in x.refs : r[1] = "F" /\ r \notin run.store
           back == {x \in acc.live : waits(x) \/ unknown(x)}
           gone == Ids(back)
           rest == acc.live \ back
           f == [x \in rest |-> [x EXCEPT !.link = IF @ \in gone THEN NoId ELSE @]]
<1>1. new = {f[x] : x \in rest}
  BY <1>0 DEF ResolveRound, Unlinked
<1>2. rest = up
  BY <1>0 DEF Upright
<1>3. back = acc.live \ up
  BY <1>2
<1>4. \A x \in rest : /\ Alike(x, f[x]) /\ Name(f[x]) = Name(x)
                      /\ f[x].link = IF x.link \in gone THEN NoId ELSE x.link
  <2> SUFFICES ASSUME NEW x \in rest
               PROVE  /\ Alike(x, f[x]) /\ Name(f[x]) = Name(x)
                      /\ f[x].link = IF x.link \in gone THEN NoId ELSE x.link
    OBVIOUS
  <2>1. DOMAIN x = EntryFields
    BY DEF AreBare, AreEntries
  <2>2. f[x] = [x EXCEPT !.link = IF x.link \in gone THEN NoId ELSE x.link]
    OBVIOUS
  <2> HIDE DEF f, gone, rest
  <2> QED  BY <2>1, <2>2 DEF Alike, Name, EntryFields
<1> HIDE DEF f, rest, back
<1>5. AreBare(new)
  <2>1. Follow(acc, {})
    BY DEF Follow
  <2>2. Follow(ResolveRound(run, acc), {})
    BY <2>1, RoundFollows
  <2> QED  BY <1>0, <2>2 DEF Follow
<1>6. up \subseteq acc.live /\ AreEntries(up) /\ IsFiniteSet(up)
  <2>1. up \subseteq acc.live
    BY <1>0 DEF Upright
  <2> QED  BY <2>1, FewerEntries DEF AreBare, AreEntries
<1>7. \A x, y \in up : f[x] = f[y] => x = y
  BY <1>2, <1>4, <1>6 DEF AreEntries
<1>8. Cardinality(new) = Cardinality(up)
  BY <1>1, <1>2, <1>6, <1>7, AsManyValues
<1>10. \A x \in up : f[x] \in new
  BY <1>1, <1>2
<1>11. \A y \in new : \E x \in up : y = f[x]
  BY <1>1, <1>2
<1>12. ASSUME up = acc.live PROVE Upright(run, new) = new
  <2>1. gone = {}
    BY <1>3, <1>12 DEF Ids
  <2>2. Ids(acc.live) \subseteq Ids(new)
    BY <1>2, <1>4, <1>10, <1>12 DEF Ids, Alike
  <2>3. ASSUME NEW y \in new
        PROVE  Handles(y) \subseteq Ids(new) /\ \A r \in y.refs : r[1] = "F" => r \in run.store
    <3>1. PICK x \in up : y = f[x]
      BY <1>11
    <3>2. y.refs = x.refs /\ y.link = x.link
      BY <1>2, <1>4, <2>1, <3>1 DEF Alike
    <3>3. Handles(x) \subseteq Ids(acc.live) /\ \A r \in x.refs : r[1] = "F" => r \in run.store
      BY <1>0 DEF Upright
    <3> QED  BY <2>2, <3>2, <3>3 DEF Handles
  <2> QED  BY <2>3 DEF Upright
<1>13. ASSUME NEW x \in up
       PROVE  \E y \in new : Alike(x, y) /\ y.link = IF x.link \in Ids(acc.live \ up) THEN NoId ELSE x.link
  BY <1>2, <1>3, <1>4, <1>10
<1>14. \A y \in new : \E x \in up : Alike(x, y)
  BY <1>2, <1>4, <1>11
<1> QED  BY <1>0, <1>5, <1>6, <1>8, <1>12, <1>13, <1>14, Zenon

\* What goes goes within as many rounds as there were entries.
LEMMA RoundsEnd ==
    ASSUME NEW run, NEW kept, AreBare(kept), NEW k, k = Cardinality(kept), NEW f, Rounds(f, run, kept, k)
    PROVE  AreBare(f[k].live) /\ Upright(run, f[k].live) = f[k].live
<1>0. k \in Nat /\ IsFiniteSet(kept)
  BY FS_CardinalityType DEF AreBare, AreEntries
<1>1. \A n \in 0..k : f[n] = IF n = 0 THEN [live |-> CutUnknown(run, kept), held |-> {}]
                             ELSE ResolveRound(run, f[n - 1])
  BY DEF Rounds
<1> DEFINE done(L) == Upright(run, L) = L
           S == {n \in Nat : /\ AreBare(f[n].live)
                             /\ done(f[n].live) \/ Cardinality(f[n].live) + n <= k}
<1>2. 0 \in S
  <2>1. f[0].live = CutUnknown(run, kept)
    BY <1>0, <1>1
  <2>2. AreBare(f[0].live)
    BY <2>1, CutParts
  <2>3. Cardinality(f[0].live) \in Nat /\ Cardinality(f[0].live) <= k
    <3> DEFINE unknown(x) == {r \in x.refs : r[1] = "F" /\ r \notin run.store}
               all(x) == x.kind = "note" /\ x.refs # {} /\ x.refs = unknown(x)
               g == [x \in kept |-> IF all(x) THEN x ELSE [x EXCEPT !.refs = @ \ unknown(x)]]
    <3>1. CutUnknown(run, kept) = {g[x] : x \in kept}
      BY DEF CutUnknown
    <3> HIDE DEF g
    <3> QED  BY <1>0, <2>1, <3>1, FewerValues
  <2> QED  BY <1>0, <2>2, <2>3
<1>3. \A n \in 1..k : n - 1 \in S => n \in S
  <2> SUFFICES ASSUME NEW n \in 1..k, n - 1 \in S PROVE n \in S
    OBVIOUS
  <2> DEFINE old == f[n - 1]
             up == Upright(run, old.live)
             new == ResolveRound(run, old).live
  <2>1. f[n] = ResolveRound(run, old) /\ n \in Nat /\ n - 1 \in Nat
    BY <1>0, <1>1
  <2>2. AreBare(old.live) /\ (done(old.live) \/ Cardinality(old.live) + (n - 1) <= k)
    OBVIOUS
  <2>3. up \subseteq old.live
    BY DEF Upright
  <2>4. /\ AreBare(new) /\ IsFiniteSet(up) /\ Cardinality(new) = Cardinality(up)
        /\ up = old.live => done(new)
    <3>1. AreBare(old.live)
      BY <2>2
    <3> HIDE DEF old
    <3> QED  BY <3>1, RoundLeaves, Zenon
  <2>5. CASE up = old.live
    BY <2>1, <2>2, <2>4, <2>5
  <2>6. CASE up # old.live
    <3>1. Cardinality(up) < Cardinality(old.live) /\ Cardinality(up) \in Nat /\ Cardinality(old.live) \in Nat
      <4>1. IsFiniteSet(old.live)
        BY <2>2 DEF AreBare, AreEntries
      <4> HIDE DEF up, old
      <4> QED  BY <2>3, <2>6, <4>1, FS_Subset, FS_CardinalityType
    <3>2. Cardinality(old.live) + (n - 1) <= k
      BY <2>2, <2>6
    <3> HIDE DEF up, old, new, S
    <3>3. Cardinality(new) + n <= k
      BY <1>0, <2>1, <2>4, <3>1, <3>2
    <3> QED  BY <2>1, <2>4, <3>3 DEF S, new
  <2> QED  BY <2>5, <2>6
<1>4. 0..k \subseteq S
  <2> HIDE DEF S
  <2>1. S \in SUBSET Nat
    BY DEF S
  <2> QED  BY <1>0, <1>2, <1>3, <2>1, UpTo
<1>5. k \in S
  BY <1>0, <1>4
<1>6. CASE Cardinality(f[k].live) + k <= k
  <2>1. IsFiniteSet(f[k].live)
    BY <1>5 DEF AreBare, AreEntries
  <2>2. Cardinality(f[k].live) \in Nat
    BY <2>1, FS_CardinalityType
  <2>3. Cardinality(f[k].live) = 0
    BY <1>0, <1>6, <2>2
  <2>4. f[k].live = {}
    BY <2>1, <2>3, FS_EmptySet
  <2> QED  BY <1>5, <2>4 DEF Upright
<1> QED  BY <1>5, <1>6

LEMMA AlikeOn ==
    ASSUME NEW x, NEW y, NEW z, Alike(x, y), Alike(y, z)
    PROVE  Alike(x, z)
BY DEF Alike

\* What is live was live at first, and missed nothing then.
LEMMA RoundsTrace ==
    ASSUME NEW run, NEW kept, AreBare(kept), NEW k \in Nat, NEW f, Rounds(f, run, kept, k)
    PROVE  \A x \in f[k].live : \E z \in f[0].live :
              Alike(z, x) /\ (k # 0 => Handles(z) \subseteq Ids(f[0].live))
<1>1. \A n \in 0..k : f[n] = IF n = 0 THEN [live |-> CutUnknown(run, kept), held |-> {}]
                             ELSE ResolveRound(run, f[n - 1])
  BY DEF Rounds
<1> DEFINE comes(n, x) == \E z \in f[0].live : Alike(z, x) /\ (n # 0 => Handles(z) \subseteq Ids(f[0].live))
           S == {n \in Nat : AreBare(f[n].live) /\ \A x \in f[n].live : comes(n, x)}
<1>2. 0 \in S
  <2>1. f[0].live = CutUnknown(run, kept)
    BY <1>1
  <2>2. AreBare(f[0].live)
    BY <2>1, CutParts
  <2> QED  BY <2>2 DEF Alike
<1>3. \A n \in 1..k : n - 1 \in S => n \in S
  <2> SUFFICES ASSUME NEW n \in 1..k, n - 1 \in S PROVE n \in S
    OBVIOUS
  <2> DEFINE old == f[n - 1]
             up == Upright(run, old.live)
  <2>1. f[n] = ResolveRound(run, old) /\ n \in Nat /\ n # 0
    BY <1>1
  <2>2. AreBare(old.live) /\ \A x \in old.live : comes(n - 1, x)
    OBVIOUS
  <2>3. AreBare(f[n].live) /\ \A x \in f[n].live : \E y \in up : Alike(y, x)
    <3> HIDE DEF old
    <3> QED  BY <2>1, <2>2, RoundLeaves, Zenon
  <2>4. ASSUME NEW x \in f[n].live PROVE comes(n, x)
    <3>1. PICK y \in up : Alike(y, x)
      BY <2>3
    <3>2. y \in old.live /\ Handles(y) \subseteq Ids(old.live)
      BY DEF Upright
    <3>3. CASE n - 1 = 0
      BY <3>1, <3>2, <3>3
    <3>4. CASE n - 1 # 0
      <4>1. PICK z \in f[0].live : Alike(z, y) /\ Handles(z) \subseteq Ids(f[0].live)
        BY <2>2, <3>2, <3>4
      <4> QED  BY <3>1, <4>1, AlikeOn
    <3> QED  BY <3>3, <3>4
  <2> HIDE DEF comes
  <2> QED  BY <2>1, <2>3, <2>4
<1>4. 0..k \subseteq S
  <2> HIDE DEF S
  <2>1. S \in SUBSET Nat
    BY DEF S
  <2> QED  BY <1>2, <1>3, <2>1, UpTo
<1>5. k \in 0..k
  OBVIOUS
<1> QED  BY <1>4, <1>5

\* A round keeps whatever is like an entry of a set in which nothing is missing.
Keeps(L, live) == \A x \in L : \E y \in live : Alike(x, y) /\ Linked(y, live)

LEMMA RoundKeeps ==
    ASSUME NEW run, NEW acc, AreBare(acc.live), NEW L, Upright(run, L) = L, Keeps(L, acc.live)
    PROVE  Keeps(L, ResolveRound(run, acc).live)
<1> DEFINE live == acc.live
<1>0. PICK new, up : new = ResolveRound(run, acc).live /\ up = Upright(run, live)
  OBVIOUS
<1>1. \A x \in up : \E y \in new :
         Alike(x, y) /\ y.link = IF x.link \in Ids(live \ up) THEN NoId ELSE x.link
  <2>1. \A x \in Upright(run, acc.live) : \E y \in ResolveRound(run, acc).live :
           Alike(x, y) /\ y.link = IF x.link \in Ids(acc.live \ Upright(run, acc.live)) THEN NoId ELSE x.link
    BY RoundLeaves, Zenon
  <2> QED  BY <1>0, <2>1
<1>2. Ids(L) \subseteq Ids(live)
  BY DEF Keeps, Ids, Alike
<1>3. up \subseteq live
  BY <1>0 DEF Upright
<1>4. ASSUME NEW x \in L
      PROVE  \E y \in new : Alike(x, y) /\ Linked(y, new)
  <2>1. PICK y \in live : Alike(x, y) /\ Linked(y, live)
    BY DEF Keeps
  <2>2. Handles(x) \subseteq Ids(L) /\ \A r \in x.refs : r[1] = "F" => r \in run.store
    BY DEF Upright
  <2>3. y \in up
    <3>1. \A r \in y.refs : r[1] = "F" => r \in run.store
      BY <2>1, <2>2 DEF Alike
    <3>2. ASSUME NEW r \in Handles(y) PROVE r \in Ids(live)
      <4>1. CASE r \in y.refs
        <5>1. r \in Handles(x)
          BY <2>1, <4>1 DEF Alike, Handles
        <5> QED  BY <1>2, <2>2, <5>1
      <4>2. CASE r = y.link
        BY <2>1, <4>2 DEF Linked, Handles
      <4> QED  BY <4>1, <4>2 DEF Handles
    <3> QED  BY <1>0, <3>1, <3>2 DEF Upright
  <2>4. PICK z \in new : Alike(y, z) /\ z.link = IF y.link \in Ids(live \ up) THEN NoId ELSE y.link
    BY <1>1, <2>3
  <2>5. Linked(z, new)
    <3> SUFFICES ASSUME z.link[1] \in {"S", "N"} PROVE z.link \in Ids(new)
      BY DEF Linked
    <3>1. z.link = y.link /\ y.link \notin Ids(live \ up)
      BY <2>4 DEF NoId
    <3>2. PICK w \in live : w.id = y.link
      BY <2>1, <3>1 DEF Linked, Ids
    <3>3. w \in up
      BY <3>1, <3>2 DEF Ids
    <3>4. PICK v \in new : Alike(w, v)
      BY <1>1, <3>3
    <3> QED  BY <3>1, <3>2, <3>4 DEF Ids, Alike
  <2>6. Alike(x, z)
    BY <2>1, <2>4, AlikeOn
  <2> QED  BY <2>5, <2>6
<1> QED  BY <1>0, <1>4 DEF Keeps

LEMMA RoundsKeep ==
    ASSUME NEW run, NEW kept, AreBare(kept), NEW k \in Nat, NEW f, Rounds(f, run, kept, k),
           NEW L, Upright(run, L) = L, Keeps(L, f[0].live)
    PROVE  Keeps(L, f[k].live)
<1>1. \A n \in 0..k : f[n] = IF n = 0 THEN [live |-> CutUnknown(run, kept), held |-> {}]
                             ELSE ResolveRound(run, f[n - 1])
  BY DEF Rounds
<1> DEFINE S == {n \in Nat : AreBare(f[n].live) /\ Keeps(L, f[n].live)}
<1>2. 0 \in S
  <2>1. f[0].live = CutUnknown(run, kept)
    BY <1>1
  <2>2. AreBare(f[0].live)
    BY <2>1, CutParts
  <2> QED  BY <2>2
<1>3. \A n \in 1..k : n - 1 \in S => n \in S
  <2> SUFFICES ASSUME NEW n \in 1..k, n - 1 \in S PROVE n \in S
    OBVIOUS
  <2> DEFINE old == f[n - 1]
  <2>1. f[n] = ResolveRound(run, old) /\ n \in Nat
    BY <1>1
  <2>2. AreBare(old.live) /\ Keeps(L, old.live)
    OBVIOUS
  <2> HIDE DEF old
  <2>3. AreBare(f[n].live)
    BY <2>1, <2>2, RoundLeaves, Zenon
  <2>4. Keeps(L, f[n].live)
    BY <2>1, <2>2, RoundKeeps
  <2> QED  BY <2>1, <2>3, <2>4
<1>4. 0..k \subseteq S
  <2> HIDE DEF S
  <2>1. S \in SUBSET Nat
    BY DEF S
  <2> QED  BY <1>2, <1>3, <2>1, UpTo
<1>5. k \in 0..k
  OBVIOUS
<1> QED  BY <1>4, <1>5

\* A review that keeps nothing leaves fewer decisions standing, and none about c.
Thins(by, laid, c) ==
    /\ DOMAIN laid = DOMAIN by
    /\ \A d \in DOMAIN by : laid[d].act \in {"keep", "split"} => laid[d] = by[d] /\ d # c

LEMMA LaidThins ==
    ASSUME NEW draft, NEW by, AreChoices(by), NEW votes, IsReviewOf(votes), NEW applied,
           NEW n \in 1..Len(votes), n \in applied,
           \A m \in 1..Len(votes) : votes[m].act \in {"drop", "merge", "fix"}, votes[n].act = "drop"
    PROVE  Thins(by, Laid(draft, by, votes, applied), HitOf(draft, votes[n].on).id)
<1> DEFINE k == Len(votes)
           c == HitOf(draft, votes[n].on).id
           f == CHOOSE g : Follows(g, draft, by, votes, applied, k)
           kept(d) == d.act \in {"keep", "split"}
<1>0. k \in Nat /\ n \in Nat
  BY DEF IsReviewOf
<1>1. Follows(f, draft, by, votes, applied, k)
  BY <1>0, FollowsExists
<1>2. Laid(draft, by, votes, applied) = f[k]
  BY Zenon DEF Laid, Follows
<1> HIDE DEF f
<1>3. \A m \in 0..k : f[m] = IF m = 0 THEN by
                             ELSE IF m \in applied THEN Reviewed(draft, f[m - 1], votes[m]) ELSE f[m - 1]
  BY <1>1 DEF Follows
<1> DEFINE good(m) == /\ AreChoices(f[m]) /\ DOMAIN f[m] = DOMAIN by
                      /\ \A d \in DOMAIN by : kept(f[m][d]) => f[m][d] = by[d] /\ (n <= m => d # c)
           S == {m \in Nat : good(m)}
<1> HIDE DEF c
<1>4. 0 \in S
  BY <1>0, <1>3
<1>5. \A m \in 1..k : m - 1 \in S => m \in S
  <2> SUFFICES ASSUME NEW m \in 1..k, m - 1 \in S PROVE m \in S
    OBVIOUS
  <2>0. m \in 0..k /\ m # 0 /\ m \in Nat /\ (n <= m /\ n # m => n <= m - 1)
    BY <1>0
  <2> DEFINE old == f[m - 1]
             new == f[m]
             v == votes[m]
  <2>1. AreChoices(old) /\ DOMAIN old = DOMAIN by
        /\ \A d \in DOMAIN by : kept(old[d]) => old[d] = by[d] /\ (n <= m - 1 => d # c)
    OBVIOUS
  <2>2. new = IF m \in applied THEN Reviewed(draft, old, v) ELSE old
    BY <1>3, <2>0
  <2>3. v.act \in {"drop", "merge", "fix"} /\ v.act \in Acts \cup {"fix"} /\ KeysGiven(v)
    BY DEF IsReviewOf
  <2> HIDE DEF old, new, v
  <2>4. AreChoices(new) /\ DOMAIN new = DOMAIN by
    BY <2>1, <2>2, <2>3, ReviewedAreChoices
  <2>5. CASE m \notin applied \/ v.act = "fix"
    <3>1. new = old
      BY <2>2, <2>5 DEF Reviewed
    <3>2. n # m
      BY <2>5 DEF v
    <3> QED  BY <2>0, <2>1, <2>4, <3>1, <3>2 DEF new
  <2>6. CASE m \in applied /\ v.act # "fix"
    <3> DEFINE a == HitOf(draft, v.on).id
               b == HitOf(draft, v.into).id
               laid(d) == LaidOver(d, v, b)
    <3>1. new = [old EXCEPT ![a] = laid(@)]
      BY <2>2, <2>6 DEF Reviewed
    <3>2. n = m => a = c
      BY DEF v, c
    <3> HIDE DEF a, b
    <3>3. \A d \in DOMAIN by : new[d] = IF d = a THEN laid(old[d]) ELSE old[d]
      BY <2>1, <3>1
    <3>4. \A d \in DOMAIN by : ~ kept(laid(old[d]))
      <4> SUFFICES ASSUME NEW d \in DOMAIN by PROVE laid(old[d]).act \notin {"keep", "split"}
        OBVIOUS
      <4> DEFINE o == old[d]
      <4>1. DOMAIN o = ChoiceFields
        BY <2>1 DEF AreChoices, IsChoice
      <4> HIDE DEF o
      <4>2. LaidOver(o, v, b).act = v.act
        BY <4>1 DEF LaidOver, ChoiceFields, DecisionFields
      <4> QED  BY <2>3, <2>6, <4>2 DEF o
    <3> HIDE DEF laid
    <3>5. ASSUME NEW d \in DOMAIN by, kept(new[d]) PROVE new[d] = by[d] /\ (n <= m => d # c)
      <4>1. d # a /\ new[d] = old[d]
        BY <3>3, <3>4, <3>5
      <4>2. old[d] = by[d] /\ (n <= m - 1 => d # c)
        BY <2>1, <3>5, <4>1
      <4> QED  BY <2>0, <3>2, <4>1, <4>2
    <3> QED  BY <2>0, <2>4, <3>5 DEF new
  <2> QED  BY <2>5, <2>6
<1>6. 0..k \subseteq S
  <2> HIDE DEF S
  <2>1. S \in SUBSET Nat
    BY DEF S
  <2> QED  BY <1>0, <1>4, <1>5, <2>1, UpTo
<1>7. k \in 0..k /\ n <= k
  BY <1>0
<1> QED  BY <1>2, <1>6, <1>7 DEF Thins, c

\* Each of these has one like it there, with the link it has.
Within(E, F) == \A x \in E : \E y \in F : Alike(x, y) /\ y.link = x.link

LEMMA KeptThins ==
    ASSUME NEW run, NEW by, NEW laid, NEW c, Thins(by, laid, c)
    PROVE  /\ Within(KeptEntries(run, laid), KeptEntries(run, by))
           /\ \A x \in KeptEntries(run, laid) : x.id # c
<1> SUFFICES ASSUME NEW x \in KeptEntries(run, laid)
             PROVE  x.id # c /\ \E y \in KeptEntries(run, by) : Alike(x, y) /\ y.link = x.link
  BY DEF Within
<1>1. PICK d \in DOMAIN laid : /\ laid[d].act \in {"keep", "split"} /\ Stands(run, laid, d)
                               /\ x \in {EntryOf(laid, d, n) : n \in Parts(laid[d])}
  BY DEF KeptEntries
<1>2. PICK n \in Parts(laid[d]) : x = EntryOf(laid, d, n)
  BY <1>1
<1>3. d \in DOMAIN by /\ laid[d] = by[d] /\ d # c
  BY <1>1 DEF Thins
<1> DEFINE y == EntryOf(by, d, n)
<1>4. /\ x.id = d /\ x.kind = laid[d].kind /\ x.key = laid[d].keys[n]
      /\ x.refs = laid[d].refs /\ x.link = laid[d].link
  BY <1>2 DEF EntryOf
<1>5. /\ y.id = d /\ y.kind = by[d].kind /\ y.key = by[d].keys[n]
      /\ y.refs = by[d].refs /\ y.link = by[d].link
  BY DEF EntryOf
<1>6. y \in KeptEntries(run, by)
  <2>1. Stands(run, by, d)
    BY <1>1 DEF Stands
  <2> HIDE DEF y
  <2>2. y \in {EntryOf(by, d, m) : m \in Parts(by[d])}
    BY <1>3 DEF y
  <2> QED  BY <1>1, <1>3, <2>1, <2>2 DEF KeptEntries
<1> HIDE DEF y
<1> QED  BY <1>3, <1>4, <1>5, <1>6 DEF Alike

\* What is cut is cut of both.
LEMMA CutWithin ==
    ASSUME NEW run, NEW E, AreBare(E), NEW F, AreBare(F), Within(E, F)
    PROVE  /\ Within(CutUnknown(run, E), CutUnknown(run, F))
           /\ \A x \in CutUnknown(run, E) : x.id \in Ids(E)
<1> DEFINE unknown(x) == {r \in x.refs : r[1] = "F" /\ r \notin run.store}
           all(x) == x.kind = "note" /\ x.refs # {} /\ x.refs = unknown(x)
           f(x) == IF all(x) THEN x ELSE [x EXCEPT !.refs = @ \ unknown(x)]
           refs(x) == IF all(x) THEN x.refs ELSE x.refs \ unknown(x)
<1>1. CutUnknown(run, E) = {f(x) : x \in E} /\ CutUnknown(run, F) = {f(x) : x \in F}
  BY DEF CutUnknown
<1>2. ASSUME NEW x, DOMAIN x = EntryFields
      PROVE  f(x).id = x.id /\ f(x).kind = x.kind /\ f(x).key = x.key /\ f(x).link = x.link /\ f(x).refs = refs(x)
  <2>1. CASE all(x)
    BY <2>1, Zenon
  <2>2. CASE ~ all(x)
    <3> DEFINE y == [x EXCEPT !.refs = x.refs \ unknown(x)]
    <3>1. f(x) = y /\ refs(x) = x.refs \ unknown(x)
      BY <2>2, Zenon
    <3>2. y.id = x.id /\ y.kind = x.kind /\ y.key = x.key /\ y.link = x.link /\ y.refs = x.refs \ unknown(x)
      <4> HIDE DEF unknown
      <4> QED  BY <1>2 DEF EntryFields
    <3> HIDE DEF f, refs, y
    <3> QED  BY <3>1, <3>2
  <2> QED  BY <2>1, <2>2
<1>3. \A x, y : x.kind = y.kind /\ x.refs = y.refs => refs(x) = refs(y)
  OBVIOUS
<1> HIDE DEF f, refs, all
<1>4. ASSUME NEW x \in E
      PROVE  f(x).id \in Ids(E) /\ \E y \in F : Alike(f(x), f(y)) /\ f(y).link = f(x).link
  <2>1. PICK y \in F : Alike(x, y) /\ y.link = x.link
    BY DEF Within
  <2>2. DOMAIN x = EntryFields /\ DOMAIN y = EntryFields
    BY DEF AreBare
  <2>3. refs(y) = refs(x)
    BY <1>3, <2>1 DEF Alike
  <2> QED  BY <1>2, <2>1, <2>2, <2>3 DEF Alike, Ids
<1> QED  BY <1>1, <1>4 DEF Within

\* The entries decisions come to are those still live after as many rounds as
\* were kept, but for where they point.
LEMMA BuiltIsLive ==
    ASSUME NEW run, NEW by, AreChoices(by)
    PROVE  \E k, f :
              /\ AreBare(KeptEntries(run, by)) /\ k \in Nat /\ k = Cardinality(KeptEntries(run, by))
              /\ Rounds(f, run, KeptEntries(run, by), k)
              /\ AreBare(f[k].live) /\ Upright(run, f[k].live) = f[k].live
              /\ AreLinked(Built(run, by).entries)
              /\ \A x \in f[k].live : \E y \in Built(run, by).entries : Stays(x, y)
              /\ \A y \in Built(run, by).entries : \E x \in f[k].live : Stays(x, y)
<1> DEFINE kept == KeptEntries(run, by)
           k == Cardinality(kept)
           f == CHOOSE g : Rounds(g, run, kept, k)
           b == Built(run, by)
<1>1. AreBare(kept)
  BY KeptParts
<1>2. k \in Nat
  <2>1. IsFiniteSet(kept)
    BY <1>1 DEF AreBare, AreEntries
  <2> HIDE DEF kept
  <2> QED  BY <2>1, FS_CardinalityType
<1>3. Rounds(f, run, kept, k)
  <2> HIDE DEF kept, k
  <2> QED  BY <1>2, RoundsExist
<1>4. b.entries = Resolved(run, f[k].live)
  BY Zenon DEF Built, Rounds
<1> HIDE DEF f, b
<1>5. AreBare(f[k].live) /\ Upright(run, f[k].live) = f[k].live
  <2> HIDE DEF kept
  <2> QED  BY <1>1, <1>3, RoundsEnd
<1>6. /\ AreLinked(b.entries)
      /\ \A x \in f[k].live : \E y \in b.entries : Stays(x, y)
      /\ \A y \in b.entries : \E x \in f[k].live : Stays(x, y)
  BY <1>4, <1>5, ResolvedParts
<1> HIDE DEF kept
<1> QED  BY <1>1, <1>2, <1>3, <1>5, <1>6, Zenon DEF kept, b

\* Fewer decisions come to fewer entries, and to none of the one taken away:
\* nothing that lands after the review had not landed before it.
LEMMA BuiltThins ==
    ASSUME NEW run, NEW by, AreChoices(by), NEW laid, AreChoices(laid), NEW c, Thins(by, laid, c)
    PROVE  \A x \in Built(run, laid).entries :
              x.id # c /\ \E y \in Built(run, by).entries : y.id = x.id /\ Address(y) = Address(x)
<1> DEFINE few == KeptEntries(run, laid)
           kept == KeptEntries(run, by)
           fewer == Built(run, laid).entries
           built == Built(run, by).entries
<1>1. PICK j, g :
         /\ AreBare(few) /\ j \in Nat /\ j = Cardinality(few) /\ Rounds(g, run, few, j)
         /\ AreBare(g[j].live) /\ Upright(run, g[j].live) = g[j].live
         /\ \A y \in fewer : \E x \in g[j].live : Stays(x, y)
  BY BuiltIsLive
<1>2. PICK k, f :
         /\ AreBare(kept) /\ k \in Nat /\ k = Cardinality(kept) /\ Rounds(f, run, kept, k)
         /\ \A x \in f[k].live : \E y \in built : Stays(x, y)
  BY BuiltIsLive
<1>3. Within(few, kept) /\ \A x \in few : x.id # c
  BY KeptThins
<1> HIDE DEF few, kept, fewer, built
<1>4. g[0].live = CutUnknown(run, few) /\ f[0].live = CutUnknown(run, kept)
  <2>1. 0 \in 0..j /\ 0 \in 0..k
    BY <1>1, <1>2
  <2> QED  BY <1>1, <1>2, <2>1 DEF Rounds
<1>5. Within(g[0].live, f[0].live) /\ \A x \in g[0].live : x.id # c
  BY <1>1, <1>2, <1>3, <1>4, CutWithin DEF Ids
<1>6. \A x \in g[j].live : \E z \in g[0].live : Alike(z, x) /\ (j # 0 => Handles(z) \subseteq Ids(g[0].live))
  BY <1>1, RoundsTrace
<1>7. ASSUME NEW x \in g[j].live
      PROVE  x.id # c /\ \E y \in f[0].live : Alike(x, y) /\ Linked(y, f[0].live)
  <2>1. PICK z \in g[0].live : Alike(z, x) /\ (j # 0 => Handles(z) \subseteq Ids(g[0].live))
    BY <1>6
  <2>2. PICK y \in f[0].live : Alike(z, y) /\ y.link = z.link
    BY <1>5 DEF Within
  <2>3. j # 0
    <3> SUFFICES ASSUME j = 0 PROVE FALSE
      OBVIOUS
    <3>1. few = {}
      BY <1>1, FS_EmptySet DEF AreBare, AreEntries
    <3> QED  BY <1>4, <2>1, <3>1 DEF CutUnknown
  <2>4. Ids(g[0].live) \subseteq Ids(f[0].live)
    BY <1>5 DEF Within, Ids, Alike
  <2>5. Linked(y, f[0].live)
    BY <2>1, <2>2, <2>3, <2>4 DEF Linked, Handles
  <2>6. x.id # c /\ Alike(x, y)
    BY <1>5, <2>1, <2>2 DEF Alike
  <2> QED  BY <2>5, <2>6
<1>8. Keeps(g[j].live, f[k].live)
  <2>1. Keeps(g[j].live, f[0].live)
    BY <1>7 DEF Keeps
  <2> QED  BY <1>1, <1>2, <2>1, RoundsKeep
<1>9. ASSUME NEW x \in fewer
      PROVE  x.id # c /\ \E y \in built : y.id = x.id /\ Address(y) = Address(x)
  <2>1. PICK z \in g[j].live : Stays(z, x)
    BY <1>1
  <2>2. PICK w \in f[k].live : Alike(z, w)
    BY <1>8 DEF Keeps
  <2>3. PICK y \in built : Stays(w, y)
    BY <1>2
  <2>4. x.id = z.id /\ Address(x) = Address(z) /\ y.id = w.id /\ Address(y) = Address(w)
    BY <2>1, <2>3, StaysParts
  <2>5. w.id = z.id /\ Address(w) = Address(z)
    BY <2>2 DEF Alike, Address
  <2> QED  BY <1>7, <2>4, <2>5
<1> QED  BY <1>9 DEF fewer, built

-----------------------------------------------------------------------------
(* What the review drops.                                                  *)

\* Where a review that only takes away has dropped what was drafted, something
\* lands only if two had been written there.
LEMMA WrittenWithoutDropped ==
    ASSUME NEW run, IsRunOf(run), NEW draft, draft = Draft(run), NEW votes, IsReviewOf(votes), NEW applied,
           NEW n \in 1..Len(votes), n \in applied, Applies(draft, votes[n]), votes[n].act = "drop",
           \A m \in 1..Len(votes) : votes[m].act \in {"drop", "merge", "fix"},
           NEW a, a = Written(Pass(run, draft, votes, applied)),
           NEW x \in a.entries, Address(x) = votes[n].on
    PROVE  \E row \in Digest(Built(run, Decisions(run))).rows : row.at = votes[n].on /\ row.twins # {}
<1> DEFINE at == votes[n].on
           by == Decisions(run)
           laid == Laid(draft, by, votes, applied)
           E == Built(run, by).entries
           g == HitOf(draft, at)
           c == g.id
<1>1. AreChoices(by) /\ AreChoices(laid)
  BY DecisionsAreChoices, LaidAreChoices DEF IsReviewOf
<1>2. Thins(by, laid, c)
  <2> HIDE DEF by
  <2> QED  BY <1>1, LaidThins
<1>3. PICK y \in Built(run, laid).entries : Address(y) = at
  <2>1. \A v \in a.entries :
           \E y \in Built(run, Laid(draft, Decisions(run), votes, applied)).entries : Address(v) = Address(y)
    BY WrittenParts, SMT
  <2> QED  BY <2>1
<1>4. PICK z \in E : z.id # c /\ Address(z) = at
  <2> HIDE DEF by, laid, c
  <2> QED  BY <1>1, <1>2, <1>3, BuiltThins
<1>5. AreLinked(E)
  <2> HIDE DEF by
  <2> QED  BY <1>1, BuiltParts
<1>6. g \in CrossUnit(E) /\ Address(g) = at
  <2>1. Hits(draft, at) # {} /\ draft = CrossUnit(E)
    BY DEF Applies, Draft
  <2>2. g \in Hits(draft, at)
    BY <2>1 DEF HitOf
  <2> QED  BY <2>1, <2>2 DEF Hits
<1>7. Digest(Built(run, by)).rows =
         {[at |-> Address(h), val |-> h.val, drift |-> h.drift, twins |-> h.twins, home |-> h.home] :
             h \in CrossUnit(E)}
  BY DEF Digest
<1> HIDE DEF E, g, at
<1>8. PICK w \in E : KeptOf(E, Keeper(E, w), g)
  BY <1>5, <1>6, CrossUnitParts
<1>9. g.twins # {}
  <2> DEFINE k == Keeper(E, w)
  <2>1. Address(k) = at /\ k.id = c /\ g.twins = {Name(v) : v \in Twins(E, k) \ {k}}
    BY <1>6, <1>8 DEF KeptOf
  <2> HIDE DEF k, c
  <2>2. z \in Twins(E, k) \ {k}
    BY <1>4, <2>1 DEF Twins
  <2> QED  BY <2>1, <2>2
<1> HIDE DEF by
<1>10. [at |-> Address(g), val |-> g.val, drift |-> g.drift, twins |-> g.twins, home |-> g.home]
          \in Digest(Built(run, by)).rows
  BY <1>6, <1>7
<1> QED  BY <1>6, <1>9, <1>10 DEF at, by

\* No review is a review of nothing.
DropInv == (~ review.is => review.of = <<>>) /\ DroppedByReviewIsGone

LEMMA DropInit == Init => DropInv
<1> SUFFICES ASSUME Init PROVE DropInv
  OBVIOUS
<1>1. review.of = <<>> /\ ~ delta.is
  BY DEF Init, NoReview, NoDelta
<1> QED  BY <1>1 DEF DropInv, DroppedByReviewIsGone

LEMMA DropNext == BaseInv /\ FoldInv /\ DropInv /\ [Next]_vars => DropInv'
<1> SUFFICES ASSUME BaseInv, FoldInv, DropInv, [Next]_vars PROVE DropInv'
  OBVIOUS
<1>0. IsEstate(estate)
  BY EstatesAssumption DEF BaseInv
<1>1. ASSUME UNCHANGED <<stamp, review, delta>> PROVE DropInv'
  BY <1>1 DEF DropInv, DroppedByReviewIsGone
<1>2. ASSUME ~ review'.is => review'.of = <<>>, ~ delta.is, delta' = delta PROVE DropInv'
  BY <1>2 DEF DropInv, DroppedByReviewIsGone
<1>3. ASSUME NEW f \in DOMAIN work, Convert(f) \/ ConvertTorn(f) \/ \E c \in estate.contents : Edit(f, c) \/ ConvertCrossed(f, c)
      PROVE  DropInv'
  BY <1>1, <1>3 DEF Convert, ConvertTorn, ConvertCrossed, Edit, Reviewing
<1>4. ASSUME NEW g \in estate.groupings, GroupPhotos(g) PROVE DropInv'
  BY <1>1, <1>4 DEF GroupPhotos, Reviewing
<1>5. ASSUME NEW anyway \in BOOLEAN, Build(anyway) PROVE DropInv'
  BY <1>1, <1>5 DEF Build, Reviewing
<1>6. ASSUME NEW reached \in SUBSET DOMAIN told, Poll(reached) PROVE DropInv'
  BY <1>1, <1>6 DEF Poll, Reviewing
<1>7. ASSUME NEW u \in asked, Answers(u) \/ \E half \in BOOLEAN : Dies(u, half) PROVE DropInv'
  BY <1>1, <1>7 DEF Answers, Dies, Reviewing
<1>8. ASSUME NEW r \in estate.reviews, ReviewerWrites(r) PROVE DropInv'
  <2>1. DOMAIN r = {"torn", "of"}
    BY <1>0 DEF IsEstate
  <2>2. review' = With(r, [is |-> TRUE, for |-> stamp.of]) /\ ~ delta.is /\ delta' = delta
    BY <1>8 DEF ReviewerWrites, Ready
  <2>3. review'.is
    BY <2>1, <2>2 DEF With
  <2> QED  BY <1>2, <2>2, <2>3
<1>9. CASE DigestStep
  <2>1. review' = review /\ ~ delta.is /\ delta' = delta
    BY <1>9 DEF DigestStep, Ready
  <2>2. ~ review.is => review.of = <<>>
    BY DEF DropInv
  <2> QED  BY <1>2, <2>1, <2>2
\* What the review drops is gone from the delta as it is written.
<1>10. CASE Assemble
  <2> DEFINE run == Run(Names(plan.units))
             of == IF review.is /\ ~ review.torn THEN review.of ELSE <<>>
             a == Assembled(run, of)
  <2>1. /\ ~ delta.is /\ UNCHANGED <<stamp, review>>
        /\ review.is /\ ~ review.torn => stamp.of = Digest(Built(run, Decisions(run)))
        /\ \/ delta' = delta
           \/ delta' = [is |-> TRUE, entries |-> a.entries, held |-> a.held,
                        dropped |-> a.dropped, losers |-> a.losers, reviewHeld |-> a.reviewHeld]
    BY <1>10 DEF Assemble, Ready, Reviewing, Shown
  <2>2. CASE delta' = delta
    BY <1>1, <2>1, <2>2
  <2>3. CASE delta' = [is |-> TRUE, entries |-> a.entries, held |-> a.held,
                       dropped |-> a.dropped, losers |-> a.losers, reviewHeld |-> a.reviewHeld]
    <3> HIDE DEF a
    <3>1. delta'.entries = a.entries /\ delta'.reviewHeld = a.reviewHeld
      BY <2>3
    <3>2. IsRunOf(run)
      BY RunParts
    <3> HIDE DEF run
    <3>3. ASSUME NEW n \in DOMAIN review.of, review.of[n].act = "drop", n \notin a.reviewHeld, ~ review.torn,
                 NEW x \in a.entries, Address(x) = review.of[n].on,
                 \A m \in DOMAIN review.of \ {n} : review.of[m].keys = <<>>
          PROVE  \E row \in stamp.of.rows : row.at = review.of[n].on /\ row.twins # {}
      <4> DEFINE votes == review.of
      <4>1. review.is /\ of = votes /\ stamp.of = Digest(Built(run, Decisions(run)))
        BY <2>1, <3>3 DEF DropInv
      <4>2. IsReviewOf(votes) /\ n \in 1..Len(votes)
        BY DEF FoldInv, IsReviewOf
      <4>3. \A m \in 1..Len(votes) : votes[m].act \in {"drop", "merge", "fix"}
        BY <3>3, <4>2 DEF IsReviewOf, KeysGiven, Acts
      <4> HIDE DEF votes, of
      <4> DEFINE draft == Draft(run)
      <4>4. PICK gone : a = Written(Pass(run, draft, votes, Standing(draft, votes, gone)))
        BY <4>1, Zenon DEF a, Assembled, AssembledFrom, AssembledOf
      <4> DEFINE applied == Standing(draft, votes, gone)
      <4> HIDE DEF draft
      <4>5. a.reviewHeld = DOMAIN votes \ applied
        BY <4>4 DEF Written, Delta, Pass, Landing, Outcome
      <4>6. n \in applied /\ Applies(draft, votes[n])
        <5>1. n \in applied
          BY <3>3, <4>5 DEF votes
        <5> QED  BY <5>1 DEF Standing
      <4> HIDE DEF applied
      <4>7. votes[n].act = "drop" /\ Address(x) = votes[n].on
        BY <3>3 DEF votes
      <4>8. a = Written(Pass(run, draft, votes, applied)) /\ draft = Draft(run)
        BY <4>4 DEF applied, draft
      <4>9. \E row \in Digest(Built(run, Decisions(run))).rows : row.at = votes[n].on /\ row.twins # {}
        BY <3>2, <4>2, <4>3, <4>6, <4>7, <4>8, WrittenWithoutDropped
      <4> QED  BY <4>1, <4>9 DEF votes
    <3>4. DroppedByReviewIsGone'
      BY <2>1, <3>1, <3>3 DEF DroppedByReviewIsGone
    <3> QED  BY <2>1, <3>4 DEF DropInv
  <2> QED  BY <2>1, <2>2, <2>3
<1>11. CASE Apply
  BY <1>1, <1>11 DEF Apply, Reviewing
<1>12. ASSUME NEW id \in store, StoreLoses(id) PROVE DropInv'
  BY <1>1, <1>12 DEF StoreLoses, Reviewing
<1>13. CASE UNCHANGED vars
  BY <1>1, <1>13 DEF vars, Reviewing
<1> QED
  BY <1>3, <1>4, <1>5, <1>6, <1>7, <1>8, <1>9, <1>10, <1>11, <1>12, <1>13 DEF Next

\* What an applied review drops is not in the delta: neither the decisions laid
\* over the units' nor the rounds that follow can bring it back, unless two units
\* had written it or the review writes something itself (_fold_review, build_rows).
THEOREM DroppedIsAlwaysGone == Spec => []DroppedByReviewIsGone
<1>1. Spec => []FoldInv
  BY BaseAlways, FoldInit, FoldNext, PTL DEF Spec
<1>2. DropInv => DroppedByReviewIsGone
  BY DEF DropInv
<1> QED  BY <1>1, <1>2, BaseAlways, DropInit, DropNext, PTL DEF Spec

-----------------------------------------------------------------------------
(* A plan is whole.                                                        *)

\* Put in order, every member of a finite set has a place of its own.
InPlace(S, R, n) == CHOOSE y \in S : Cardinality({z \in S : <<z, y>> \in R}) + 1 = n
LEMMA EveryMemberIsListed ==
    ASSUME NEW S, IsFiniteSet(S), NEW R,
           \A x \in S : <<x, x>> \notin R,
           \A x, y \in S : x # y => <<x, y>> \in R \/ <<y, x>> \in R,
           \A x, y, z \in S : <<x, y>> \in R /\ <<y, z>> \in R => <<x, z>> \in R
    PROVE  \A x \in S : \E n \in 1..Cardinality(S) : InPlace(S, R, n) = x
<1> DEFINE below(x) == {z \in S : <<z, x>> \in R}
           rank(x) == Cardinality(below(x)) + 1
<1>1. \A x \in S : IsFiniteSet(below(x)) /\ Cardinality(below(x)) \in Nat
  BY FS_Subset, FS_CardinalityType
<1>2. Cardinality(S) \in Nat
  BY FS_CardinalityType
<1>3. ASSUME NEW x \in S PROVE rank(x) \in 1..Cardinality(S)
  <2>1. below(x) \subseteq S /\ below(x) # S
    OBVIOUS
  <2> HIDE DEF below
  <2>2. Cardinality(below(x)) <= Cardinality(S) /\ Cardinality(below(x)) # Cardinality(S)
    BY <2>1, FS_Subset
  <2> QED  BY <1>1, <1>2, <2>2
<1>4. ASSUME NEW x \in S, NEW y \in S, <<x, y>> \in R PROVE rank(x) < rank(y)
  <2>1. below(x) \subseteq below(y) /\ x \in below(y) /\ x \notin below(x)
    BY <1>4
  <2> HIDE DEF below
  <2>2. Cardinality(below(x)) <= Cardinality(below(y)) /\ Cardinality(below(x)) # Cardinality(below(y))
    BY <1>1, <2>1, FS_Subset
  <2> QED  BY <1>1, <2>2
<1>5. \A x, y \in S : rank(x) = rank(y) => x = y
  <2> HIDE DEF rank
  <2>1. \A x \in S : rank(x) \in Nat
    BY <1>2, <1>3
  <2> SUFFICES ASSUME NEW x \in S, NEW y \in S, x # y PROVE rank(x) # rank(y)
    OBVIOUS
  <2>2. rank(x) < rank(y) \/ rank(y) < rank(x)
    BY <1>4
  <2> QED  BY <2>1, <2>2
<1> SUFFICES ASSUME NEW x \in S
             PROVE  \E n \in 1..Cardinality(S) : (CHOOSE y \in S : rank(y) = n) = x
  BY DEF InPlace
<1> HIDE DEF rank
<1>6. (CHOOSE y \in S : rank(y) = rank(x)) = x
  BY <1>5
<1> QED  BY <1>3, <1>6

\* A unit that steps out of its budget is left with what fits, or with nothing
\* on a workbook; nothing else of it changes.
LEMMA SetAsideParts ==
    ASSUME NEW e, IsEstate(e), NEW u, DOMAIN u = {"id", "type", "phase", "cands", "lines", "files"},
           u.cands \subseteq DOMAIN e.cands
    PROVE  LET v == SetAside(e, u)
           IN /\ v.id = u.id /\ v.type = u.type /\ v.lines = u.lines /\ v.files = u.files
              /\ v.cands \subseteq u.cands
              /\ ~ Fits(e, v) => v.cands = {}
<1> DEFINE S == u.cands
           R == {p \in S \X S : \/ e.cands[p[1]].size > e.cands[p[2]].size
                                \/ e.cands[p[1]].size = e.cands[p[2]].size /\ p[1][2] < p[2][2]}
           order == Largest(e, S)
           over(n) == [u EXCEPT !.cands = @ \ {order[i] : i \in 1..n}]
           N == Len(order)
           n == Min({k \in 0..N : Fits(e, over(k))} \cup {N})
<1>1. IsFiniteSet(S)
  BY CandsParts, FS_Subset
<1>2. Cardinality(S) \in Nat
  BY <1>1, FS_CardinalityType
<1>3. \A x, y \in S : <<x, y>> \in R <=> \/ e.cands[x].size > e.cands[y].size
                                         \/ e.cands[x].size = e.cands[y].size /\ x[2] < y[2]
  OBVIOUS
<1>4. \A x \in S : e.cands[x].size \in Nat /\ x[2] \in Nat /\ x = <<"S", x[2]>>
  BY CandsParts
<1>5. \A x \in S : \E i \in 1..Cardinality(S) : order[i] = x
  <2> DEFINE at(i) == InPlace(S, R, i)
  <2>2. \A y \in S : {z \in S : <<z, y>> \in R}
                     = {z \in S : \/ e.cands[z].size > e.cands[y].size
                                  \/ e.cands[z].size = e.cands[y].size /\ z[2] < y[2]}
    BY <1>3
  <2>3. order = [i \in 1..Cardinality(S) |-> CHOOSE y \in S :
                    Cardinality({z \in S : \/ e.cands[z].size > e.cands[y].size
                                           \/ e.cands[z].size = e.cands[y].size /\ z[2] < y[2]}) + 1 = i]
    BY Zenon DEF Largest, Ordered
  <2> HIDE DEF R
  <2>4. \A x \in S : <<x, x>> \notin R
    BY <1>3, <1>4
  <2>5. \A x, y \in S : x # y => <<x, y>> \in R \/ <<y, x>> \in R
    <3> SUFFICES ASSUME NEW x \in S, NEW y \in S, x # y PROVE <<x, y>> \in R \/ <<y, x>> \in R
      OBVIOUS
    <3>1. x[2] # y[2]
      BY <1>4
    <3>2. e.cands[x].size \in Nat /\ e.cands[y].size \in Nat /\ x[2] \in Nat /\ y[2] \in Nat
      BY <1>4
    <3> QED  BY <1>3, <3>1, <3>2
  <2>6. \A x, y, z \in S : <<x, y>> \in R /\ <<y, z>> \in R => <<x, z>> \in R
    BY <1>3, <1>4
  <2>7. \A x \in S : \E i \in 1..Cardinality(S) : at(i) = x
    <3> HIDE DEF S
    <3> QED  BY <1>1, <2>4, <2>5, <2>6, EveryMemberIsListed, Zenon
  <2>8. \A i \in 1..Cardinality(S) : order[i] = at(i)
    <3> SUFFICES ASSUME NEW i \in 1..Cardinality(S) PROVE order[i] = at(i)
      OBVIOUS
    <3>1. order[i] = CHOOSE y \in S :
                    Cardinality({z \in S : \/ e.cands[z].size > e.cands[y].size
                                           \/ e.cands[z].size = e.cands[y].size /\ z[2] < y[2]}) + 1 = i
      BY <2>3
    <3> QED  BY <2>2, <3>1 DEF InPlace
  <2> QED  BY <2>7, <2>8
<1>6. N = Cardinality(S)
  <2>1. \E T : order \in [1..Cardinality(S) -> T]
    <3> DEFINE w(i) == CHOOSE y \in S :
                    Cardinality({z \in S : \/ e.cands[z].size > e.cands[y].size
                                           \/ e.cands[z].size = e.cands[y].size /\ z[2] < y[2]}) + 1 = i
    <3>1. order = [i \in 1..Cardinality(S) |-> w(i)]
      BY Zenon DEF Largest, Ordered
    <3> HIDE DEF w, order
    <3>2. order \in [1..Cardinality(S) -> {w(i) : i \in 1..Cardinality(S)}]
      BY <3>1
    <3> QED  BY <3>2
  <2> HIDE DEF order, S
  <2> QED  BY <1>2, <2>1
<1>7. SetAside(e, u) = over(n)
  BY Zenon DEF SetAside
<1>8. over(n).cands = S \ {order[i] : i \in 1..n} /\ \A f \in DOMAIN u \ {"cands"} : over(n)[f] = u[f]
  <2> HIDE DEF n, order
  <2> QED  OBVIOUS
<1>9. n \in {k \in 0..N : Fits(e, over(k))} \cup {N}
  <2> DEFINE K == {k \in 0..N : Fits(e, over(k))} \cup {N}
  <2>1. K \in SUBSET Nat /\ K # {}
    BY <1>2, <1>6
  <2>2. n = Min(K)
    OBVIOUS
  <2> HIDE DEF K, n
  <2>3. n \in K
    BY <2>1, <2>2, LeastOf
  <2> QED  BY <2>3 DEF K
<1>10. ~ Fits(e, over(n)) => n = N
  <2> HIDE DEF n, N, over
  <2> QED  BY <1>9
<1>11. S \ {order[i] : i \in 1..N} = {}
  <2> HIDE DEF order, N, S
  <2> QED  BY <1>5, <1>6
<1> HIDE DEF n, N, over, order
<1> QED  BY <1>7, <1>8, <1>10, <1>11

\* What a workbook group has of candidates, and the units it is split into.
Mine(e, r) == {c \in DOMAIN e.cands : HomeOf(e, Joined(e), c) = r}
Tabs(e, r) == {Axis(e, c) : c \in Mine(e, r)}
GroupShort(e, r) == Min({x \in Shorts(e) : Joined(e)[x] = r})
GroupPart(e, r, t) == Unit(Book, GroupShort(e, r), t, {c \in Mine(e, r) : Axis(e, c) = t}, {}, {})
GroupUnits(e, r) ==
    IF Cardinality(Tabs(e, r)) > 1 THEN {GroupPart(e, r, t) : t \in Tabs(e, r)}
    ELSE IF Tabs(e, r) = {} THEN {} ELSE {Unit(Book, GroupShort(e, r), 0, Mine(e, r), {}, {})}

LEMMA BookUnitsAre ==
    ASSUME NEW e
    PROVE  BookUnits(e) = {SetAside(e, u) : u \in UNION {GroupUnits(e, r) : r \in Range(Joined(e))}}
BY Zenon DEF BookUnits, GroupUnits, GroupPart, GroupShort, Tabs, Mine

\* A group's units share out its candidates.
LEMMA GroupUnitsShare ==
    ASSUME NEW e, NEW r, NEW u \in GroupUnits(e, r)
    PROVE  /\ DOMAIN u = {"id", "type", "phase", "cands", "lines", "files"}
           /\ u.type = Book /\ u.lines = {} /\ u.files = {} /\ u.cands \subseteq Mine(e, r)
           /\ \A v \in GroupUnits(e, r) : u.cands \cap v.cands # {} => u = v
<1>1. CASE Cardinality(Tabs(e, r)) > 1
  <2>1. GroupUnits(e, r) = {GroupPart(e, r, t) : t \in Tabs(e, r)}
    BY <1>1 DEF GroupUnits
  <2>2. \A t : LET v == GroupPart(e, r, t)
               IN /\ DOMAIN v = {"id", "type", "phase", "cands", "lines", "files"}
                  /\ v.type = Book /\ v.cands = {c \in Mine(e, r) : Axis(e, c) = t} /\ v.lines = {} /\ v.files = {}
    BY UnitFields DEF GroupPart
  <2>3. PICK t \in Tabs(e, r) : u = GroupPart(e, r, t)
    BY <2>1
  <2>4. ASSUME NEW v \in GroupUnits(e, r), u.cands \cap v.cands # {} PROVE u = v
    <3>1. PICK s \in Tabs(e, r) : v = GroupPart(e, r, s)
      BY <2>1
    <3>2. PICK c : c \in u.cands /\ c \in v.cands
      BY <2>4
    <3>3. Axis(e, c) = t /\ Axis(e, c) = s
      BY <2>2, <2>3, <3>1, <3>2
    <3> QED  BY <2>3, <3>1, <3>3
  <2>5. u.cands = {c \in Mine(e, r) : Axis(e, c) = t}
    BY <2>2, <2>3
  <2> QED  BY <2>2, <2>3, <2>4, <2>5
<1>2. CASE ~ (Cardinality(Tabs(e, r)) > 1)
  <2>1. u = Unit(Book, GroupShort(e, r), 0, Mine(e, r), {}, {}) /\ \A v \in GroupUnits(e, r) : v = u
    BY <1>2 DEF GroupUnits
  <2> QED  BY <2>1, UnitFields
<1> QED  BY <1>1, <1>2

\* Every candidate has a home, in no more than one unit, and a unit on workbooks
\* that does not fit holds none.
LEMMA BooksAreWhole ==
    ASSUME NEW e, IsEstate(e)
    PROVE  /\ \A c \in DOMAIN e.cands : HomeOf(e, Joined(e), c) # 0
           /\ \A u \in BookUnits(e) :
                /\ u.type = Book /\ u.lines = {} /\ u.files = {}
                /\ ~ Fits(e, u) => u.cands = {}
           /\ \A u, v \in BookUnits(e) : u.cands \cap v.cands # {} => u = v
<1> DEFINE root == Joined(e)
           all == UNION {GroupUnits(e, r) : r \in Range(root)}
<1>1. root \in [Shorts(e) -> Nat \ {0}]
  BY JoinedParts
<1>2. ASSUME NEW c \in DOMAIN e.cands PROVE HomeOf(e, root, c) # 0
  <2>1. CASE Homes(e, c) # {}
    <3> DEFINE s == CHOOSE x \in Homes(e, c) : TRUE
    <3>1. s \in Homes(e, c)
      BY <2>1
    <3>2. s \in Shorts(e)
      BY <3>1 DEF Homes
    <3>3. HomeOf(e, root, c) = root[s]
      BY <2>1 DEF HomeOf
    <3> HIDE DEF s, root
    <3> QED  BY <1>1, <3>2, <3>3
  <2>2. CASE Homes(e, c) = {}
    <3>1. e.cands[c].script \in Shorts(e)
      BY <2>2, CandsParts
    <3>2. HomeOf(e, root, c) = root[e.cands[c].script]
      BY <2>2, <3>1 DEF HomeOf
    <3> HIDE DEF root
    <3> QED  BY <1>1, <3>1, <3>2
  <2> QED  BY <2>1, <2>2
<1>3. BookUnits(e) = {SetAside(e, u) : u \in all}
  BY BookUnitsAre
<1>4. ASSUME NEW u \in all
      PROVE  /\ DOMAIN u = {"id", "type", "phase", "cands", "lines", "files"}
             /\ u.type = Book /\ u.lines = {} /\ u.files = {} /\ u.cands \subseteq DOMAIN e.cands
  <2>1. PICK r : u \in GroupUnits(e, r)
    OBVIOUS
  <2>2. Mine(e, r) \subseteq DOMAIN e.cands
    BY DEF Mine
  <2> QED  BY <2>1, <2>2, GroupUnitsShare
<1>5. ASSUME NEW u \in all, NEW v \in all, u.cands \cap v.cands # {} PROVE u = v
  <2>1. PICK r : u \in GroupUnits(e, r)
    OBVIOUS
  <2>2. PICK q : v \in GroupUnits(e, q)
    OBVIOUS
  <2>3. PICK c : c \in u.cands /\ c \in v.cands
    BY <1>5
  <2>4. c \in Mine(e, r) /\ c \in Mine(e, q)
    BY <2>1, <2>2, <2>3, GroupUnitsShare
  <2>5. r = q
    BY <2>4 DEF Mine
  <2> QED  BY <1>5, <2>1, <2>2, <2>5, GroupUnitsShare
<1> HIDE DEF all
<1>6. \A u \in all : LET v == SetAside(e, u)
                     IN /\ v.type = Book /\ v.lines = {} /\ v.files = {} /\ v.cands \subseteq u.cands
                        /\ ~ Fits(e, v) => v.cands = {}
  <2> SUFFICES ASSUME NEW u \in all
               PROVE  LET v == SetAside(e, u)
                      IN /\ v.type = Book /\ v.lines = {} /\ v.files = {} /\ v.cands \subseteq u.cands
                         /\ ~ Fits(e, v) => v.cands = {}
    OBVIOUS
  <2> QED  BY <1>4, SetAsideParts
<1>7. ASSUME NEW x \in BookUnits(e), NEW y \in BookUnits(e), x.cands \cap y.cands # {} PROVE x = y
  <2>1. PICK u \in all : x = SetAside(e, u)
    BY <1>3
  <2>2. PICK v \in all : y = SetAside(e, v)
    BY <1>3
  <2>3. x.cands \subseteq u.cands /\ y.cands \subseteq v.cands
    BY <1>6, <2>1, <2>2
  <2>4. u = v
    BY <1>5, <1>7, <2>3
  <2> QED  BY <2>1, <2>2, <2>4
<1>8. ASSUME NEW x \in BookUnits(e)
      PROVE  /\ x.type = Book /\ x.lines = {} /\ x.files = {}
             /\ ~ Fits(e, x) => x.cands = {}
  BY <1>3, <1>6
<1> QED  BY <1>2, <1>7, <1>8

\* Spans of a transcript's lines: whole ones, every line in one of them.
Across(s, l) == s[1] <= l /\ l <= s[2]
CutsUp(S, N) ==
    /\ \A s \in S : s \in (1..N) \X (1..N) /\ s[1] <= s[2]
    /\ \A l \in 1..N : \E s \in S : Across(s, l)
    /\ \A s, t \in S : \A l \in 1..N : Across(s, l) /\ Across(t, l) => s = t

LEMMA TalkParts ==
    ASSUME NEW e, IsEstate(e)
    PROVE  DOMAIN e.talks \in SUBSET Nat /\ \A r \in DOMAIN e.talks : Len(e.talks[r]) \in Nat /\ DOMAIN e.talks[r] = 1..Len(e.talks[r])
<1>1. e.talks \in Seq(Seq(Nat))
  BY Zenon DEF IsEstate
<1>2. DOMAIN e.talks \in SUBSET Nat
  BY <1>1
<1>3. \A r \in DOMAIN e.talks : e.talks[r] \in Seq(Nat)
  BY <1>1
<1>4. \A s \in Seq(Nat) : Len(s) \in Nat /\ DOMAIN s = 1..Len(s)
  OBVIOUS
<1> QED  BY <1>2, <1>3, <1>4

\* Chunks cut a transcript up.
LEMMA ChunksCutUp ==
    ASSUME NEW e, IsEstate(e), NEW r \in DOMAIN e.talks
    PROVE  CutsUp(Chunks(e, r), Len(e.talks[r]))
<1> DEFINE lines == e.talks[r]
           N == Len(lines)
           f == CHOOSE g : Firsts(g, lines)
           P == {m \in 1..N : m = N \/ f[m + 1] = m + 1}
<1>1. N \in Nat
  BY TalkParts
<1>2. Firsts(f, lines)
  BY <1>1, FirstsExists
<1>3. Chunks(e, r) = {<<f[n], n>> : n \in P}
  BY Zenon DEF Chunks, Firsts
<1> HIDE DEF f, lines
<1>4. \A n \in 1..N : f[n] = n \/ (n # 1 /\ f[n] = f[n - 1])
  BY <1>2 DEF Firsts
<1> HIDE DEF N
\* A chunk begins no later than it ends.
<1>5. \A n \in 1..N : f[n] \in 1..n
  <2> DEFINE S == {n \in Nat : n = 0 \/ f[n] \in 1..n}
  <2>1. 0 \in S
    OBVIOUS
  <2>2. ASSUME NEW n \in 1..N, n - 1 \in S PROVE n \in S
    <3>1. n \in Nat /\ (n # 1 => f[n - 1] \in 1..(n - 1))
      BY <2>2
    <3>2. f[n] = n \/ (n # 1 /\ f[n] = f[n - 1])
      BY <1>4
    <3>3. f[n] \in 1..n
      BY <3>1, <3>2
    <3> QED  BY <3>1, <3>3
  <2>3. 0..N \subseteq S
    <3>1. S \in SUBSET Nat
      OBVIOUS
    <3> HIDE DEF S
    <3> QED  BY <1>1, <2>1, <2>2, <3>1, UpTo
  <2> SUFFICES ASSUME NEW n \in 1..N PROVE f[n] \in 1..n
    OBVIOUS
  <2>4. n \in 0..N /\ n # 0
    BY <1>1
  <2> QED  BY <2>3, <2>4
\* What follows the end of a chunk begins after it.
<1>6. ASSUME NEW m \in P, NEW n \in P, m < n PROVE m + 1 <= f[n]
  <2> DEFINE S == {k \in Nat : k > m => f[k] >= m + 1}
  <2>1. m \in Nat /\ n \in 1..N /\ f[m + 1] = m + 1
    BY <1>1, <1>6
  <2>2. 0 \in S
    BY <2>1
  <2>3. ASSUME NEW k \in 1..N, k - 1 \in S PROVE k \in S
    <3>1. k \in Nat /\ f[k] \in 1..k
      BY <1>5
    <3> SUFFICES ASSUME k > m PROVE f[k] >= m + 1
      BY <3>1
    <3>2. CASE f[k] = k
      BY <2>1, <3>1, <3>2
    <3>3. CASE f[k] # k
      <4>1. k # 1 /\ f[k] = f[k - 1] /\ k # m + 1
        BY <1>4, <2>1, <3>3
      <4>2. k - 1 > m
        BY <2>1, <3>1, <4>1
      <4> QED  BY <2>3, <4>1, <4>2
    <3> QED  BY <3>2, <3>3
  <2>4. S \in SUBSET Nat
    OBVIOUS
  <2>5. 0..N \subseteq S
    <3> HIDE DEF S
    <3> QED  BY <1>1, <2>2, <2>3, <2>4, UpTo
  <2>6. n \in S
    BY <1>1, <2>1, <2>5
  <2> QED  BY <1>6, <2>6
\* A line is in the chunk that ends next.
<1>7. ASSUME NEW l \in 1..N PROVE \E n \in P : f[n] <= l /\ l <= n
  <2> DEFINE Q == {n \in P : l <= n}
  <2>1. Q # {} /\ Q \in SUBSET Nat
    <3>1. N \in P /\ l <= N
      BY <1>1
    <3> QED  BY <1>1, <3>1
  <2>2. PICK n \in Q : \A k \in Q : n <= k
    <3> HIDE DEF Q
    <3> QED  BY <2>1, Least
  <2>3. n \in 1..N /\ l <= n /\ l \in Nat /\ N \in Nat
    BY <1>1, <2>2
  <2> DEFINE S == {k \in Nat : l <= k /\ k <= n => f[k] <= l}
  <2>4. 0 \in S
    BY <2>3
  <2>5. ASSUME NEW k \in 1..N, k - 1 \in S PROVE k \in S
    <3>1. k \in Nat
      BY <1>1
    <3> SUFFICES ASSUME l <= k, k <= n PROVE f[k] <= l
      BY <3>1
    <3>2. CASE k = l
      BY <1>5, <3>1, <3>2
    <3>3. CASE k # l
      <4>1. l <= k - 1 /\ k - 1 \in 1..N /\ k - 1 < n
        BY <2>3, <3>1, <3>3
      <4>2. k - 1 \notin P
        BY <2>2, <2>3, <4>1
      <4>3. f[k] # k
        BY <3>1, <4>1, <4>2
      <4>4. f[k] = f[k - 1]
        BY <1>4, <4>3
      <4> QED  BY <2>3, <2>5, <4>1, <4>4
    <3> QED  BY <3>2, <3>3
  <2>6. S \in SUBSET Nat
    OBVIOUS
  <2>7. 0..N \subseteq S
    <3> HIDE DEF S
    <3> QED  BY <1>1, <2>4, <2>5, <2>6, UpTo
  <2>8. n \in S
    BY <2>3, <2>7
  <2>9. f[n] <= l
    BY <2>3, <2>8
  <2> QED  BY <2>2, <2>3, <2>9
<1> DEFINE C == {<<f[n], n>> : n \in P}
<1>8. \A n \in P : n \in 1..N /\ n \in Nat /\ f[n] \in 1..N /\ f[n] <= n
  <2> SUFFICES ASSUME NEW n \in P PROVE n \in 1..N /\ n \in Nat /\ f[n] \in 1..N /\ f[n] <= n
    OBVIOUS
  <2>1. n \in 1..N /\ f[n] \in 1..n
    BY <1>5
  <2> QED  BY <1>1, <2>1
<1>9. \A s \in C : s \in (1..N) \X (1..N) /\ s[1] <= s[2]
  <2> HIDE DEF P
  <2> QED  BY <1>8
<1>10. \A l \in 1..N : \E s \in C : Across(s, l)
  <2> HIDE DEF P
  <2> SUFFICES ASSUME NEW l \in 1..N PROVE \E s \in C : Across(s, l)
    OBVIOUS
  <2>1. PICK n \in P : f[n] <= l /\ l <= n
    BY <1>7
  <2>2. <<f[n], n>> \in C
    OBVIOUS
  <2> QED  BY <2>1, <2>2 DEF Across
<1>11. ASSUME NEW s \in C, NEW t \in C, NEW l \in 1..N, Across(s, l), Across(t, l) PROVE s = t
  <2>1. PICK m \in P : s = <<f[m], m>>
    OBVIOUS
  <2>2. PICK n \in P : t = <<f[n], n>>
    OBVIOUS
  <2>3. f[m] <= l /\ l <= m /\ f[n] <= l /\ l <= n
    BY <1>11, <2>1, <2>2 DEF Across
  <2>4. m \in Nat /\ n \in Nat /\ l \in Nat /\ f[m] \in 1..N /\ f[n] \in 1..N
    BY <1>1, <1>8
  <2>5. ~ (m < n) /\ ~ (n < m)
    <3> HIDE DEF P
    <3> QED  BY <1>6, <1>1, <2>3, <2>4
  <2>6. m = n
    BY <2>4, <2>5
  <2> QED  BY <2>1, <2>2, <2>6
<1> HIDE DEF P, C
<1>12. CutsUp(C, N)
  BY <1>9, <1>10, <1>11 DEF CutsUp
<1> QED  BY <1>3, <1>12 DEF C, N, lines

\* A round of halving keeps it so, and brings what can still be divided nearer
\* to single lines.
Settles(e, r, s, k) == Fits(e, Span(e, r, s[1], s[2])) \/ s[2] <= s[1] \/ s[2] - s[1] < k

LEMMA HalvesParts ==
    ASSUME NEW e, NEW r, NEW N \in Nat, NEW s \in (1..N) \X (1..N), s[1] <= s[2]
    PROVE  /\ \A t \in Halves(e, r, s) : /\ t \in (1..N) \X (1..N) /\ t[1] <= t[2]
                                         /\ \A l \in 1..N : Across(t, l) => Across(s, l)
           /\ \A l \in 1..N : Across(s, l) => \E t \in Halves(e, r, s) : Across(t, l)
           /\ \A t, v \in Halves(e, r, s) : \A l \in 1..N : Across(t, l) /\ Across(v, l) => t = v
           /\ \A k \in Nat : Settles(e, r, s, k + 1) => \A t \in Halves(e, r, s) : Settles(e, r, t, k)
<1> DEFINE a == s[1]
           b == s[2]
           mid == (a + b) \div 2
<1>1. a \in Nat /\ b \in Nat /\ a >= 1 /\ b <= N /\ a <= b /\ s = <<a, b>>
  OBVIOUS
<1>2. CASE Fits(e, Span(e, r, a, b)) \/ b <= a
  <2>1. Halves(e, r, s) = {s}
    BY <1>2 DEF Halves
  <2>2. \A k \in Nat : Settles(e, r, s, k)
    BY <1>2 DEF Settles
  <2> QED  BY <2>1, <2>2
<1>3. CASE ~ (Fits(e, Span(e, r, a, b)) \/ b <= a)
  <2>1. Halves(e, r, s) = {<<a, mid>>, <<mid + 1, b>>}
    BY <1>3 DEF Halves
  <2>2. mid \in Nat /\ a <= mid /\ mid < b
    BY <1>1, <1>3
  <2> HIDE DEF mid
  <2>3. ASSUME NEW t \in Halves(e, r, s)
        PROVE  /\ t \in (1..N) \X (1..N) /\ t[1] <= t[2]
               /\ \A l \in 1..N : Across(t, l) => Across(s, l)
    <3>1. CASE t = <<a, mid>>
      <4>1. t[1] = a /\ t[2] = mid /\ a \in 1..N /\ mid \in 1..N
        BY <1>1, <2>2, <3>1
      <4>2. \A l \in 1..N : a <= l /\ l <= mid => a <= l /\ l <= b
        BY <1>1, <2>2
      <4> QED  BY <2>2, <3>1, <4>1, <4>2 DEF Across
    <3>2. CASE t = <<mid + 1, b>>
      <4>1. t[1] = mid + 1 /\ t[2] = b /\ mid + 1 \in 1..N /\ b \in 1..N /\ mid + 1 <= b
        BY <1>1, <2>2, <3>2
      <4>2. \A l \in 1..N : mid + 1 <= l /\ l <= b => a <= l /\ l <= b
        BY <1>1, <2>2
      <4> QED  BY <3>2, <4>1, <4>2 DEF Across
    <3> QED  BY <2>1, <3>1, <3>2
  <2>4. ASSUME NEW l \in 1..N, Across(s, l) PROVE \E t \in Halves(e, r, s) : Across(t, l)
    <3>1. l \in Nat /\ a <= l /\ l <= b
      BY <2>4 DEF Across
    <3>2. CASE l <= mid
      BY <2>1, <3>1, <3>2 DEF Across
    <3>3. CASE ~ (l <= mid)
      <4>1. mid + 1 <= l
        BY <2>2, <3>1, <3>3
      <4> QED  BY <2>1, <3>1, <4>1 DEF Across
    <3> QED  BY <3>2, <3>3
  <2>5. ASSUME NEW t \in Halves(e, r, s), NEW v \in Halves(e, r, s), NEW l \in 1..N, Across(t, l), Across(v, l)
        PROVE  t = v
    <3>1. ~ (l <= mid /\ mid + 1 <= l)
      BY <2>2
    <3>2. t = <<a, mid>> => l <= mid
      BY <2>5 DEF Across
    <3>3. t = <<mid + 1, b>> => mid + 1 <= l
      BY <2>5 DEF Across
    <3>4. v = <<a, mid>> => l <= mid
      BY <2>5 DEF Across
    <3>5. v = <<mid + 1, b>> => mid + 1 <= l
      BY <2>5 DEF Across
    <3> QED  BY <2>1, <3>1, <3>2, <3>3, <3>4, <3>5
  <2>6. ASSUME NEW k \in Nat, Settles(e, r, s, k + 1), NEW t \in Halves(e, r, s) PROVE Settles(e, r, t, k)
    <3>1. b - a < k + 1
      BY <1>3, <2>6 DEF Settles
    <3>2. t[2] - t[1] < k
      BY <1>1, <2>1, <2>2, <3>1
    <3> QED  BY <3>2 DEF Settles
  <2> HIDE DEF a, b
  <2> QED  BY <2>3, <2>4, <2>5, <2>6
<1> QED  BY <1>2, <1>3

\* The spans cut a transcript up, each fits or is one line.
LEMMA SpansCutUp ==
    ASSUME NEW e, IsEstate(e), NEW r \in DOMAIN e.talks
    PROVE  /\ CutsUp(Spans(e, r), Len(e.talks[r]))
           /\ \A s \in Spans(e, r) : Fits(e, Span(e, r, s[1], s[2])) \/ s[2] <= s[1]
<1> DEFINE N == Len(e.talks[r])
           f == CHOOSE g : Cuts(g, e, r)
<1>1. N \in Nat
  BY TalkParts
<1>2. Cuts(f, e, r)
  BY SpansParts
<1>3. Spans(e, r) = f[N]
  BY Zenon DEF Spans, Cuts
<1>4. CutsUp(Chunks(e, r), N)
  BY ChunksCutUp
<1> HIDE DEF f
<1>5. \A n \in 0..N : f[n] = IF n = 0 THEN Chunks(e, r) ELSE UNION {Halves(e, r, s) : s \in f[n - 1]}
  BY <1>2 DEF Cuts
<1> HIDE DEF N
<1> DEFINE S == {n \in Nat : CutsUp(f[n], N) /\ \A s \in f[n] : Settles(e, r, s, N - n)}
<1>6. 0 \in S
  <2>1. f[0] = Chunks(e, r)
    <3>1. 0 \in 0..N
      BY <1>1
    <3> QED  BY <1>5, <3>1, Zenon
  <2>2. \A s \in f[0] : Settles(e, r, s, N - 0)
    <3> SUFFICES ASSUME NEW s \in f[0] PROVE s[2] - s[1] < N - 0
      BY DEF Settles
    <3>1. s[1] \in 1..N /\ s[2] \in 1..N
      BY <1>4, <2>1 DEF CutsUp
    <3> QED  BY <1>1, <3>1
  <2> QED  BY <1>4, <2>1, <2>2
<1>7. ASSUME NEW n \in 1..N, n - 1 \in S PROVE n \in S
  <2> DEFINE old == f[n - 1]
             now == f[n]
  <2>1. now = UNION {Halves(e, r, s) : s \in old} /\ n \in Nat
    <3>1. n \in 0..N /\ n # 0 /\ n \in Nat
      BY <1>1
    <3> QED  BY <1>5, <3>1, Zenon
  <2>2. CutsUp(old, N) /\ \A s \in old : Settles(e, r, s, N - (n - 1))
    BY <1>7
  <2> HIDE DEF old, now
  <2>3. \A s \in old : s \in (1..N) \X (1..N) /\ s[1] <= s[2]
    BY <2>2 DEF CutsUp
  <2>4. ASSUME NEW t \in now PROVE t \in (1..N) \X (1..N) /\ t[1] <= t[2]
    <3>1. PICK s \in old : t \in Halves(e, r, s)
      BY <2>1
    <3> QED  BY <1>1, <2>3, <3>1, HalvesParts
  <2>5. ASSUME NEW l \in 1..N PROVE \E t \in now : Across(t, l)
    <3>1. PICK s \in old : Across(s, l)
      BY <2>2 DEF CutsUp
    <3>2. PICK t \in Halves(e, r, s) : Across(t, l)
      BY <1>1, <2>3, <3>1, HalvesParts
    <3> QED  BY <2>1, <3>2
  <2>6. ASSUME NEW t \in now, NEW v \in now, NEW l \in 1..N, Across(t, l), Across(v, l) PROVE t = v
    <3>1. PICK s \in old : t \in Halves(e, r, s)
      BY <2>1
    <3>2. PICK q \in old : v \in Halves(e, r, q)
      BY <2>1
    <3>3. Across(s, l)
      BY <1>1, <2>3, <2>6, <3>1, HalvesParts
    <3>4. Across(q, l)
      BY <1>1, <2>3, <2>6, <3>2, HalvesParts
    <3>5. s = q
      BY <2>2, <3>3, <3>4 DEF CutsUp
    <3> QED  BY <1>1, <2>3, <2>6, <3>1, <3>2, <3>5, HalvesParts
  <2>7. ASSUME NEW t \in now PROVE Settles(e, r, t, N - n)
    <3>1. PICK s \in old : t \in Halves(e, r, s)
      BY <2>1
    <3>2. N - (n - 1) = (N - n) + 1 /\ N - n \in Nat
      BY <1>1
    <3>3. Settles(e, r, s, (N - n) + 1)
      BY <2>2, <3>2
    <3> QED  BY <1>1, <2>3, <3>1, <3>2, <3>3, HalvesParts
  <2>8. CutsUp(now, N)
    BY <2>4, <2>5, <2>6 DEF CutsUp
  <2> QED  BY <2>1, <2>7, <2>8 DEF now
<1>8. S \in SUBSET Nat
  OBVIOUS
<1>9. 0..N \subseteq S
  <2> HIDE DEF S
  <2> QED  BY <1>1, <1>6, <1>7, <1>8, UpTo
<1>10. N \in S
  BY <1>1, <1>9
<1>11. CutsUp(f[N], N) /\ \A s \in f[N] : Settles(e, r, s, 0)
  BY <1>1, <1>10
<1>12. \A s \in f[N] : Fits(e, Span(e, r, s[1], s[2])) \/ s[2] <= s[1]
  <2> SUFFICES ASSUME NEW s \in f[N], s[2] - s[1] < 0 PROVE s[2] <= s[1]
    BY <1>11 DEF Settles
  <2>1. s[1] \in Nat /\ s[2] \in Nat
    <3>1. s \in (1..N) \X (1..N)
      BY <1>11 DEF CutsUp
    <3> QED  BY <1>1, <3>1
  <2> QED  BY <2>1
<1> QED  BY <1>3, <1>11, <1>12 DEF N

LEMMA TalksAreWhole ==
    ASSUME NEW e, IsEstate(e)
    PROVE  /\ \A u \in TalkUnits(e) :
                /\ u.type = Talk /\ u.cands = {} /\ u.files = {}
                /\ ~ Fits(e, u) => Cardinality(u.lines) <= 1
           /\ \A r \in DOMAIN e.talks : \A l \in DOMAIN e.talks[r] :
                \E u \in TalkUnits(e) : \A v \in TalkUnits(e) : <<r, l>> \in v.lines <=> v = u
<1>1. ASSUME NEW r, NEW s
      PROVE  LET u == Span(e, r, s[1], s[2])
             IN /\ u.type = Talk /\ u.cands = {} /\ u.files = {} /\ u.lines = {<<r, n>> : n \in s[1]..s[2]}
  BY UnitFields DEF Span
<1>2. ASSUME NEW u \in TalkUnits(e) PROVE \E r \in DOMAIN e.talks : \E s \in Spans(e, r) : u = Span(e, r, s[1], s[2])
  BY DEF TalkUnits
<1>3. ASSUME NEW r \in DOMAIN e.talks, NEW s \in Spans(e, r)
      PROVE  /\ s \in (1..Len(e.talks[r])) \X (1..Len(e.talks[r])) /\ Len(e.talks[r]) \in Nat
             /\ Span(e, r, s[1], s[2]) \in TalkUnits(e)
  BY SpansCutUp, TalkParts DEF CutsUp, TalkUnits
<1>4. ASSUME NEW u \in TalkUnits(e)
      PROVE  /\ u.type = Talk /\ u.cands = {} /\ u.files = {}
             /\ ~ Fits(e, u) => Cardinality(u.lines) <= 1
  <2>1. PICK r \in DOMAIN e.talks : \E s \in Spans(e, r) : u = Span(e, r, s[1], s[2])
    BY <1>2
  <2>2. PICK s \in Spans(e, r) : u = Span(e, r, s[1], s[2])
    BY <2>1
  <2>3. s[1] \in Nat /\ s[2] \in Nat
    BY <1>3
  <2>4. ASSUME ~ Fits(e, u) PROVE Cardinality(u.lines) <= 1
    <3>1. s[2] <= s[1]
      BY <2>2, <2>4, SpansCutUp
    <3>2. s[1]..s[2] = {} \/ s[1]..s[2] = {s[1]}
      BY <2>3, <3>1
    <3> DEFINE L == s[1]..s[2]
               a == s[1]
    <3>3. u.lines = {<<r, n>> : n \in L}
      BY <1>1, <2>2
    <3>4. L = {} \/ L = {a}
      BY <3>2
    <3> HIDE DEF L, a
    <3>5. u.lines = {} \/ u.lines = {<<r, a>>}
      BY <3>3, <3>4
    <3>6. CASE u.lines = {}
      BY <3>6, FS_EmptySet
    <3>7. CASE u.lines = {<<r, a>>}
      <4>1. Cardinality({<<r, a>>}) = 1
        BY FS_Singleton
      <4> QED  BY <3>7, <4>1
    <3> QED  BY <3>5, <3>6, <3>7
  <2> QED  BY <1>1, <2>2, <2>4
<1>5. ASSUME NEW r \in DOMAIN e.talks, NEW l \in DOMAIN e.talks[r]
      PROVE  \E u \in TalkUnits(e) : \A v \in TalkUnits(e) : <<r, l>> \in v.lines <=> v = u
  <2>1. CutsUp(Spans(e, r), Len(e.talks[r])) /\ l \in 1..Len(e.talks[r]) /\ Len(e.talks[r]) \in Nat
    BY SpansCutUp, TalkParts
  <2>2. PICK s \in Spans(e, r) : Across(s, l)
    BY <2>1 DEF CutsUp
  <2> DEFINE u == Span(e, r, s[1], s[2])
  <2>3. u \in TalkUnits(e) /\ s[1] \in Nat /\ s[2] \in Nat /\ l \in Nat
    BY <1>3, <2>1
  <2>4. l \in s[1]..s[2]
    BY <2>2, <2>3 DEF Across
  <2>5. <<r, l>> \in u.lines
    BY <1>1, <2>4
  <2>6. ASSUME NEW v \in TalkUnits(e), <<r, l>> \in v.lines PROVE v = u
    <3>1. PICK q \in DOMAIN e.talks : \E t \in Spans(e, q) : v = Span(e, q, t[1], t[2])
      BY <1>2
    <3>2. PICK t \in Spans(e, q) : v = Span(e, q, t[1], t[2])
      BY <3>1
    <3>3. PICK n \in t[1]..t[2] : <<r, l>> = <<q, n>>
      <4>1. v.lines = {<<q, n>> : n \in t[1]..t[2]}
        BY <1>1, <3>2
      <4> QED  BY <2>6, <4>1
    <3>4. q = r /\ n = l
      BY <3>3
    <3>5. t[1] \in Nat /\ t[2] \in Nat
      BY <1>3, <3>2
    <3>6. Across(t, l)
      BY <3>3, <3>4, <3>5 DEF Across
    <3>7. t = s
      BY <2>1, <2>2, <3>2, <3>4, <3>6 DEF CutsUp
    <3> QED  BY <3>2, <3>4, <3>7
  <2> HIDE DEF u
  <2> QED  BY <2>3, <2>5, <2>6
<1> QED  BY <1>4, <1>5

\* The texts under one name that a unit reads, and how many that comes to over
\* units that share none.
TextsUnder(e, u, s) == {f \in u.files : e.files[f].side = s}
CountsUp(f, e, U, s) ==
    f = [T \in SUBSET U |->
            IF T = {} THEN 0
            ELSE LET u == CHOOSE x \in T : TRUE IN f[T \ {u}] + Cardinality(TextsUnder(e, u, s))]

TimesRead(e, U, s) == Total(LAMBDA u : Cardinality({f \in u.files : e.files[f].side = s}), U)

LEMMA TextsAreCounted ==
    ASSUME NEW e, NEW s, NEW U, IsFiniteSet(U), \A u \in U : IsFiniteSet(u.files),
           \A u, v \in U : u.files \cap v.files # {} => u = v
    PROVE  TimesRead(e, U, s) = Cardinality({f \in UNION {u.files : u \in U} : e.files[f].side = s})
<1> DEFINE h(u) == TextsUnder(e, u, s)
           all(T) == UNION {h(u) : u \in T}
           W == [T \in SUBSET U |-> Cardinality(all(T))]
           g == CHOOSE f : CountsUp(f, e, U, s)
<1>1. \A u \in U : IsFiniteSet(h(u)) /\ Cardinality(h(u)) \in Nat
  <2> SUFFICES ASSUME NEW u \in U PROVE IsFiniteSet(h(u)) /\ Cardinality(h(u)) \in Nat
    OBVIOUS
  <2>1. h(u) \subseteq u.files
    BY DEF TextsUnder
  <2> HIDE DEF h
  <2> QED  BY <2>1, FS_Subset, FS_CardinalityType
<1>2. \A u, v \in U : u # v => h(u) \cap h(v) = {}
  BY DEF TextsUnder
<1>3. all(U) = {f \in UNION {u.files : u \in U} : e.files[f].side = s}
  BY DEF TextsUnder
<1> HIDE DEF h
<1>4. ASSUME NEW T \in SUBSET U PROVE IsFiniteSet(T) /\ IsFiniteSet(all(T)) /\ Cardinality(all(T)) \in Nat
  <2> DEFINE k == [u \in T |-> h(u)]
  <2>1. IsFiniteSet(T)
    BY FS_Subset
  <2>2. {h(u) : u \in T} = {k[u] : u \in T} /\ \A u \in T : IsFiniteSet(k[u])
    BY <1>1
  <2> HIDE DEF k
  <2>3. IsFiniteSet({k[u] : u \in T}) /\ \A S \in {k[u] : u \in T} : IsFiniteSet(S)
    BY <2>1, <2>2, ImageIsFinite
  <2>4. IsFiniteSet(UNION {k[u] : u \in T})
    BY <2>3, FS_UNION
  <2> QED  BY <2>1, <2>2, <2>4, FS_CardinalityType
<1>5. ASSUME NEW T \in SUBSET U, NEW u \in T
      PROVE  Cardinality(all(T)) = Cardinality(all(T \ {u})) + Cardinality(h(u))
  <2>1. all(T) = all(T \ {u}) \cup h(u) /\ all(T \ {u}) \cap h(u) = {}
    BY <1>2
  <2>2. T \ {u} \in SUBSET U /\ u \in U
    OBVIOUS
  <2>3. IsFiniteSet(all(T \ {u})) /\ Cardinality(all(T \ {u})) \in Nat
    BY <1>4, <2>2
  <2> HIDE DEF all
  <2>4. Cardinality(all(T \ {u}) \cup h(u))
        = Cardinality(all(T \ {u})) + Cardinality(h(u)) - Cardinality(all(T \ {u}) \cap h(u))
    BY <1>1, <2>2, <2>3, FS_Union
  <2>5. Cardinality(all(T \ {u}) \cap h(u)) = 0
    BY <2>1, FS_EmptySet
  <2> QED  BY <1>1, <2>1, <2>2, <2>3, <2>4, <2>5
<1>6. ASSUME NEW T \in SUBSET U
      PROVE  W[T] = IF T = {} THEN 0
                    ELSE LET u == CHOOSE x \in T : TRUE IN W[T \ {u}] + Cardinality(h(u))
  <2> DEFINE u == CHOOSE x \in T : TRUE
  <2>1. CASE T = {}
    <3>1. all(T) = {}
      BY <2>1
    <3> QED  BY <2>1, <3>1, FS_EmptySet
  <2>2. CASE T # {}
    <3>1. u \in T /\ T \ {u} \in SUBSET U
      BY <2>2
    <3> HIDE DEF u, all
    <3>2. Cardinality(all(T)) = Cardinality(all(T \ {u})) + Cardinality(h(u))
      BY <1>5, <3>1
    <3>3. W[T] = W[T \ {u}] + Cardinality(h(u))
      BY <3>1, <3>2
    <3> QED  BY <2>2, <3>3 DEF u
  <2> QED  BY <2>1, <2>2
<1>7. CountsUp(W, e, U, s)
  <2>1. W = [T \in SUBSET U |-> W[T]]
    OBVIOUS
  <2> HIDE DEF W
  <2>2. W = [T \in SUBSET U |-> IF T = {} THEN 0
                    ELSE LET u == CHOOSE x \in T : TRUE IN W[T \ {u}] + Cardinality(h(u))]
    BY <1>6, <2>1
  <2> QED  BY <2>2 DEF CountsUp, h
<1>8. CountsUp(g, e, U, s)
  <2> HIDE DEF W
  <2> QED  BY <1>7
<1>9. TimesRead(e, U, s) = g[U]
  BY Zenon DEF TimesRead, Total, FoldSet, MapThenFoldSet, CountsUp, TextsUnder
<1> HIDE DEF g, all
<1>10. \A T \in SUBSET U : g[T] = IF T = {} THEN 0
                    ELSE LET u == CHOOSE x \in T : TRUE IN g[T \ {u}] + Cardinality(h(u))
  BY <1>8 DEF CountsUp, h
<1> HIDE DEF W
<1> DEFINE S == {k \in Nat : \A T \in SUBSET U : Cardinality(T) = k => g[T] = W[T]}
<1>11. 0 \in S
  <2> SUFFICES ASSUME NEW T \in SUBSET U, Cardinality(T) = 0 PROVE g[T] = W[T]
    OBVIOUS
  <2>1. T = {}
    BY <1>4, FS_EmptySet
  <2> QED  BY <1>6, <1>10, <2>1
<1>12. ASSUME NEW k \in S PROVE k + 1 \in S
  <2> SUFFICES ASSUME NEW T \in SUBSET U, Cardinality(T) = k + 1 PROVE g[T] = W[T]
    OBVIOUS
  <2> DEFINE u == CHOOSE x \in T : TRUE
  <2>1. IsFiniteSet(T) /\ k \in Nat /\ T # {}
    BY <1>4, FS_EmptySet
  <2>2. u \in T /\ T \ {u} \in SUBSET U
    BY <2>1
  <2> HIDE DEF u
  <2>3. Cardinality(T \ {u}) = k
    <3>1. Cardinality(T \ {u}) = Cardinality(T) - 1
      BY <2>1, <2>2, FS_RemoveElement
    <3> QED  BY <2>1, <3>1
  <2>4. g[T \ {u}] = W[T \ {u}]
    BY <2>2, <2>3
  <2>5. g[T] = g[T \ {u}] + Cardinality(h(u))
    BY <1>10, <2>1 DEF u
  <2>6. W[T] = W[T \ {u}] + Cardinality(h(u))
    BY <1>6, <2>1 DEF u
  <2> QED  BY <2>4, <2>5, <2>6
<1>13. S = Nat
  <2> HIDE DEF S
  <2>1. S \in SUBSET Nat
    BY DEF S
  <2> QED  BY <1>11, <1>12, <2>1, NatInductionSet
<1>14. Cardinality(U) \in Nat
  BY FS_CardinalityType
<1>15. g[U] = W[U]
  BY <1>13, <1>14
<1> QED  BY <1>3, <1>9, <1>15 DEF W

\* A plan is one its build does not refuse, whatever the files and their texts
\* are, and each of its units fits, or holds nothing more that could step out
\* or be divided.
LEMMA EveryPlanIsWhole ==
    ASSUME NEW e, IsEstate(e), NEW w, NEW c, NEW g
    PROVE  LET p == Plan(e, w, c, g)
           IN /\ ~ Refused(e, w, c, p)
              /\ \A u \in p.units : ~ Fits(e, u) => u.cands = {} /\ Cardinality(u.lines) <= 1
<1> DEFINE p == Plan(e, w, c, g)
           books == BookUnits(e)
           talks == TalkUnits(e)
           atts == AttUnits(e, w, c, g)
           U == p.units
<1>1. U = books \cup talks \cup atts /\ IsFiniteSet(U)
      /\ p.aside = {x \in DOMAIN e.cands : HomeOf(e, Joined(e), x) # 0} \ UNION {u.cands : u \in U}
  BY UnitsParts DEF Plan, PlannedUnits
<1>2. /\ \A x \in DOMAIN e.cands : HomeOf(e, Joined(e), x) # 0
      /\ \A u \in books : u.lines = {} /\ u.files = {} /\ (~ Fits(e, u) => u.cands = {})
      /\ \A u, v \in books : u.cands \cap v.cands # {} => u = v
  BY BooksAreWhole
<1>3. /\ \A u \in talks : u.cands = {} /\ u.files = {} /\ (~ Fits(e, u) => Cardinality(u.lines) <= 1)
      /\ \A r \in DOMAIN e.talks : \A l \in DOMAIN e.talks[r] :
           \E u \in talks : \A v \in talks : <<r, l>> \in v.lines <=> v = u
  BY TalksAreWhole
<1>4. /\ \A u \in atts : u.cands = {} /\ u.lines = {} /\ u.files \subseteq Served(e, w, c)
      /\ \A f \in Served(e, w, c) : \E u \in atts : f \in u.files
      /\ \A u, v \in atts : u.files \cap v.files # {} => u = v
  BY AttachmentsAreWhole
<1> HIDE DEF p, books, talks, atts
<1>5. ASSUME NEW u \in U, ~ Fits(e, u) PROVE u.cands = {} /\ Cardinality(u.lines) <= 1
  <2>1. Cardinality({}) = 0
    BY FS_EmptySet
  <2>2. CASE u \in books
    BY <1>2, <1>5, <2>1, <2>2
  <2>3. CASE u \in talks
    BY <1>3, <1>5, <2>3
  <2>4. CASE u \in atts
    BY <1>4, <2>1, <2>4
  <2> QED  BY <1>1, <2>2, <2>3, <2>4
\* Each candidate in one unit, or set aside.
<1>6. ASSUME NEW x \in DOMAIN e.cands
      PROVE  Cardinality({u \in U : x \in u.cands}) = IF x \in p.aside THEN 0 ELSE 1
  <2>1. x \in p.aside <=> ~ \E u \in U : x \in u.cands
    BY <1>1, <1>2
  <2>2. CASE x \in p.aside
    <3>1. {u \in U : x \in u.cands} = {}
      BY <2>1, <2>2
    <3> QED  BY <2>2, <3>1, FS_EmptySet
  <2>3. CASE x \notin p.aside
    <3>1. PICK u \in U : x \in u.cands
      BY <2>1, <2>3
    <3>2. \A v \in U : x \in v.cands => v = u
      BY <1>1, <1>2, <1>3, <1>4, <3>1
    <3>3. {v \in U : x \in v.cands} = {u}
      BY <3>1, <3>2
    <3> QED  BY <2>3, <3>3, FS_Singleton
  <2> QED  BY <2>2, <2>3
\* Each line in one.
<1>7. ASSUME NEW r \in DOMAIN e.talks, NEW l \in DOMAIN e.talks[r]
      PROVE  Cardinality({u \in U : <<r, l>> \in u.lines}) = 1
  <2>1. PICK u \in talks : \A v \in talks : <<r, l>> \in v.lines <=> v = u
    BY <1>3
  <2>2. {v \in U : <<r, l>> \in v.lines} = {u}
    BY <1>1, <1>2, <1>4, <2>1
  <2> QED  BY <2>2, FS_Singleton
\* Each text as often as it was chosen.
<1>8. ASSUME NEW s
      PROVE  TimesRead(e, U, s) = Cardinality({f \in Served(e, w, c) : e.files[f].side = s})
  <2>1. UNION {u.files : u \in U} = Served(e, w, c)
    <3>1. \A u \in U : u.files \subseteq Served(e, w, c)
      BY <1>1, <1>2, <1>3, <1>4
    <3>2. \A f \in Served(e, w, c) : \E u \in U : f \in u.files
      BY <1>1, <1>4
    <3> QED  BY <3>1, <3>2
  <2>2. \A u, v \in U : u.files \cap v.files # {} => u = v
    BY <1>1, <1>2, <1>3, <1>4
  <2>3. \A u \in U : IsFiniteSet(u.files)
    <3>1. Served(e, w, c) \subseteq DOMAIN e.files
      BY DEF Served, Convertible, Present
    <3>2. IsFiniteSet(DOMAIN e.files)
      BY Zenon DEF IsEstate
    <3>3. \A u \in U : u.files \subseteq DOMAIN e.files
      BY <2>1, <3>1
    <3> QED  BY <3>2, <3>3, FS_Subset
  <2> HIDE DEF U
  <2>4. TimesRead(e, U, s) = Cardinality({f \in UNION {u.files : u \in U} : e.files[f].side = s})
    BY <1>1, <2>2, <2>3, TextsAreCounted
  <2> QED  BY <2>1, <2>4
<1>9. ~ Refused(e, w, c, p)
  <2> SUFFICES ASSUME Refused(e, w, c, p) PROVE FALSE
    OBVIOUS
  <2>1. \/ \E x \in DOMAIN e.cands : Cardinality({u \in U : x \in u.cands}) # (IF x \in p.aside THEN 0 ELSE 1)
        \/ \E r \in DOMAIN e.talks : \E l \in DOMAIN e.talks[r] : Cardinality({u \in U : <<r, l>> \in u.lines}) # 1
        \/ \E s : TimesRead(e, U, s) # Cardinality({f \in Served(e, w, c) : e.files[f].side = s})
    BY Zenon DEF Refused, TimesRead
  <2> QED  BY <1>6, <1>7, <1>8, <2>1, Zenon
<1> QED  BY <1>5, <1>9 DEF p

LEMMA PlanIsWholeInit == Init => PlanIsWhole
BY DEF Init, NoPlan, PlanIsWhole

LEMMA PlanIsWholeNext == BaseInv /\ PlanIsWhole /\ [Next]_vars => PlanIsWhole'
<1> SUFFICES ASSUME BaseInv, PlanIsWhole, [Next]_vars PROVE PlanIsWhole'
  OBVIOUS
<1>0. IsEstate(estate)
  BY EstatesAssumption DEF BaseInv
\* What leaves the plan alone and refuses none.
<1>1. ASSUME UNCHANGED <<estate, plan>>, end' = end \/ end' \in {"stopped", "applied"} PROVE PlanIsWhole'
  BY <1>1 DEF PlanIsWhole
<1>2. ASSUME NEW anyway \in BOOLEAN, Build(anyway) PROVE PlanIsWhole'
  <2> DEFINE p == Plan(estate, work, cache, groups)
  <2>1. ~ Refused(estate, work, cache, p)
    BY <1>0, EveryPlanIsWhole
  <2>2. \A u \in p.units : ~ Fits(estate, u) => u.cands = {} /\ Cardinality(u.lines) <= 1
    BY <1>0, EveryPlanIsWhole
  <2>3. end' = end /\ estate' = estate /\ plan' = With(p, [made |-> TRUE, of |-> work])
    BY <1>2, <2>1 DEF Build
  <2>4. plan'.units = p.units
    BY <2>3 DEF With, Plan
  <2> HIDE DEF p
  <2> QED  BY <2>2, <2>3, <2>4 DEF PlanIsWhole
<1>3. ASSUME NEW f \in DOMAIN work, Convert(f) \/ ConvertTorn(f) \/ \E c \in estate.contents : Edit(f, c) \/ ConvertCrossed(f, c)
      PROVE  PlanIsWhole'
  BY <1>1, <1>3 DEF Convert, ConvertTorn, ConvertCrossed, Edit
<1>4. ASSUME NEW g \in estate.groupings, GroupPhotos(g) PROVE PlanIsWhole'
  BY <1>1, <1>4 DEF GroupPhotos
<1>5. ASSUME NEW reached \in SUBSET DOMAIN told, Poll(reached) PROVE PlanIsWhole'
  BY <1>1, <1>5 DEF Poll
<1>6. ASSUME NEW u \in asked, Answers(u) \/ \E half \in BOOLEAN : Dies(u, half) PROVE PlanIsWhole'
  BY <1>1, <1>6 DEF Answers, Dies
<1>7. ASSUME NEW r \in estate.reviews, ReviewerWrites(r) PROVE PlanIsWhole'
  BY <1>1, <1>7 DEF ReviewerWrites
<1>8. CASE DigestStep
  BY <1>1, <1>8 DEF DigestStep
<1>9. CASE Assemble
  BY <1>1, <1>9 DEF Assemble
<1>10. CASE Apply
  BY <1>1, <1>10 DEF Apply
<1>11. ASSUME NEW id \in store, StoreLoses(id) PROVE PlanIsWhole'
  BY <1>1, <1>11 DEF StoreLoses
<1>12. CASE UNCHANGED vars
  BY <1>1, <1>12 DEF vars
<1> QED  BY <1>2, <1>3, <1>4, <1>5, <1>6, <1>7, <1>8, <1>9, <1>10, <1>11, <1>12 DEF Next

\* No build ever refuses its own plan, whatever was edited, converted or grouped
\* before it, and a unit that could not be brought under its budget holds no
\* candidate and nothing that could still be divided (plan_units, _set_aside,
\* _check_exhaustive).
THEOREM PlanIsAlwaysWhole == Spec => []PlanIsWhole
BY BaseAlways, PlanIsWholeInit, PlanIsWholeNext, PTL DEF Spec
=============================================================================
