---------------------------- MODULE ReadersProofs ----------------------------
(***************************************************************************)
(* What readers leave and what they are handed: proofs about Comments and  *)
(* Reports.                                                                *)
(*                                                                         *)
(* Comments keeps the promise of CommentLife: every step of a request, of  *)
(* the Telegram runtime, of the drain and of reconcile is a step of the    *)
(* promised life or changes nothing it speaks of.  Whom a comment climbs   *)
(* to does not matter there, only that every way the climb ends leaves the *)
(* comment open.  Where it waits is an argument of its own: the climb is   *)
(* well founded, so it comes to somebody new or to the pool.               *)
(*                                                                         *)
(* What the download of a report hands out is what would be built now, and *)
(* the PDF was printed from the page beside it, for any processes, any     *)
(* number of builds at once and any order of edits, marks and stops.  What *)
(* a page and the order say is never opened: a key is the page seen from   *)
(* outside, and that is all the argument needs.                            *)
(***************************************************************************)
EXTENDS Comments, Reports, Induction

\* A row of the table: it has its columns, whatever the climb wrote in approver.
IsRow(c) ==
    DOMAIN c = {"author", "state", "stage", "approver", "passAs", "approvedBy", "received"}

\* The invariant the steps of the comment need: nothing withdrawn has been
\* approved, and whoever acts is somebody.
LifeInv ==
    /\ IsRow(comment)
    /\ comment.state \in {"unwritten", "withdrawn"} => comment.approvedBy = {}
    /\ DOMAIN acting = Request
    /\ \A r \in Request : acting[r] # NoOne => acting[r].who \in User

\* The invariant the drain needs: between recording and marking the row is
\* recorded, and so is a marked one.
DrainInv ==
    /\ recorded \in {0, 1}
    /\ draining => outbox = "waiting" /\ recorded = 1
    /\ outbox = "drained" => recorded = 1

-----------------------------------------------------------------------------
(* Every way a routing ends.                                               *)

\* In moves a comment and touches nothing else: not the approvals.
LEMMA InMoves ==
    ASSUME NEW c, IsRow(c), NEW state, NEW stage, NEW approver
    PROVE  LET d == In(c, state, stage, approver)
           IN  IsRow(d) /\ d.state = state /\ d.approvedBy = c.approvedBy
BY DEF In, IsRow

\* The pool, or the Editors when there is nobody to wait for in it.
LEMMA PooledStaysOpen ==
    ASSUME NEW c, IsRow(c)
    PROVE  IsRow(Pooled(c)) /\ Pooled(c).state \in Life!Open
              /\ Pooled(c).approvedBy = c.approvedBy
BY InMoves DEF Pooled, Life!Open

\* The next Reader, or the pool.
LEMMA AdvancedStaysOpen ==
    ASSUME NEW c, IsRow(c), NEW u
    PROVE  IsRow(Advanced(c, u)) /\ Advanced(c, u).state \in Life!Open
              /\ Advanced(c, u).approvedBy = c.approvedBy
<1> DEFINE next == NextReader(u, {c.author} \cup c.approvedBy)
           there == In(c, "awaiting", "reader", next)
<1>1. CASE next = NoUser
  BY <1>1, PooledStaysOpen DEF Advanced
<1>2. CASE next # NoUser
  <2>1. IsRow(there) /\ there.state = "awaiting" /\ there.approvedBy = c.approvedBy
    BY InMoves
  <2>2. Advanced(c, u) = [there EXCEPT !.received = @ \cup {next}]
    BY <1>2 DEF Advanced
  <2> HIDE DEF there, next
  <2>3. QED
    BY <2>1, <2>2 DEF IsRow, Life!Open
<1>3. QED
  BY <1>1, <1>2

\* A new pass has no approvals yet.
LEMMA SubmittedIsFresh ==
    ASSUME NEW c, IsRow(c)
    PROVE  IsRow(Submitted(c)) /\ Submitted(c).state \in Life!Open
              /\ Submitted(c).approvedBy = {}
<1> DEFINE pass == [c EXCEPT !.passAs = KindOf(c.author), !.approvedBy = {}]
<1>1. IsRow(pass) /\ pass.approvedBy = {}
  BY DEF IsRow
<1>2. Submitted(c) = IF pass.passAs = "reader" THEN Advanced(pass, c.author)
                     ELSE In(pass, "approved", "none", NoUser)
  BY DEF Submitted
<1> HIDE DEF pass
<1>3. QED
  BY <1>1, <1>2, AdvancedStaysOpen, InMoves DEF Life!Open

\* Reconcile only moves.
LEMMA ReconciledStaysOpen ==
    ASSUME NEW c, IsRow(c)
    PROVE  IsRow(Reconciled(c)) /\ Reconciled(c).state \in Life!Open
              /\ Reconciled(c).approvedBy = c.approvedBy
BY AdvancedStaysOpen, PooledStaysOpen DEF Reconciled

-----------------------------------------------------------------------------
(* The invariants.                                                         *)

LEMMA LifeInvInit == Init => LifeInv
BY DEF Init, LifeInv, IsRow, NoComment

\* A request that ends leaves the comment a row, and the others as they were.
LEMMA RequestKeepsLifeInv ==
    ASSUME LifeInv, NEW r \in Request, Done(r), IsRow(comment'),
           comment'.state \in {"unwritten", "withdrawn"} => comment'.approvedBy = {}
    PROVE  LifeInv'
BY DEF LifeInv, Done

LEMMA LifeInvStep == LifeInv /\ [Next]_vars => LifeInv'
<1> SUFFICES ASSUME LifeInv, [Next]_vars PROVE LifeInv'
  OBVIOUS
<1> IsRow(comment)
  BY DEF LifeInv
<1>1. ASSUME NEW r \in Request, NEW u \in User, Arrive(r, u) PROVE LifeInv'
  BY <1>1 DEF Arrive, LifeInv, peopleVars, copyVars
<1>2. ASSUME NEW r \in Request, Refuse(r) PROVE LifeInv'
  BY <1>2, RequestKeepsLifeInv DEF Refuse, LifeInv
<1>3. ASSUME NEW r \in Request, Create(r) PROVE LifeInv'
  <2>1. IsRow([comment EXCEPT !.author = acting[r].who])
    BY DEF IsRow
  <2>2. QED
    BY <1>3, <2>1, SubmittedIsFresh, RequestKeepsLifeInv DEF Create, Life!Open
<1>4. ASSUME NEW r \in Request, Approve(r) PROVE LifeInv'
  <2> DEFINE c == [comment EXCEPT !.approvedBy = @ \cup {acting[r].who}]
  <2>1. IsRow(c)
    BY DEF IsRow
  <2>2. Done(r)
    BY <1>4 DEF Approve, Acts
  <2>3. comment' = IF c.stage = "pool" THEN In(c, "approved", "none", NoUser)
                                        ELSE Advanced(c, acting[r].who)
    BY <1>4 DEF Approve
  <2> HIDE DEF c
  <2>4. IsRow(comment') /\ comment'.state \in Life!Open
    BY <2>1, <2>3, InMoves, AdvancedStaysOpen DEF Life!Open
  <2>5. QED
    BY <2>2, <2>4, RequestKeepsLifeInv DEF Life!Open
<1>5. ASSUME NEW r \in Request, Reject(r) \/ Address(r) PROVE LifeInv'
  BY <1>5, InMoves, RequestKeepsLifeInv DEF Reject, Address, Acts
<1>6. ASSUME NEW r \in Request, Edit(r) \/ Restore(r) PROVE LifeInv'
  BY <1>6, SubmittedIsFresh, RequestKeepsLifeInv DEF Edit, Restore, Acts, Life!Open
<1>7. ASSUME NEW r \in Request, Withdraw(r) PROVE LifeInv'
  BY <1>7, InMoves, RequestKeepsLifeInv DEF Withdraw, Acts, OwnUntouched
<1>8. ASSUME Resolve PROVE LifeInv'
  BY <1>8 DEF Resolve, LifeInv, IsRow
<1>9. ASSUME Record \/ Mark \/ DrainLost PROVE LifeInv'
  BY <1>9 DEF Record, Mark, DrainLost, LifeInv
<1>10. ASSUME Reconcile PROVE LifeInv'
  BY <1>10, ReconciledStaysOpen DEF Reconcile, LifeInv, Life!Open
<1>11. ASSUME NEW u \in User, AccountChanges(u) PROVE LifeInv'
  BY <1>11 DEF AccountChanges, LifeInv
<1>12. CASE UNCHANGED vars
  BY <1>12 DEF vars, LifeInv
<1>13. QED
  BY <1>1, <1>2, <1>3, <1>4, <1>5, <1>6, <1>7, <1>8, <1>9, <1>10, <1>11, <1>12
  DEF Next, Asked

\* The invariant of the comment holds of every reachable state.
THEOREM LifeInvHolds == Spec => []LifeInv
BY LifeInvInit, LifeInvStep, PTL DEF Spec

LEMMA DrainInvStep == DrainInv /\ [Next]_vars => DrainInv'
<1> SUFFICES ASSUME DrainInv, [Next]_vars PROVE DrainInv'
  OBVIOUS
<1>1. CASE UNCHANGED copyVars
  BY <1>1 DEF copyVars, DrainInv
<1>2. CASE Resolve
  BY <1>2 DEF Resolve, DrainInv
<1>3. CASE Record
  BY <1>3 DEF Record, DrainInv
<1>4. CASE Mark
  BY <1>4 DEF Mark, DrainInv
<1>5. CASE DrainLost
  BY <1>5 DEF DrainLost, DrainInv
<1>6. CASE Asked
  BY <1>1, <1>6 DEF Asked, Arrive, Refuse, Create, Approve, Reject, Edit, Withdraw,
                    Restore, Address, Acts, Done
<1>7. CASE Reconcile \/ \E u \in User : AccountChanges(u)
  BY <1>1, <1>7 DEF Reconcile, AccountChanges
<1>8. CASE UNCHANGED vars
  BY <1>1, <1>8 DEF vars, copyVars
<1>9. QED
  BY <1>2, <1>3, <1>4, <1>5, <1>6, <1>7, <1>8 DEF Next

\* A resolve outside is recorded once, wherever the drain stops.
THEOREM AlwaysRecordedOnce == Spec => []RecordedOnce
<1>1. Init => DrainInv
  BY DEF Init, DrainInv
<1>2. DrainInv => RecordedOnce
  BY DEF DrainInv, RecordedOnce
<1>3. QED
  BY <1>1, <1>2, DrainInvStep, PTL DEF Spec

-----------------------------------------------------------------------------
(* The promise.                                                            *)

LEMMA LifeInit == Init => Life!Init
BY DEF Init, Life!Init, NoComment

\* A request, step by step of the promised life.
LEMMA RequestLives ==
    ASSUME LifeInv, Asked
    PROVE  [Life!Next]_(Life!vars)
<1> USE DEF Life!Next, Life!vars
<1> IsRow(comment)
  BY DEF LifeInv
<1>1. ASSUME NEW r \in Request, Done(r) PROVE UNCHANGED copyVars
  BY <1>1 DEF Done
<1>2. ASSUME NEW r \in Request, NEW u \in User, Arrive(r, u) PROVE UNCHANGED Life!vars
  BY <1>2 DEF Arrive, copyVars
<1>3. ASSUME NEW r \in Request, Refuse(r) PROVE UNCHANGED Life!vars
  BY <1>1, <1>3 DEF Refuse, copyVars
<1>4. ASSUME NEW r \in Request, Create(r) PROVE Life!Write
  <2>1. IsRow([comment EXCEPT !.author = acting[r].who])
    BY DEF IsRow
  <2>2. comment'.state \in Life!Open /\ comment'.approvedBy = {}
    BY <1>4, <2>1, SubmittedIsFresh DEF Create
  <2>3. comment.state = "unwritten" /\ comment.approvedBy = {}
    BY <1>4 DEF Create, Written, LifeInv
  <2>4. UNCHANGED copyVars
    BY <1>1, <1>4 DEF Create
  <2>5. QED
    BY <2>2, <2>3, <2>4 DEF Life!Write, copyVars
<1>5. ASSUME NEW r \in Request, Approve(r) PROVE Life!Approve(acting[r].who)
  <2> DEFINE c == [comment EXCEPT !.approvedBy = @ \cup {acting[r].who}]
  <2>1. IsRow(c) /\ c.approvedBy = comment.approvedBy \cup {acting[r].who}
    BY DEF IsRow
  <2>2. comment' = IF c.stage = "pool" THEN In(c, "approved", "none", NoUser)
                                        ELSE Advanced(c, acting[r].who)
    BY <1>5 DEF Approve
  <2> HIDE DEF c
  <2>3. comment'.state \in Life!Open /\ comment'.approvedBy = c.approvedBy
    BY <2>1, <2>2, InMoves, AdvancedStaysOpen DEF Life!Open
  <2>4. comment.state = "awaiting"
    BY <1>5 DEF Approve, MayDecide
  <2>5. UNCHANGED copyVars
    BY <1>1, <1>5 DEF Approve, Acts
  <2>6. QED
    BY <2>1, <2>3, <2>4, <2>5 DEF Life!Approve, copyVars
<1>6. ASSUME NEW r \in Request, Reject(r) PROVE Life!Reject
  BY <1>1, <1>6, InMoves DEF Reject, Acts, MayDecide, Life!Reject, copyVars
<1>7. ASSUME NEW r \in Request, Edit(r) \/ Restore(r) PROVE Life!Write
  <2>1. comment'.state \in Life!Open /\ comment'.approvedBy = {}
    BY <1>7, SubmittedIsFresh DEF Edit, Restore
  <2>2. comment.state \in Life!Open \cup {"withdrawn"} /\ comment.approvedBy = {}
    BY <1>7 DEF Edit, Restore, OwnUntouched, LifeInv, Life!Open
  <2>3. UNCHANGED copyVars
    BY <1>1, <1>7 DEF Edit, Restore, Acts
  <2>4. QED
    BY <2>1, <2>2, <2>3 DEF Life!Write, copyVars
<1>8. ASSUME NEW r \in Request, Withdraw(r) PROVE Life!Withdraw
  BY <1>1, <1>8, InMoves DEF Withdraw, Acts, OwnUntouched, Life!Withdraw, Life!Open, copyVars
<1>9. ASSUME NEW r \in Request, Address(r) PROVE Life!Address
  <2>1. UNCHANGED <<outbox, recorded>>
    BY <1>1, <1>9 DEF Address, Acts, copyVars
  <2>2. comment'.state = "addressed" /\ comment'.approvedBy = comment.approvedBy
    BY <1>9, InMoves DEF Address
  <2>3. QED
    BY <1>9, <2>1, <2>2 DEF Address, Life!Address
<1>10. ASSUME NEW r \in Request PROVE acting[r] = NoOne \/ acting[r].who \in User
  BY DEF LifeInv
<1>11. ASSUME NEW r \in Request, Approve(r) PROVE acting[r].who \in User
  BY <1>10, <1>11 DEF Approve, Acts, Done
<1>12. QED
  BY <1>2, <1>3, <1>4, <1>5, <1>6, <1>7, <1>8, <1>9, <1>11 DEF Asked

LEMMA LifeStep == LifeInv /\ DrainInv /\ [Next]_vars => [Life!Next]_(Life!vars)
<1> SUFFICES ASSUME LifeInv, DrainInv, [Next]_vars
             PROVE  [Life!Next]_(Life!vars)
  OBVIOUS
<1> USE DEF Life!Next, Life!vars
<1>1. CASE Asked
  BY <1>1, RequestLives
<1>2. CASE Resolve
  <2>1. comment'.state = "addressed" /\ comment'.approvedBy = comment.approvedBy
    BY <1>2 DEF Resolve, LifeInv, IsRow
  <2>2. Life!Address
    BY <1>2, <2>1 DEF Resolve, Life!Address
  <2>3. QED
    BY <2>2
<1>3. CASE Record
  BY <1>3 DEF Record, DrainInv, Life!Copy
<1>4. CASE Mark
  BY <1>4 DEF Mark, DrainInv
<1>5. CASE DrainLost
  BY <1>5 DEF DrainLost
<1>6. CASE Reconcile
  <2>1. comment'.state \in Life!Open /\ comment'.approvedBy = comment.approvedBy
    BY <1>6, ReconciledStaysOpen DEF Reconcile, LifeInv
  <2>2. Life!Reroute
    BY <1>6, <2>1 DEF Reconcile, Stuck, Life!Reroute, copyVars
  <2>3. QED
    BY <2>2
<1>7. CASE \E u \in User : AccountChanges(u)
  BY <1>7 DEF AccountChanges, copyVars
<1>8. CASE UNCHANGED vars
  BY <1>8 DEF vars
<1>9. QED
  BY <1>1, <1>2, <1>3, <1>4, <1>5, <1>6, <1>7, <1>8 DEF Next

\* The workflow implements the promised life of a comment.
THEOREM PromiseIsKept == Spec => KeepsThePromise
<1>1. Init => DrainInv
  BY DEF Init, DrainInv
<1>2. QED
  BY <1>1, LifeInit, LifeInvInit, LifeInvStep, DrainInvStep, LifeStep, PTL
  DEF Spec, KeepsThePromise, Life!Spec

\* What the promise says of approvals and closed comments holds of the workflow:
\* no edit, withdrawal or re-send drops an approval, and nothing leaves rejected
\* or addressed.
THEOREM DecisionsAlwaysStand == Spec => Life!DecisionsStand
<1>1. [Life!Next]_(Life!vars) => [Life!Stands]_(Life!vars)
  BY DEF Life!Next, Life!vars, Life!Stands, Life!Write, Life!Withdraw, Life!Reroute,
         Life!Reject, Life!Address, Life!Copy, Life!Approve, Life!Open
<1>2. Spec => [][Life!Next]_(Life!vars)
  BY PromiseIsKept, PTL DEF KeepsThePromise, Life!Spec
<1>3. QED
  BY <1>1, <1>2, PTL DEF Life!DecisionsStand

-----------------------------------------------------------------------------
(* Whom a comment climbs to.  The climb asks each hop only about a place   *)
(* with one person less left to ask; users being finitely many it is well  *)
(* defined, and every place it ends at is new.                             *)

\* Where a climb can be: whom it has come to, and whom it must not ask again.
Places == User \X SUBSET User

Hop(g, at) ==
    LET sup == person[at[1]].supervisor
    IN  IF sup = NoUser \/ sup \in at[2] THEN NoUser
        ELSE IF person[sup].disabled THEN g[<<sup, at[2] \cup {sup}>>]
        ELSE IF KindOf(sup) = "reader" THEN sup ELSE NoUser

IsClimb(g) == g = [at \in Places |-> Hop(g, at)]

\* How many people are left to ask.
Left(at) == Cardinality(User \ at[2])

LEMMA NextReaderDef ==
    ASSUME NEW u, NEW visited
    PROVE  NextReader(u, visited) = (CHOOSE g : IsClimb(g))[<<u, visited>>]
BY DEF NextReader, IsClimb, Hop, Places

\* A hop over somebody disabled leaves one person less.
LEMMA HopClimbs ==
    ASSUME CommentsAssumption, person \in [User -> Person],
           NEW at \in Places, NEW sup, sup = person[at[1]].supervisor, sup # NoUser, sup \notin at[2]
    PROVE  /\ sup \in User /\ <<sup, at[2] \cup {sup}>> \in Places
           /\ Left(at) \in Nat /\ Left(<<sup, at[2] \cup {sup}>>) = Left(at) - 1
           /\ Left(<<sup, at[2] \cup {sup}>>) \in Nat
<1>1. at[1] \in User /\ at[2] \in SUBSET User
  BY DEF Places
<1>2. sup \in User
  BY <1>1 DEF Person
<1> DEFINE next == <<sup, at[2] \cup {sup}>>
           rest == User \ at[2]
<1>3. next \in Places /\ next[2] = at[2] \cup {sup}
  BY <1>1, <1>2 DEF Places
<1>4. IsFiniteSet(rest) /\ sup \in rest /\ User \ next[2] = rest \ {sup}
  BY <1>2, <1>3, FS_Difference DEF CommentsAssumption
<1> HIDE DEF rest
<1>5. Cardinality(rest \ {sup}) = Cardinality(rest) - 1 /\ Cardinality(rest) \in Nat
      /\ Cardinality(rest \ {sup}) \in Nat
  BY <1>4, FS_RemoveElement, FS_CardinalityType
<1> QED  BY <1>2, <1>3, <1>4, <1>5 DEF Left, rest

\* The climb as far as so many people are left to ask.
Climbs(g, n) ==
    /\ g \in [Places -> User \cup {NoUser}]
    /\ \A at \in Places : Left(at) <= n => g[at] = Hop(g, at)

LEMMA LeftIsNat ==
    ASSUME CommentsAssumption, NEW at \in Places
    PROVE  Left(at) \in Nat /\ Left(at) <= Cardinality(User) /\ Cardinality(User) \in Nat
<1>1. IsFiniteSet(User) /\ User \ at[2] \subseteq User
  BY DEF CommentsAssumption
<1>2. Cardinality(User \ at[2]) <= Cardinality(User)
  BY <1>1, FS_Subset
<1>3. IsFiniteSet(User \ at[2])
  BY <1>1, FS_Subset
<1> QED  BY <1>1, <1>2, <1>3, FS_CardinalityType DEF Left

LEMMA HopIn ==
    ASSUME CommentsAssumption, person \in [User -> Person], NEW g \in [Places -> User \cup {NoUser}],
           NEW at \in Places
    PROVE  Hop(g, at) \in User \cup {NoUser}
<1> DEFINE sup == person[at[1]].supervisor
<1>1. CASE sup = NoUser \/ sup \in at[2]
  BY <1>1 DEF Hop
<1>2. CASE sup # NoUser /\ sup \notin at[2]
  <2>1. sup \in User /\ <<sup, at[2] \cup {sup}>> \in Places
    BY <1>2, HopClimbs
  <2> QED  BY <1>2, <2>1 DEF Hop
<1> QED  BY <1>1, <1>2

\* A hop asks only where fewer are left.
LEMMA HopSame ==
    ASSUME CommentsAssumption, person \in [User -> Person], NEW g, NEW h, NEW at \in Places,
           \A b \in Places : Left(b) < Left(at) => g[b] = h[b]
    PROVE  Hop(g, at) = Hop(h, at)
<1> DEFINE sup == person[at[1]].supervisor
<1>1. CASE sup = NoUser \/ sup \in at[2]
  BY <1>1 DEF Hop
<1>2. CASE sup # NoUser /\ sup \notin at[2]
  <2> DEFINE next == <<sup, at[2] \cup {sup}>>
  <2>1. next \in Places /\ Left(next) < Left(at)
    BY <1>2, HopClimbs
  <2>2. g[next] = h[next]
    BY <2>1
  <2> QED  BY <1>2, <2>2 DEF Hop
<1> QED  BY <1>1, <1>2

LEMMA ClimbExists ==
    ASSUME CommentsAssumption, person \in [User -> Person]
    PROVE  \E g \in [Places -> User \cup {NoUser}] : IsClimb(g)
<1> DEFINE S == {n \in Nat : \E g : Climbs(g, n)}
<1>1. ASSUME NEW n \in Nat, NEW g \in [Places -> User \cup {NoUser}],
             \A at \in Places : Left(at) < n => g[at] = Hop(g, at)
      PROVE  n \in S
  <2> DEFINE h == [at \in Places |-> IF Left(at) = n THEN Hop(g, at) ELSE g[at]]
  <2>1. h \in [Places -> User \cup {NoUser}]
    BY HopIn
  <2>2. \A at \in Places : Left(at) # n => h[at] = g[at]
    OBVIOUS
  <2>3. \A at \in Places : Left(at) = n => h[at] = Hop(g, at)
    OBVIOUS
  <2> HIDE DEF h
  <2>4. ASSUME NEW at \in Places, Left(at) <= n PROVE h[at] = Hop(h, at)
    <3>1. \A b \in Places : Left(b) < Left(at) => h[b] = g[b]
      <4> SUFFICES ASSUME NEW b \in Places, Left(b) < Left(at) PROVE Left(b) # n
        BY <2>2
      <4>1. Left(b) \in Nat /\ Left(at) \in Nat
        BY LeftIsNat
      <4> QED  BY <2>4, <4>1
    <3>2. Hop(h, at) = Hop(g, at)
      BY <3>1, HopSame
    <3>3. CASE Left(at) = n
      BY <2>3, <3>2, <3>3
    <3>4. CASE Left(at) # n
      <4>1. Left(at) < n
        BY <2>4, <3>4, LeftIsNat
      <4> QED  BY <1>1, <2>2, <3>2, <3>4, <4>1
    <3> QED  BY <3>3, <3>4
  <2> QED  BY <2>1, <2>4 DEF Climbs
<1>2. 0 \in S
  <2> DEFINE g == [at \in Places |-> NoUser]
  <2>1. g \in [Places -> User \cup {NoUser}]
    OBVIOUS
  <2>2. \A at \in Places : ~(Left(at) < 0)
    BY LeftIsNat
  <2> HIDE DEF g, S
  <2> QED  BY <1>1, <2>1, <2>2
<1>3. \A n \in S : n + 1 \in S
  <2> SUFFICES ASSUME NEW n \in S PROVE n + 1 \in S
    OBVIOUS
  <2>1. PICK g : Climbs(g, n)
    OBVIOUS
  <2>2. g \in [Places -> User \cup {NoUser}] /\ n \in Nat /\ n + 1 \in Nat
    BY <2>1 DEF Climbs
  <2>3. \A at \in Places : Left(at) < n + 1 => g[at] = Hop(g, at)
    <3> SUFFICES ASSUME NEW at \in Places, Left(at) < n + 1 PROVE g[at] = Hop(g, at)
      OBVIOUS
    <3>1. Left(at) <= n
      BY <2>2, LeftIsNat
    <3> QED  BY <2>1, <3>1 DEF Climbs
  <2> HIDE DEF S
  <2> QED  BY <1>1, <2>2, <2>3
<1>4. S = Nat
  <2>1. S \in SUBSET Nat
    OBVIOUS
  <2> HIDE DEF S
  <2> QED  BY <1>2, <1>3, <2>1, NatInductionSet
<1>5. Cardinality(User) \in Nat
  BY FS_CardinalityType DEF CommentsAssumption
<1>6. PICK g : Climbs(g, Cardinality(User))
  BY <1>4, <1>5
<1>7. g \in [Places -> User \cup {NoUser}] /\ \A at \in Places : g[at] = Hop(g, at)
  BY <1>6, LeftIsNat DEF Climbs
<1>8. g = [at \in Places |-> Hop(g, at)]
  BY <1>7, Zenon
<1> QED  BY <1>7, <1>8 DEF IsClimb

\* Wherever the climb ends, it has not been there before: it comes to somebody
\* it has not asked, or to the pool.
LEMMA NextReaderIsNew ==
    ASSUME CommentsAssumption, person \in [User -> Person], NEW u \in User, NEW visited \in SUBSET User
    PROVE  NextReader(u, visited) \in (User \ visited) \cup {NoUser}
<1> DEFINE g == CHOOSE f : IsClimb(f)
           New(at) == g[at] \in (User \ at[2]) \cup {NoUser}
           S == {n \in Nat : \A at \in Places : Left(at) < n => New(at)}
<1>1. IsClimb(g)
  BY ClimbExists
<1>2. \A at \in Places : g[at] = Hop(g, at)
  <2> HIDE DEF g
  <2> QED  BY <1>1 DEF IsClimb
<1> HIDE DEF g
<1>3. 0 \in S
  <2>1. \A at \in Places : ~(Left(at) < 0)
    BY LeftIsNat
  <2> QED  BY <2>1
<1>4. \A n \in S : n + 1 \in S
  <2> SUFFICES ASSUME NEW n \in S, NEW at \in Places, Left(at) < n + 1 PROVE New(at)
    OBVIOUS
  <2> DEFINE sup == person[at[1]].supervisor
             next == <<sup, at[2] \cup {sup}>>
  <2>1. CASE sup = NoUser \/ sup \in at[2]
    BY <1>2, <2>1 DEF Hop
  <2>2. CASE sup # NoUser /\ sup \notin at[2]
    <3>1. sup \in User /\ next \in Places /\ Left(next) = Left(at) - 1 /\ Left(at) \in Nat
      BY <2>2, HopClimbs
    <3>2. New(next)
      BY <3>1
    <3>3. next[2] = at[2] \cup {sup}
      OBVIOUS
    <3>4. g[next] \in (User \ at[2]) \cup {NoUser}
      BY <3>2, <3>3
    <3>5. g[at] = Hop(g, at)
      BY <1>2
    <3> QED  BY <2>2, <3>1, <3>4, <3>5 DEF Hop
  <2> QED  BY <2>1, <2>2
<1>5. S = Nat
  <2>1. S \in SUBSET Nat
    OBVIOUS
  <2> HIDE DEF S
  <2> QED  BY <1>3, <1>4, <2>1, NatInductionSet
<1> DEFINE at == <<u, visited>>
<1>6. at \in Places /\ at[2] = visited
  BY DEF Places
<1>7. Left(at) + 1 \in S /\ Left(at) \in Nat
  BY <1>5, <1>6, LeftIsNat
<1>8. New(at)
  BY <1>6, <1>7
<1> QED  BY <1>6, <1>8, NextReaderDef DEF g

-----------------------------------------------------------------------------
(* Where a comment waits, whatever is asked of it and whoever changes.     *)

\* A comment, or one that is about to be written.
Draft ==
    [author : User, state : {"unwritten", "awaiting", "approved", "addressed", "rejected", "withdrawn"},
     stage : {"reader", "pool", "none"}, approver : User \cup {NoUser},
     passAs : Kind, approvedBy : SUBSET User, received : SUBSET User]

\* It waits with somebody who was sent it and has not spoken, or with a pool
\* that sees it; only what a Reader wrote waits at all.
Routed(c) ==
    /\ c \in Comment
    /\ c.stage = "none" <=> c.state # "awaiting"
    /\ c.approver # NoUser <=> c.stage = "reader"
    /\ c.stage = "reader" => c.approver \notin {c.author} \cup c.approvedBy /\ c.approver \in c.received
    /\ c.state = "awaiting" => c.passAs = "reader"

RouteInv ==
    /\ person \in [User -> Person]
    /\ comment = NoComment \/ Routed(comment)
    /\ acting \in [Request -> Caller \cup {NoOne}]
    /\ outbox \in {"none", "waiting", "drained"} /\ draining \in BOOLEAN /\ recorded \in Nat

LEMMA DraftIn ==
    ASSUME NEW c \in Draft, NEW state \in {"awaiting", "approved", "addressed", "rejected", "withdrawn"},
           NEW stage \in {"reader", "pool", "none"}, NEW approver \in User \cup {NoUser}
    PROVE  /\ In(c, state, stage, approver) \in Comment
           /\ In(c, state, stage, approver).state = state
           /\ In(c, state, stage, approver).stage = stage
           /\ In(c, state, stage, approver).approver = approver
           /\ In(c, state, stage, approver).author = c.author
           /\ In(c, state, stage, approver).passAs = c.passAs
           /\ In(c, state, stage, approver).approvedBy = c.approvedBy
           /\ In(c, state, stage, approver).received = c.received
BY DEF In, Draft, Comment

LEMMA SettledIsRouted ==
    ASSUME NEW c \in Draft, NEW state \in {"approved", "addressed", "rejected", "withdrawn"}
    PROVE  Routed(In(c, state, "none", NoUser))
<1> DEFINE d == In(c, state, "none", NoUser)
<1>1. d \in Comment /\ d.state = state /\ d.stage = "none" /\ d.approver = NoUser
  BY DraftIn
<1> HIDE DEF d
<1>2. Routed(d)
  BY <1>1 DEF Routed
<1> QED  BY <1>2 DEF d

LEMMA PooledIsRouted ==
    ASSUME NEW c \in Draft, c.passAs = "reader"
    PROVE  Routed(Pooled(c))
<1>1. CASE AdminsCovering = {}
  BY <1>1, SettledIsRouted DEF Pooled
<1>2. CASE AdminsCovering # {}
  <2> DEFINE d == In(c, "awaiting", "pool", NoUser)
  <2>1. d \in Comment /\ d.state = "awaiting" /\ d.stage = "pool" /\ d.approver = NoUser /\ d.passAs = "reader"
    BY DraftIn
  <2>2. Pooled(c) = d
    BY <1>2 DEF Pooled
  <2> HIDE DEF d
  <2> QED  BY <2>1, <2>2 DEF Routed
<1> QED  BY <1>1, <1>2

LEMMA AdvancedIsRouted ==
    ASSUME CommentsAssumption, person \in [User -> Person],
           NEW c \in Draft, c.passAs = "reader", NEW u \in User
    PROVE  Routed(Advanced(c, u))
<1> DEFINE visited == {c.author} \cup c.approvedBy
           next == NextReader(u, visited)
           there == In(c, "awaiting", "reader", next)
<1>1. visited \in SUBSET User /\ c.received \in SUBSET User
  BY DEF Draft
<1>2. next \in (User \ visited) \cup {NoUser}
  <2> HIDE DEF visited
  <2> QED  BY <1>1, NextReaderIsNew
<1>3. CASE next = NoUser
  BY <1>3, PooledIsRouted DEF Advanced
<1>4. CASE next # NoUser
  <2> DEFINE d == [there EXCEPT !.received = @ \cup {next}]
  <2>1. next \in User /\ next \notin {c.author} \cup c.approvedBy
    BY <1>2, <1>4
  <2>2. Advanced(c, u) = d
    BY <1>4 DEF Advanced
  <2> HIDE DEF next
  <2>3. /\ there \in Comment /\ there.state = "awaiting" /\ there.stage = "reader" /\ there.approver = next
        /\ there.author = c.author /\ there.passAs = "reader" /\ there.approvedBy = c.approvedBy
        /\ there.received = c.received
    BY <2>1, DraftIn
  <2> HIDE DEF there
  <2>4. /\ d \in Comment /\ d.state = "awaiting" /\ d.stage = "reader" /\ d.approver = next
        /\ d.author = c.author /\ d.passAs = "reader" /\ d.approvedBy = c.approvedBy
        /\ next \in d.received
    BY <1>1, <2>1, <2>3 DEF Comment
  <2> HIDE DEF d
  <2>5. NoUser \notin User
    BY DEF CommentsAssumption
  <2> QED  BY <2>1, <2>2, <2>4, <2>5 DEF Routed
<1> QED  BY <1>3, <1>4

LEMMA SubmittedIsRouted ==
    ASSUME CommentsAssumption, person \in [User -> Person], NEW c \in Draft
    PROVE  Routed(Submitted(c))
<1> DEFINE pass == [c EXCEPT !.passAs = KindOf(c.author), !.approvedBy = {}]
<1>1. c.author \in User /\ KindOf(c.author) \in Kind
  BY DEF Draft, KindOf, Person, Kind
<1>2. pass \in Draft /\ pass.author = c.author
  BY <1>1 DEF Draft
<1>3. Submitted(c) = IF pass.passAs = "reader" THEN Advanced(pass, c.author)
                     ELSE In(pass, "approved", "none", NoUser)
  BY DEF Submitted
<1> HIDE DEF pass
<1>4. CASE pass.passAs = "reader"
  BY <1>1, <1>2, <1>3, <1>4, AdvancedIsRouted
<1>5. CASE pass.passAs # "reader"
  BY <1>2, <1>3, <1>5, SettledIsRouted
<1> QED  BY <1>4, <1>5

\* A request is somebody's, and where it leaves a comment is all it changes.
LEMMA RequestRoutes ==
    ASSUME RouteInv, NEW r \in Request, Done(r), comment' = comment \/ Routed(comment')
    PROVE  RouteInv'
<1>1. UNCHANGED <<person, outbox, draining, recorded>> /\ acting' \in [Request -> Caller \cup {NoOne}]
  BY DEF RouteInv, Done, peopleVars, copyVars
<1> QED  BY <1>1 DEF RouteInv

LEMMA RouteInvStep ==
    ASSUME CommentsAssumption, RouteInv, [Next]_vars
    PROVE  RouteInv'
<1>0. /\ person \in [User -> Person] /\ acting \in [Request -> Caller \cup {NoOne}]
      /\ comment = NoComment \/ Routed(comment)
  BY DEF RouteInv
<1>1. Written => Routed(comment) /\ comment \in Draft /\ comment \in Comment
  BY <1>0 DEF Written, NoComment, Routed, Comment, Draft
<1>2. ASSUME NEW r \in Request, acting[r] # NoOne
      PROVE  acting[r].who \in User /\ acting[r].kind \in Kind
  BY <1>0, <1>2 DEF Caller
<1>3. CASE \E r \in Request : \E u \in User : Arrive(r, u)
  <2>1. PICK r \in Request, u \in User : Arrive(r, u)
    BY <1>3
  <2>2. [who |-> u, kind |-> person[u].kind] \in Caller
    BY <1>0 DEF Caller, Person
  <2>3. acting' \in [Request -> Caller \cup {NoOne}]
    BY <1>0, <2>1, <2>2 DEF Arrive
  <2>4. UNCHANGED <<person, comment, outbox, draining, recorded>>
    BY <2>1 DEF Arrive, peopleVars, copyVars
  <2> QED  BY <2>3, <2>4 DEF RouteInv
<1>4. CASE \E r \in Request : Refuse(r)
  BY <1>4, RequestRoutes DEF Refuse
<1>5. CASE \E r \in Request : Create(r)
  <2>1. PICK r \in Request : Create(r)
    BY <1>5
  <2>2. Done(r) /\ acting[r] # NoOne /\ ~Written
    BY <2>1 DEF Create, Done
  <2> DEFINE c == [comment EXCEPT !.author = acting[r].who]
  <2>3. c \in Draft
    BY <1>0, <1>2, <2>2 DEF Written, Routed, Comment, NoComment, Draft, Kind
  <2>4. comment' = Submitted(c)
    BY <2>1 DEF Create
  <2> HIDE DEF c
  <2>5. Routed(comment')
    BY <1>0, <2>3, <2>4, SubmittedIsRouted
  <2> QED  BY <2>2, <2>5, RequestRoutes
<1>6. CASE \E r \in Request : Approve(r)
  <2>1. PICK r \in Request : Approve(r)
    BY <1>6
  <2>2. Done(r) /\ acting[r].who \in User /\ Written /\ comment.state = "awaiting"
    BY <1>2, <2>1 DEF Approve, Acts, Done, MayDecide
  <2> DEFINE c == [comment EXCEPT !.approvedBy = @ \cup {acting[r].who}]
  <2>3. c \in Draft /\ c.passAs = "reader"
    BY <1>1, <2>2 DEF Routed, Draft
  <2>4. comment' = IF c.stage = "pool" THEN In(c, "approved", "none", NoUser)
                                       ELSE Advanced(c, acting[r].who)
    BY <2>1 DEF Approve
  <2> HIDE DEF c
  <2>5. Routed(comment')
    BY <1>0, <2>2, <2>3, <2>4, SettledIsRouted, AdvancedIsRouted
  <2> QED  BY <2>2, <2>5, RequestRoutes
<1>7. CASE \E r \in Request : Reject(r) \/ Withdraw(r) \/ Address(r)
  <2>1. PICK r \in Request : Reject(r) \/ Withdraw(r) \/ Address(r)
    BY <1>7
  <2>2. Done(r) /\ comment \in Draft
    BY <1>1, <2>1 DEF Reject, Withdraw, Address, Acts
  <2>3. Routed(comment')
    BY <2>1, <2>2, SettledIsRouted DEF Reject, Withdraw, Address
  <2> QED  BY <2>2, <2>3, RequestRoutes
<1>8. CASE \E r \in Request : Edit(r) \/ Restore(r)
  <2>1. PICK r \in Request : Edit(r) \/ Restore(r)
    BY <1>8
  <2>2. Done(r) /\ comment \in Draft /\ comment' = Submitted(comment)
    BY <1>1, <2>1 DEF Edit, Restore, Acts
  <2>3. Routed(comment')
    BY <1>0, <2>2, SubmittedIsRouted
  <2> QED  BY <2>2, <2>3, RequestRoutes
<1>9. CASE Resolve
  <2>1. Routed(comment) /\ comment.state = "approved" /\ comment' = [comment EXCEPT !.state = "addressed"]
    BY <1>1, <1>9 DEF Resolve
  <2>2. Routed(comment')
    BY <2>1 DEF Routed, Comment
  <2>3. UNCHANGED <<person, acting, draining, recorded>> /\ outbox' = "waiting"
    BY <1>9 DEF Resolve, peopleVars
  <2> QED  BY <2>2, <2>3 DEF RouteInv
<1>10. CASE Record \/ Mark \/ DrainLost
  <2>1. UNCHANGED <<person, comment, acting>>
    BY <1>10 DEF Record, Mark, DrainLost, peopleVars
  <2>2. outbox \in {"none", "waiting", "drained"} /\ recorded \in Nat
    BY DEF RouteInv
  <2>3. outbox' \in {"none", "waiting", "drained"} /\ recorded' \in Nat
    BY <1>10, <2>2 DEF Record, Mark, DrainLost
  <2>4. draining' = TRUE \/ draining' = FALSE
    BY <1>10 DEF Record, Mark, DrainLost
  <2>5. draining' \in BOOLEAN
    BY <2>4, Zenon
  <2>6. RouteInv'
    BY <1>0, <2>1, <2>3, <2>5, Zenon DEF RouteInv
  <2> QED  BY <2>6
<1>11. CASE Reconcile
  <2>1. Routed(comment) /\ comment \in Draft /\ comment.state = "awaiting" /\ comment' = Reconciled(comment)
    BY <1>1, <1>11 DEF Reconcile, Stuck
  <2>2. comment.stage = "reader" => comment.approver \in User
    BY <2>1 DEF Routed, Comment
  <2>3. Routed(comment')
    BY <1>0, <2>1, <2>2, AdvancedIsRouted, PooledIsRouted DEF Reconciled, Routed
  <2>4. UNCHANGED <<person, outbox, draining, recorded, acting>>
    BY <1>11 DEF Reconcile, peopleVars, copyVars
  <2> QED  BY <2>3, <2>4 DEF RouteInv
<1>12. CASE \E u \in User : AccountChanges(u)
  <2>1. PICK u \in User : AccountChanges(u)
    BY <1>12
  <2>2. UNCHANGED <<comment, acting, outbox, draining, recorded>>
    BY <2>1 DEF AccountChanges, copyVars
  <2>3. person[u] \in Person
    BY <1>0
  <2>4. CASE person' = [person EXCEPT ![u].disabled = ~@]
    <3> DEFINE row == [person[u] EXCEPT !.disabled = ~@]
    <3>1. row \in Person
      <4>1. (~person[u].disabled) \in BOOLEAN
        OBVIOUS
      <4> QED  BY <2>3, <4>1, Zenon DEF Person
    <3>2. person' = [person EXCEPT ![u] = row]
      BY <2>4
    <3> HIDE DEF row
    <3>3. person' \in [User -> Person]
      BY <1>0, <3>1, <3>2
    <3> QED  BY <1>0, <2>2, <3>3 DEF RouteInv
  <2>5. CASE \E k \in Kind, s \in User \cup {NoUser}, c \in BOOLEAN :
                 person' = [person EXCEPT ![u] =
                             [@ EXCEPT !.kind = k, !.supervisor = s, !.covers = c]]
    <3>1. PICK k \in Kind, s \in User \cup {NoUser}, c \in BOOLEAN :
                 person' = [person EXCEPT ![u] =
                             [@ EXCEPT !.kind = k, !.supervisor = s, !.covers = c]]
      BY <2>5
    <3> DEFINE row == [person[u] EXCEPT !.kind = k, !.supervisor = s, !.covers = c]
    <3>2. row \in Person
      BY <2>3 DEF Person
    <3>3. person' = [person EXCEPT ![u] = row]
      BY <3>1
    <3> HIDE DEF row
    <3>4. person' \in [User -> Person]
      BY <1>0, <3>2, <3>3
    <3> QED  BY <1>0, <2>2, <3>4 DEF RouteInv
  <2> QED  BY <2>1, <2>4, <2>5, Zenon DEF AccountChanges
<1>13. CASE UNCHANGED vars
  BY <1>13 DEF vars, RouteInv
<1> QED
  BY <1>3, <1>4, <1>5, <1>6, <1>7, <1>8, <1>9, <1>10, <1>11, <1>12, <1>13 DEF Next, Asked

\* However roles, scopes and supervisors move while a comment climbs, and from
\* whatever hands it was taken: it never waits with its author or with somebody
\* who has approved it in this pass, and whoever it waits for is shown it.
THEOREM RoutingIsAlwaysRight == Spec => []RoutingIsRight
<1>1. Init => RouteInv
  <2> SUFFICES ASSUME Init PROVE RouteInv
    OBVIOUS
  <2> DEFINE Fresh == [kind : Kind, disabled : {FALSE}, supervisor : User \cup {NoUser}, covers : {TRUE}]
  <2>1. person \in [User -> Fresh]
    BY DEF Init
  <2>2. ASSUME NEW p \in Fresh PROVE p \in Person
    BY Zenon DEF Person
  <2> HIDE DEF Fresh
  <2>3. person \in [User -> Person]
    BY <2>1, <2>2
  <2>4. comment = NoComment /\ acting \in [Request -> Caller \cup {NoOne}] /\ outbox = "none" /\ recorded = 0
    BY DEF Init
  <2>5. draining \in BOOLEAN
    BY Zenon DEF Init
  <2> QED  BY <2>3, <2>4, <2>5 DEF RouteInv
<1>2. RouteInv => RoutingIsRight
  <2> SUFFICES ASSUME RouteInv PROVE RoutingIsRight
    OBVIOUS
  <2>1. Written => Routed(comment)
    BY DEF RouteInv, Written, NoComment
  <2>2. TypeOK
    BY <2>1 DEF RouteInv, TypeOK, Routed
  <2>3. NeverBackToAnApprover
    BY <2>1 DEF NeverBackToAnApprover, Routed
  <2>4. WhoeverDecidesCanSee
    BY <2>1 DEF WhoeverDecidesCanSee, MayDecide, CanSee, WrittenAsEditor, Routed
  <2> QED  BY <2>2, <2>3, <2>4 DEF RoutingIsRight
<1>3. RouteInv /\ [Next]_vars => RouteInv'
  BY RouteInvStep, CommentsAssumption
<1> QED  BY <1>1, <1>2, <1>3, PTL DEF Spec

-----------------------------------------------------------------------------
(* The report.                                                             *)

\* The page a key stands for.
PageOf(k) == [overview |-> k[1], processes |-> k[2], shown |-> k[3]]

\* What lies under a name in a store is the page the name stands for, unless
\* the name was mistaken.
Labelled(store) == \A k \in DOMAIN store : k \notin mistaken => store[k] = PageOf(k)

\* The stages in which a build has a name and the page that goes under it.
Bearing(j) == j.stage \in {"named", "cleared", "printing"}

Stages == {"idle", "looked", "marked", "rendered", "documents", "marks", "introduction", "named", "cleared", "written", "pruned",
           "printing", "failed", "done"}

\* Those in which it has read something and has no name for it yet.
TakesReading == {"marked", "rendered", "documents", "marks", "introduction"}

\* Every build is in a stage, and has a name from the moment it takes one to
\* the moment it is done with it.
Staged(j) ==
    /\ j.stage \in Stages
    /\ "key" \in DOMAIN j <=> j.stage \in {"named", "cleared", "written", "pruned", "printing", "failed"}

Building ==
    /\ DOMAIN job = Builder
    /\ moved \in [Builder -> BOOLEAN]
    /\ \A b \in Builder : Staged(job[b])

\* As long as nothing has moved, what a build has read is what is there.
Reading ==
    \A b \in Builder :
        ~moved[b] =>
            /\ job[b].stage = "marked" => job[b].mark = mark /\ job[b].shown = shown
            /\ job[b].stage \in {"rendered", "documents", "marks", "introduction"} =>
                   job[b].page = CurrentPage
            /\ job[b].stage = "documents" => job[b].docs = Active
            /\ job[b].stage \in {"marks", "introduction"} => job[b].docs = Confirmed(Active, mark)
            /\ job[b].stage = "introduction" => job[b].overview = version[Overview]

\* A build brings under a name the page the name stands for, unless mistaken.
Carrying ==
    \A b \in Builder :
        Bearing(job[b]) /\ job[b].key \notin mistaken => job[b].page = PageOf(job[b].key)

\* Under a name no two builds have had at once: the PDF is of the page beside
\* it, there is none while a build is about to write the page, and what the
\* browser has open is what lies there.
Alone ==
    /\ \A b, c \in Builder :
        b # c /\ "key" \in DOMAIN job[b] /\ Holds(c, job[b].key) => job[b].key \in crossed
    /\ \A k \in DOMAIN pdf \cap DOMAIN html : k \notin crossed => pdf[k] = html[k]
    /\ \A b \in Builder :
        /\ job[b].stage = "cleared" /\ job[b].key \notin crossed => job[b].key \notin DOMAIN pdf
        /\ job[b].stage = "printing" /\ job[b].key \notin crossed /\ job[b].key \in DOMAIN html
               => html[job[b].key] = job[b].page

IInv == Building /\ Reading /\ Carrying /\ Labelled(html) /\ Labelled(pdf) /\ Alone

\* Between the reader's moves a report says what it said.
LEMMA PageStays ==
    ASSUME UNCHANGED content
    PROVE  /\ CurrentPage' = CurrentPage /\ CurrentKey' = CurrentKey /\ mark' = mark /\ shown' = shown
           /\ Active' = Active /\ version' = version
<1>1. /\ CurrentPage' = CurrentPage /\ mark' = mark /\ shown' = shown
      /\ Active' = Active /\ version' = version
  <2>1. mark' = mark /\ shown' = shown /\ order' = order /\ buried' = buried /\ version' = version
    BY DEF content
  <2>2. Active' = Active
    BY <2>1 DEF Active
  <2> QED  BY <2>1, <2>2 DEF CurrentPage
<1>2. Vouched' = Vouched
  BY DEF content, Vouched
<1>3. QED
  BY <1>1, <1>2 DEF CurrentKey

LEMMA InitIInv == ReportsInit => IInv
<1> SUFFICES ASSUME ReportsInit PROVE IInv
  OBVIOUS
<1>1. /\ job = [b \in Builder |-> Idle] /\ moved = [b \in Builder |-> FALSE]
      /\ html = [k \in {} |-> Nothing] /\ pdf = [k \in {} |-> Nothing]
  BY DEF ReportsInit
<1>2. Idle.stage = "idle" /\ "key" \notin DOMAIN Idle
  BY DEF Idle
<1>3. Building
  BY <1>1, <1>2 DEF Building, Staged, Stages
<1>4. Reading /\ Carrying
  BY <1>1, <1>2 DEF Reading, Carrying, Bearing
<1>5. Labelled(html) /\ Labelled(pdf)
  BY <1>1 DEF Labelled
<1>6. Alone
  BY <1>1, <1>2 DEF Alone
<1>7. QED
  BY <1>3, <1>4, <1>5, <1>6 DEF IInv

\* One build goes on.
LEMMA BuildingGoes ==
    ASSUME Building, NEW b \in Builder, NEW j, Goes(b, j), Staged(j), moved' \in [Builder -> BOOLEAN]
    PROVE  Building'
BY DEF Building, Goes, Staged, Stages

LEMMA ReadingGoes ==
    ASSUME Building, Reading, NEW b \in Builder, NEW j, Goes(b, j),
           j.stage \notin TakesReading,
           UNCHANGED <<CurrentPage, Active, version, mark, shown, moved>>
    PROVE  Reading'
BY DEF Building, Reading, Goes, TakesReading

LEMMA CarryingGoes ==
    ASSUME Building, Carrying, NEW b \in Builder, NEW j, Goes(b, j), UNCHANGED mistaken,
           Bearing(j) /\ j.key \notin mistaken => j.page = PageOf(j.key)
    PROVE  Carrying'
BY DEF Building, Carrying, Goes, Bearing, PageOf

\* A build that looks, reads or names touches no file.
LEMMA ReadsKeep ==
    ASSUME IInv, NEW b \in Builder, Looks(b) \/ ReadsMarks(b) \/ ReadsPayload(b)
    PROVE  IInv'
<1> USE DEF IInv, folder
<1>0. CurrentPage' = CurrentPage /\ mark' = mark /\ shown' = shown
      /\ Active' = Active /\ version' = version
      /\ UNCHANGED <<html, pdf, mistaken, crossed>>
  BY PageStays DEF Looks, ReadsMarks, ReadsPayload
<1>1. Building'
  <2>1. PICK j : Goes(b, j) /\ Staged(j)
    BY DEF Looks, ReadsMarks, ReadsPayload, Staged, Stages, Idle
  <2>2. moved' \in [Builder -> BOOLEAN]
    BY DEF Looks, ReadsMarks, ReadsPayload, Building
  <2>3. QED
    BY <2>1, <2>2, BuildingGoes
<1>2. Reading'
  <2>1. CASE Looks(b)
    BY <1>0, <2>1 DEF Reading, Building, Looks, Goes
  <2>2. CASE ReadsMarks(b)
    BY <1>0, <2>2 DEF Reading, Building, ReadsMarks, Goes
  <2>3. CASE ReadsPayload(b)
    <3>1. ~moved[b] => Page(Active, job[b].mark, version[Overview], job[b].shown) = CurrentPage
      BY <2>3 DEF ReadsPayload, Reading, CurrentPage
    <3>2. QED
      BY <1>0, <2>3, <3>1 DEF Reading, Building, ReadsPayload, Goes, Idle
  <2>4. QED
    BY <2>1, <2>2, <2>3
<1>3. Carrying'
  BY <1>0 DEF Carrying, Bearing, Building, Looks, ReadsMarks, ReadsPayload, Goes, Idle
<1>4. Labelled(html)' /\ Labelled(pdf)'
  BY <1>0 DEF Labelled, PageOf
<1>5. Alone'
  BY <1>0 DEF Alone, Holds, Building, Looks, ReadsMarks, ReadsPayload, Goes, Idle
<1>6. QED
  BY <1>1, <1>2, <1>3, <1>4, <1>5

\* What it reads to derive its name is what is there, as long as nothing moves.
LEMMA DerivingKeeps ==
    ASSUME IInv, NEW b \in Builder, NamesDocuments(b) \/ NamesMarks(b) \/ NamesIntroduction(b)
    PROVE  IInv'
<1> USE DEF IInv, folder
<1>0. /\ CurrentPage' = CurrentPage /\ mark' = mark /\ shown' = shown
      /\ Active' = Active /\ version' = version
      /\ UNCHANGED <<html, pdf, moved, mistaken, crossed>>
  BY PageStays DEF NamesDocuments, NamesMarks, NamesIntroduction
<1> DEFINE derived == {"documents", "marks", "introduction"}
<1>1. PICK j : /\ Goes(b, j) /\ Staged(j) /\ j.stage \in derived \cup {"idle"}
               /\ "key" \notin DOMAIN j
               /\ ~moved[b] =>
                    /\ j.stage # "idle" => j.page = CurrentPage
                    /\ j.stage = "documents" => j.docs = Active
                    /\ j.stage \in {"marks", "introduction"} => j.docs = Confirmed(Active, mark)
                    /\ j.stage = "introduction" => j.overview = version[Overview]
  <2>1. CASE NamesDocuments(b)
    BY <2>1 DEF NamesDocuments, Reading, Staged, Stages
  <2>2. CASE NamesMarks(b)
    BY <2>2 DEF NamesMarks, Reading, Staged, Stages
  <2>3. CASE NamesIntroduction(b)
    <3> DEFINE on == [job[b] EXCEPT !.stage = "introduction"]
    <3>1. Staged(job[b]) /\ job[b].stage = "marks"
      BY <2>3 DEF NamesIntroduction, Building
    <3>2. /\ on.stage = "introduction" /\ Staged(on) /\ "key" \notin DOMAIN on
          /\ on.page = job[b].page /\ on.docs = job[b].docs /\ on.overview = job[b].overview
      BY <3>1 DEF Staged, Stages
    <3>3. Idle.stage = "idle" /\ Staged(Idle) /\ "key" \notin DOMAIN Idle
      BY DEF Idle, Staged, Stages
    <3> HIDE DEF on
    <3>4. CASE job[b].overview = version[Overview]
      <4>1. Goes(b, on)
        BY <2>3, <3>4 DEF NamesIntroduction, on
      <4> QED  BY <3>1, <3>2, <3>4, <4>1 DEF Reading
    <3>5. CASE job[b].overview # version[Overview]
      <4>1. Goes(b, Idle)
        BY <2>3, <3>5 DEF NamesIntroduction
      <4> QED  BY <3>3, <4>1
    <3> QED  BY <3>4, <3>5
  <2> QED  BY <2>1, <2>2, <2>3
<1>2. Building'
  BY <1>0, <1>1, BuildingGoes DEF Building
<1>3. Reading'
  BY <1>0, <1>1 DEF Reading, Building, Goes
<1>4. Carrying'
  BY <1>0, <1>1, CarryingGoes DEF Bearing
<1>5. Labelled(html)' /\ Labelled(pdf)'
  BY <1>0 DEF Labelled, PageOf
<1>6. Alone'
  BY <1>0, <1>1 DEF Alone, Holds, Building, Goes
<1> QED
  BY <1>2, <1>3, <1>4, <1>5, <1>6

\* A build takes the name of what it has read.  If nothing has moved since it
\* took its first reading, its page is the page of that name.
LEMMA NamesKeeps ==
    ASSUME IInv, NEW b \in Builder, Names(b)
    PROVE  IInv'
<1> USE DEF IInv, folder
<1> DEFINE key == KeyOf([overview |-> job[b].overview, processes |-> job[b].docs, shown |-> shown])
           j == [stage |-> "named", page |-> job[b].page, key |-> key]
<1>0. /\ CurrentPage' = CurrentPage /\ mark' = mark /\ shown' = shown
      /\ Active' = Active /\ version' = version
      /\ UNCHANGED <<html, pdf, moved>>
      /\ job[b].stage = "introduction" /\ mistaken \subseteq mistaken' /\ crossed \subseteq crossed'
  BY PageStays DEF Names
<1>1. job' = [job EXCEPT ![b] = j] /\ Goes(b, j)
  BY DEF Names, Goes
<1>2. Building'
  BY <1>0, <1>1, BuildingGoes DEF Building, Staged, Stages
<1>3. Reading'
  BY <1>0, <1>1 DEF Reading, Building
<1>4. Labelled(html)' /\ Labelled(pdf)'
  BY <1>0 DEF Labelled, PageOf
<1>5. key \notin mistaken' => job[b].page = PageOf(key)
  <2>1. key \notin mistaken' => ~moved[b]
    BY DEF Names, Building
  <2>2. ~moved[b] => /\ job[b].page = CurrentPage /\ job[b].docs = Confirmed(Active, mark)
                     /\ job[b].overview = version[Overview]
    BY <1>0 DEF Reading
  <2>3. PageOf(key) = [overview |-> job[b].overview, processes |-> job[b].docs, shown |-> shown]
    BY DEF PageOf, KeyOf
  <2> QED
    BY <2>1, <2>2, <2>3 DEF CurrentPage, Page
<1> HIDE DEF key
<1>6. Carrying'
  BY <1>0, <1>1, <1>5 DEF Carrying, Bearing, Building
<1>7. \A c \in Builder \ {b} : Holds(c, key) => key \in crossed'
  BY DEF Names, key
<1>8. Alone'
  BY <1>0, <1>1, <1>7 DEF Alone, Holds, Building
<1> QED
  BY <1>2, <1>3, <1>4, <1>6, <1>8

\* A build that writes, removes or prints under its name leaves what others
\* have under theirs, but for what it prunes.
LEMMA FilesKeep ==
    ASSUME IInv, NEW b \in Builder, DropsPdf(b) \/ Writes(b) \/ Prunes(b) \/ GivesUp(b)
    PROVE  IInv'
<1> USE DEF IInv, folder
<1>0. /\ CurrentPage' = CurrentPage /\ mark' = mark /\ shown' = shown
      /\ Active' = Active /\ version' = version
      /\ UNCHANGED <<moved, mistaken, crossed>>
  BY PageStays DEF DropsPdf, Writes, Prunes, GivesUp
<1>1. PICK j : /\ Goes(b, j) /\ Staged(j) /\ j.stage \notin TakesReading
               /\ Bearing(j) => Bearing(job[b]) /\ j.key = job[b].key /\ j.page = job[b].page
  <2> DEFINE on(stage) == [job[b] EXCEPT !.stage = stage]
  <2>1. \A s \in {"cleared", "written", "pruned"} :
            job[b].stage \in {"named", "cleared", "written"} =>
                /\ Staged(on(s)) /\ on(s).stage = s /\ on(s).key = job[b].key
                /\ on(s).page = job[b].page
    BY DEF Building, Staged, Stages
  <2>2. CASE DropsPdf(b)
    BY <2>1, <2>2 DEF DropsPdf, Bearing, TakesReading
  <2>3. CASE Writes(b)
    BY <2>1, <2>3 DEF Writes, Bearing, TakesReading
  <2>4. CASE Prunes(b)
    BY <2>1, <2>4 DEF Prunes, Bearing, TakesReading
  <2>5. CASE GivesUp(b)
    BY <2>5 DEF GivesUp, Staged, Stages, Bearing, TakesReading
  <2>6. QED
    BY <2>2, <2>3, <2>4, <2>5
<1>2. Building' /\ Reading'
  BY <1>0, <1>1, BuildingGoes, ReadingGoes DEF Building
<1>3. Carrying'
  BY <1>0, <1>1, CarryingGoes DEF Carrying
<1>4. Labelled(html)' /\ Labelled(pdf)'
  <2>1. CASE Writes(b)
    <3>1. job[b].key \notin mistaken => job[b].page = PageOf(job[b].key)
      BY <2>1 DEF Writes, Carrying, Bearing
    <3>2. QED
      BY <1>0, <2>1, <3>1 DEF Labelled, PageOf, Writes, With
  <2>2. CASE DropsPdf(b) \/ Prunes(b) \/ GivesUp(b)
    BY <1>0, <2>2 DEF Labelled, PageOf, DropsPdf, Prunes, GivesUp, Without
  <2>3. QED
    BY <2>1, <2>2
<1>5. Alone'
  <2>0. "key" \in DOMAIN job[b]
    BY DEF Building, Staged, DropsPdf, Writes, Prunes, GivesUp
  <2>1. CASE DropsPdf(b)
    BY <1>0, <2>0, <2>1 DEF Alone, Holds, Building, DropsPdf, Goes, Without
  <2>2. CASE Writes(b)
    <3>1. \A c \in Builder : c # b /\ "key" \in DOMAIN job[c] /\ job[c].key \notin crossed
                                => job[c].key # job[b].key
      BY <2>0 DEF Alone, Holds
    <3>2. \A c \in Builder : job[c].stage = "printing" => "key" \in DOMAIN job[c]
      BY DEF Building, Staged
    <3>3. QED
      BY <1>0, <2>0, <2>2, <3>1, <3>2 DEF Alone, Holds, Building, Writes, Goes, With
  <2>3. CASE Prunes(b)
    BY <1>0, <2>0, <2>3 DEF Alone, Holds, Building, Prunes, Goes, Without
  <2>4. CASE GivesUp(b)
    BY <1>0, <2>0, <2>4 DEF Alone, Holds, Building, GivesUp, Goes, Without
  <2>5. QED
    BY <2>1, <2>2, <2>3, <2>4
<1>6. QED
  BY <1>2, <1>3, <1>4, <1>5

\* The browser opens what lies under the name and lands what it opened.
LEMMA PrintingKeeps ==
    ASSUME IInv, NEW b \in Builder, Prints(b) \/ Lands(b) \/ Fails(b)
    PROVE  IInv'
<1> USE DEF IInv, folder
<1>0. /\ CurrentPage' = CurrentPage /\ mark' = mark /\ shown' = shown
      /\ Active' = Active /\ version' = version
      /\ UNCHANGED <<html, moved, mistaken, crossed>>
  BY PageStays DEF Prints, Lands, Fails
<1> DEFINE k == job[b].key
           opened == [stage |-> "printing", key |-> k, page |-> html[k]]
           fails == [job[b] EXCEPT !.stage = "failed"]
<1>s. Staged(job[b]) /\ "key" \in DOMAIN job[b]
  BY DEF Building, Staged, Prints, Lands, Fails
<1>1. PICK j : /\ Goes(b, j) /\ Staged(j) /\ j.stage \notin TakesReading \cup {"cleared"}
               /\ Bearing(j) => /\ Prints(b) /\ j.stage = "printing" /\ j.key = k
                                /\ k \in DOMAIN html /\ j.page = html[k]
               /\ "key" \in DOMAIN j => j.key = k
  <2>1. Staged(opened) /\ Staged(fails) /\ fails.stage = "failed" /\ fails.key = k
    BY <1>s DEF Staged, Stages
  <2>2. CASE Prints(b)
    <3>1. CASE File(html, k) = Nothing
      <4>1. Goes(b, fails)
        BY <2>2, <3>1 DEF Prints
      <4>2. QED
        BY <2>1, <4>1 DEF Bearing, TakesReading
    <3>2. CASE File(html, k) # Nothing
      <4>1. Goes(b, opened) /\ k \in DOMAIN html
        BY <2>2, <3>2 DEF Prints, File
      <4>2. QED
        BY <2>1, <2>2, <4>1 DEF Bearing, TakesReading
    <3>3. QED
      BY <3>1, <3>2
  <2>3. CASE Lands(b)
    BY <2>3 DEF Lands, Staged, Stages, Bearing, TakesReading
  <2>4. CASE Fails(b)
    BY <2>1, <2>4 DEF Fails, Bearing, TakesReading
  <2>5. QED
    BY <2>2, <2>3, <2>4
<1>2. Building' /\ Reading'
  BY <1>0, <1>1, BuildingGoes, ReadingGoes DEF Building
<1>3. Carrying'
  <2>1. Bearing(j) /\ j.key \notin mistaken => j.page = PageOf(j.key)
    BY <1>1 DEF Labelled
  <2>2. QED
    BY <1>0, <1>1, <2>1, CarryingGoes
<1>4. Labelled(html)' /\ Labelled(pdf)'
  <2>1. CASE Lands(b)
    <3>1. job[b].key \notin mistaken => job[b].page = PageOf(job[b].key)
      BY <2>1 DEF Lands, Carrying, Bearing
    <3>2. QED
      BY <1>0, <2>1, <3>1 DEF Labelled, PageOf, Lands, With
  <2>2. CASE Prints(b) \/ Fails(b)
    BY <1>0, <2>2 DEF Labelled, PageOf, Prints, Fails
  <2>3. QED
    BY <2>1, <2>2
<1>5. Alone'
  <2>1. CASE Lands(b)
    <3>1. \A c \in Builder : c # b /\ job[c].stage = "cleared" /\ job[c].key \notin crossed
                                => job[c].key # job[b].key
      BY <1>s DEF Alone, Holds, Building, Staged
    <3>2. QED
      BY <1>0, <1>s, <2>1, <3>1 DEF Alone, Holds, Building, Lands, Goes, With
  <2>2. CASE Prints(b) \/ Fails(b)
    <3>1. pdf' = pdf /\ (j.stage = "printing" => k \in DOMAIN html /\ j.page = html[k] /\ j.key = k)
      BY <1>1, <2>2 DEF Prints, Fails, Bearing
    <3>2. QED
      BY <1>0, <1>s, <1>1, <3>1 DEF Alone, Holds, Building, Goes
  <2>3. QED
    BY <2>1, <2>2
<1>6. QED
  BY <1>2, <1>3, <1>4, <1>5

\* What moves meanwhile touches no file and no build, and every build is then
\* known to be overtaken.
LEMMA WorldKeeps == ASSUME IInv, World PROVE IInv'
<1> USE DEF IInv, folder
<1>1. moved' = [b \in Builder |-> TRUE] /\ UNCHANGED <<html, pdf, job, mistaken, crossed>>
  BY DEF World, Moves
<1>2. QED
  BY <1>1 DEF Building, Staged, Stages, Reading, Carrying, Bearing, Labelled, PageOf, Alone, Holds

\* A restart stops the builds and leaves the folder.
LEMMA RestartKeeps == ASSUME IInv, Restart PROVE IInv'
<1> USE DEF IInv, folder
<1>1. job' = [b \in Builder |-> Idle] /\ UNCHANGED <<html, pdf, moved, mistaken, crossed>>
  BY DEF Restart
<1>2. Idle.stage = "idle" /\ "key" \notin DOMAIN Idle
  BY DEF Idle
<1>3. Building' /\ Reading' /\ Carrying'
  BY <1>1, <1>2 DEF Building, Staged, Stages, Reading, Carrying, Bearing
<1>4. Labelled(html)' /\ Labelled(pdf)'
  BY <1>1 DEF Labelled, PageOf
<1>5. Alone'
  BY <1>1, <1>2 DEF Alone
<1>6. QED
  BY <1>3, <1>4, <1>5

\* What every build is known to hold, at each of its steps, holds always.
THEOREM ReportsInvariant == ReportsSpec => []IInv
<1>1. IInv /\ [ReportsNext]_reportVars => IInv'
  <2> SUFFICES ASSUME IInv, [ReportsNext]_reportVars PROVE IInv'
    OBVIOUS
  <2>1. ASSUME NEW b \in Builder, Build(b) PROVE IInv'
    BY <2>1, ReadsKeep, DerivingKeeps, NamesKeeps, FilesKeep, PrintingKeeps DEF Build
  <2>2. CASE World \/ Restart
    BY <2>2, WorldKeeps, RestartKeeps
  <2>3. CASE UNCHANGED reportVars
    <3>1. CurrentPage' = CurrentPage /\ mark' = mark /\ shown' = shown
          /\ Active' = Active /\ version' = version
          /\ UNCHANGED <<html, pdf, job, moved, mistaken, crossed>>
      BY <2>3, PageStays DEF reportVars, folder
    <3>2. QED
      BY <3>1 DEF IInv, Building, Staged, Stages, Reading, Carrying, Bearing, Labelled, PageOf,
                  Alone, Holds
  <2>4. QED
    BY <2>1, <2>2, <2>3 DEF ReportsNext
<1>2. QED
  BY <1>1, InitIInv, PTL DEF ReportsSpec

-----------------------------------------------------------------------------
\* "A report is always current": the page the download hands out is the one
\* that would be built now, unless the build that named it was overtaken.
THEOREM ServedIsAlwaysCurrent == ReportsSpec => []ServedIsCurrent
<1>1. IInv => ServedIsCurrent
  <2> SUFFICES ASSUME Labelled(html), CurrentKey \notin mistaken, CurrentKey # Nothing,
                      CurrentKey \in DOMAIN html
               PROVE  html[CurrentKey] = CurrentPage
    BY DEF IInv, ServedIsCurrent, Served, File
  <2>1. CurrentKey = KeyOf(CurrentPage)
    BY DEF CurrentKey
  <2>2. PageOf(CurrentKey) = CurrentPage
    BY <2>1 DEF PageOf, KeyOf, CurrentPage, Page
  <2>3. QED
    BY <2>2 DEF Labelled
<1>2. QED
  BY <1>1, ReportsInvariant, PTL

\* The PDF handed out was printed from the page beside it: both are the page
\* their name stands for, or nobody else ever wrote under that name.
THEOREM PdfAlwaysMatchesPage == ReportsSpec => []PdfMatchesPage
<1>1. IInv => PdfMatchesPage
  BY DEF IInv, PdfMatchesPage, Labelled, Alone
<1>2. QED
  BY <1>1, ReportsInvariant, PTL
=============================================================================
