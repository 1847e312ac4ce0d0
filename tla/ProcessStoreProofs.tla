------------------------- MODULE ProcessStoreProofs -------------------------
(***************************************************************************)
(* The process files and what is told of their history: proofs about       *)
(* ProcessStore and Projection.                                            *)
(*                                                                         *)
(* For any number of processes, verbs and verbs that stop half way: an id  *)
(* is given once unless two mints overlap, nothing is retired in favour of *)
(* what was never written, a sync keeps the order a person gave, and       *)
(* between verbs the links lead somewhere, the sequence is of the active   *)
(* processes and nobody is above himself.                                  *)
(*                                                                         *)
(* Every commit is told of exactly once, whatever other containers commit  *)
(* or reset while a pass is under way, and wherever a save or a pass dies. *)
(* Three facts carry that argument.  Commits are only ever added, each on  *)
(* top of an older one, so what came before a commit never changes.  What  *)
(* was projected came before the marker, and a pass that projects goes     *)
(* from the marker to a descendant of it, so its rows are new.  And no     *)
(* commit of ours is being recorded while a pass runs, so what the pass    *)
(* read of ui_commits still stands when it writes.                         *)
(***************************************************************************)
EXTENDS ProcessStore, Projection, Induction, SequenceTheorems

\* A job is a record of the fields of Idle, and one about to store a number
\* holds one.
Formed(j) == DOMAIN j = DOMAIN Idle /\ (j.phase \in {"minting", "storing"} => j.id \in Pid)

Jobs == DOMAIN job = Program /\ \A a \in Program : Formed(job[a])

\* n and every higher number were given no oftener than the ledger was torn.
NewFrom(n) == \A p \in Pid : p >= n => given[p] <= torn

\* What makes the next number new: none above a whole ledger was given since it
\* was last torn, and who is storing a number is alone and has such a one.  A
\* ledger that no stop tore is whole or being written, with a higher number.
Ledger ==
    /\ given \in [Pid -> Nat]
    /\ ledger \in Nat /\ torn \in Nat
    /\ raced \in BOOLEAN /\ whole \in BOOLEAN
    /\ raced \/
          /\ \A p \in Pid : given[p] <= 1 + torn
          /\ whole => NewFrom(ledger + 1) /\ \A a \in Program : job[a].phase # "storing"
          /\ ~whole => NewFrom(1) \/ \E a \in Program : job[a].phase = "storing"
          /\ \A a \in Program : job[a].phase = "storing" =>
                  NewFrom(job[a].id) /\ \A b \in Program \ {a} : job[b].phase # "storing"
          /\ torn = 0 => whole \/ \E a \in Program : job[a].phase = "storing"
          /\ torn = 0 => \A a \in Program : job[a].phase = "storing" => job[a].id > ledger

IInv == Jobs /\ Ledger

LEMMA JobChanged ==
    ASSUME Jobs, NEW a \in Program, NEW j, Formed(j), job' = [job EXCEPT ![a] = j]
    PROVE  Jobs'
BY DEF Jobs

LEMMA IdleFormed == Formed(Idle)
BY DEF Formed, Idle

\* Every verb begins before it mints.
LEMMA JobFormed ==
    ASSUME NEW verb, NEW phase, phase \notin {"minting", "storing"}, NEW subject, NEW loaded
    PROVE  Formed(Job(verb, phase, subject, loaded))
BY DEF Formed, Job, Idle

LEMMA WritingFormed ==
    ASSUME NEW j, Formed(j), NEW todo
    PROVE  Formed(Writing(j, todo)) /\ Writing(j, todo).phase = "writing"
BY DEF Formed, Writing, Idle

\* A step of one job that leaves the ledger alone, and does not touch it.
LEMMA LedgerStays ==
    ASSUME IInv, NEW a \in Program, NEW j, job' = [job EXCEPT ![a] = j],
           job[a].phase # "storing", j.phase # "storing",
           UNCHANGED <<ledger, whole, given, raced, torn>>
    PROVE  Ledger'
<1>1. DOMAIN job = Program /\ \A b \in Program : job'[b] = IF b = a THEN j ELSE job[b]
  BY DEF IInv, Jobs
<1>2. \A b \in Program : job'[b].phase = "storing" => job'[b] = job[b]
  BY <1>1
<1>3. \A b \in Program : job[b].phase = "storing" => job'[b] = job[b]
  BY <1>1
<1> QED  BY <1>2, <1>3 DEF IInv, Ledger, NewFrom

\* A verb that begins puts a formed job in place of Idle and mints nothing.
LEMMA BeginsKeeps ==
    ASSUME IInv, NEW a \in Program, NEW j, Formed(j), j.phase # "storing", Begins(a, j)
    PROVE  IInv'
<1>1. Jobs'
  BY JobChanged DEF Begins, IInv
<1>2. job[a].phase # "storing" /\ job' = [job EXCEPT ![a] = j]
      /\ UNCHANGED <<ledger, whole, given, raced, torn>>
  BY DEF Begins, Idle, files, history
<1> QED  BY <1>1, <1>2, LedgerStays DEF IInv

LEMMA ServiceVerbKeeps == IInv /\ ServiceVerb => IInv'
<1> SUFFICES ASSUME IInv, ServiceVerb PROVE IInv'
  OBVIOUS
<1> "service" \in Program
  BY DEF Program
<1>0. \A verb, subject, loaded :
          /\ Job(verb, "allocating", subject, loaded).phase = "allocating"
          /\ Job(verb, "writing", subject, loaded).phase = "writing"
  BY DEF Job, Idle
<1>1. ASSUME NEW p \in Pid \cup {None}, Create(p) PROVE IInv'
  BY <1>0, <1>1, BeginsKeeps, JobFormed DEF Create
<1>2. ASSUME NEW p \in Pid, Settle("service", p) \/ Delete(p) PROVE IInv'
  BY <1>2, BeginsKeeps, JobFormed, WritingFormed DEF Settle, Delete
<1>3. ASSUME Save PROVE IInv'
  <2> DEFINE j == Writing(Job("save", "writing", draft.pid, {}), <<<<draft.pid, draft.doc>>>>)
             k == [j EXCEPT !.read = [NothingRead EXCEPT ![draft.pid] = draft.doc]]
  <2>1. Formed(j) /\ j.phase = "writing"
    BY JobFormed, WritingFormed
  <2>2. Formed(k) /\ k.phase = "writing"
    BY <2>1 DEF Formed, Idle
  <2> HIDE DEF j
  <2>3. Begins("service", k)
    BY <1>3 DEF Save, j
  <2>4. QED
    BY <2>2, <2>3, BeginsKeeps
<1>4. ASSUME NEW seq, SetOrder(seq) PROVE IInv'
  <2> DEFINE k == [Idle EXCEPT !.verb = "set", !.phase = "setting", !.actives = Actives,
                               !.order = seq]
  <2>1. Formed(k) /\ k.phase = "setting"
    BY DEF Formed, Idle
  <2>2. QED
    BY <1>4, <2>1, BeginsKeeps DEF SetOrder
<1>5. QED
  BY <1>1, <1>2, <1>3, <1>4 DEF ServiceVerb

LEMMA PipelineVerbKeeps == IInv /\ PipelineVerb => IInv'
<1> SUFFICES ASSUME IInv, PipelineVerb PROVE IInv'
  OBVIOUS
<1> "pipeline" \in Program
  BY DEF Program
<1>0. \A verb, subject, loaded :
          /\ Job(verb, "allocating", subject, loaded).phase = "allocating"
          /\ Job(verb, "writing", subject, loaded).phase = "writing"
  BY DEF Job, Idle
<1>1. ASSUME NEW verb, New(verb) PROVE IInv'
  BY <1>0, <1>1, BeginsKeeps, JobFormed DEF New
<1>2. ASSUME NEW p \in Pid,
             UpdateProposes(p) \/ UpdateDecomposes(p) \/ RemoveProcess(p) \/ Settle("pipeline", p)
      PROVE  IInv'
  BY <1>0, <1>2, BeginsKeeps, JobFormed, WritingFormed
     DEF UpdateProposes, UpdateDecomposes, RemoveProcess, Settle
<1>3. ASSUME NEW p \in Pid, NEW c \in Pid, Attach(p, c) PROVE IInv'
  <2> DEFINE j == Job("attach", "writing", p, {p, c})
             k == [j EXCEPT !.other = c]
  <2>1. Formed(k)
    <3>1. Formed(j)
      BY JobFormed
    <3>2. QED
      BY <3>1 DEF Formed, Idle
  <2>2. PICK todo : Begins("pipeline", Writing(k, todo))
    BY <1>3 DEF Attach
  <2>3. Formed(Writing(k, todo)) /\ Writing(k, todo).phase = "writing"
    BY <2>1, WritingFormed
  <2>4. QED
    BY <2>2, <2>3, BeginsKeeps
<1>4. ASSUME NEW p \in Pid, NEW to \in Pid, MoveInOrder(p, to) PROVE IInv'
  <2>1. PICK seq : Begins("pipeline", [Idle EXCEPT !.verb = "move", !.phase = "setting",
                                                   !.actives = ToSet(order), !.order = seq])
    BY <1>4 DEF MoveInOrder
  <2> DEFINE k == [Idle EXCEPT !.verb = "move", !.phase = "setting",
                               !.actives = ToSet(order), !.order = seq]
  <2>2. Formed(k) /\ k.phase = "setting"
    BY DEF Formed, Idle
  <2>3. QED
    BY <2>1, <2>2, BeginsKeeps
<1>5. ASSUME NEW s, NEW c, Restructure(s, c) PROVE IInv'
  <2> DEFINE j == Job("restructure", "allocating", None, {})
             k == [j EXCEPT !.supersedes = s, !.other = c]
  <2>1. Formed(k) /\ k.phase = "allocating"
    <3>1. Formed(j)
      BY JobFormed
    <3>2. j.phase = "allocating"
      BY DEF Job, Idle
    <3>3. QED
      BY <3>1, <3>2 DEF Formed, Idle
  <2>2. QED
    BY <1>5, <2>1, BeginsKeeps DEF Restructure
<1>6. QED
  BY <1>1, <1>2, <1>3, <1>4, <1>5 DEF PipelineVerb

\* Who empties the ledger has a number that is new as often as it was torn,
\* unless another mint has stored it or a higher one since, or is storing one.
LEMMA MintOpensKeeps ==
    ASSUME IInv, NEW a \in Program, MintOpens(a)
    PROVE  IInv'
<1> DEFINE j == job[a]
           k == [j EXCEPT !.phase = "storing"]
<1>1. j.id \in Pid /\ Formed(j) /\ j.phase = "minting" /\ DOMAIN job = Program
  BY DEF MintOpens, IInv, Jobs, Formed
<1>2. k.phase = "storing" /\ k.id = j.id /\ Formed(k)
  BY <1>1 DEF Formed, Idle
<1>3. job' = [job EXCEPT ![a] = k]
  BY <1>1 DEF MintOpens
<1> HIDE DEF k
<1>4. \A b \in Program : job'[b] = IF b = a THEN k ELSE job[b]
  BY <1>1, <1>3
<1>5. Jobs'
  BY <1>2, <1>3, JobChanged DEF IInv
<1>6. /\ whole' = FALSE /\ raced' \in BOOLEAN /\ UNCHANGED <<ledger, given, torn>>
      /\ ~raced' => ~raced /\ IsNext(j, j.id) /\ \A b \in Program : job[b].phase # "storing"
  BY DEF MintOpens, IInv, Ledger
<1>13. ASSUME IsNext(j, j.id) PROVE Stored < j.id
  <2> HIDE DEF j
  <2> QED  BY <1>13 DEF IsNext
<1>7. j.id \in Nat /\ j.id >= 1 /\ \A p \in Pid : p \in Nat
  BY <1>1, StoreAssumption DEF Pid
<1>8. ASSUME ~raced' PROVE NewFrom(j.id)
  <2>1. CASE whole
    <3>1. NewFrom(ledger + 1) /\ ledger \in Nat /\ ~(ledger >= j.id)
      BY <1>6, <1>7, <1>8, <1>13, <2>1 DEF IInv, Ledger, Stored
    <3> QED  BY <1>7, <3>1 DEF NewFrom
  <2>2. CASE ~whole
    <3>1. NewFrom(1)
      BY <1>6, <1>8, <2>2 DEF IInv, Ledger
    <3> QED  BY <1>7, <3>1 DEF NewFrom
  <2> QED  BY <2>1, <2>2
<1>9. ASSUME ~raced'
      PROVE  \A b \in Program : job'[b].phase = "storing" =>
                NewFrom(job'[b].id) /\ \A c \in Program \ {b} : job'[c].phase # "storing"
  BY <1>2, <1>4, <1>6, <1>8, <1>9
<1>11. ASSUME ~raced', torn = 0 PROVE j.id > ledger
  <2>1. whole /\ ledger \in Nat /\ ~(ledger >= j.id)
    BY <1>6, <1>7, <1>11, <1>13 DEF IInv, Ledger, Stored
  <2> QED  BY <1>7, <2>1
<1>12. /\ \E b \in Program : job'[b].phase = "storing"
       /\ ~raced' /\ torn = 0 => \A b \in Program : job'[b].phase = "storing" => job'[b].id > ledger
  BY <1>2, <1>4, <1>6, <1>11
<1> HIDE DEF j
<1>10. Ledger'
  BY <1>2, <1>4, <1>6, <1>9, <1>12 DEF IInv, Ledger, NewFrom
<1> QED  BY <1>5, <1>10 DEF IInv

\* A job that has minted is formed and goes on to write, to plan or to mint.
LEMMA MintedFormed ==
    ASSUME NEW j, Formed(j)
    PROVE  Formed(Minted(j)) /\ Minted(j).phase \in {"loading", "allocating", "writing"}
<1>1. CASE j.verb = "restructure"
  BY <1>1 DEF Minted, Formed, Idle
<1>2. CASE j.verb = "nest"
  BY <1>2 DEF Minted, Formed, Idle
<1>3. CASE j.verb \notin {"restructure", "nest"}
  BY <1>3, WritingFormed DEF Minted
<1> QED  BY <1>1, <1>2, <1>3

\* The number a mint stores is given once more than the ledger was torn at most.
LEMMA MintWritesKeeps ==
    ASSUME IInv, NEW a \in Program, MintWrites(a)
    PROVE  IInv'
<1> DEFINE j == job[a]
           k == Minted(j)
<1>1. /\ j.id \in Pid /\ Formed(j) /\ j.phase = "storing" /\ DOMAIN job = Program
      /\ job' = [job EXCEPT ![a] = k]
  BY DEF MintWrites, IInv, Jobs, Formed
<1>2. Formed(k) /\ k.phase # "storing"
  BY <1>1, MintedFormed
<1> HIDE DEF k
<1>3. \A b \in Program : job'[b] = IF b = a THEN k ELSE job[b]
  BY <1>1
<1>4. Jobs'
  BY <1>1, <1>2, JobChanged DEF IInv
<1>5. /\ given' = [given EXCEPT ![j.id] = @ + 1] /\ ledger' = j.id /\ whole' = TRUE
      /\ raced' = raced /\ torn' = torn
  BY DEF MintWrites
<1>6. j.id \in Nat /\ \A p \in Pid : p \in Nat
  BY <1>1, StoreAssumption DEF Pid
<1>7. given' \in [Pid -> Nat] /\ ledger' \in Nat /\ torn' \in Nat
  BY <1>1, <1>5, <1>6 DEF IInv, Ledger
<1>8. ASSUME ~raced
      PROVE  /\ \A p \in Pid : given'[p] <= 1 + torn
             /\ \A p \in Pid : p >= j.id + 1 => given'[p] <= torn
             /\ \A b \in Program : job'[b].phase # "storing"
  <2>1. /\ NewFrom(j.id) /\ given \in [Pid -> Nat] /\ torn \in Nat
        /\ \A p \in Pid : given[p] <= 1 + torn
        /\ \A b \in Program \ {a} : job[b].phase # "storing"
    BY <1>1, <1>8 DEF IInv, Ledger
  <2>2. given[j.id] <= torn /\ given[j.id] \in Nat
    BY <1>1, <1>6, <2>1 DEF NewFrom
  <2>3. \A p \in Pid : given'[p] = IF p = j.id THEN given[p] + 1 ELSE given[p]
    BY <1>5, <2>1
  <2>4. \A b \in Program : job'[b].phase # "storing"
    BY <1>2, <1>3, <2>1
  <2> HIDE DEF j
  <2> QED  BY <1>6, <2>1, <2>2, <2>3, <2>4 DEF NewFrom
<1>9. raced' \in BOOLEAN /\ whole' \in BOOLEAN
  BY <1>5 DEF IInv, Ledger
<1>10. Ledger'
  BY <1>5, <1>7, <1>8, <1>9 DEF Ledger, NewFrom
<1> QED  BY <1>4, <1>10 DEF IInv

\* Every other step of a verb changes that verb's job alone, and mints nothing.
LEMMA StepKeeps ==
    ASSUME IInv, NEW a \in Program, NEW j, Formed(j), job[a].phase # "storing", j.phase # "storing",
           job' = [job EXCEPT ![a] = j], UNCHANGED <<ledger, whole, given, raced, torn>>
    PROVE  IInv'
<1>1. Jobs'
  BY JobChanged DEF IInv
<1>2. Ledger'
  BY LedgerStays
<1>3. QED
  BY <1>1, <1>2 DEF IInv

\* A verb that stops while the ledger is empty leaves it so, which is counted.
LEMMA StopsKeeps ==
    ASSUME IInv, NEW a \in Program, Stops(a)
    PROVE  IInv'
<1>1. job' = [job EXCEPT ![a] = Idle] /\ UNCHANGED <<ledger, whole, given, raced>>
  BY DEF Stops, files
<1>2. Idle.phase = "idle"
  BY DEF Idle
<1>3. CASE job[a].phase # "storing"
  BY <1>1, <1>2, <1>3, IdleFormed, StepKeeps DEF Stops
<1>4. CASE job[a].phase = "storing"
  <2>1. Jobs'
    BY <1>1, IdleFormed, JobChanged DEF IInv
  <2>2. DOMAIN job = Program /\ \A b \in Program : job'[b] = IF b = a THEN Idle ELSE job[b]
    BY <1>1 DEF IInv, Jobs
  <2>3. torn' = torn + 1 /\ torn \in Nat /\ given \in [Pid -> Nat]
    BY <1>4 DEF Stops, IInv, Ledger
  <2>4. ASSUME ~raced
        PROVE  /\ \A p \in Pid : given[p] <= torn'
               /\ ~whole /\ \A b \in Program : job'[b].phase # "storing"
    <3>1. /\ \A p \in Pid : given[p] <= 1 + torn
          /\ ~whole /\ \A b \in Program \ {a} : job[b].phase # "storing"
      BY <1>4, <2>4 DEF IInv, Ledger
    <3> QED  BY <1>2, <2>2, <2>3, <3>1
  <2>5. (\A p \in Pid : given[p] <= torn') => \A p \in Pid : given[p] <= 1 + torn'
    BY <2>3
  <2>6. Ledger'
    BY <1>1, <2>3, <2>4, <2>5 DEF IInv, Ledger, NewFrom
  <2> QED  BY <2>1, <2>6 DEF IInv
<1> QED  BY <1>3, <1>4

LEMMA InnerStepKeeps ==
    ASSUME IInv, NEW a \in Program,
           MintReads(a) \/ Writes(a) \/ SyncReads(a) \/ SyncWrites(a) \/ OrderSet(a)
    PROVE  IInv'
<1> DEFINE j == job[a]
<1>0. Formed(j) /\ DOMAIN job = Program
  BY DEF IInv, Jobs
<1>1. CASE MintReads(a)
  <2>1. PICK n \in Pid : job' = [job EXCEPT ![a].id = n, ![a].phase = "minting"]
    BY <1>1 DEF MintReads
  <2> DEFINE k == [j EXCEPT !.id = n, !.phase = "minting"]
  <2>2. Formed(k) /\ k.phase = "minting"
    BY <1>0 DEF Formed, Idle
  <2>3. job' = [job EXCEPT ![a] = k]
    BY <1>0, <2>1
  <2> HIDE DEF k
  <2>4. QED
    BY <1>1, <2>2, <2>3, StepKeeps DEF MintReads, files, history
<1>2. CASE Writes(a)
  <2>1. Formed(AfterWriting(j)) /\ j.phase = "writing" /\ AfterWriting(j).phase # "storing"
    BY <1>0, <1>2, IdleFormed DEF AfterWriting, Formed, Writes, Idle
  <2> DEFINE p == j.todo[1][1]
             rest == [j EXCEPT !.todo = Tail(@), !.read[p] = j.todo[1][2]]
             k == IF Len(j.todo) = 1 THEN AfterWriting(j) ELSE rest
  <2>2. Formed(rest) /\ rest.phase = "writing"
    BY <1>0, <2>1 DEF Formed, Idle
  <2>3. job' = [job EXCEPT ![a] = k] /\ UNCHANGED <<ledger, whole, given, raced, torn>>
    BY <1>2 DEF Writes
  <2>4. Formed(k) /\ k.phase # "storing"
    BY <2>1, <2>2
  <2> HIDE DEF k
  <2>5. QED
    BY <2>1, <2>3, <2>4, StepKeeps
<1>3. CASE SyncReads(a)
  <2> DEFINE k == [j EXCEPT !.phase = "ordering", !.actives = Actives, !.order = order]
  <2>1. Formed(k) /\ k.phase = "ordering"
    BY <1>0 DEF Formed, Idle
  <2>2. job' = [job EXCEPT ![a] = k]
    BY <1>0, <1>3 DEF SyncReads
  <2> HIDE DEF k
  <2>3. QED
    BY <1>3, <2>1, <2>2, StepKeeps DEF SyncReads, files, history
<1>4. CASE SyncWrites(a) \/ OrderSet(a)
  <2>1. Idle.phase = "idle"
    BY DEF Idle
  <2> QED  BY <1>4, <2>1, IdleFormed, StepKeeps DEF SyncWrites, OrderSet
<1>5. QED
  BY <1>1, <1>2, <1>3, <1>4

\* The steps only one of the programs takes.
LEMMA OwnStepKeeps ==
    ASSUME IInv,
           RestructureLoads \/ RestructureRefused \/ SweepReads \/ SweepWrites \/ SweepEnds
    PROVE  IInv'
<1> DEFINE s == job["service"]
           q == job["pipeline"]
<1>0. /\ "service" \in Program /\ "pipeline" \in Program /\ DOMAIN job = Program
      /\ Formed(s) /\ Formed(q)
  BY DEF IInv, Jobs, Program
<1>1. CASE RestructureLoads
  <2>1. PICK read, todo :
            job' = [job EXCEPT !["pipeline"] = Writing([q EXCEPT !.read = read], todo)]
    BY <1>1 DEF RestructureLoads
  <2>2. Formed([q EXCEPT !.read = read])
    BY <1>0 DEF Formed, Idle
  <2>3. Formed(Writing([q EXCEPT !.read = read], todo))
        /\ Writing([q EXCEPT !.read = read], todo).phase = "writing"
    BY <2>2, WritingFormed
  <2>4. QED
    BY <1>0, <1>1, <2>1, <2>3, StepKeeps DEF RestructureLoads, files, history
<1>2. CASE RestructureRefused
  <2>1. Idle.phase = "idle"
    BY DEF Idle
  <2> QED  BY <1>0, <1>2, <2>1, IdleFormed, StepKeeps DEF RestructureRefused, files, history
<1>3. CASE SweepReads
  <2> DEFINE p == s.other + 1
             seen == [s EXCEPT !.other = p]
             found == [s EXCEPT !.other = p, !.read[p] = doc[p],
                                !.todo = <<<<p, Swept(doc[p], s.subject)>>>>]
             k == IF doc[p] # NoDoc /\ Swept(doc[p], s.subject) # doc[p] THEN found ELSE seen
  <2>0. s.phase = "sweeping"
    BY <1>3 DEF SweepReads
  <2>1. Formed(seen) /\ Formed(found) /\ seen.phase = "sweeping" /\ found.phase = "sweeping"
    BY <1>0, <2>0 DEF Formed, Idle
  <2>2. job' = [job EXCEPT !["service"] = k] /\ UNCHANGED <<ledger, whole, given, raced, torn>>
    BY <1>3 DEF SweepReads, files, history
  <2>3. Formed(k) /\ k.phase = "sweeping"
    BY <2>1
  <2> HIDE DEF k
  <2>4. QED
    BY <1>0, <2>0, <2>2, <2>3, StepKeeps
<1>4. CASE SweepWrites
  <2>1. PICK p : job' = [job EXCEPT !["service"].todo = <<>>, !["service"].read[p] = NoDoc]
    BY <1>4 DEF SweepWrites
  <2> DEFINE k == [s EXCEPT !.todo = <<>>, !.read[p] = NoDoc]
  <2>0. s.phase = "sweeping"
    BY <1>4 DEF SweepWrites
  <2>2. Formed(k) /\ k.phase = "sweeping"
    BY <1>0, <2>0 DEF Formed, Idle
  <2>3. job' = [job EXCEPT !["service"] = k]
    BY <1>0, <2>1 DEF Formed, Idle
  <2> HIDE DEF k
  <2>4. QED
    BY <1>0, <1>4, <2>0, <2>2, <2>3, StepKeeps DEF SweepWrites
<1>5. CASE SweepEnds
  <2> DEFINE k == [s EXCEPT !.phase = "syncing"]
  <2>1. Formed(k) /\ k.phase = "syncing"
    BY <1>0 DEF Formed, Idle
  <2>2. job' = [job EXCEPT !["service"] = k]
    BY <1>0, <1>5 DEF SweepEnds
  <2> HIDE DEF k
  <2>3. QED
    BY <1>0, <1>5, <2>1, <2>2, StepKeeps DEF SweepEnds, files, history
<1>6. QED
  BY <1>1, <1>2, <1>3, <1>4, <1>5

LEMMA IdsInit == Init => IInv
<1> SUFFICES ASSUME Init PROVE IInv
  OBVIOUS
<1>1. Jobs
  BY IdleFormed DEF Init, Jobs
<1>2. Existing \in Nat /\ \A p \in Pid : p \in Nat
  BY StoreAssumption DEF Pid
<1>3. /\ ledger = Existing /\ raced = FALSE /\ whole = TRUE /\ torn = 0
      /\ given = [p \in Pid |-> IF p <= Existing THEN 1 ELSE 0]
      /\ job = [a \in Program |-> Idle]
  BY DEF Init
<1>4. given \in [Pid -> Nat] /\ \A p \in Pid : given[p] <= 1 + torn
  BY <1>2, <1>3
<1>5. NewFrom(ledger + 1)
  BY <1>2, <1>3 DEF NewFrom
<1>6. \A a \in Program : job[a].phase # "storing"
  BY <1>3 DEF Idle
<1>7. Ledger
  BY <1>2, <1>3, <1>4, <1>5, <1>6 DEF Ledger
<1> QED  BY <1>1, <1>7 DEF IInv

LEMMA IdsStep == IInv /\ [Next]_vars => IInv'
<1> SUFFICES ASSUME IInv, [Next]_vars PROVE IInv'
  OBVIOUS
<1>1. CASE ServiceVerb \/ PipelineVerb
  BY <1>1, ServiceVerbKeeps, PipelineVerbKeeps
<1>2. ASSUME NEW p \in Pid, ClientLoads(p) PROVE IInv'
  BY <1>2 DEF ClientLoads, IInv, Jobs, Ledger, NewFrom, files, history
<1>3. ASSUME NEW a \in Program,
             \/ MintReads(a) \/ MintOpens(a) \/ MintWrites(a) \/ Writes(a)
             \/ SyncReads(a) \/ SyncWrites(a) \/ OrderSet(a) \/ Stops(a)
      PROVE  IInv'
  BY <1>3, MintOpensKeeps, MintWritesKeeps, StopsKeeps, InnerStepKeeps
<1>4. CASE RestructureLoads \/ RestructureRefused \/ SweepReads \/ SweepWrites \/ SweepEnds
  BY <1>4, OwnStepKeeps
<1>5. CASE UNCHANGED vars
  BY <1>5 DEF vars, IInv, Jobs, Ledger, NewFrom, files, history
<1> QED  BY <1>1, <1>2, <1>3, <1>4, <1>5 DEF Next

\* next_process_id, for any number of processes, verbs and stops: unless two
\* mints overlap, a number is given once, and once more at most for each time a
\* mint stopped between emptying .id-seq.json and writing it, whatever verbs
\* interleave, stop half way or delete.
THEOREM IdsAlwaysGivenOnce == Spec => []IdsGivenOnce
<1>1. IInv => IdsGivenOnce
  BY DEF IInv, Ledger, IdsGivenOnce
<1> QED  BY <1>1, IdsInit, IdsStep, PTL DEF Spec

-----------------------------------------------------------------------------
(* Heirs before burial.  What a program holds in its hands (documents read, *)
(* files still to write, a browser's copy) names only heirs that are known, *)
(* or are written earlier in the same verb.                                 *)

File == Pid \X (Doc \cup {NoDoc})

\* On disk, or deleted by somebody: what is known stays known.
Known == OnDisk \cup gone

Honest(d, known) == d \in Doc => d.supersededBy \subseteq known

\* Every file of the sequence names heirs that are known by the time it is
\* written.
HonestFiles(todo, known) ==
    /\ todo \in Seq(File)
    /\ \A k \in DOMAIN todo : Honest(todo[k][2], known \cup {todo[l][1] : l \in 1..(k - 1)})

HonestRead(read, known) ==
    /\ read \in [Pid -> Doc \cup {NoDoc}]
    /\ \A p \in Pid : Honest(read[p], known)

Loaded(j, known) ==
    /\ Formed(j)
    /\ j.subject \in Pid \cup {None} /\ j.other \in Nat
    /\ j.supersedes \in Seq(Pid)
    /\ HonestRead(j.read, known)

\* A verb that mints the number of a sub-process under a file it has read.
MintsUnder(j) ==
    /\ j.phase \in {"allocating", "minting", "storing"}
    /\ j.verb \notin {"restructure", "nest", "new"} /\ j.subject # None

HonestJob(j, known) ==
    /\ Loaded(j, known)
    /\ HonestFiles(j.todo, known)
    /\ j.phase = "writing" => j.todo # <<>>
    /\ j.phase = "sweeping" /\ j.todo # <<>> => j.todo[1][2] \in Doc
    /\ j.phase = "loading" => j.id \in Pid
    /\ MintsUnder(j) => j.read[j.subject] # NoDoc

HonestDraft(known) ==
    \/ draft = NoDraft
    \/ /\ DOMAIN draft = {"pid", "doc"}
       /\ draft.pid \in Pid /\ draft.doc \in Doc /\ Honest(draft.doc, known)

HeirInv ==
    /\ HonestRead(doc, Known)
    /\ gone \subseteq Pid
    /\ HonestDraft(Known)
    /\ DOMAIN job = Program
    /\ \A a \in Program : HonestJob(job[a], Known)

LEMMA PidIsFinite == Pid \in SUBSET Nat /\ IsFiniteSet(Pid) /\ None \notin Pid
<1>1. MaxId \in Int /\ 1 \in Int
  BY StoreAssumption
<1>2. IsFiniteSet(1..MaxId)
  BY <1>1, FS_Interval
<1>3. QED
  BY <1>2, StoreAssumption DEF Pid, None

LEMMA HonestGrows ==
    ASSUME NEW known, NEW more, known \subseteq more
    PROVE  /\ \A d : Honest(d, known) => Honest(d, more)
           /\ \A read : HonestRead(read, known) => HonestRead(read, more)
           /\ \A todo : HonestFiles(todo, known) => HonestFiles(todo, more)
           /\ \A j : HonestJob(j, known) => HonestJob(j, more)
           /\ HonestDraft(known) => HonestDraft(more)
<1>1. \A d : Honest(d, known) => Honest(d, more)
  BY DEF Honest
<1>2. \A read : HonestRead(read, known) => HonestRead(read, more)
  BY <1>1 DEF HonestRead
<1>3. \A todo : HonestFiles(todo, known) => HonestFiles(todo, more)
  BY DEF HonestFiles, Honest
<1>4. \A j : Loaded(j, known) => Loaded(j, more)
  BY <1>2 DEF Loaded
<1>5. \A j : HonestJob(j, known) => HonestJob(j, more)
  BY <1>3, <1>4 DEF HonestJob
<1>6. HonestDraft(known) => HonestDraft(more)
  BY <1>1 DEF HonestDraft
<1>7. QED
  BY <1>1, <1>2, <1>3, <1>5, <1>6

-----------------------------------------------------------------------------
(* Documents, and files about to be written.                               *)

LEMMA FreshHonest ==
    ASSUME NEW parent \in Pid \cup {None}
    PROVE  Fresh(parent) \in Doc /\ Fresh(parent).supersededBy = {}
BY DEF Fresh, Doc, None

\* Whatever else of a document a verb changes, its heirs it leaves alone.
LEMMA ChangedDoc ==
    ASSUME NEW d \in Doc, NEW x \in Pid \cup {None}
    PROVE  /\ [d EXCEPT !.subprocess = x] \in Doc
           /\ [d EXCEPT !.subprocess = x].supersededBy = d.supersededBy
           /\ [d EXCEPT !.parent = x] \in Doc
           /\ [d EXCEPT !.parent = x].supersededBy = d.supersededBy
           /\ \A s \in {"open", "settled"} :
                 /\ [d EXCEPT !.pending = s] \in Doc
                 /\ [d EXCEPT !.pending = s].supersededBy = d.supersededBy
           /\ \A p : Swept(d, p) \in Doc /\ Swept(d, p).supersededBy = d.supersededBy
BY DEF Doc, Swept, None

LEMMA BuriedDoc ==
    ASSUME NEW d \in Doc, NEW heirs \in SUBSET Pid
    PROVE  Buries(d, heirs) \in Doc /\ Buries(d, heirs).supersededBy = heirs
BY DEF Doc, Buries

LEMMA OneFile ==
    ASSUME NEW known, NEW p \in Pid, NEW d \in Doc \cup {NoDoc}, Honest(d, known)
    PROVE  HonestFiles(<<<<p, d>>>>, known) /\ <<<<p, d>>>> # <<>>
<1>1. <<p, d>> \in File
  BY DEF File
<1>2. <<<<p, d>>>> \in Seq(File)
  BY <1>1
<1>3. QED
  BY <1>2 DEF HonestFiles, Honest

LEMMA TwoFiles ==
    ASSUME NEW known, NEW p \in Pid, NEW d \in Doc, Honest(d, known),
           NEW q \in Pid, NEW e \in Doc, Honest(e, known)
    PROVE  HonestFiles(<<<<p, d>>, <<q, e>>>>, known) /\ <<<<p, d>>, <<q, e>>>> # <<>>
<1> DEFINE todo == <<<<p, d>>, <<q, e>>>>
<1>1. <<p, d>> \in File /\ <<q, e>> \in File
  BY DEF File
<1>2. todo \in Seq(File) /\ DOMAIN todo = 1..2 /\ todo[1] = <<p, d>> /\ todo[2] = <<q, e>>
  BY <1>1
<1>3. todo # <<>>
  OBVIOUS
<1>4. \A k \in DOMAIN todo : Honest(todo[k][2], known \cup {todo[l][1] : l \in 1..(k - 1)})
  <2>1. \A k \in DOMAIN todo : Honest(todo[k][2], known)
    BY <1>2
  <2> HIDE DEF todo
  <2>2. QED
    BY <2>1 DEF Honest
<1>5. QED
  BY <1>2, <1>3, <1>4 DEF HonestFiles

\* When the first file is there, the others are as honest as before.
LEMMA FirstWritten ==
    ASSUME NEW known, NEW todo, HonestFiles(todo, known), todo # <<>>
    PROVE  /\ todo[1][1] \in Pid /\ todo[1][2] \in Doc \cup {NoDoc} /\ Honest(todo[1][2], known)
           /\ HonestFiles(Tail(todo), known \cup {todo[1][1]})
           /\ Len(todo) # 1 => Tail(todo) # <<>>
<1>1. todo \in Seq(File) /\ Len(todo) \in Nat \ {0} /\ todo[1] \in File
  BY DEF HonestFiles
<1>2. todo[1][1] \in Pid /\ todo[1][2] \in Doc \cup {NoDoc}
  BY <1>1 DEF File
<1>3. Honest(todo[1][2], known)
  <2>1. 1 \in DOMAIN todo /\ {todo[l][1] : l \in 1..(1 - 1)} = {}
    BY <1>1
  <2>2. QED
    BY <2>1 DEF HonestFiles
<1>4. /\ Tail(todo) \in Seq(File) /\ Len(Tail(todo)) = Len(todo) - 1
      /\ \A k \in 1..(Len(todo) - 1) : Tail(todo)[k] = todo[k + 1]
  BY <1>1
<1>5. ASSUME NEW k \in DOMAIN Tail(todo)
      PROVE  Honest(Tail(todo)[k][2],
                    (known \cup {todo[1][1]}) \cup {Tail(todo)[l][1] : l \in 1..(k - 1)})
  <2>1. k \in 1..(Len(todo) - 1) /\ k + 1 \in DOMAIN todo /\ Tail(todo)[k] = todo[k + 1]
    BY <1>1, <1>4
  <2>2. Honest(todo[k + 1][2], known \cup {todo[l][1] : l \in 1..((k + 1) - 1)})
    BY <2>1 DEF HonestFiles
  <2>3. \A l \in 1..((k + 1) - 1) : l = 1 \/ (l - 1 \in 1..(k - 1) /\ Tail(todo)[l - 1] = todo[l])
    BY <1>1, <1>4, <2>1
  <2>4. {todo[l][1] : l \in 1..((k + 1) - 1)} \subseteq
            {todo[1][1]} \cup {Tail(todo)[l][1] : l \in 1..(k - 1)}
    BY <2>3
  <2>5. QED
    BY <2>1, <2>2, <2>4 DEF Honest
<1>6. Len(todo) # 1 => Tail(todo) # <<>>
  BY <1>1, <1>4
<1>7. QED
  BY <1>2, <1>3, <1>4, <1>5, <1>6 DEF HonestFiles

-----------------------------------------------------------------------------
(* Jobs.                                                                   *)

LEMMA IdleHonest == ASSUME NEW known PROVE HonestJob(Idle, known)
<1>1. HonestRead(NothingRead, known)
  BY NoDocAssumption DEF HonestRead, NothingRead, Honest
<1>2. Formed(Idle) /\ DOMAIN Idle = DOMAIN Idle
  BY IdleFormed
<1>3. <<>> \in Seq(File) /\ <<>> \in Seq(Pid) /\ DOMAIN <<>> = {}
  OBVIOUS
<1>4. HonestFiles(<<>>, known)
  BY <1>3 DEF HonestFiles
<1>5. QED
  BY <1>1, <1>2, <1>3, <1>4 DEF HonestJob, MintsUnder, Loaded, Idle, None

Begun(k, verb, phase, subject, loaded) ==
    /\ Loaded(k, Known) /\ HonestFiles(k.todo, Known)
    /\ k.phase = phase /\ k.verb = verb /\ k.subject = subject
    /\ \A p \in Pid : k.read[p] = IF p \in loaded THEN doc[p] ELSE NoDoc

\* A verb reads what is on disk.
LEMMA JobLoaded ==
    ASSUME HeirInv, NEW verb, NEW phase, phase \notin {"minting", "storing"},
           NEW subject \in Pid \cup {None}, NEW loaded
    PROVE  Begun(Job(verb, phase, subject, loaded), verb, phase, subject, loaded)
<1> DEFINE k == Job(verb, phase, subject, loaded)
<1>1. Formed(k)
  BY JobFormed
<1>2. /\ k.phase = phase /\ k.verb = verb /\ k.subject = subject /\ k.other = None
      /\ k.supersedes = <<>> /\ k.todo = <<>>
      /\ k.read = [p \in Pid |-> IF p \in loaded THEN doc[p] ELSE NoDoc]
  BY DEF Job, Idle
<1>3. HonestJob(Idle, Known)
  BY IdleHonest
<1>4. HonestFiles(<<>>, Known) /\ <<>> \in Seq(Pid)
  BY <1>3 DEF HonestJob, Idle
<1> HIDE DEF k
<1>5. HonestRead(k.read, Known)
  BY <1>2, NoDocAssumption DEF HeirInv, HonestRead, Honest
<1>6. QED
  <2>1. Loaded(k, Known) /\ HonestFiles(k.todo, Known)
    BY <1>1, <1>2, <1>4, <1>5 DEF Loaded, None
  <2>2. Begun(k, verb, phase, subject, loaded)
    BY <1>2, <2>1 DEF Begun
  <2>3. QED
    BY <2>2 DEF k

LEMMA WritingHonest ==
    ASSUME NEW known, NEW j, Loaded(j, known), NEW todo, HonestFiles(todo, known), todo # <<>>
    PROVE  HonestJob(Writing(j, todo), known)
<1>1. Formed(Writing(j, todo))
  BY WritingFormed DEF Loaded
<1>2. DOMAIN j = DOMAIN Idle
  BY DEF Loaded, Formed
<1>3. /\ Writing(j, todo).phase = "writing" /\ Writing(j, todo).todo = todo
      /\ Writing(j, todo).subject = j.subject /\ Writing(j, todo).other = j.other
      /\ Writing(j, todo).supersedes = j.supersedes /\ Writing(j, todo).read = j.read
  BY <1>2 DEF Writing, Idle
<1>4. QED
  BY <1>1, <1>3 DEF HonestJob, MintsUnder, Loaded

\* A step that changes one job, and of the files and the browser's copy
\* nothing.
LEMMA HonestStep ==
    ASSUME HeirInv, NEW a \in Program, NEW j, HonestJob(j, Known),
           job' = [job EXCEPT ![a] = j], UNCHANGED <<doc, gone, draft>>
    PROVE  HeirInv'
<1>1. Known' = Known
  BY DEF Known, OnDisk
<1>2. DOMAIN job' = Program /\ \A b \in Program : job'[b] = IF b = a THEN j ELSE job[b]
  BY DEF HeirInv
<1>3. \A b \in Program : HonestJob(job'[b], Known')
  BY <1>1, <1>2 DEF HeirInv
<1>4. HonestRead(doc', Known') /\ gone' \subseteq Pid
  BY <1>1 DEF HeirInv
<1>5. HonestDraft(Known)'
  BY <1>1 DEF HeirInv, HonestDraft
<1>6. QED
  BY <1>2, <1>3, <1>4, <1>5 DEF HeirInv

\* A step that writes one file.
LEMMA HonestWrite ==
    ASSUME HeirInv, NEW a \in Program, NEW p \in Pid, NEW d \in Doc \cup {NoDoc}, Honest(d, Known),
           NEW j, HonestJob(j, Known \cup {p}),
           job' = [job EXCEPT ![a] = j], doc' = [doc EXCEPT ![p] = d], UNCHANGED draft,
           gone' = IF d = NoDoc THEN gone \cup {p} ELSE gone
    PROVE  HeirInv'
<1>1. doc \in [Pid -> Doc \cup {NoDoc}] /\ gone \subseteq Pid
  BY DEF HeirInv, HonestRead
<1>2. /\ doc' \in [Pid -> Doc \cup {NoDoc}]
      /\ \A q \in Pid : doc'[q] = IF q = p THEN d ELSE doc[q]
  BY <1>1
<1>3. Known' = Known \cup {p}
  BY <1>1, <1>2 DEF Known, OnDisk
<1>4. Known \subseteq Known'
  BY <1>3
<1>5. /\ \A e : Honest(e, Known) => Honest(e, Known')
      /\ \A k : HonestJob(k, Known) => HonestJob(k, Known')
      /\ HonestDraft(Known) => HonestDraft(Known)'
  <2>1. HonestDraft(Known) => HonestDraft(Known)'
    BY <1>4 DEF HonestDraft, Honest
  <2>2. QED
    BY <1>4, <2>1, HonestGrows
<1>6. HonestRead(doc', Known')
  BY <1>2, <1>5 DEF HeirInv, HonestRead
<1>7. DOMAIN job' = Program /\ \A b \in Program : job'[b] = IF b = a THEN j ELSE job[b]
  BY DEF HeirInv
<1>8. \A b \in Program : HonestJob(job'[b], Known')
  BY <1>3, <1>5, <1>7 DEF HeirInv
<1>9. gone' \subseteq Pid
  BY <1>1
<1>10. QED
  BY <1>5, <1>6, <1>7, <1>8, <1>9 DEF HeirInv

LEMMA HonestBegins ==
    ASSUME HeirInv, NEW a \in Program, NEW j, HonestJob(j, Known), Begins(a, j)
    PROVE  HeirInv'
BY HonestStep DEF Begins, files, history

-----------------------------------------------------------------------------
(* A restructure.                                                          *)

BuriedIn(d, j) ==
    [p \in Pid |-> IF p = j.id THEN Fresh(None)
                   ELSE IF p \in ToSet(j.supersedes) THEN Buries(d[p], {j.id})
                   ELSE d[p]]

IsHung(after, d, j) ==
    after = [n \in 0..Len(j.supersedes) |->
                IF n = 0 THEN BuriedIn(d, j) ELSE Retarget(after[n - 1], j.supersedes[n], j.id)]

\* Documents among which the heir can take its place: it is there, the
\* originals are, and so is what they hang under.
Hangs(d, j) ==
    /\ d \in [Pid -> Doc \cup {NoDoc}]
    /\ d[j.id] \in Doc
    /\ \A s \in ToSet(j.supersedes) :
          d[s] \in Doc /\ (d[s].parent = None \/ (d[s].parent \in Pid /\ d[d[s].parent] \in Doc))

SameHeirs(d, e) ==
    \A p \in Pid : /\ d[p] \in Doc <=> e[p] \in Doc
                   /\ d[p] \in Doc => e[p].supersededBy = d[p].supersededBy

PlanJob(j) == j.id \in Pid /\ j.supersedes \in Seq(Pid)

\* To hang the heir where an original hung takes nothing away and names no
\* other heir.
LEMMA RetargetKeeps ==
    ASSUME NEW j, PlanJob(j), NEW d, Hangs(d, j), NEW s \in ToSet(j.supersedes)
    PROVE  Hangs(Retarget(d, s, j.id), j) /\ SameHeirs(d, Retarget(d, s, j.id))
<1> DEFINE q == d[s].parent
           h == j.id
           e == [d EXCEPT ![q].subprocess = h]
           f == [e EXCEPT ![h].parent = q]
<1>0. ToSet(j.supersedes) \subseteq Pid /\ h \in Pid /\ s \in Pid
  BY DEF PlanJob, ToSet
<1>1. CASE q # None /\ d[q].subprocess = s
  <2>1. q \in Pid /\ d[q] \in Doc /\ d[h] \in Doc /\ d \in [Pid -> Doc \cup {NoDoc}]
    BY <1>1 DEF Hangs
  <2> HIDE DEF h, q
  <2>2. /\ [d[q] EXCEPT !.subprocess = h] \in Doc
        /\ [d[q] EXCEPT !.subprocess = h].supersededBy = d[q].supersededBy
        /\ [d[q] EXCEPT !.subprocess = h].parent = d[q].parent
    <3>1. [d[q] EXCEPT !.subprocess = h].parent = d[q].parent
      BY <2>1 DEF Doc
    <3>2. QED
      BY <1>0, <2>1, <3>1, ChangedDoc
  <2>3. /\ e \in [Pid -> Doc \cup {NoDoc}]
        /\ \A p \in Pid : e[p] = IF p = q THEN [d[q] EXCEPT !.subprocess = h] ELSE d[p]
    BY <2>1, <2>2
  <2>4. SameHeirs(d, e) /\ \A p \in Pid : d[p] \in Doc => e[p].parent = d[p].parent
    BY <2>1, <2>2, <2>3 DEF SameHeirs
  <2> HIDE DEF e
  <2>5. /\ [e[h] EXCEPT !.parent = q] \in Doc
        /\ [e[h] EXCEPT !.parent = q].supersededBy = e[h].supersededBy
        /\ [e[h] EXCEPT !.parent = q].parent = q
    <3>1. e[h] \in Doc
      BY <1>0, <2>1, <2>4 DEF SameHeirs
    <3>2. [e[h] EXCEPT !.parent = q].parent = q
      BY <3>1 DEF Doc
    <3>3. QED
      BY <2>1, <3>1, <3>2, ChangedDoc
  <2>6. /\ f \in [Pid -> Doc \cup {NoDoc}]
        /\ \A p \in Pid : f[p] = IF p = h THEN [e[h] EXCEPT !.parent = q] ELSE e[p]
    BY <1>0, <2>3, <2>5
  <2> HIDE DEF f
  <2>7. SameHeirs(d, f)
    BY <1>0, <2>1, <2>4, <2>5, <2>6 DEF SameHeirs
  <2>8. ASSUME NEW t \in ToSet(j.supersedes)
        PROVE  f[t] \in Doc /\ (f[t].parent = None \/ (f[t].parent \in Pid /\ f[f[t].parent] \in Doc))
    <3>1. t \in Pid /\ d[t] \in Doc
          /\ (d[t].parent = None \/ (d[t].parent \in Pid /\ d[d[t].parent] \in Doc))
      BY <1>0 DEF Hangs
    <3>2. f[t] \in Doc /\ (f[t].parent = q \/ f[t].parent = d[t].parent)
      BY <2>4, <2>5, <2>6, <2>7, <3>1 DEF SameHeirs
    <3>3. QED
      BY <2>1, <2>7, <3>1, <3>2 DEF SameHeirs
  <2>9. Hangs(f, j)
    BY <1>0, <2>1, <2>6, <2>7, <2>8 DEF Hangs, SameHeirs, h
  <2>10. Retarget(d, s, j.id) = f
    BY <1>1 DEF Retarget, e, f, h, q
  <2>11. QED
    BY <2>7, <2>9, <2>10
<1>2. CASE ~(q # None /\ d[q].subprocess = s)
  BY <1>2 DEF Retarget, SameHeirs
<1>3. QED
  BY <1>1, <1>2

\* What the burials make of the documents of a plan that is not refused.
LEMMA BuriedHangs ==
    ASSUME NEW j, PlanJob(j), doc \in [Pid -> Doc \cup {NoDoc}],
           ToSet(j.supersedes) \subseteq OnDisk,
           {doc[s].parent : s \in ToSet(j.supersedes)} \subseteq OnDisk \cup {None, j.id}
    PROVE  LET b == BuriedIn(doc, j)
           IN  /\ Hangs(b, j)
               /\ \A p \in OnDisk \cup {j.id} : b[p] \in Doc
               /\ b[j.id].supersededBy = {}
               /\ \A p \in OnDisk : b[p].supersededBy \subseteq doc[p].supersededBy \cup {j.id}
<1> DEFINE b == BuriedIn(doc, j)
<1>0. /\ OnDisk \subseteq Pid /\ \A p \in OnDisk : doc[p] \in Doc
      /\ j.id \in Pid
  BY NoDocAssumption DEF OnDisk, PlanJob
<1>1. /\ b = [p \in Pid |-> b[p]]
      /\ \A p \in Pid : /\ p = j.id => b[p] = Fresh(None)
                        /\ p # j.id /\ p \in ToSet(j.supersedes) => b[p] = Buries(doc[p], {j.id})
                        /\ p # j.id /\ p \notin ToSet(j.supersedes) => b[p] = doc[p]
  <2>1. b = [p \in Pid |-> b[p]]
    BY DEF BuriedIn
  <2>2. ASSUME NEW p \in Pid, p = j.id PROVE b[p] = Fresh(None)
    BY <2>2 DEF BuriedIn
  <2>3. ASSUME NEW p \in Pid, p # j.id, p \in ToSet(j.supersedes)
        PROVE  b[p] = Buries(doc[p], {j.id})
    BY <2>3 DEF BuriedIn
  <2>4. ASSUME NEW p \in Pid, p # j.id, p \notin ToSet(j.supersedes) PROVE b[p] = doc[p]
    BY <2>4 DEF BuriedIn
  <2> HIDE DEF b
  <2>5. QED
    BY <2>1, <2>2, <2>3, <2>4
<1> HIDE DEF b
<1>2. Fresh(None) \in Doc /\ Fresh(None).supersededBy = {} /\ Fresh(None).parent = None
  BY FreshHonest DEF Fresh
<1>3. \A p \in OnDisk : /\ Buries(doc[p], {j.id}) \in Doc
                        /\ Buries(doc[p], {j.id}).supersededBy = {j.id}
                        /\ Buries(doc[p], {j.id}).parent = doc[p].parent
  <2>1. ASSUME NEW d \in Doc PROVE Buries(d, {j.id}).parent = d.parent
    BY DEF Doc, Buries
  <2>2. {j.id} \in SUBSET Pid
    BY <1>0
  <2>3. QED
    BY <1>0, <2>1, <2>2, BuriedDoc
<1>4. \A p \in OnDisk \cup {j.id} : b[p] \in Doc
  BY <1>0, <1>1, <1>2, <1>3
<1>5. b \in [Pid -> Doc \cup {NoDoc}]
  <2>1. \A p \in Pid : b[p] \in Doc \cup {NoDoc}
    BY <1>0, <1>1, <1>4 DEF OnDisk
  <2>2. QED
    BY <1>1, <2>1
<1>6. \A p \in OnDisk : b[p].supersededBy \subseteq doc[p].supersededBy \cup {j.id}
  BY <1>0, <1>1, <1>2, <1>3
<1>7. ASSUME NEW s \in ToSet(j.supersedes)
      PROVE  b[s] \in Doc /\ (b[s].parent = None \/ (b[s].parent \in Pid /\ b[b[s].parent] \in Doc))
  <2>1. s \in OnDisk /\ s \in Pid /\ doc[s].parent \in OnDisk \cup {None, j.id} /\ b[s] \in Doc
    BY <1>0, <1>4
  <2>2. b[s].parent = None \/ b[s].parent = doc[s].parent
    BY <1>1, <1>2, <1>3, <2>1
  <2>3. QED
    BY <1>0, <1>4, <2>1, <2>2
<1>8. Hangs(b, j)
  BY <1>4, <1>5, <1>7 DEF Hangs
<1>9. b[j.id].supersededBy = {}
  BY <1>0, <1>1, <1>2
<1>10. QED
  BY <1>4, <1>6, <1>8, <1>9 DEF b

\* One original after the other, the heir is hung: what the burials leave, and
\* each hanging keeps, the last documents are like.
LEMMA HungStays ==
    ASSUME NEW j, PlanJob(j), NEW d, NEW T, BuriedIn(d, j) \in T,
           \A e \in T, s \in ToSet(j.supersedes) : Retarget(e, s, j.id) \in T
    PROVE  \E after : /\ IsHung(after, d, j)
                      /\ \A f : IsHung(f, d, j) => f[Len(j.supersedes)] \in T
<1> DEFINE b == BuriedIn(d, j)
           n == Len(j.supersedes)
           step == [x \in Nat \X T |-> IF x[1] \in 1..n THEN Retarget(x[2], j.supersedes[x[1]], j.id)
                                                       ELSE x[2]]
<1>0. n \in Nat /\ \A i \in 1..n : j.supersedes[i] \in ToSet(j.supersedes)
  BY DEF PlanJob, ToSet
<1>1. b \in T
  OBVIOUS
<1> HIDE DEF b, n
<1>2. ASSUME NEW e \in T, NEW i \in 1..n PROVE Retarget(e, j.supersedes[i], j.id) \in T
  BY <1>0
<1>3. step \in [Nat \X T -> T]
  <2>1. \A x \in Nat \X T : x[2] \in T
    OBVIOUS
  <2>2. QED
    BY <1>2, <2>1
<1>4. \A i \in 1..n, e \in T : step[<<i, e>>] = Retarget(e, j.supersedes[i], j.id)
  BY <1>0
<1> HIDE DEF step
<1>5. PICK after : IsRun(after, T, b, step, n)
  BY <1>0, <1>1, <1>3, RunExists
<1>6. IsHung(after, d, j)
  <2>1. \A i \in 1..n : i - 1 \in 0..n /\ i # 0
    BY <1>0
  <2>2. \A i \in 0..n : after[i] = IF i = 0 THEN b ELSE Retarget(after[i - 1], j.supersedes[i], j.id)
    <3>1. after[0] = b /\ \A i \in 0..n : i = 0 \/ i \in 1..n
      BY <1>0, <1>5 DEF IsRun
    <3>2. ASSUME NEW i \in 1..n
          PROVE  after[i] = Retarget(after[i - 1], j.supersedes[i], j.id)
      <4>1. after[i] = step[<<i, after[i - 1]>>] /\ after[i - 1] \in T
        BY <1>5, <2>1 DEF IsRun
      <4>2. QED
        BY <1>4, <4>1
    <3>3. QED
      BY <2>1, <3>1, <3>2
  <2>3. after = [i \in 0..n |-> after[i]]
    BY <1>5 DEF IsRun
  <2>4. after = [i \in 0..n |-> IF i = 0 THEN b ELSE Retarget(after[i - 1], j.supersedes[i], j.id)]
    BY <2>2, <2>3, Zenon
  <2>5. QED
    BY <2>4 DEF IsHung, n, b
<1>7. ASSUME NEW f, IsHung(f, d, j) PROVE f[n] \in T
  <2> DEFINE S == {i \in Nat : f[i] \in T}
  <2>1. \A i \in 0..n : f[i] = IF i = 0 THEN b ELSE Retarget(f[i - 1], j.supersedes[i], j.id)
    BY <1>7 DEF IsHung, n, b
  <2>2. 0 \in S
    BY <1>0, <1>1, <2>1
  <2>3. \A i \in 1..n : i - 1 \in S => i \in S
    <3>1. \A i \in 1..n : i \in 0..n /\ i # 0 /\ i \in Nat
      BY <1>0
    <3>2. QED
      BY <1>2, <2>1, <3>1
  <2>4. S \in SUBSET Nat /\ n \in 0..n
    BY <1>0
  <2> HIDE DEF S
  <2>5. n \in S
    BY <1>0, <2>2, <2>3, <2>4, UpTo
  <2>6. QED
    BY <2>5 DEF S
<1>8. QED
  BY <1>6, <1>7 DEF n

\* No document gets other heirs than the burials gave it.
LEMMA HungKeeps ==
    ASSUME NEW j, PlanJob(j), NEW d, Hangs(BuriedIn(d, j), j)
    PROVE  \E after : /\ IsHung(after, d, j)
                      /\ \A f : IsHung(f, d, j) =>
                            /\ Hangs(f[Len(j.supersedes)], j)
                            /\ SameHeirs(BuriedIn(d, j), f[Len(j.supersedes)])
<1> DEFINE b == BuriedIn(d, j)
           T == {e \in [Pid -> Doc \cup {NoDoc}] : Hangs(e, j) /\ SameHeirs(b, e)}
<1>1. b \in T
  BY DEF Hangs, SameHeirs
<1> HIDE DEF b
<1>2. ASSUME NEW e \in T, NEW s \in ToSet(j.supersedes) PROVE Retarget(e, s, j.id) \in T
  <2>1. Hangs(e, j) /\ SameHeirs(b, e)
    OBVIOUS
  <2>2. Hangs(Retarget(e, s, j.id), j) /\ SameHeirs(e, Retarget(e, s, j.id))
    BY <2>1, RetargetKeeps
  <2>3. SameHeirs(b, Retarget(e, s, j.id))
    BY <2>1, <2>2 DEF SameHeirs
  <2> QED  BY <2>2, <2>3 DEF Hangs
<1>3. \A e \in T : Hangs(e, j) /\ SameHeirs(b, e)
  OBVIOUS
<1> HIDE DEF T
<1>4. \A e \in T, s \in ToSet(j.supersedes) : Retarget(e, s, j.id) \in T
  BY <1>2
<1>5. \E after : IsHung(after, d, j) /\ \A f : IsHung(f, d, j) => f[Len(j.supersedes)] \in T
  BY <1>1, <1>4, HungStays DEF b
<1> QED  BY <1>3, <1>5 DEF b

\* What a plan that is not refused writes: every file is a document, the heir
\* supersedes nobody's heirs, and the originals name the heir.
LEMMA PlanHonest ==
    ASSUME NEW j, PlanJob(j), doc \in [Pid -> Doc \cup {NoDoc}], Closed(j)
    PROVE  LET result == Restructured(doc, j)
           IN  /\ \A p \in OnDisk \cup {j.id} : result[p] \in Doc
               /\ result[j.id].supersededBy = {}
               /\ \A p \in OnDisk : result[p].supersededBy \subseteq doc[p].supersededBy \cup {j.id}
<1> DEFINE b == BuriedIn(doc, j)
           n == Len(j.supersedes)
           after == CHOOSE f : IsHung(f, doc, j)
           hung == after[n]
           adopted == [hung EXCEPT ![j.id].subprocess = j.other, ![j.other].parent = j.id]
           result == Restructured(doc, j)
<1>0. /\ ToSet(j.supersedes) \subseteq OnDisk
      /\ {doc[s].parent : s \in ToSet(j.supersedes)} \subseteq OnDisk \cup {None, j.id}
      /\ Neighbours(j) \subseteq OnDisk /\ j.id \in Pid /\ OnDisk \subseteq Pid
  BY DEF Closed, PlanJob, OnDisk, Neighbours
<1>1. /\ Hangs(b, j)
      /\ \A p \in OnDisk \cup {j.id} : b[p] \in Doc
      /\ b[j.id].supersededBy = {}
      /\ \A p \in OnDisk : b[p].supersededBy \subseteq doc[p].supersededBy \cup {j.id}
  BY <1>0, BuriedHangs
<1> HIDE DEF b
<1>2. Hangs(hung, j) /\ SameHeirs(b, hung)
  BY <1>1, HungKeeps DEF b
<1>3. result = IF j.other = None THEN hung ELSE adopted
  BY DEF Restructured, IsHung, BuriedIn
<1>4. CASE j.other = None
  BY <1>0, <1>1, <1>2, <1>3, <1>4 DEF SameHeirs
<1>5. CASE j.other # None
  <2> DEFINE c == j.other
             h == j.id
             e == [hung EXCEPT ![h].subprocess = c]
             f == [e EXCEPT ![c].parent = h]
  <2>1. c \in OnDisk /\ c \in Pid /\ h \in Pid
    BY <1>0, <1>5 DEF Neighbours, Closed
  <2>2. hung \in [Pid -> Doc \cup {NoDoc}] /\ hung[h] \in Doc /\ hung[c] \in Doc
    BY <1>1, <1>2, <2>1 DEF Hangs, SameHeirs
  <2> HIDE DEF c, h, hung
  <2>3. [hung[h] EXCEPT !.subprocess = c] \in Doc
        /\ [hung[h] EXCEPT !.subprocess = c].supersededBy = hung[h].supersededBy
    BY <2>1, <2>2, ChangedDoc
  <2>4. \A p \in Pid : e[p] = IF p = h THEN [hung[h] EXCEPT !.subprocess = c] ELSE hung[p]
    BY <2>1, <2>2
  <2>5. e \in [Pid -> Doc \cup {NoDoc}] /\ SameHeirs(hung, e)
    BY <2>1, <2>2, <2>3, <2>4 DEF SameHeirs
  <2> HIDE DEF e
  <2>6. e[c] \in Doc
    BY <2>1, <2>2, <2>5 DEF SameHeirs
  <2>7. [e[c] EXCEPT !.parent = h] \in Doc
        /\ [e[c] EXCEPT !.parent = h].supersededBy = e[c].supersededBy
    BY <2>1, <2>6, ChangedDoc
  <2>8. \A p \in Pid : f[p] = IF p = c THEN [e[c] EXCEPT !.parent = h] ELSE e[p]
    BY <2>1, <2>5
  <2>9. SameHeirs(hung, f)
    BY <2>1, <2>5, <2>6, <2>7, <2>8 DEF SameHeirs
  <2>10. result = f
    BY <1>3, <1>5 DEF e, f, c, h
  <2> HIDE DEF f
  <2>11. SameHeirs(b, f)
    BY <1>2, <2>9 DEF SameHeirs
  <2>12. QED
    BY <1>0, <1>1, <2>10, <2>11 DEF SameHeirs
<1>6. QED
  BY <1>4, <1>5

\* The neighbours in the order they were loaded are neighbours.
LEMMA LoadOrderIs ==
    ASSUME NEW j, PlanJob(j)
    PROVE  LoadOrder(j) \in Seq(Neighbours(j))
<1>1. ASSUME NEW d, NEW p PROVE \E T : Climb(d, p) \in Seq(T)
  <2>1. ASSUME NEW met PROVE [n \in 1..(MaxId + 1) |-> met[n]] \in Seq({met[n] : n \in 1..(MaxId + 1)})
    BY StoreAssumption
  <2> QED  BY <2>1 DEF Climb
<1> DEFINE parents == [i \in DOMAIN j.supersedes |-> doc[j.supersedes[i]].parent]
           way == Climb(Hung(j), j.id)
           st == parents \o <<j.other>> \o way
           N == Neighbours(j)
           P == {i \in DOMAIN st : st[i] \in N}
           h == AtPlaces(st, P)
           Q == {i \in DOMAIN h : \A k \in 1..(i - 1) : h[k] # h[i]}
<1>2. parents \in Seq({parents[i] : i \in DOMAIN j.supersedes})
  BY DEF PlanJob
<1>3. PICK T : way \in Seq(T)
  BY <1>1
<1> DEFINE A == {parents[i] : i \in DOMAIN j.supersedes} \cup {j.other} \cup T
<1>4. parents \in Seq(A) /\ <<j.other>> \in Seq(A) /\ way \in Seq(A)
  <2>1. ASSUME NEW S, NEW t \in Seq(S), S \subseteq A PROVE t \in Seq(A)
    BY <2>1
  <2>2. /\ {parents[i] : i \in DOMAIN j.supersedes} \subseteq A
        /\ {j.other} \subseteq A /\ T \subseteq A
    OBVIOUS
  <2>3. <<j.other>> \in Seq({j.other})
    OBVIOUS
  <2> HIDE DEF parents, way, A
  <2> QED  BY <1>2, <1>3, <2>1, <2>2, <2>3
<1>5. LoadOrder(j) = AtPlaces(h, Q)
  BY DEF LoadOrder, Held, Dedup
<1> HIDE DEF parents, way, N, A
<1>6. st \in Seq(A)
  BY <1>4
<1> HIDE DEF st
<1>7. P \in SUBSET (DOMAIN st) /\ \A i \in P : st[i] \in N
  OBVIOUS
<1> HIDE DEF P
<1>8. h \in Seq(A) /\ \A k \in DOMAIN h : InOrder(P)[k] \in P /\ h[k] = st[InOrder(P)[k]]
  BY <1>6, <1>7, PartOfSequence
<1> HIDE DEF h
<1>9. h \in Seq(N)
  BY <1>7, <1>8
<1>10. AtPlaces(h, Q) \in Seq(N)
  BY <1>9, PartOfSequence
<1> QED  BY <1>5, <1>10 DEF N

LEMMA PlanFilesAre ==
    ASSUME NEW j, PlanJob(j), Closed(j)
    PROVE  /\ PlanFiles(j) \in Seq(OnDisk \cup {j.id})
           /\ Len(PlanFiles(j)) > 0 /\ PlanFiles(j)[1] = j.id
<1>1. Neighbours(j) \subseteq OnDisk /\ ToSet(j.supersedes) \subseteq OnDisk /\ OnDisk \subseteq Pid
  BY DEF Closed, OnDisk
<1>3. LoadOrder(j) \in Seq(OnDisk \cup {j.id})
  BY <1>1, LoadOrderIs
<1>4. j.supersedes \in Seq(OnDisk \cup {j.id})
  <2>1. j.supersedes \in Seq(Pid) /\ \A k \in DOMAIN j.supersedes : j.supersedes[k] \in OnDisk
    BY <1>1 DEF PlanJob, ToSet
  <2>2. QED
    BY <2>1
<1>5. <<j.id>> \in Seq(OnDisk \cup {j.id}) /\ Len(<<j.id>>) = 1 /\ <<j.id>>[1] = j.id
  OBVIOUS
<1>6. ASSUME NEW A, NEW s \in Seq(A), NEW t \in Seq(A), NEW u \in Seq(A), Len(s) = 1
      PROVE  /\ s \o t \o u \in Seq(A)
             /\ Len(s \o t \o u) > 0 /\ (s \o t \o u)[1] = s[1]
  <2>1. s \o t \in Seq(A) /\ Len(s \o t) > 0 /\ (s \o t)[1] = s[1]
    BY <1>6
  <2>2. QED
    BY <2>1
<1>7. QED
  <2> DEFINE A == OnDisk \cup {j.id}
             s == <<j.id>>
             t == LoadOrder(j)
             u == j.supersedes
  <2>1. s \in Seq(A) /\ t \in Seq(A) /\ u \in Seq(A) /\ Len(s) = 1 /\ s[1] = j.id
    BY <1>3, <1>4, <1>5
  <2>2. PlanFiles(j) = s \o t \o u
    BY DEF PlanFiles
  <2> HIDE DEF A, s, t, u
  <2>3. s \o t \o u \in Seq(A) /\ Len(s \o t \o u) > 0 /\ (s \o t \o u)[1] = s[1]
    BY <1>6, <2>1
  <2>4. QED
    BY <2>1, <2>2, <2>3 DEF A

\* A restructure that is not refused has honest files to write.
LEMMA RestructureLoadsHonest ==
    ASSUME HeirInv, RestructureLoads
    PROVE  HeirInv'
<1> DEFINE j == job["pipeline"]
           files_ == PlanFiles(j)
           result == Restructured(doc, j)
           read == [p \in Pid |-> IF p \in Neighbours(j) \cup ToSet(j.supersedes) THEN doc[p] ELSE NoDoc]
           loaded == [j EXCEPT !.read = read]
           todo == [i \in DOMAIN files_ |-> <<files_[i], result[files_[i]]>>]
<1>0. "pipeline" \in Program /\ HonestJob(j, Known) /\ Closed(j) /\ j.phase = "loading"
  BY DEF HeirInv, RestructureLoads, Program
<1>1. /\ PlanJob(j) /\ doc \in [Pid -> Doc \cup {NoDoc}] /\ \A p \in Pid : Honest(doc[p], Known)
      /\ OnDisk \subseteq Pid /\ OnDisk \subseteq Known
      /\ \A p \in OnDisk : doc[p] \in Doc
  BY <1>0 DEF HonestJob, MintsUnder, Loaded, PlanJob, HeirInv, HonestRead, OnDisk, Known
<1>2. /\ \A p \in OnDisk \cup {j.id} : result[p] \in Doc
      /\ result[j.id].supersededBy = {}
      /\ \A p \in OnDisk : result[p].supersededBy \subseteq doc[p].supersededBy \cup {j.id}
  BY <1>0, <1>1, PlanHonest
<1>3. /\ files_ \in Seq(OnDisk \cup {j.id}) /\ Len(files_) > 0 /\ files_[1] = j.id
  BY <1>0, <1>1, PlanFilesAre
<1>4. Loaded(loaded, Known) /\ DOMAIN loaded = DOMAIN Idle
  <2>1. HonestRead(read, Known)
    BY <1>1, NoDocAssumption DEF HonestRead, Honest
  <2>2. Loaded(j, Known) /\ j.phase \notin {"minting", "storing"}
    BY <1>0 DEF HonestJob, MintsUnder
  <2> HIDE DEF j, read
  <2>3. DOMAIN j = DOMAIN Idle
    BY <2>2 DEF Loaded, Formed
  <2>4. /\ DOMAIN loaded = DOMAIN Idle /\ loaded.read = read /\ loaded.phase = j.phase
        /\ loaded.subject = j.subject /\ loaded.other = j.other
        /\ loaded.supersedes = j.supersedes
    BY <2>3 DEF Idle
  <2>5. QED
    BY <2>1, <2>2, <2>4 DEF Loaded, Formed
<1>5. job' = [job EXCEPT !["pipeline"] = Writing(loaded, todo)]
      /\ UNCHANGED <<doc, gone, draft>>
  BY DEF RestructureLoads, files, history
<1> HIDE DEF j, result, files_, loaded
<1>6. DOMAIN files_ = 1..Len(files_) /\ Len(files_) \in Nat \ {0}
      /\ \A k \in 1..Len(files_) : files_[k] \in OnDisk \cup {j.id}
  BY <1>3
<1>7. /\ todo \in Seq(File) /\ DOMAIN todo = 1..Len(files_) /\ todo # <<>>
      /\ \A k \in 1..Len(files_) : todo[k][1] = files_[k] /\ todo[k][2] = result[files_[k]]
  <2>1. \A p \in OnDisk \cup {j.id} : <<p, result[p]>> \in File
    BY <1>1, <1>2 DEF File, PlanJob
  <2>2. \A k \in 1..Len(files_) : todo[k] = <<files_[k], result[files_[k]]>> /\ todo[k] \in File
    BY <1>6, <2>1
  <2>3. DOMAIN todo = 1..Len(files_)
    BY <1>6
  <2>4. todo \in [1..Len(files_) -> File]
    <3>1. todo = [i \in 1..Len(files_) |-> todo[i]]
      BY <1>6
    <3> HIDE DEF todo
    <3>2. QED
      BY <2>2, <3>1
  <2>5. todo[1] = <<files_[1], result[files_[1]]>>
    BY <1>6, <2>2
  <2> HIDE DEF todo
  <2>6. todo \in Seq(File) /\ todo # <<>>
    BY <1>6, <2>3, <2>4
  <2>7. QED
    BY <2>2, <2>3, <2>6
<1> HIDE DEF todo
<1>8. HonestFiles(todo, Known)
  <2> SUFFICES ASSUME NEW k \in 1..Len(files_)
               PROVE  Honest(todo[k][2], Known \cup {todo[l][1] : l \in 1..(k - 1)})
    BY <1>7 DEF HonestFiles
  <2>1. CASE files_[k] = j.id
    BY <1>2, <1>7, <2>1 DEF Honest
  <2>2. CASE files_[k] # j.id
    <3>1. files_[k] \in OnDisk /\ k # 1
      BY <1>3, <1>6, <2>2
    <3>2. 1 \in 1..(k - 1) /\ todo[1][1] = j.id
      BY <1>3, <1>6, <1>7, <3>1
    <3>3. j.id \in {todo[l][1] : l \in 1..(k - 1)}
      BY <3>2
    <3>4. result[files_[k]].supersededBy \subseteq Known \cup {j.id}
      BY <1>1, <1>2, <3>1 DEF Honest
    <3>5. QED
      BY <1>7, <3>3, <3>4 DEF Honest
  <2>3. QED
    BY <2>1, <2>2
<1>9. HonestJob(Writing(loaded, todo), Known)
  BY <1>4, <1>7, <1>8, WritingHonest
<1>10. QED
  BY <1>0, <1>5, <1>9, HonestStep

-----------------------------------------------------------------------------
(* Every step is honest.                                                   *)

LEMMA DiskIsHonest ==
    ASSUME HeirInv
    PROVE  /\ OnDisk \subseteq Pid /\ \A p \in OnDisk : doc[p] \in Doc /\ Honest(doc[p], Known)
           /\ \A d : (d \in Doc /\ d.supersededBy = {}) => Honest(d, Known)
           /\ \A p \in OnDisk, d \in Doc : d.supersededBy = doc[p].supersededBy => Honest(d, Known)
BY DEF HeirInv, HonestRead, Honest, OnDisk

\* A verb that has its one file ready when it begins.
LEMMA OneFileBegins ==
    ASSUME HeirInv, NEW a \in Program, NEW verb, NEW p \in Pid, NEW d \in Doc \cup {NoDoc},
           Honest(d, Known), Begins(a, Writing(Job(verb, "writing", p, {p}), <<<<p, d>>>>))
    PROVE  HeirInv'
<1> DEFINE k == Job(verb, "writing", p, {p})
<1>1. Loaded(k, Known)
  <2>0. p \in Pid \cup {None} /\ "writing" \notin {"minting", "storing"}
    OBVIOUS
  <2>1. Begun(Job(verb, "writing", p, {p}), verb, "writing", p, {p})
    BY <2>0, JobLoaded
  <2>2. QED
    BY <2>1 DEF Begun
<1>2. HonestFiles(<<<<p, d>>>>, Known) /\ <<<<p, d>>>> # <<>>
  BY OneFile
<1> HIDE DEF k
<1>3. HonestJob(Writing(k, <<<<p, d>>>>), Known)
  BY <1>1, <1>2, WritingHonest
<1>4. QED
  BY <1>3, HonestBegins DEF k

LEMMA HonestServiceVerb == ASSUME HeirInv, ServiceVerb PROVE HeirInv'
<1> "service" \in Program
  BY DEF Program
<1>1. ASSUME NEW p \in Pid \cup {None}, Create(p) PROVE HeirInv'
  <2> DEFINE k == Job("create", "allocating", p, {p})
  <2>1. /\ Loaded(k, Known) /\ HonestFiles(k.todo, Known) /\ k.phase = "allocating"
        /\ k.subject = p /\ \A q \in Pid : k.read[q] = IF q \in {p} THEN doc[q] ELSE NoDoc
    <3>1. p \in Pid \cup {None} /\ "allocating" \notin {"minting", "storing"}
      OBVIOUS
    <3>2. Begun(Job("create", "allocating", p, {p}), "create", "allocating", p, {p})
      BY <3>1, JobLoaded
    <3>3. QED
      BY <3>2 DEF Begun
  <2>2. p # None => p \in Pid /\ doc[p] # NoDoc
    BY <1>1 DEF Create, OnDisk
  <2> HIDE DEF k
  <2>3. HonestJob(k, Known)
    BY <2>1, <2>2 DEF HonestJob, MintsUnder
  <2>4. QED
    BY <1>1, <2>3, HonestBegins DEF Create, k
<1>2. ASSUME NEW p \in Pid, Settle("service", p) PROVE HeirInv'
  <2>1. p \in OnDisk /\ Begins("service", Writing(Job("settle", "writing", p, {p}),
                                          <<<<p, [doc[p] EXCEPT !.pending = "settled"]>>>>))
    BY <1>2 DEF Settle
  <2>2. [doc[p] EXCEPT !.pending = "settled"] \in Doc
        /\ Honest([doc[p] EXCEPT !.pending = "settled"], Known)
    BY <2>1, DiskIsHonest, ChangedDoc
  <2>3. QED
    BY <2>1, <2>2, OneFileBegins
<1>3. ASSUME NEW p \in Pid, Delete(p) PROVE HeirInv'
  <2>1. Honest(NoDoc, Known)
    BY NoDocAssumption DEF Honest
  <2>2. QED
    BY <1>3, <2>1, OneFileBegins DEF Delete
<1>4. ASSUME Save PROVE HeirInv'
  <2> DEFINE p == draft.pid
             k == Job("save", "writing", p, {})
             todo == <<<<p, draft.doc>>>>
             read == [NothingRead EXCEPT ![p] = draft.doc]
             w == Writing(k, todo)
             j == [w EXCEPT !.read = read]
  <2>1. p \in Pid /\ draft.doc \in Doc /\ Honest(draft.doc, Known)
    BY <1>4 DEF Save, HeirInv, HonestDraft, NoDraft, None
  <2>2. Loaded(k, Known)
    BY <2>1, JobLoaded DEF Begun
  <2>3. HonestFiles(todo, Known) /\ todo # <<>>
    BY <2>1, OneFile
  <2> HIDE DEF k, todo
  <2>4. HonestJob(w, Known) /\ w.phase = "writing"
    <3>1. w.phase = "writing"
      BY <2>2 DEF Writing, Loaded, Formed, Idle
    <3>2. QED
      BY <2>2, <2>3, <3>1, WritingHonest
  <2>5. HonestRead(read, Known)
    BY <2>1, NoDocAssumption DEF HonestRead, Honest, NothingRead
  <2> HIDE DEF w, read
  <2>6. DOMAIN w = DOMAIN Idle
    BY <2>4 DEF HonestJob, MintsUnder, Loaded, Formed
  <2>7. /\ DOMAIN j = DOMAIN Idle /\ j.read = read /\ j.phase = w.phase /\ j.todo = w.todo
        /\ j.subject = w.subject /\ j.other = w.other /\ j.supersedes = w.supersedes
    BY <2>6 DEF Idle
  <2>8. HonestJob(j, Known)
    BY <2>4, <2>5, <2>7 DEF HonestJob, MintsUnder, Loaded, Formed
  <2>9. Begins("service", j)
    BY <1>4 DEF Save, w, k, todo, read
  <2> HIDE DEF j
  <2>10. QED
    BY <2>8, <2>9, HonestBegins
<1>5. ASSUME NEW seq, SetOrder(seq) PROVE HeirInv'
  <2> DEFINE j == [Idle EXCEPT !.verb = "set", !.phase = "setting", !.actives = Actives,
                               !.order = seq]
  <2>1. HonestJob(Idle, Known)
    BY IdleHonest
  <2>2. HonestJob(j, Known)
    BY <2>1 DEF HonestJob, MintsUnder, Loaded, Formed, Idle
  <2>3. Begins("service", j)
    BY <1>5 DEF SetOrder
  <2> HIDE DEF j
  <2>4. QED
    BY <2>2, <2>3, HonestBegins
<1>6. QED
  BY <1>1, <1>2, <1>3, <1>4, <1>5 DEF ServiceVerb

LEMMA HonestPipelineVerb == ASSUME HeirInv, PipelineVerb PROVE HeirInv'
<1> "pipeline" \in Program
  BY DEF Program
<1>1. ASSUME NEW verb, New(verb) PROVE HeirInv'
  <2> DEFINE k == Job(verb, "allocating", None, {})
  <2>1. /\ Loaded(k, Known) /\ HonestFiles(k.todo, Known) /\ k.phase = "allocating"
        /\ k.subject = None
    <3>1. None \in Pid \cup {None} /\ "allocating" \notin {"minting", "storing"}
      OBVIOUS
    <3>2. Begun(Job(verb, "allocating", None, {}), verb, "allocating", None, {})
      BY <3>1, JobLoaded
    <3>3. QED
      BY <3>2 DEF Begun
  <2> HIDE DEF k
  <2>2. HonestJob(k, Known)
    BY <2>1 DEF HonestJob, MintsUnder
  <2>3. QED
    BY <1>1, <2>2, HonestBegins DEF New, k
<1>2. ASSUME NEW p \in Pid, UpdateProposes(p) \/ RemoveProcess(p) \/ Settle("pipeline", p)
      PROVE  HeirInv'
  <2>1. PICK d : /\ d \in {[doc[p] EXCEPT !.pending = "open"], [doc[p] EXCEPT !.pending = "settled"],
                           Buries(doc[p], {})}
                 /\ p \in OnDisk
                 /\ \E verb : Begins("pipeline", Writing(Job(verb, "writing", p, {p}), <<<<p, d>>>>))
    BY <1>2 DEF UpdateProposes, RemoveProcess, Settle
  <2>2. d \in Doc /\ Honest(d, Known)
    <3>1. doc[p] \in Doc /\ {} \in SUBSET Pid
      BY <2>1, DiskIsHonest
    <3>2. /\ [doc[p] EXCEPT !.pending = "open"] \in Doc
          /\ [doc[p] EXCEPT !.pending = "open"].supersededBy = doc[p].supersededBy
          /\ [doc[p] EXCEPT !.pending = "settled"] \in Doc
          /\ [doc[p] EXCEPT !.pending = "settled"].supersededBy = doc[p].supersededBy
      BY <3>1, ChangedDoc
    <3>3. Buries(doc[p], {}) \in Doc /\ Buries(doc[p], {}).supersededBy = {}
      BY <3>1, BuriedDoc
    <3>4. QED
      BY <2>1, <3>2, <3>3, DiskIsHonest
  <2>3. QED
    BY <2>1, <2>2, OneFileBegins
<1>3. ASSUME NEW p \in Pid, UpdateDecomposes(p) PROVE HeirInv'
  <2> DEFINE k == Job("update", "allocating", p, {p})
  <2>1. /\ Loaded(k, Known) /\ HonestFiles(k.todo, Known) /\ k.phase = "allocating"
        /\ k.subject = p /\ \A q \in Pid : k.read[q] = IF q \in {p} THEN doc[q] ELSE NoDoc
    <3>1. p \in Pid \cup {None} /\ "allocating" \notin {"minting", "storing"}
      OBVIOUS
    <3>2. Begun(Job("update", "allocating", p, {p}), "update", "allocating", p, {p})
      BY <3>1, JobLoaded
    <3>3. QED
      BY <3>2 DEF Begun
  <2>2. doc[p] # NoDoc
    BY <1>3 DEF UpdateDecomposes, OnDisk
  <2> HIDE DEF k
  <2>3. HonestJob(k, Known)
    BY <2>1, <2>2 DEF HonestJob, MintsUnder
  <2>4. QED
    BY <1>3, <2>3, HonestBegins DEF UpdateDecomposes, k
<1>4. ASSUME NEW p \in Pid, NEW c \in Pid, Attach(p, c) PROVE HeirInv'
  <2> DEFINE k == Job("attach", "writing", p, {p, c})
             j == [k EXCEPT !.other = c]
             d == [doc[p] EXCEPT !.subprocess = c]
             e == [doc[c] EXCEPT !.parent = p]
             todo == <<<<p, d>>, <<c, e>>>>
  <2>1. p \in OnDisk /\ c \in OnDisk /\ doc[p] \in Doc /\ doc[c] \in Doc
    BY <1>4, DiskIsHonest DEF Attach
  <2>2. d \in Doc /\ Honest(d, Known) /\ e \in Doc /\ Honest(e, Known)
    BY <2>1, DiskIsHonest, ChangedDoc
  <2> HIDE DEF d, e
  <2>3. HonestFiles(todo, Known) /\ todo # <<>>
    BY <2>2, TwoFiles
  <2>4. Loaded(k, Known) /\ k.phase = "writing"
    <3>1. p \in Pid \cup {None} /\ "writing" \notin {"minting", "storing"}
      OBVIOUS
    <3>2. Begun(Job("attach", "writing", p, {p, c}), "attach", "writing", p, {p, c})
      BY <3>1, JobLoaded
    <3>3. QED
      BY <3>2 DEF Begun
  <2> HIDE DEF k, todo
  <2>5. Loaded(j, Known)
    BY <2>4, PidIsFinite DEF Loaded, Formed, Idle
  <2>6. HonestJob(Writing(j, todo), Known)
    BY <2>3, <2>5, WritingHonest
  <2>7. Begins("pipeline", Writing(j, todo))
    BY <1>4 DEF Attach, j, k, todo, d, e
  <2> HIDE DEF j
  <2>8. QED
    BY <2>6, <2>7, HonestBegins
<1>5. ASSUME NEW p \in Pid, NEW to \in Pid, MoveInOrder(p, to) PROVE HeirInv'
  <2> DEFINE j(seq) == [Idle EXCEPT !.verb = "move", !.phase = "setting",
                                    !.actives = ToSet(order), !.order = seq]
  <2>1. PICK seq : Begins("pipeline", j(seq))
    BY <1>5 DEF MoveInOrder
  <2>2. HonestJob(Idle, Known)
    BY IdleHonest
  <2>3. HonestJob(j(seq), Known)
    BY <2>2 DEF HonestJob, MintsUnder, Loaded, Formed, Idle
  <2> HIDE DEF j
  <2>4. QED
    BY <2>1, <2>3, HonestBegins
<1>6. ASSUME NEW s \in Plan, NEW c \in Pid \cup {None}, Restructure(s, c) PROVE HeirInv'
  <2> DEFINE k == Job("restructure", "allocating", None, {})
             j == [k EXCEPT !.supersedes = s, !.other = c]
  <2>1. /\ Loaded(k, Known) /\ HonestFiles(k.todo, Known) /\ k.phase = "allocating"
        /\ k.subject = None /\ k.verb = "restructure"
    <3>1. None \in Pid \cup {None} /\ "allocating" \notin {"minting", "storing"}
      OBVIOUS
    <3>2. Begun(Job("restructure", "allocating", None, {}), "restructure", "allocating", None, {})
      BY <3>1, JobLoaded
    <3>3. QED
      BY <3>2 DEF Begun
  <2>2. s \in Seq(Pid)
    <3>1. CASE \E p \in Pid : s = <<p>>
      BY <3>1
    <3>2. CASE \E p, q \in Pid : s = <<p, q>>
      BY <3>2
    <3>3. QED
      BY <3>1, <3>2 DEF Plan
  <2>3. c \in Nat
    BY PidIsFinite DEF None
  <2> HIDE DEF k
  <2>4. DOMAIN k = DOMAIN Idle
    BY <2>1 DEF Loaded, Formed
  <2>5. /\ DOMAIN j = DOMAIN Idle /\ j.supersedes = s /\ j.other = c /\ j.phase = "allocating"
        /\ j.subject = None /\ j.read = k.read /\ j.todo = k.todo
    BY <2>1, <2>4 DEF Idle
  <2>6. HonestJob(j, Known)
    BY <2>1, <2>2, <2>3, <2>5 DEF HonestJob, MintsUnder, Loaded, Formed
  <2>7. Begins("pipeline", j)
    BY <1>6 DEF Restructure, k
  <2> HIDE DEF j
  <2>8. QED
    BY <2>6, <2>7, HonestBegins
<1>7. QED
  BY <1>1, <1>2, <1>3, <1>4, <1>5, <1>6 DEF PipelineVerb

\* What a minting verb will write names no heirs but those of what it has read.
LEMMA MintHonest ==
    ASSUME HeirInv, NEW a \in Program, MintReads(a) \/ MintOpens(a) \/ MintWrites(a)
    PROVE  HeirInv'
<1> DEFINE j == job[a]
<1>0. HonestJob(j, Known) /\ Loaded(j, Known) /\ DOMAIN j = DOMAIN Idle
  BY DEF HeirInv, HonestJob, MintsUnder, Loaded, Formed
<1>1. CASE MintReads(a)
  <2>1. PICK n \in Pid : job' = [job EXCEPT ![a].id = n, ![a].phase = "minting"]
    BY <1>1 DEF MintReads
  <2> DEFINE k == [j EXCEPT !.id = n, !.phase = "minting"]
  <2>2. job' = [job EXCEPT ![a] = k] /\ j.phase = "allocating" /\ UNCHANGED <<doc, gone, draft>>
    BY <1>1, <2>1 DEF MintReads, files, history, HeirInv
  <2> HIDE DEF j
  <2>3. /\ DOMAIN k = DOMAIN Idle /\ k.id = n /\ k.phase = "minting" /\ k.verb = j.verb
        /\ k.subject = j.subject /\ k.other = j.other /\ k.supersedes = j.supersedes
        /\ k.read = j.read /\ k.todo = j.todo
    BY <1>0 DEF Idle
  <2>4. HonestJob(k, Known)
    BY <1>0, <2>2, <2>3 DEF HonestJob, MintsUnder, Loaded, Formed
  <2> HIDE DEF k
  <2>5. QED
    BY <2>2, <2>4, HonestStep DEF j
<1>2. CASE MintWrites(a)
  <2>1. j.phase = "storing" /\ j.id \in Pid /\ UNCHANGED <<doc, gone, draft>>
    BY <1>0, <1>2 DEF MintWrites, Loaded, Formed
  <2>2. CASE j.verb = "restructure"
    <3> DEFINE k == [j EXCEPT !.phase = "loading"]
    <3>1. job' = [job EXCEPT ![a] = k]
      BY <1>2, <2>2 DEF MintWrites, Minted
    <3> HIDE DEF j
    <3>2. /\ DOMAIN k = DOMAIN Idle /\ k.id = j.id /\ k.phase = "loading" /\ k.verb = j.verb
          /\ k.subject = j.subject /\ k.other = j.other /\ k.supersedes = j.supersedes
          /\ k.read = j.read /\ k.todo = j.todo
      BY <1>0 DEF Idle
    <3>3. HonestJob(k, Known)
      BY <1>0, <2>1, <3>2 DEF HonestJob, MintsUnder, Loaded, Formed
    <3> HIDE DEF k
    <3>4. QED
      BY <2>1, <3>1, <3>3, HonestStep
  <2>5. CASE j.verb = "nest"
    <3> DEFINE k == [j EXCEPT !.verb = "new", !.phase = "allocating", !.subject = j.id]
    <3>1. job' = [job EXCEPT ![a] = k]
      BY <1>2, <2>5 DEF MintWrites, Minted
    <3> HIDE DEF j
    <3>2. /\ DOMAIN k = DOMAIN Idle /\ k.id = j.id /\ k.phase = "allocating" /\ k.verb = "new"
          /\ k.subject = j.id /\ k.other = j.other /\ k.supersedes = j.supersedes
          /\ k.read = j.read /\ k.todo = j.todo
      BY <1>0 DEF Idle
    <3>3. HonestJob(k, Known)
      BY <1>0, <2>1, <3>2 DEF HonestJob, MintsUnder, Loaded, Formed
    <3> HIDE DEF k
    <3>4. QED
      BY <2>1, <3>1, <3>3, HonestStep
  <2>3. CASE j.verb \notin {"restructure", "nest"}
    <3> DEFINE s == j.subject
               child == Fresh(s)
               known == IF j.verb = "new" THEN Fresh(None) ELSE j.read[s]
               parent == [known EXCEPT !.subprocess = j.id]
    <3>1. job' = [job EXCEPT ![a] = Writing(j, MintedWrites(j))]
      BY <1>2, <2>3 DEF MintWrites, Minted
    <3>2. s \in Pid \cup {None} /\ child \in Doc /\ Honest(child, Known)
      <4>1. s \in Pid \cup {None}
        BY <1>0 DEF Loaded
      <4>2. QED
        BY <4>1, FreshHonest DEF Honest
    <3>3. CASE s = None
      <4>1. MintedWrites(j) = <<<<j.id, child>>>>
        BY <3>3 DEF MintedWrites
      <4> HIDE DEF j, s, child
      <4>2. HonestFiles(MintedWrites(j), Known) /\ MintedWrites(j) # <<>>
        BY <2>1, <3>2, <4>1, OneFile
      <4>3. HonestJob(Writing(j, MintedWrites(j)), Known)
        BY <1>0, <4>2, WritingHonest
      <4>4. QED
        BY <2>1, <3>1, <4>3, HonestStep
    <3>4. CASE s # None
      <4>1. s \in Pid /\ known \in Doc /\ Honest(known, Known)
        <5>1. CASE j.verb = "new"
          <6>1. Fresh(None) \in Doc /\ Honest(Fresh(None), Known)
            BY FreshHonest DEF Honest
          <6> QED  BY <3>2, <3>4, <5>1, <6>1
        <5>2. CASE j.verb # "new"
          BY <1>0, <2>1, <2>3, <3>2, <3>4, <5>2 DEF HonestJob, MintsUnder, Loaded, HonestRead
        <5> QED  BY <5>1, <5>2
      <4> HIDE DEF known
      <4>2. parent \in Doc /\ parent.supersededBy = known.supersededBy
        BY <2>1, <4>1, ChangedDoc
      <4>3. Honest(parent, Known)
        BY <4>1, <4>2 DEF Honest
      <4>4. \/ MintedWrites(j) = <<<<j.id, child>>, <<s, parent>>>>
            \/ MintedWrites(j) = <<<<s, parent>>, <<j.id, child>>>>
        BY <3>4 DEF MintedWrites, known
      <4> HIDE DEF j, s, child, parent
      <4>5. /\ HonestFiles(<<<<j.id, child>>, <<s, parent>>>>, Known)
            /\ <<<<j.id, child>>, <<s, parent>>>> # <<>>
            /\ HonestFiles(<<<<s, parent>>, <<j.id, child>>>>, Known)
            /\ <<<<s, parent>>, <<j.id, child>>>> # <<>>
        BY <2>1, <3>2, <4>1, <4>2, <4>3, TwoFiles
      <4>6. HonestFiles(MintedWrites(j), Known) /\ MintedWrites(j) # <<>>
        BY <4>4, <4>5
      <4>7. HonestJob(Writing(j, MintedWrites(j)), Known)
        BY <1>0, <4>6, WritingHonest
      <4>8. QED
        BY <2>1, <3>1, <4>7, HonestStep
    <3>5. QED
      BY <3>3, <3>4
  <2>4. QED
    BY <2>2, <2>3, <2>5
<1>3. CASE MintOpens(a)
  <2> DEFINE k == [j EXCEPT !.phase = "storing"]
  <2>1. job' = [job EXCEPT ![a] = k] /\ j.phase = "minting" /\ UNCHANGED <<doc, gone, draft>>
    BY <1>3 DEF MintOpens, HeirInv
  <2> HIDE DEF j
  <2>2. /\ DOMAIN k = DOMAIN Idle /\ k.id = j.id /\ k.phase = "storing" /\ k.verb = j.verb
        /\ k.subject = j.subject /\ k.other = j.other /\ k.supersedes = j.supersedes
        /\ k.read = j.read /\ k.todo = j.todo
    BY <1>0 DEF Idle
  <2>3. HonestJob(k, Known)
    BY <1>0, <2>1, <2>2 DEF HonestJob, MintsUnder, Loaded, Formed
  <2> HIDE DEF k
  <2>4. QED
    BY <2>1, <2>3, HonestStep DEF j
<1>4. QED
  BY <1>1, <1>2, <1>3

\* A job that has nothing more to write.
LEMMA JobGrows ==
    ASSUME NEW known, NEW more, known \subseteq more, NEW j, HonestJob(j, known)
    PROVE  HonestJob(j, more) /\ Loaded(j, more)
<1>1. HonestJob(j, more)
  BY HonestGrows, Zenon
<1> QED  BY <1>1 DEF HonestJob, MintsUnder

LEMMA DoneHonest ==
    ASSUME NEW known, NEW j, Loaded(j, known),
           NEW phase \in {"sweeping", "syncing", "ordering", "setting"}
    PROVE  /\ HonestJob([j EXCEPT !.phase = phase, !.todo = <<>>, !.read = NothingRead], known)
           /\ HonestFiles(<<>>, known)
<1> DEFINE k == [j EXCEPT !.phase = phase, !.todo = <<>>, !.read = NothingRead]
<1>1. HonestJob(Idle, known)
  BY IdleHonest
<1>2. HonestFiles(<<>>, known) /\ HonestRead(NothingRead, known)
  BY <1>1 DEF HonestJob, MintsUnder, Loaded, Idle
<1>3. DOMAIN j = DOMAIN Idle
  BY DEF Loaded, Formed
<1>4. /\ DOMAIN k = DOMAIN Idle /\ k.phase = phase /\ k.todo = <<>> /\ k.read = NothingRead
      /\ k.subject = j.subject /\ k.other = j.other /\ k.supersedes = j.supersedes
  BY <1>3 DEF Idle
<1>5. HonestJob(k, known)
  BY <1>2, <1>4 DEF HonestJob, MintsUnder, Loaded, Formed
<1>6. QED
  BY <1>2, <1>5

LEMMA WritesHonest ==
    ASSUME HeirInv, NEW a \in Program, Writes(a)
    PROVE  HeirInv'
<1> DEFINE j == job[a]
           p == j.todo[1][1]
           new == j.todo[1][2]
           rest == [j EXCEPT !.todo = Tail(@), !.read[p] = new]
           k == IF Len(j.todo) = 1 THEN AfterWriting(j) ELSE rest
           known == Known \cup {p}
<1>0. /\ HonestJob(j, Known) /\ Loaded(j, Known) /\ HonestFiles(j.todo, Known)
      /\ DOMAIN j = DOMAIN Idle /\ j.phase = "writing" /\ j.todo # <<>>
  BY DEF HeirInv, HonestJob, MintsUnder, Loaded, Formed, Writes
<1>1. /\ p \in Pid /\ new \in Doc \cup {NoDoc} /\ Honest(new, Known)
      /\ HonestFiles(Tail(j.todo), known)
      /\ Len(j.todo) # 1 => Tail(j.todo) # <<>>
  BY <1>0, FirstWritten
<1>2. /\ job' = [job EXCEPT ![a] = k] /\ doc' = [doc EXCEPT ![p] = new] /\ UNCHANGED draft
      /\ gone' = IF new = NoDoc THEN gone \cup {p} ELSE gone
  BY DEF Writes
<1> HIDE DEF j, p, new
<1>3. HonestJob(j, known) /\ Loaded(j, known)
  BY <1>0, JobGrows
<1>4. HonestJob(AfterWriting(j), known)
  <2>1. HonestJob([j EXCEPT !.phase = "sweeping", !.todo = <<>>, !.read = NothingRead], known)
    BY <1>3, DoneHonest, Zenon
  <2>2. HonestJob([j EXCEPT !.phase = "syncing", !.todo = <<>>, !.read = NothingRead], known)
    BY <1>3, DoneHonest, Zenon
  <2>3. HonestJob(Idle, known)
    BY IdleHonest
  <2>4. \/ AfterWriting(j) = [j EXCEPT !.phase = "sweeping", !.todo = <<>>, !.read = NothingRead]
        \/ AfterWriting(j) = [j EXCEPT !.phase = "syncing", !.todo = <<>>, !.read = NothingRead]
        \/ AfterWriting(j) = Idle
    BY DEF AfterWriting
  <2>5. QED
    BY <2>1, <2>2, <2>3, <2>4
<1>5. ASSUME Len(j.todo) # 1 PROVE HonestJob(rest, known)
  <2> DEFINE read == [j.read EXCEPT ![p] = new]
             todo == Tail(j.todo)
  <2>1. rest = [j EXCEPT !.todo = todo, !.read = read]
    BY <1>0 DEF Idle
  <2>2. HonestRead(read, known)
    <3>1. j.read \in [Pid -> Doc \cup {NoDoc}] /\ \A q \in Pid : Honest(j.read[q], known)
      BY <1>3 DEF Loaded, HonestRead
    <3>2. Honest(new, known)
      BY <1>1, HonestGrows
    <3>3. QED
      BY <1>1, <3>1, <3>2 DEF HonestRead
  <2>3. HonestFiles(todo, known) /\ todo # <<>>
    BY <1>1, <1>5
  <2> HIDE DEF rest, read, todo
  <2>4. /\ DOMAIN rest = DOMAIN Idle /\ rest.todo = todo /\ rest.read = read
        /\ rest.phase = "writing" /\ rest.subject = j.subject /\ rest.other = j.other
        /\ rest.supersedes = j.supersedes
    BY <1>0, <2>1 DEF Idle
  <2>5. QED
    BY <1>3, <2>2, <2>3, <2>4 DEF HonestJob, MintsUnder, Loaded, Formed
<1>6. HonestJob(k, known)
  BY <1>4, <1>5
<1> HIDE DEF k
<1>7. QED
  BY <1>1, <1>2, <1>6, HonestWrite DEF known

LEMMA SweepHonest ==
    ASSUME HeirInv, SweepReads \/ SweepWrites \/ SweepEnds
    PROVE  HeirInv'
<1> DEFINE j == job["service"]
<1>0. /\ "service" \in Program /\ HonestJob(j, Known) /\ Loaded(j, Known)
      /\ DOMAIN j = DOMAIN Idle /\ j.phase = "sweeping"
  BY DEF HeirInv, HonestJob, MintsUnder, Loaded, Formed, SweepReads, SweepWrites, SweepEnds, Program
<1>1. CASE SweepReads
  <2> DEFINE p == j.other + 1
             d == Swept(doc[p], j.subject)
             read == [j.read EXCEPT ![p] = doc[p]]
             seen == [j EXCEPT !.other = p]
             found == [j EXCEPT !.other = p, !.read[p] = doc[p], !.todo = <<<<p, d>>>>]
             k == IF doc[p] # NoDoc /\ d # doc[p] THEN found ELSE seen
  <2>1. p \in Pid /\ p \in Nat /\ job' = [job EXCEPT !["service"] = k]
        /\ UNCHANGED <<doc, gone, draft>>
    BY <1>1, PidIsFinite DEF SweepReads, files, history
  <2> HIDE DEF j, p
  <2>2. HonestJob(seen, Known)
    <3>1. /\ DOMAIN seen = DOMAIN Idle /\ seen.other = p /\ seen.phase = "sweeping"
          /\ seen.subject = j.subject /\ seen.supersedes = j.supersedes
          /\ seen.read = j.read /\ seen.todo = j.todo
      BY <1>0 DEF Idle
    <3> HIDE DEF seen
    <3>2. QED
      BY <1>0, <2>1, <3>1 DEF HonestJob, MintsUnder, Loaded, Formed
  <2>3. ASSUME doc[p] # NoDoc PROVE HonestJob(found, Known)
    <3>1. p \in OnDisk /\ doc[p] \in Doc /\ Honest(doc[p], Known)
      BY <2>1, <2>3, DiskIsHonest DEF OnDisk
    <3>2. d \in Doc /\ Honest(d, Known)
      BY <3>1, DiskIsHonest, ChangedDoc, PidIsFinite
    <3>3. HonestFiles(<<<<p, d>>>>, Known)
      BY <2>1, <3>2, OneFile
    <3>4. HonestRead(read, Known)
      BY <1>0, <2>1, <3>1 DEF Loaded, HonestRead
    <3> HIDE DEF d
    <3>5. found = [j EXCEPT !.other = p, !.read = read, !.todo = <<<<p, d>>>>]
      BY <1>0 DEF Idle
    <3> HIDE DEF found, read
    <3>6. /\ DOMAIN found = DOMAIN Idle /\ found.other = p /\ found.phase = "sweeping"
          /\ found.subject = j.subject /\ found.supersedes = j.supersedes
          /\ found.read = read /\ found.todo = <<<<p, d>>>>
      BY <1>0, <3>5 DEF Idle
    <3>7. found.todo[1][2] \in Doc
      BY <3>2, <3>6
    <3>8. QED
      BY <1>0, <2>1, <3>3, <3>4, <3>6, <3>7 DEF HonestJob, MintsUnder, Loaded, Formed
  <2>4. HonestJob(k, Known)
    BY <2>2, <2>3
  <2> HIDE DEF k
  <2>5. QED
    BY <1>0, <2>1, <2>4, HonestStep
<1>2. CASE SweepWrites
  <2> DEFINE p == j.todo[1][1]
             new == j.todo[1][2]
             read == [j.read EXCEPT ![p] = NoDoc]
             k == [j EXCEPT !.todo = <<>>, !.read[p] = NoDoc]
             known == Known \cup {p}
  <2>1. j.todo # <<>> /\ HonestFiles(j.todo, Known)
    BY <1>0, <1>2 DEF SweepWrites, HonestJob, MintsUnder
  <2>2. p \in Pid /\ new \in Doc \cup {NoDoc} /\ Honest(new, Known)
    BY <2>1, FirstWritten
  <2>3. /\ job' = [job EXCEPT !["service"] = k] /\ doc' = [doc EXCEPT ![p] = new]
        /\ UNCHANGED draft /\ gone' = gone
    <3>1. job' = [job EXCEPT !["service"].todo = <<>>, !["service"].read[p] = NoDoc]
      BY <1>2 DEF SweepWrites
    <3>2. job' = [job EXCEPT !["service"] = k]
      BY <1>0, <3>1 DEF Idle, HeirInv
    <3>3. QED
      BY <1>2, <3>2 DEF SweepWrites
  <2> HIDE DEF j, p, new
  <2>4. Loaded(j, known)
    BY <1>0, JobGrows
  <2>5. HonestRead(read, known) /\ HonestFiles(<<>>, known)
    <3>1. HonestRead(j.read, known)
      BY <2>4 DEF Loaded
    <3>2. QED
      BY <2>2, <2>4, <3>1, NoDocAssumption, DoneHonest DEF HonestRead, Honest
  <2>6. HonestJob(k, known)
    <3>1. k = [j EXCEPT !.todo = <<>>, !.read = read]
      BY <1>0 DEF Idle
    <3> HIDE DEF k, read
    <3>2. /\ DOMAIN k = DOMAIN Idle /\ k.other = j.other /\ k.phase = "sweeping"
          /\ k.subject = j.subject /\ k.supersedes = j.supersedes
          /\ k.read = read /\ k.todo = <<>>
      BY <1>0, <3>1 DEF Idle
    <3>3. QED
      BY <2>4, <2>5, <3>2 DEF HonestJob, MintsUnder, Loaded, Formed
  <2>7. gone' = IF new = NoDoc THEN gone \cup {p} ELSE gone
    <3>1. new \in Doc
      BY <1>0, <2>1 DEF HonestJob, MintsUnder, new
    <3>2. QED
      BY <2>3, <3>1, NoDocAssumption
  <2>8. QED
    BY <1>0, <2>2, <2>3, <2>6, <2>7, HonestWrite DEF known, k
<1>3. CASE SweepEnds
  <2> DEFINE k == [j EXCEPT !.phase = "syncing"]
  <2>1. job' = [job EXCEPT !["service"] = k] /\ UNCHANGED <<doc, gone, draft>>
    BY <1>0, <1>3 DEF SweepEnds, files, history, HeirInv
  <2> HIDE DEF j
  <2>2. /\ DOMAIN k = DOMAIN Idle /\ k.other = j.other /\ k.phase = "syncing"
        /\ k.subject = j.subject /\ k.supersedes = j.supersedes
        /\ k.read = j.read /\ k.todo = j.todo
    BY <1>0 DEF Idle
  <2>3. HonestJob(k, Known)
    BY <1>0, <2>2 DEF HonestJob, MintsUnder, Loaded, Formed
  <2> HIDE DEF k
  <2>4. QED
    BY <1>0, <2>1, <2>3, HonestStep
<1>4. QED
  BY <1>1, <1>2, <1>3

LEMMA InnerStepHonest ==
    ASSUME HeirInv, NEW a \in Program, SyncReads(a) \/ SyncWrites(a) \/ OrderSet(a) \/ Stops(a)
    PROVE  HeirInv'
<1> DEFINE j == job[a]
<1>0. HonestJob(j, Known) /\ Loaded(j, Known) /\ DOMAIN j = DOMAIN Idle
  BY DEF HeirInv, HonestJob, MintsUnder, Loaded, Formed
<1>1. CASE SyncReads(a)
  <2> DEFINE k == [j EXCEPT !.phase = "ordering", !.actives = Actives, !.order = order]
  <2>1. job' = [job EXCEPT ![a] = k] /\ UNCHANGED <<doc, gone, draft>>
    BY <1>0, <1>1 DEF SyncReads, files, history, HeirInv
  <2> HIDE DEF j
  <2>2. /\ DOMAIN k = DOMAIN Idle /\ k.other = j.other /\ k.phase = "ordering"
        /\ k.subject = j.subject /\ k.supersedes = j.supersedes
        /\ k.read = j.read /\ k.todo = j.todo
    BY <1>0 DEF Idle
  <2>3. HonestJob(k, Known)
    BY <1>0, <2>2 DEF HonestJob, MintsUnder, Loaded, Formed
  <2> HIDE DEF k
  <2>4. QED
    BY <2>1, <2>3, HonestStep
<1>2. CASE SyncWrites(a) \/ OrderSet(a) \/ Stops(a)
  <2>1. job' = [job EXCEPT ![a] = Idle] /\ UNCHANGED <<doc, gone, draft>>
    BY <1>2 DEF SyncWrites, OrderSet, Stops, files
  <2>2. HonestJob(Idle, Known)
    BY IdleHonest
  <2>3. QED
    BY <2>1, <2>2, HonestStep
<1>3. QED
  BY <1>1, <1>2

LEMMA RefusedHonest == ASSUME HeirInv, RestructureRefused PROVE HeirInv'
<1>1. /\ "pipeline" \in Program /\ job' = [job EXCEPT !["pipeline"] = Idle]
      /\ UNCHANGED <<doc, gone, draft>> /\ HonestJob(Idle, Known)
  BY IdleHonest DEF RestructureRefused, files, history, Program
<1>2. QED
  BY <1>1, HonestStep

LEMMA ClientLoadsHonest == ASSUME HeirInv, NEW p \in Pid, ClientLoads(p) PROVE HeirInv'
<1>1. /\ draft' = [pid |-> p, doc |-> doc[p]] /\ UNCHANGED <<doc, gone, job>> /\ p \in OnDisk
  BY DEF ClientLoads, Actives, files, history
<1>2. Known' = Known
  BY <1>1 DEF Known, OnDisk
<1>3. HonestDraft(Known)'
  BY <1>1, <1>2, DiskIsHonest DEF HonestDraft
<1>4. QED
  BY <1>1, <1>2, <1>3 DEF HeirInv

LEMMA HeirsInit == Init => HeirInv
<1> SUFFICES ASSUME Init PROVE HeirInv
  OBVIOUS
<1>1. Fresh(None) \in Doc /\ Fresh(None).supersededBy = {}
  BY FreshHonest
<1>2. HonestRead(doc, Known)
  BY <1>1, NoDocAssumption DEF Init, HonestRead, Honest
<1>3. HonestJob(Idle, Known)
  BY IdleHonest
<1>4. QED
  BY <1>2, <1>3 DEF Init, HeirInv, HonestDraft

LEMMA HeirsStep == HeirInv /\ [Next]_vars => HeirInv'
<1> SUFFICES ASSUME HeirInv, [Next]_vars PROVE HeirInv'
  OBVIOUS
<1>1. CASE ServiceVerb \/ PipelineVerb
  BY <1>1, HonestServiceVerb, HonestPipelineVerb
<1>2. ASSUME NEW p \in Pid, ClientLoads(p) PROVE HeirInv'
  BY <1>2, ClientLoadsHonest
<1>3. ASSUME NEW a \in Program,
             \/ MintReads(a) \/ MintOpens(a) \/ MintWrites(a) \/ Writes(a)
             \/ SyncReads(a) \/ SyncWrites(a) \/ OrderSet(a) \/ Stops(a)
      PROVE  HeirInv'
  BY <1>3, MintHonest, WritesHonest, InnerStepHonest
<1>4. CASE RestructureLoads \/ RestructureRefused \/ SweepReads \/ SweepWrites \/ SweepEnds
  BY <1>4, RestructureLoadsHonest, RefusedHonest, SweepHonest
<1>5. CASE UNCHANGED vars
  <2>1. UNCHANGED <<doc, gone, draft, job>> /\ Known' = Known
    BY <1>5 DEF vars, files, history, Known, OnDisk
  <2>2. QED
    BY <2>1 DEF HeirInv, HonestDraft
<1>6. QED
  BY <1>1, <1>2, <1>3, <1>4, <1>5 DEF Next

\* A process is retired in favour of heirs that are on disk (merge restructure writes
\* the heir first): whatever verbs interleave, wherever a restructure stops,
\* and whatever copy a browser saves, an heir that is missing was deleted.
THEOREM HeirsAlwaysBeforeBurial == Spec => []HeirsBeforeBurial
<1>1. HeirInv => HeirsBeforeBurial
  BY DiskIsHonest DEF HeirsBeforeBurial, Honest, Known
<1>2. QED
  BY <1>1, HeirsInit, HeirsStep, PTL DEF Spec

-----------------------------------------------------------------------------
(* The curated order.  A sequence of ids is embedded in another when what   *)
(* it holds stands there too, in the same order.                            *)

\* No id stands twice.
Once(s) == \A i, k \in DOMAIN s : s[i] = s[k] => i = k

Curated(s) == s \in Seq(Pid) /\ Once(s)

Embeds(s, t) ==
    /\ ToSet(s) \subseteq ToSet(t)
    /\ \A p, q \in ToSet(s) : Before(s, p, q) <=> Before(t, p, q)

\* Where an id stands in a sequence without repetition.
LEMMA Stands ==
    ASSUME NEW s, Once(s)
    PROVE  /\ \A i \in DOMAIN s : IndexOf(s[i], s) = i /\ s[i] \in ToSet(s) /\ Placed(s[i], s)
           /\ \A p \in ToSet(s) : IndexOf(p, s) \in DOMAIN s /\ s[IndexOf(p, s)] = p
           /\ \A p : Placed(p, s) <=> p \in ToSet(s)
<1>1. \A i \in DOMAIN s : IndexOf(s[i], s) = i
  BY DEF Once, IndexOf
<1>2. ToSet(s) = {s[i] : i \in DOMAIN s}
  BY DEF ToSet
<1> QED  BY <1>1, <1>2, Zenon DEF Placed

LEMMA BeforeIs ==
    ASSUME NEW s, Once(s), NEW i \in DOMAIN s, NEW k \in DOMAIN s
    PROVE  Before(s, s[i], s[k]) <=> i < k
BY Stands DEF Before

\* Places that move up together keep their order.
LEMMA PlacesEmbed ==
    ASSUME NEW s, Curated(s), NEW t, Curated(t), NEW f,
           \A i \in DOMAIN s : f[i] \in DOMAIN t /\ t[f[i]] = s[i],
           \A i, k \in DOMAIN s : i < k => f[i] < f[k]
    PROVE  Embeds(s, t)
<1>1. Once(s) /\ Once(t) /\ DOMAIN s \in SUBSET Nat /\ DOMAIN t \in SUBSET Nat
  <2>1. DOMAIN s \in SUBSET Nat
    BY PlacesParts DEF Curated
  <2>2. DOMAIN t \in SUBSET Nat
    BY PlacesParts DEF Curated
  <2> QED  BY <2>1, <2>2 DEF Curated
<1>2. ToSet(s) \subseteq ToSet(t)
  BY DEF ToSet
<1>3. ASSUME NEW i \in DOMAIN s, NEW k \in DOMAIN s PROVE i < k <=> f[i] < f[k]
  <2>1. i \in Nat /\ k \in Nat /\ f[i] \in Nat /\ f[k] \in Nat
    BY <1>1
  <2>2. CASE i < k
    BY <2>1, <2>2
  <2>3. CASE i = k
    BY <2>1, <2>3
  <2>4. CASE k < i
    <3>1. f[k] < f[i]
      BY <2>4
    <3> QED  BY <2>1, <2>4, <3>1
  <2> QED  BY <2>1, <2>2, <2>3, <2>4
<1>4. ASSUME NEW p \in ToSet(s), NEW q \in ToSet(s)
      PROVE  Before(s, p, q) <=> Before(t, p, q)
  <2>1. PICK i \in DOMAIN s, k \in DOMAIN s : s[i] = p /\ s[k] = q
    BY DEF ToSet
  <2>2. Before(s, p, q) <=> i < k
    BY <1>1, <2>1, BeforeIs
  <2>3. Before(t, p, q) <=> f[i] < f[k]
    <3>1. f[i] \in DOMAIN t /\ f[k] \in DOMAIN t /\ t[f[i]] = p /\ t[f[k]] = q
      BY <2>1
    <3> QED  BY <1>1, <3>1, BeforeIs
  <2> QED  BY <1>3, <2>2, <2>3
<1> QED  BY <1>2, <1>4 DEF Embeds

\* What a sequence holds of some set.
LEMMA HeldEmbeds ==
    ASSUME NEW s, Curated(s), NEW S
    PROVE  /\ Curated(Held(s, S)) /\ Embeds(Held(s, S), s)
           /\ ToSet(Held(s, S)) = ToSet(s) \cap S
           /\ Len(Held(s, S)) = Cardinality({i \in DOMAIN s : s[i] \in S})
<1> DEFINE P == {i \in DOMAIN s : s[i] \in S}
           h == AtPlaces(s, P)
           at == InOrder(P)
<1>1. Held(s, S) = h
  BY DEF Held
<1>2. s \in Seq(Pid) /\ Once(s) /\ P \in SUBSET (DOMAIN s) /\ \A i \in P : s[i] \in S
  BY DEF Curated
<1>3. \A i \in DOMAIN s : s[i] \in S => i \in P
  OBVIOUS
<1> HIDE DEF P
<1>4. /\ h \in Seq(Pid)
      /\ DOMAIN h = 1..Cardinality(P) /\ Len(h) = Cardinality(P)
      /\ \A k \in DOMAIN h : at[k] \in P /\ h[k] = s[at[k]]
      /\ \A k, l \in DOMAIN h : k # l => at[k] # at[l]
      /\ \A n \in P : \E k \in DOMAIN h : h[k] = s[n]
  BY <1>2, PartOfSequence
<1>5. \A k, l \in DOMAIN h : k < l => at[k] < at[l]
  <2>1. DOMAIN s \in SUBSET Nat /\ IsFiniteSet(DOMAIN s)
    BY <1>2, PlacesParts
  <2>2. P \in SUBSET Nat /\ IsFiniteSet(P)
    BY <1>2, <2>1, FS_Subset
  <2>3. \A k, l \in 1..Cardinality(P) : k < l => InOrder(P)[k] < InOrder(P)[l]
    BY <2>2, InOrderLists
  <2> QED  BY <1>4, <2>3
<1> HIDE DEF h, at
<1>6. Once(h)
  BY <1>2, <1>4 DEF Once
<1>7. Curated(h)
  BY <1>4, <1>6 DEF Curated
<1>8. Embeds(h, s)
  <2>1. \A k \in DOMAIN h : at[k] \in DOMAIN s /\ s[at[k]] = h[k]
    BY <1>2, <1>4
  <2> QED  BY <1>5, <1>7, <2>1, PlacesEmbed
<1>9. ToSet(h) = ToSet(s) \cap S
  <2>1. \A p \in ToSet(h) : p \in ToSet(s) /\ p \in S
    BY <1>2, <1>4 DEF ToSet
  <2>2. \A p \in ToSet(s) \cap S : p \in ToSet(h)
    BY <1>3, <1>4 DEF ToSet
  <2> QED  BY <2>1, <2>2
<1> QED  BY <1>1, <1>4, <1>7, <1>8, <1>9 DEF P

\* A sequence without repetition is its own first occurrences.
LEMMA DedupKeeps ==
    ASSUME NEW s, Curated(s)
    PROVE  Dedup(s) = Held(s, Pid)
<1>1. s \in Seq(Pid) /\ Once(s) /\ Len(s) \in Nat /\ DOMAIN s = 1..Len(s)
  BY DEF Curated
<1>2. \A i \in DOMAIN s : s[i] \in Pid /\ \A k \in 1..(i - 1) : s[k] # s[i]
  BY <1>1 DEF Once
<1>3. {i \in DOMAIN s : \A k \in 1..(i - 1) : s[k] # s[i]} = {i \in DOMAIN s : s[i] \in Pid}
  BY <1>2
<1> QED  BY <1>3 DEF Dedup, Held

\* Numbers in ascending order.
LEMMA InIdOrderIs ==
    ASSUME NEW S \in SUBSET Pid
    PROVE  Curated(InIdOrder(S)) /\ ToSet(InIdOrder(S)) = S
<1>1. S \in SUBSET Nat /\ IsFiniteSet(S)
  BY PidIsFinite, FS_Subset
<1> DEFINE t == InOrder(S)
           c == Cardinality(S)
<1>2. /\ c \in Nat /\ t \in [1..c -> S]
      /\ \A n \in S : \E k \in 1..c : t[k] = n
      /\ \A k, l \in 1..c : k < l => t[k] < t[l]
  BY <1>1, InOrderLists
<1> HIDE DEF t, c
<1>3. t \in Seq(Pid) /\ DOMAIN t = 1..c
  BY <1>2
<1>4. Once(t)
  <2> SUFFICES ASSUME NEW k \in 1..c, NEW l \in 1..c, t[k] = t[l] PROVE k = l
    BY <1>3 DEF Once
  <2>0. k \in Nat /\ l \in Nat /\ t[k] \in S /\ t[l] \in S
    BY <1>2
  <2>1. k \in Nat /\ l \in Nat /\ t[k] \in Nat /\ t[l] \in Nat
    BY <1>1, <2>0
  <2>2. ~(k < l) /\ ~(l < k)
    BY <1>2, <2>1
  <2> QED  BY <2>1, <2>2
<1>5. ToSet(t) = S
  BY <1>2, <1>3 DEF ToSet
<1> QED  BY <1>3, <1>4, <1>5 DEF Curated, InIdOrder, t

-----------------------------------------------------------------------------
(* One more id, and more at the end.                                        *)

LEMMA Joined ==
    ASSUME NEW T, NEW s \in Seq(T), NEW t \in Seq(T)
    PROVE  /\ s \o t \in Seq(T) /\ Len(s \o t) = Len(s) + Len(t)
           /\ \A k \in 1..Len(s) : (s \o t)[k] = s[k]
           /\ \A k \in 1..Len(t) : (s \o t)[Len(s) + k] = t[k]
OBVIOUS

LEMMA InsertedAt ==
    ASSUME NEW T, NEW s \in Seq(T), NEW i \in 1..(Len(s) + 1), NEW e \in T
    PROVE  LET w == InsertAt(s, i, e) IN
           /\ w \in Seq(T) /\ DOMAIN w = 1..(Len(s) + 1)
           /\ w[i] = e
           /\ \A k \in 1..Len(s) : w[IF k < i THEN k ELSE k + 1] = s[k]
<1> DEFINE a == SubSeq(s, 1, i - 1)
           b == <<e>>
           d == SubSeq(s, i, Len(s))
           w == (a \o b) \o d
<1>1. Len(s) \in Nat /\ i \in Nat /\ i >= 1 /\ i - 1 <= Len(s)
  OBVIOUS
<1>2. a \in Seq(T) /\ Len(a) = i - 1 /\ \A k \in 1..(i - 1) : a[k] = s[k]
  BY <1>1
<1>3. d \in Seq(T) /\ Len(d) = Len(s) - i + 1 /\ \A k \in 1..(Len(s) - i + 1) : d[k] = s[i + k - 1]
  BY <1>1
<1>4. b \in Seq(T) /\ Len(b) = 1 /\ b[1] = e
  OBVIOUS
<1> HIDE DEF a, b, d
<1>5. /\ a \o b \in Seq(T) /\ Len(a \o b) = i
      /\ \A k \in 1..(i - 1) : (a \o b)[k] = a[k]
      /\ (a \o b)[i] = e
  <2>1. /\ a \o b \in Seq(T) /\ Len(a \o b) = Len(a) + Len(b)
        /\ \A k \in 1..Len(a) : (a \o b)[k] = a[k]
        /\ \A k \in 1..Len(b) : (a \o b)[Len(a) + k] = b[k]
    <3>1. a \in Seq(T) /\ b \in Seq(T)
      BY <1>2, <1>4
    <3> HIDE DEF w
    <3> QED  BY <3>1, Joined
  <2>2. 1 \in 1..Len(b) /\ Len(a) + 1 = i /\ Len(a) + Len(b) = i
    BY <1>1, <1>2, <1>4
  <2> QED  BY <1>2, <1>4, <2>1, <2>2
<1> DEFINE c == a \o b
<1> HIDE DEF c
<1>6. /\ c \o d \in Seq(T) /\ Len(c \o d) = Len(s) + 1
      /\ \A k \in 1..i : (c \o d)[k] = c[k]
      /\ \A k \in 1..(Len(s) - i + 1) : (c \o d)[i + k] = d[k]
  <2>1. c \in Seq(T) /\ Len(c) = i
    BY <1>5 DEF c
  <2>2. /\ c \o d \in Seq(T) /\ Len(c \o d) = Len(c) + Len(d)
        /\ \A k \in 1..Len(c) : (c \o d)[k] = c[k]
        /\ \A k \in 1..Len(d) : (c \o d)[Len(c) + k] = d[k]
    BY <1>3, <2>1, Joined
  <2>3. Len(c) + Len(d) = Len(s) + 1
    BY <1>1, <1>3, <2>1
  <2> QED  BY <1>3, <2>1, <2>2, <2>3
<1>7. (c \o d)[i] = e
  BY <1>1, <1>5, <1>6 DEF c
<1>8. ASSUME NEW k \in 1..Len(s) PROVE (c \o d)[IF k < i THEN k ELSE k + 1] = s[k]
  <2>1. CASE k < i
    <3>1. k \in 1..i /\ k \in 1..(i - 1)
      BY <1>1, <2>1
    <3>2. (c \o d)[k] = c[k] /\ c[k] = a[k] /\ a[k] = s[k]
      BY <1>2, <1>5, <1>6, <3>1 DEF c
    <3> QED  BY <2>1, <3>2
  <2>2. CASE ~(k < i)
    <3>1. k + 1 - i \in 1..(Len(s) - i + 1) /\ i + (k + 1 - i) = k + 1
          /\ i + (k + 1 - i) - 1 = k
      BY <1>1, <2>2
    <3>2. (c \o d)[i + (k + 1 - i)] = d[k + 1 - i] /\ d[k + 1 - i] = s[i + (k + 1 - i) - 1]
      BY <1>3, <1>6, <3>1
    <3> QED  BY <2>2, <3>1, <3>2
  <2> QED  BY <2>1, <2>2
<1>9. InsertAt(s, i, e) = c \o d
  BY DEF InsertAt, a, b, c, d
<1>10. DOMAIN (c \o d) = 1..(Len(s) + 1)
  BY <1>6
<1> QED  BY <1>6, <1>7, <1>8, <1>9, <1>10

LEMMA InsertEmbeds ==
    ASSUME NEW s, Curated(s), NEW e \in Pid, ~Placed(e, s), NEW i \in 1..(Len(s) + 1)
    PROVE  LET w == InsertAt(s, i, e) IN
           /\ Curated(w) /\ Embeds(s, w) /\ ToSet(w) = ToSet(s) \cup {e}
           /\ \A p \in ToSet(s) : Before(w, p, e) <=> IndexOf(p, s) < i
<1> DEFINE w == InsertAt(s, i, e)
           f == [k \in DOMAIN s |-> IF k < i THEN k ELSE k + 1]
<1>1. s \in Seq(Pid) /\ Once(s) /\ Len(s) \in Nat /\ DOMAIN s = 1..Len(s) /\ i \in Nat
  BY DEF Curated
<1>2. /\ w \in Seq(Pid) /\ DOMAIN w = 1..(Len(s) + 1) /\ w[i] = e
      /\ \A k \in 1..Len(s) : w[IF k < i THEN k ELSE k + 1] = s[k]
  <2>1. s \in Seq(Pid)
    BY <1>1
  <2>2. /\ InsertAt(s, i, e) \in Seq(Pid) /\ DOMAIN InsertAt(s, i, e) = 1..(Len(s) + 1)
        /\ InsertAt(s, i, e)[i] = e
        /\ \A k \in 1..Len(s) : InsertAt(s, i, e)[IF k < i THEN k ELSE k + 1] = s[k]
    BY <2>1, InsertedAt
  <2> QED  BY <2>2 DEF w
<1> HIDE DEF w
<1>3. \A k \in DOMAIN s : f[k] \in DOMAIN w /\ w[f[k]] = s[k] /\ f[k] # i /\ (f[k] < i <=> k < i)
                          /\ f[k] \in Nat
  BY <1>1, <1>2
<1>4. \A k, l \in DOMAIN s : k < l => f[k] < f[l]
  BY <1>1
<1>5. \A m \in DOMAIN w : m = i \/ \E k \in DOMAIN s : f[k] = m
  <2> SUFFICES ASSUME NEW m \in DOMAIN w, m # i PROVE \E k \in DOMAIN s : f[k] = m
    OBVIOUS
  <2>1. CASE m < i
    <3>1. m \in DOMAIN s /\ f[m] = m
      BY <1>1, <1>2, <2>1
    <3> QED  BY <3>1
  <2>2. CASE ~(m < i)
    <3>1. m - 1 \in DOMAIN s /\ f[m - 1] = m
      BY <1>1, <1>2, <2>2
    <3> QED  BY <3>1
  <2> QED  BY <2>1, <2>2
<1> HIDE DEF f
<1>6. \A k \in DOMAIN s : s[k] # e
  BY DEF Placed
<1>7. Once(w)
  <2> SUFFICES ASSUME NEW m \in DOMAIN w, NEW n \in DOMAIN w, w[m] = w[n] PROVE m = n
    BY DEF Once
  <2>1. CASE m = i \/ n = i
    BY <1>2, <1>3, <1>5, <1>6, <2>1
  <2>2. CASE m # i /\ n # i
    <3>1. PICK k \in DOMAIN s, l \in DOMAIN s : f[k] = m /\ f[l] = n
      BY <1>5, <2>2
    <3>2. s[k] = s[l]
      BY <1>3, <3>1
    <3> QED  BY <1>1, <3>1, <3>2 DEF Once
  <2> QED  BY <2>1, <2>2
<1>8. Curated(w)
  BY <1>2, <1>7 DEF Curated
<1>9. Embeds(s, w)
  BY <1>3, <1>4, <1>8, PlacesEmbed
<1>10. ToSet(w) = ToSet(s) \cup {e}
  <2>1. \A p \in ToSet(w) : p = e \/ p \in ToSet(s)
    BY <1>2, <1>3, <1>5 DEF ToSet
  <2>2. e \in ToSet(w)
    BY <1>1, <1>2 DEF ToSet
  <2> QED  BY <1>9, <2>1, <2>2 DEF Embeds
<1>11. ASSUME NEW p \in ToSet(s) PROVE Before(w, p, e) <=> IndexOf(p, s) < i
  <2> DEFINE k == IndexOf(p, s)
  <2>1. k \in DOMAIN s /\ s[k] = p
    BY <1>1, Stands
  <2> HIDE DEF k
  <2>2. f[k] \in DOMAIN w /\ w[f[k]] = p /\ i \in DOMAIN w /\ w[i] = e
    BY <1>1, <1>2, <1>3, <2>1
  <2>3. Before(w, p, e) <=> f[k] < i
    BY <1>7, <2>2, BeforeIs
  <2> QED  BY <1>3, <2>1, <2>3 DEF k
<1> QED  BY <1>8, <1>9, <1>10, <1>11 DEF w

LEMMA AppendEmbeds ==
    ASSUME NEW s, Curated(s), NEW t, Curated(t), ToSet(s) \cap ToSet(t) = {}
    PROVE  /\ Curated(s \o t) /\ Embeds(s, s \o t) /\ ToSet(s \o t) = ToSet(s) \cup ToSet(t)
<1> DEFINE w == s \o t
           f == [k \in DOMAIN s |-> k]
<1>1. s \in Seq(Pid) /\ t \in Seq(Pid) /\ Once(s) /\ Once(t)
      /\ Len(s) \in Nat /\ DOMAIN s = 1..Len(s) /\ Len(t) \in Nat /\ DOMAIN t = 1..Len(t)
  BY DEF Curated
<1>2. /\ w \in Seq(Pid) /\ DOMAIN w = 1..(Len(s) + Len(t))
      /\ \A k \in DOMAIN s : k \in DOMAIN w /\ w[k] = s[k]
      /\ \A k \in DOMAIN t : Len(s) + k \in DOMAIN w /\ w[Len(s) + k] = t[k]
  BY <1>1
<1> HIDE DEF w
<1>3. ASSUME NEW m \in DOMAIN w
      PROVE  m \in DOMAIN s \/ \E k \in DOMAIN t : m = Len(s) + k
  <2>1. CASE m <= Len(s)
    BY <1>1, <1>2, <2>1
  <2>2. CASE ~(m <= Len(s))
    <3>1. m - Len(s) \in DOMAIN t /\ m = Len(s) + (m - Len(s))
      BY <1>1, <1>2, <2>2
    <3> QED  BY <3>1
  <2> QED  BY <2>1, <2>2
<1>4. (\A k \in DOMAIN s : s[k] \in ToSet(s)) /\ \A k \in DOMAIN t : t[k] \in ToSet(t)
  BY DEF ToSet
<1>5. Once(w)
  <2> SUFFICES ASSUME NEW m \in DOMAIN w, NEW n \in DOMAIN w, w[m] = w[n] PROVE m = n
    BY DEF Once
  <2>1. CASE m \in DOMAIN s /\ n \in DOMAIN s
    BY <1>1, <1>2, <2>1 DEF Once
  <2>2. ASSUME NEW k \in DOMAIN t, m = Len(s) + k, NEW l \in DOMAIN t, n = Len(s) + l
        PROVE  m = n
    <3>1. t[k] = t[l]
      BY <1>2, <2>2
    <3> QED  BY <1>1, <2>2, <3>1 DEF Once
  <2>3. ASSUME NEW k \in DOMAIN t, m = Len(s) + k, n \in DOMAIN s PROVE FALSE
    <3>1. t[k] = s[n]
      BY <1>2, <2>3
    <3> QED  BY <1>4, <2>3, <3>1
  <2>4. ASSUME NEW k \in DOMAIN t, n = Len(s) + k, m \in DOMAIN s PROVE FALSE
    <3>1. t[k] = s[m]
      BY <1>2, <2>4
    <3> QED  BY <1>4, <2>4, <3>1
  <2> QED  BY <1>3, <2>1, <2>2, <2>3, <2>4
<1>6. Curated(w)
  BY <1>2, <1>5 DEF Curated
<1>7. Embeds(s, w)
  <2>1. \A k \in DOMAIN s : f[k] \in DOMAIN w /\ w[f[k]] = s[k]
    BY <1>2
  <2>2. \A k, l \in DOMAIN s : k < l => f[k] < f[l]
    OBVIOUS
  <2> HIDE DEF f
  <2> QED  BY <1>6, <2>1, <2>2, PlacesEmbed
<1>8. ToSet(w) = ToSet(s) \cup ToSet(t)
  <2>1. \A p \in ToSet(w) : p \in ToSet(s) \/ p \in ToSet(t)
    BY <1>2, <1>3 DEF ToSet
  <2>2. \A p \in ToSet(s) \cup ToSet(t) : p \in ToSet(w)
    BY <1>2 DEF ToSet
  <2> QED  BY <2>1, <2>2
<1> QED  BY <1>6, <1>7, <1>8 DEF w

-----------------------------------------------------------------------------
(* One heir, and one new sub-process.                                       *)

LEMMA OneInOrder ==
    ASSUME NEW h \in Nat
    PROVE  InIdOrder({h}) = <<h>>
<1>1. IsFiniteSet({h}) /\ Cardinality({h}) = 1 /\ {h} \in SUBSET Nat
  BY FS_Singleton
<1>2. InOrder({h}) \in [1..1 -> {h}]
  BY <1>1, InOrderLists
<1>3. InOrder({h}) = [k \in 1..1 |-> h]
  BY <1>2
<1>4. <<h>> = [k \in 1..1 |-> h]
  OBVIOUS
<1> QED  BY <1>3, <1>4 DEF InIdOrder

LEMMA NoneInOrder == InIdOrder({}) = <<>>
<1>1. IsFiniteSet({}) /\ Cardinality({}) = 0 /\ {} \in SUBSET Nat
  BY FS_EmptySet
<1>2. DOMAIN InOrder({}) = 1..0
  BY <1>1 DEF InOrder
<1>3. InOrder({}) = [k \in 1..0 |-> InOrder({})[k]]
  BY <1>1 DEF InOrder
<1> QED  BY <1>3 DEF InIdOrder

HeirPass(f, actives, seq, hints, L) ==
    f = [s \in SUBSET (DOMAIN L) |->
            IF s = {} THEN seq
            ELSE Inherits(actives, f[s \ {Max(s)}], L[Max(s)], hints[L[Max(s)]])]

ChildPass(f, actives, seq, hints, L) ==
    f = [s \in SUBSET (DOMAIN L) |->
            IF s = {} THEN seq
            ELSE Adopts(actives, f[s \ {Max(s)}], L[Max(s)], hints[L[Max(s)]])]

FollowPass(f, seq, parent, L) ==
    f = [s \in SUBSET (DOMAIN L) |->
            IF s = {} THEN seq
            ELSE InsertAt(f[s \ {Min(s)}], IndexOf(parent, f[s \ {Min(s)}]) + 1, L[Min(s)])]

HeirsPassed(actives, seq, hints) ==
    (CHOOSE f : HeirPass(f, actives, seq, hints, InIdOrder(DOMAIN hints)))
        [DOMAIN InIdOrder(DOMAIN hints)]

ChildrenPassed(actives, seq, hints) ==
    (CHOOSE f : ChildPass(f, actives, seq, hints, InIdOrder(DOMAIN hints)))
        [DOMAIN InIdOrder(DOMAIN hints)]

FollowPassed(seq, parent, children) ==
    (CHOOSE f : FollowPass(f, seq, parent, InIdOrder(children)))[DOMAIN InIdOrder(children)]

LEMMA PassesAre ==
    ASSUME NEW actives, NEW seq, NEW hints, NEW parent, NEW children
    PROVE  /\ WithHeirs(actives, seq, hints) = HeirsPassed(actives, seq, hints)
           /\ WithChildren(actives, seq, hints) = ChildrenPassed(actives, seq, hints)
           /\ Follow(seq, parent, children) = FollowPassed(seq, parent, children)
<1>1. WithHeirs(actives, seq, hints) = HeirsPassed(actives, seq, hints)
  BY Zenon DEF WithHeirs, FoldLeft, MapThenFoldSet, HeirPass, HeirsPassed
<1>2. WithChildren(actives, seq, hints) = ChildrenPassed(actives, seq, hints)
  BY Zenon DEF WithChildren, FoldLeft, MapThenFoldSet, ChildPass, ChildrenPassed
<1>3. Follow(seq, parent, children) = FollowPassed(seq, parent, children)
  BY Zenon DEF Follow, FoldRight, MapThenFoldSet, FollowPass, FollowPassed
<1> QED  BY <1>1, <1>2, <1>3

LEMMA OnePlace == SUBSET (DOMAIN <<0>>) = {{}, {1}} /\ {} # {1} /\ Max({1}) = 1 /\ Min({1}) = 1
                  /\ {1} \ {1} = {}
<1>1. DOMAIN <<0>> = {1}
  OBVIOUS
<1>2. Max({1}) = 1
  BY DEF Max
<1>3. Min({1}) = 1
  BY DEF Min
<1> QED  BY <1>1, <1>2, <1>3

LEMMA OneHeir ==
    ASSUME NEW actives, NEW seq, NEW h \in Nat, NEW old
    PROVE  WithHeirs(actives, seq, [x \in {h} |-> old]) = Inherits(actives, seq, h, old)
<1> DEFINE hints == [x \in {h} |-> old]
           L == InIdOrder(DOMAIN hints)
           r == Inherits(actives, seq, h, old)
<1>1. DOMAIN hints = {h} /\ hints[h] = old
  OBVIOUS
<1>2. L = <<h>> /\ DOMAIN L = {1} /\ L[1] = h
  BY <1>1, OneInOrder
<1>3. SUBSET (DOMAIN L) = {{}, {1}} /\ {} # {1} /\ Max({1}) = 1 /\ {1} \ {1} = {}
  BY <1>2, OnePlace
<1> HIDE DEF hints, L, r
<1>4. \E f : HeirPass(f, actives, seq, hints, L)
  <2> DEFINE f == [s \in {{}, {1}} |-> IF s = {} THEN seq ELSE r]
  <2>1. f[{}] = seq
    OBVIOUS
  <2>2. \A s \in {{}, {1}} : f[s] = IF s = {} THEN seq
            ELSE Inherits(actives, f[s \ {Max(s)}], L[Max(s)], hints[L[Max(s)]])
    <3>1. f[{1}] = r
      BY <1>3
    <3>2. Inherits(actives, f[{1} \ {Max({1})}], L[Max({1})], hints[L[Max({1})]]) = r
      BY <1>1, <1>2, <1>3, <2>1, Zenon DEF r
    <3> HIDE DEF f
    <3> QED  BY <1>3, <2>1, <3>1, <3>2, Zenon
  <2>3. f = [s \in {{}, {1}} |-> f[s]]
    OBVIOUS
  <2> HIDE DEF f
  <2>4. f = [s \in {{}, {1}} |-> IF s = {} THEN seq
            ELSE Inherits(actives, f[s \ {Max(s)}], L[Max(s)], hints[L[Max(s)]])]
    BY <2>2, <2>3, Zenon
  <2> QED  BY <1>3, <2>4, Zenon DEF HeirPass
<1>5. ASSUME NEW f, HeirPass(f, actives, seq, hints, L) PROVE f[{1}] = r
  <2>1. \A s \in {{}, {1}} : f[s] = IF s = {} THEN seq
            ELSE Inherits(actives, f[s \ {Max(s)}], L[Max(s)], hints[L[Max(s)]])
    BY <1>3, <1>5, Zenon DEF HeirPass
  <2>2. f[{}] = seq
    BY <2>1
  <2>3. f[{1}] = Inherits(actives, f[{1} \ {Max({1})}], L[Max({1})], hints[L[Max({1})]])
    BY <1>3, <2>1
  <2>4. {1} \ {Max({1})} = {} /\ L[Max({1})] = h /\ hints[L[Max({1})]] = old
    BY <1>1, <1>2, <1>3, Zenon
  <2> QED  BY <2>2, <2>3, <2>4, Zenon DEF r
<1>6. (CHOOSE f : HeirPass(f, actives, seq, hints, L))[DOMAIN L] = r
  BY <1>2, <1>4, <1>5, Zenon
<1>7. WithHeirs(actives, seq, hints) = HeirsPassed(actives, seq, hints)
  BY PassesAre
<1> QED  BY <1>6, <1>7, Zenon DEF HeirsPassed, L, r, hints

LEMMA OneParent ==
    ASSUME NEW actives, NEW seq, NEW p \in Nat, NEW new
    PROVE  WithChildren(actives, seq, [x \in {p} |-> new]) = Adopts(actives, seq, p, new)
<1> DEFINE hints == [x \in {p} |-> new]
           L == InIdOrder(DOMAIN hints)
           r == Adopts(actives, seq, p, new)
<1>1. DOMAIN hints = {p} /\ hints[p] = new
  OBVIOUS
<1>2. L = <<p>> /\ DOMAIN L = {1} /\ L[1] = p
  BY <1>1, OneInOrder
<1>3. SUBSET (DOMAIN L) = {{}, {1}} /\ {} # {1} /\ Max({1}) = 1 /\ {1} \ {1} = {}
  BY <1>2, OnePlace
<1> HIDE DEF hints, L, r
<1>4. \E f : ChildPass(f, actives, seq, hints, L)
  <2> DEFINE f == [s \in {{}, {1}} |-> IF s = {} THEN seq ELSE r]
  <2>1. f[{}] = seq
    OBVIOUS
  <2>2. \A s \in {{}, {1}} : f[s] = IF s = {} THEN seq
            ELSE Adopts(actives, f[s \ {Max(s)}], L[Max(s)], hints[L[Max(s)]])
    <3>1. f[{1}] = r
      BY <1>3
    <3>2. Adopts(actives, f[{1} \ {Max({1})}], L[Max({1})], hints[L[Max({1})]]) = r
      BY <1>1, <1>2, <1>3, <2>1, Zenon DEF r
    <3> HIDE DEF f
    <3> QED  BY <1>3, <2>1, <3>1, <3>2, Zenon
  <2>3. f = [s \in {{}, {1}} |-> f[s]]
    OBVIOUS
  <2> HIDE DEF f
  <2>4. f = [s \in {{}, {1}} |-> IF s = {} THEN seq
            ELSE Adopts(actives, f[s \ {Max(s)}], L[Max(s)], hints[L[Max(s)]])]
    BY <2>2, <2>3, Zenon
  <2> QED  BY <1>3, <2>4, Zenon DEF ChildPass
<1>5. ASSUME NEW f, ChildPass(f, actives, seq, hints, L) PROVE f[{1}] = r
  <2>1. \A s \in {{}, {1}} : f[s] = IF s = {} THEN seq
            ELSE Adopts(actives, f[s \ {Max(s)}], L[Max(s)], hints[L[Max(s)]])
    BY <1>3, <1>5, Zenon DEF ChildPass
  <2>2. f[{}] = seq
    BY <2>1
  <2>3. f[{1}] = Adopts(actives, f[{1} \ {Max({1})}], L[Max({1})], hints[L[Max({1})]])
    BY <1>3, <2>1
  <2>4. {1} \ {Max({1})} = {} /\ L[Max({1})] = p /\ hints[L[Max({1})]] = new
    BY <1>1, <1>2, <1>3, Zenon
  <2> QED  BY <2>2, <2>3, <2>4, Zenon DEF r
<1>6. (CHOOSE f : ChildPass(f, actives, seq, hints, L))[DOMAIN L] = r
  BY <1>2, <1>4, <1>5, Zenon
<1>7. WithChildren(actives, seq, hints) = ChildrenPassed(actives, seq, hints)
  BY PassesAre
<1> QED  BY <1>6, <1>7, Zenon DEF ChildrenPassed, L, r, hints

LEMMA OneFollows ==
    ASSUME NEW seq, NEW p, NEW c \in Nat
    PROVE  Follow(seq, p, {c}) = InsertAt(seq, IndexOf(p, seq) + 1, c)
<1> DEFINE L == InIdOrder({c})
           r == InsertAt(seq, IndexOf(p, seq) + 1, c)
<1>2. L = <<c>> /\ DOMAIN L = {1} /\ L[1] = c
  BY OneInOrder
<1>3. SUBSET (DOMAIN L) = {{}, {1}} /\ {} # {1} /\ Min({1}) = 1 /\ {1} \ {1} = {}
  BY <1>2, OnePlace
<1> HIDE DEF L, r
<1>4. \E f : FollowPass(f, seq, p, L)
  <2> DEFINE f == [s \in {{}, {1}} |-> IF s = {} THEN seq ELSE r]
  <2>1. f[{}] = seq
    OBVIOUS
  <2>2. \A s \in {{}, {1}} : f[s] = IF s = {} THEN seq
            ELSE InsertAt(f[s \ {Min(s)}], IndexOf(p, f[s \ {Min(s)}]) + 1, L[Min(s)])
    <3>1. f[{1}] = r
      BY <1>3
    <3>2. InsertAt(f[{1} \ {Min({1})}], IndexOf(p, f[{1} \ {Min({1})}]) + 1, L[Min({1})]) = r
      BY <1>2, <1>3, <2>1, Zenon DEF r
    <3> HIDE DEF f
    <3> QED  BY <1>3, <2>1, <3>1, <3>2, Zenon
  <2>3. f = [s \in {{}, {1}} |-> f[s]]
    OBVIOUS
  <2> HIDE DEF f
  <2>4. f = [s \in {{}, {1}} |-> IF s = {} THEN seq
            ELSE InsertAt(f[s \ {Min(s)}], IndexOf(p, f[s \ {Min(s)}]) + 1, L[Min(s)])]
    BY <2>2, <2>3, Zenon
  <2> QED  BY <1>3, <2>4, Zenon DEF FollowPass
<1>5. ASSUME NEW f, FollowPass(f, seq, p, L) PROVE f[{1}] = r
  <2>1. \A s \in {{}, {1}} : f[s] = IF s = {} THEN seq
            ELSE InsertAt(f[s \ {Min(s)}], IndexOf(p, f[s \ {Min(s)}]) + 1, L[Min(s)])
    BY <1>3, <1>5, Zenon DEF FollowPass
  <2>2. f[{}] = seq
    BY <2>1
  <2>3. f[{1}] = InsertAt(f[{1} \ {Min({1})}], IndexOf(p, f[{1} \ {Min({1})}]) + 1, L[Min({1})])
    BY <1>3, <2>1
  <2>4. {1} \ {Min({1})} = {} /\ L[Min({1})] = c
    BY <1>2, <1>3, Zenon
  <2> QED  BY <2>2, <2>3, <2>4, Zenon DEF r
<1>6. (CHOOSE f : FollowPass(f, seq, p, L))[DOMAIN L] = r
  BY <1>2, <1>4, <1>5, Zenon
<1>7. Follow(seq, p, {c}) = FollowPassed(seq, p, {c})
  BY PassesAre
<1> QED  BY <1>6, <1>7, Zenon DEF FollowPassed, L, r

\* Without hints nothing is placed.
LEMMA NoPass ==
    ASSUME NEW actives, NEW seq, NEW p
    PROVE  /\ WithHeirs(actives, seq, NoHints) = seq
           /\ WithChildren(actives, seq, NoHints) = seq
           /\ Follow(seq, p, {}) = seq
<1> DEFINE L == InIdOrder({})
<1>1. DOMAIN NoHints = {}
  BY DEF NoHints
<1>2. L = <<>> /\ DOMAIN L = {} /\ SUBSET (DOMAIN L) = {{}}
  BY NoneInOrder
<1> HIDE DEF L
<1> DEFINE g == [s \in {{}} |-> seq]
<1>3. g[{}] = seq /\ \A s \in {{}} : s = {}
  OBVIOUS
<1>4. HeirsPassed(actives, seq, NoHints) = seq
  <2>1. HeirPass(g, actives, seq, NoHints, L)
    BY <1>2 DEF HeirPass
  <2>2. ASSUME NEW f, HeirPass(f, actives, seq, NoHints, L) PROVE f[{}] = seq
    BY <1>2, <2>2 DEF HeirPass
  <2>3. (CHOOSE f : HeirPass(f, actives, seq, NoHints, L))[{}] = seq
    <3> HIDE DEF g
    <3> QED  BY <2>1, <2>2, Zenon
  <2> QED  BY <1>1, <1>2, <2>3, Zenon DEF HeirsPassed, L
<1>5. ChildrenPassed(actives, seq, NoHints) = seq
  <2>1. ChildPass(g, actives, seq, NoHints, L)
    BY <1>2 DEF ChildPass
  <2>2. ASSUME NEW f, ChildPass(f, actives, seq, NoHints, L) PROVE f[{}] = seq
    BY <1>2, <2>2 DEF ChildPass
  <2>3. (CHOOSE f : ChildPass(f, actives, seq, NoHints, L))[{}] = seq
    <3> HIDE DEF g
    <3> QED  BY <2>1, <2>2, Zenon
  <2> QED  BY <1>1, <1>2, <2>3, Zenon DEF ChildrenPassed, L
<1>6. FollowPassed(seq, p, {}) = seq
  <2>1. FollowPass(g, seq, p, L)
    BY <1>2 DEF FollowPass
  <2>2. ASSUME NEW f, FollowPass(f, seq, p, L) PROVE f[{}] = seq
    BY <1>2, <2>2 DEF FollowPass
  <2>3. (CHOOSE f : FollowPass(f, seq, p, L))[{}] = seq
    <3> HIDE DEF g
    <3> QED  BY <2>1, <2>2, Zenon
  <2> QED  BY <1>1, <1>2, <2>3, Zenon DEF FollowPassed, L
<1> QED  BY <1>4, <1>5, <1>6, PassesAre

-----------------------------------------------------------------------------
(* What a sync makes of a sequence.                                         *)

\* The lowest place of a set comes after just what comes before all of it.
LEMMA LowestIsBefore ==
    ASSUME NEW s, Curated(s), NEW S, \E p \in S : Placed(p, s)
    PROVE  /\ LowestIndex(s, S) \in DOMAIN s
           /\ \A p \in ToSet(s) : IndexOf(p, s) < LowestIndex(s, S)
                    <=> \A q \in S : Placed(q, s) => Before(s, p, q)
<1> DEFINE P == {i \in DOMAIN s : s[i] \in S}
           m == LowestIndex(s, S)
<1>1. Once(s) /\ DOMAIN s \in SUBSET Nat
  BY PlacesParts DEF Curated
<1>2. P \in SUBSET Nat /\ P # {}
  BY <1>1 DEF Placed
<1>3. \E x \in P : \A y \in P : x <= y
  <2> HIDE DEF P
  <2> QED  BY <1>2, Least
<1>4. m = Min(P)
  BY DEF LowestIndex
<1>5. m \in P /\ \A y \in P : m <= y
  <2> HIDE DEF P, m
  <2> QED  BY <1>3, <1>4 DEF Min
<1>6. m \in DOMAIN s /\ s[m] \in S /\ m \in Nat
  BY <1>1, <1>5
<1>7. \A i \in DOMAIN s : s[i] \in S => m <= i
  BY <1>5
<1> HIDE DEF m, P
<1>8. ASSUME NEW p \in ToSet(s)
      PROVE  IndexOf(p, s) < m <=> \A q \in S : Placed(q, s) => Before(s, p, q)
  <2> DEFINE i == IndexOf(p, s)
  <2>1. i \in DOMAIN s /\ s[i] = p /\ i \in Nat
    BY <1>1, Stands
  <2> HIDE DEF i
  <2>2. ASSUME i < m, NEW q \in S, Placed(q, s) PROVE Before(s, p, q)
    <3>1. PICK k \in DOMAIN s : s[k] = q
      BY <2>2 DEF Placed
    <3>2. i < k
      BY <1>1, <1>6, <1>7, <2>1, <2>2, <3>1
    <3> QED  BY <1>1, <2>1, <3>1, <3>2, BeforeIs
  <2>3. ASSUME \A q \in S : Placed(q, s) => Before(s, p, q) PROVE i < m
    <3>1. Placed(s[m], s)
      BY <1>6 DEF Placed
    <3>2. Before(s, s[i], s[m])
      BY <1>6, <2>1, <2>3, <3>1
    <3> QED  BY <1>1, <1>6, <2>1, <3>2, BeforeIs
  <2> QED  BY <2>2, <2>3 DEF i
<1> QED  BY <1>6, <1>8 DEF m

\* Pass 3 puts what is missing at the end, and drops what is gone.
LEMMA CompletedKeeps ==
    ASSUME NEW w, Curated(w), NEW actives \in SUBSET Pid
    PROVE  LET r == Completed(actives, w) IN
           /\ Curated(r) /\ ToSet(r) = actives
           /\ \A p, q \in ToSet(w) \cap ToSet(r) : Before(w, p, q) <=> Before(r, p, q)
<1> DEFINE more == {p \in actives : ~Placed(p, w)}
           t == InIdOrder(more)
           x == w \o t
           r == Held(x, actives)
<1>1. Curated(t) /\ ToSet(t) = more
  BY InIdOrderIs
<1>2. ToSet(w) \cap ToSet(t) = {}
  BY <1>1, Stands DEF Curated
<1>3. Completed(actives, w) = r
  BY DEF Completed
<1> HIDE DEF t
<1>4. Curated(x) /\ Embeds(w, x) /\ ToSet(x) = ToSet(w) \cup more
  BY <1>1, <1>2, AppendEmbeds
<1> HIDE DEF x
<1>5. Curated(r) /\ Embeds(r, x) /\ ToSet(r) = ToSet(x) \cap actives
  BY <1>4, HeldEmbeds
<1> HIDE DEF r
<1>7. ToSet(r) = actives
  <2>1. \A p \in actives : p \in ToSet(w) \/ p \in more
    BY Stands DEF Curated
  <2> QED  BY <1>4, <1>5, <2>1
<1> HIDE DEF more
<1>6. \A p, q \in ToSet(w) \cap ToSet(r) : Before(w, p, q) <=> Before(r, p, q)
  BY <1>4, <1>5 DEF Embeds
<1> QED  BY <1>3, <1>5, <1>6, <1>7

LEMMA DedupEmbeds ==
    ASSUME NEW s, Curated(s)
    PROVE  Curated(Dedup(s)) /\ Embeds(s, Dedup(s)) /\ ToSet(Dedup(s)) = ToSet(s)
           /\ Len(Dedup(s)) = Len(s)
<1> DEFINE d == Dedup(s)
<1>1. Curated(d) /\ Embeds(d, s) /\ ToSet(d) = ToSet(s) \cap Pid
      /\ Len(d) = Cardinality({i \in DOMAIN s : s[i] \in Pid})
  BY HeldEmbeds, DedupKeeps
<1>2. \A i \in DOMAIN s : s[i] \in Pid
  BY PlacesParts DEF Curated
<1> HIDE DEF d
<1>3. ToSet(s) \subseteq Pid /\ {i \in DOMAIN s : s[i] \in Pid} = DOMAIN s
  BY <1>2 DEF ToSet
<1>4. Len(s) \in Nat /\ DOMAIN s = 1..Len(s)
  BY DEF Curated
<1>5. Len(d) = Len(s)
  BY <1>1, <1>3, <1>4, FirstNumbers
<1>6. ToSet(d) = ToSet(s)
  BY <1>1, <1>3
<1>7. Embeds(s, d)
  BY <1>1, <1>6 DEF Embeds
<1> QED  BY <1>1, <1>5, <1>6, <1>7 DEF d

KeepsOrder(s, r) ==
    \A p, q \in ToSet(s) \cap ToSet(r) : Before(s, p, q) <=> Before(r, p, q)

TakesPlace(s, r, h, old) ==
    (Placed(h, r) /\ ~Placed(h, s) /\ \E q \in old : Placed(q, s)) =>
        \A p \in ToSet(s) \cap ToSet(r) :
            Before(r, p, h) <=> \A q \in old : Placed(q, s) => Before(s, p, q)

\* What a sync makes of the sequence s and of the active processes.
Syncs(s, actives, r) == Curated(r) /\ ToSet(r) = actives /\ KeepsOrder(s, r)

\* A sync with an heir.
LEMMA HeirReconciled ==
    ASSUME NEW s, Curated(s), NEW actives \in SUBSET Pid, NEW h \in Nat, NEW old
    PROVE  LET r == Reconciled(actives, s, [x \in {h} |-> old], NoHints) IN
           Syncs(s, actives, r) /\ TakesPlace(s, r, h, old)
<1> USE DEF Syncs
<1> DEFINE d == Dedup(s)
           w == Inherits(actives, d, h, old)
           r == Completed(actives, w)
<1>1. Reconciled(actives, s, [x \in {h} |-> old], NoHints) = r
  BY OneHeir, NoPass DEF Reconciled
<1>2. Curated(d) /\ Embeds(s, d) /\ ToSet(d) = ToSet(s) /\ Once(d) /\ Once(s)
  BY DedupEmbeds DEF Curated
<1> HIDE DEF d
<1>3. \A q : Placed(q, d) <=> Placed(q, s)
  BY <1>2, Stands
<1>4. CASE h \in actives /\ ~Placed(h, d) /\ \E p \in old : Placed(p, d)
  <2> DEFINE i == LowestIndex(d, old)
  <2>1. w = InsertAt(d, i, h)
    BY <1>4 DEF Inherits
  <2>2. /\ i \in DOMAIN d
        /\ \A p \in ToSet(d) : IndexOf(p, d) < i <=> \A q \in old : Placed(q, d) => Before(d, p, q)
    BY <1>2, <1>4, LowestIsBefore
  <2> HIDE DEF i
  <2>3. i \in 1..(Len(d) + 1) /\ h \in Pid
    BY <1>2, <1>4, <2>2 DEF Curated
  <2>4. /\ Curated(w) /\ Embeds(d, w) /\ ToSet(w) = ToSet(d) \cup {h}
        /\ \A p \in ToSet(d) : Before(w, p, h) <=> IndexOf(p, d) < i
    BY <1>2, <1>4, <2>1, <2>3, InsertEmbeds
  <2> HIDE DEF w
  <2>5. /\ Curated(r) /\ ToSet(r) = actives
        /\ \A p, q \in ToSet(w) \cap ToSet(r) : Before(w, p, q) <=> Before(r, p, q)
    BY <2>4, CompletedKeeps
  <2> HIDE DEF r
  <2>6. Once(r)
    BY <2>5 DEF Curated
  <2>7. \A p, q \in ToSet(s) \cap ToSet(r) : Before(s, p, q) <=> Before(r, p, q)
    BY <1>2, <2>4, <2>5 DEF Embeds
  <2>8. ASSUME Placed(h, r), NEW p \in ToSet(s) \cap ToSet(r)
        PROVE  Before(r, p, h) <=> \A q \in old : Placed(q, s) => Before(s, p, q)
    <3>1. h \in ToSet(r) /\ h \in ToSet(w) /\ p \in ToSet(w) /\ p \in ToSet(d)
      BY <1>2, <2>4, <2>6, <2>8, Stands
    <3>2. Before(r, p, h) <=> Before(w, p, h)
      BY <2>5, <3>1
    <3>3. Before(w, p, h) <=> \A q \in old : Placed(q, d) => Before(d, p, q)
      BY <2>2, <2>4, <3>1
    <3>4. \A q : Placed(q, s) => (Before(d, p, q) <=> Before(s, p, q))
      BY <1>2, <3>1, Stands DEF Embeds
    <3> QED  BY <1>3, <3>2, <3>3, <3>4
  <2> QED  BY <1>1, <2>5, <2>7, <2>8 DEF KeepsOrder, TakesPlace
<1>5. CASE ~(h \in actives /\ ~Placed(h, d) /\ \E p \in old : Placed(p, d))
  <2>1. w = d
    BY <1>5 DEF Inherits
  <2>2. /\ Curated(r) /\ ToSet(r) = actives
        /\ \A p, q \in ToSet(d) \cap ToSet(r) : Before(d, p, q) <=> Before(r, p, q)
    BY <1>2, <2>1, CompletedKeeps
  <2> HIDE DEF r
  <2>3. Once(r)
    BY <2>2 DEF Curated
  <2>4. \A p, q \in ToSet(s) \cap ToSet(r) : Before(s, p, q) <=> Before(r, p, q)
    BY <1>2, <2>2 DEF Embeds
  <2>5. ~(Placed(h, r) /\ ~Placed(h, s) /\ \E q \in old : Placed(q, s))
    BY <1>3, <1>5, <2>2, <2>3, Stands
  <2> QED  BY <1>1, <2>2, <2>4, <2>5 DEF KeepsOrder, TakesPlace
<1> QED  BY <1>4, <1>5

\* A sync with a new sub-process.
LEMMA ChildReconciled ==
    ASSUME NEW s, Curated(s), NEW actives \in SUBSET Pid, NEW p \in Nat, NEW c \in Nat,
           NEW hints, hints = [x \in {p} |-> {c}]
    PROVE  Syncs(s, actives, Reconciled(actives, s, NoHints, hints))
<1> USE DEF Syncs
<1> DEFINE d == Dedup(s)
           w == Adopts(actives, d, p, {c})
           r == Completed(actives, w)
<1>1. Reconciled(actives, s, NoHints, hints) = r
  <2>1. WithHeirs(actives, Dedup(s), NoHints) = Dedup(s)
    BY NoPass
  <2>2. WithChildren(actives, Dedup(s), hints) = Adopts(actives, Dedup(s), p, {c})
    BY OneParent
  <2> QED  BY <2>1, <2>2, Zenon DEF Reconciled
<1>2. Curated(d) /\ Embeds(s, d) /\ ToSet(d) = ToSet(s) /\ Once(d)
  BY DedupEmbeds DEF Curated
<1> HIDE DEF d
<1>3. Curated(w) /\ Embeds(d, w)
  <2>1. CASE Placed(p, d) /\ c \in actives /\ ~Placed(c, d)
    <3> DEFINE i == IndexOf(p, d) + 1
    <3>1. {x \in {c} : x \in actives /\ ~Placed(x, d)} = {c}
      BY <2>1
    <3>2. w = InsertAt(d, i, c)
      BY <2>1, <3>1, OneFollows DEF Adopts
    <3>3. IndexOf(p, d) \in DOMAIN d
      BY <1>2, <2>1, Stands
    <3>4. i \in 1..(Len(d) + 1)
      BY <1>2, <3>3 DEF Curated
    <3> HIDE DEF i
    <3> QED  BY <1>2, <2>1, <3>2, <3>4, InsertEmbeds
  <2>2. CASE ~(Placed(p, d) /\ c \in actives /\ ~Placed(c, d))
    <3>1. w = d
      <4>1. CASE ~Placed(p, d)
        BY <4>1 DEF Adopts
      <4>2. CASE Placed(p, d)
        <5>1. {x \in {c} : x \in actives /\ ~Placed(x, d)} = {}
          BY <2>2, <4>2
        <5> QED  BY <4>2, <5>1, NoPass DEF Adopts
      <4> QED  BY <4>1, <4>2
    <3> QED  BY <1>2, <3>1 DEF Embeds
  <2> QED  BY <2>1, <2>2
<1> HIDE DEF w
<1>4. /\ Curated(r) /\ ToSet(r) = actives
      /\ \A a, b \in ToSet(w) \cap ToSet(r) : Before(w, a, b) <=> Before(r, a, b)
  BY <1>3, CompletedKeeps
<1> HIDE DEF r
<1>5. \A a, b \in ToSet(s) \cap ToSet(r) : Before(s, a, b) <=> Before(r, a, b)
  BY <1>2, <1>3, <1>4 DEF Embeds
<1> QED  BY <1>1, <1>4, <1>5 DEF KeepsOrder

\* A sync without hints.
LEMMA PlainReconciled ==
    ASSUME NEW s, Curated(s), NEW actives \in SUBSET Pid
    PROVE  Syncs(s, actives, Reconciled(actives, s, NoHints, NoHints))
<1> USE DEF Syncs
<1> DEFINE d == Dedup(s)
           r == Completed(actives, d)
<1>1. Reconciled(actives, s, NoHints, NoHints) = r
  BY NoPass DEF Reconciled
<1>2. Curated(d) /\ Embeds(s, d)
  BY DedupEmbeds
<1> HIDE DEF d
<1>3. /\ Curated(r) /\ ToSet(r) = actives
      /\ \A a, b \in ToSet(d) \cap ToSet(r) : Before(d, a, b) <=> Before(r, a, b)
  BY <1>2, CompletedKeeps
<1> HIDE DEF r
<1>4. \A a, b \in ToSet(s) \cap ToSet(r) : Before(s, a, b) <=> Before(r, a, b)
  BY <1>2, <1>3 DEF Embeds
<1> QED  BY <1>1, <1>3, <1>4 DEF KeepsOrder

-----------------------------------------------------------------------------
(* The stored sequence, and every sequence a program holds in its hands,    *)
(* never has an id twice.                                                   *)

CuratedJob(j) ==
    /\ j.id \in Nat
    /\ j.actives \subseteq Pid
    /\ Curated(j.order)
    /\ j.supersedes # <<>> => j.verb = "restructure"

CurInv ==
    /\ DOMAIN job = Program
    /\ Curated(order)
    /\ \A a \in Program : CuratedJob(job[a])

\* A job that has no number, no sequence and no plan yet.
Plain(j) ==
    /\ DOMAIN j = DOMAIN Idle
    /\ j.id = None /\ j.actives = {} /\ j.order = <<>>
    /\ j.supersedes = <<>>

LEMMA EmptyCurated == Curated(<<>>)
BY DEF Curated, Once

LEMMA PlainCurated ==
    /\ Plain(Idle)
    /\ \A verb, phase, subject, loaded : Plain(Job(verb, phase, subject, loaded))
    /\ \A j, todo : Plain(j) => Plain(Writing(j, todo))
    /\ \A j : Plain(j) => CuratedJob(j)
<1>1. Plain(Idle)
  BY DEF Plain, Idle
<1>2. ASSUME NEW verb, NEW phase, NEW subject, NEW loaded
      PROVE  Plain(Job(verb, phase, subject, loaded))
  BY DEF Plain, Job, Idle
<1>3. ASSUME NEW j, NEW todo, Plain(j) PROVE Plain(Writing(j, todo))
  BY <1>3 DEF Plain, Writing, Idle
<1>4. ASSUME NEW j, Plain(j) PROVE CuratedJob(j)
  BY <1>4, EmptyCurated DEF Plain, CuratedJob, None
<1> QED  BY <1>1, <1>2, <1>3, <1>4

LEMMA CuratedStep ==
    ASSUME CurInv, NEW a \in Program, NEW k, CuratedJob(k),
           job' = [job EXCEPT ![a] = k], Curated(order')
    PROVE  CurInv'
<1>1. DOMAIN job' = Program /\ \A b \in Program : job'[b] = IF b = a THEN k ELSE job[b]
  BY DEF CurInv
<1>2. \A b \in Program : CuratedJob(job'[b])
  BY <1>1 DEF CurInv
<1>3. (\A b \in Program : CuratedJob(job[b]))' <=> \A b \in Program : CuratedJob(job'[b])
  BY DEF CuratedJob, Curated, Once
<1> QED  BY <1>1, <1>2, <1>3 DEF CurInv, Curated, Once

LEMMA CuratedBegins ==
    ASSUME CurInv, NEW a \in Program, NEW k, CuratedJob(k), Begins(a, k)
    PROVE  CurInv'
<1>1. job' = [job EXCEPT ![a] = k] /\ order' = order
  BY DEF Begins, files
<1>2. Curated(order')
  BY <1>1 DEF CurInv
<1> QED  BY <1>1, <1>2, CuratedStep

LEMMA PlainBegins ==
    ASSUME CurInv, NEW a \in Program, NEW k, Plain(k), Begins(a, k)
    PROVE  CurInv'
BY PlainCurated, CuratedBegins

\* Every sequence of the active processes is without repetition.
LEMMA ChosenCurated ==
    ASSUME NEW S \in SUBSET Pid, NEW seq \in SetToSeqs(S)
    PROVE  Curated(seq)
<1>1. IsFiniteSet(S) /\ Cardinality(S) \in Nat
  BY PidIsFinite, FS_Subset, FS_CardinalityType
<1> DEFINE c == Cardinality(S)
<1>2. seq \in [1..c -> S] /\ \A i, j \in 1..c : i # j => seq[i] # seq[j]
  BY DEF SetToSeqs
<1> HIDE DEF c
<1>3. seq \in Seq(Pid) /\ DOMAIN seq = 1..c
  BY <1>1, <1>2 DEF c
<1> QED  BY <1>2, <1>3 DEF Curated, Once

\* An id moved to another place stands there alone.
LEMMA MovedCurated ==
    ASSUME NEW s, Curated(s), NEW p, Placed(p, s), NEW to \in DOMAIN Dedup(s)
    PROVE  Curated(Moved(Dedup(s), p, to)) /\ ToSet(Moved(Dedup(s), p, to)) = ToSet(s)
<1> DEFINE d == Dedup(s)
           S == ToSet(d) \ {p}
           h == Held(d, S)
           at == IndexOf(p, d)
           P == {i \in DOMAIN d : d[i] \in S}
<1>1. Curated(d) /\ ToSet(d) = ToSet(s)
  BY DedupEmbeds
<1>2. Moved(d, p, to) = InsertAt(h, to, p)
  BY DEF Moved
<1>3. to \in DOMAIN d
  OBVIOUS
<1>4. p \in ToSet(s)
  BY Stands DEF Curated
<1> HIDE DEF d
<1>5. Once(d) /\ d \in Seq(Pid) /\ Len(d) \in Nat /\ DOMAIN d = 1..Len(d)
  BY <1>1 DEF Curated
<1>6. at \in DOMAIN d /\ d[at] = p
  BY <1>1, <1>4, <1>5, Stands
<1>7. P = DOMAIN d \ {at}
  <2>1. \A i \in DOMAIN d : d[i] \in S <=> i # at
    <3>1. \A i \in DOMAIN d : d[i] \in ToSet(d)
      BY <1>5, Stands
    <3>2. \A i \in DOMAIN d : d[i] = p <=> i = at
      BY <1>5, <1>6 DEF Once
    <3> QED  BY <3>1, <3>2
  <2> QED  BY <2>1
<1>8. Cardinality(P) = Len(d) - 1
  <2>1. IsFiniteSet(DOMAIN d) /\ Cardinality(DOMAIN d) = Len(d)
    BY <1>5, FirstNumbers
  <2> HIDE DEF P, at
  <2> QED  BY <1>6, <1>7, <2>1, FS_RemoveElement
<1>9. Curated(h) /\ ToSet(h) = ToSet(d) \cap S /\ Len(h) = Cardinality(P)
  BY <1>1, HeldEmbeds
<1> HIDE DEF h, P, at
<1>10. ~Placed(p, h)
  <2>1. p \notin ToSet(h)
    BY <1>9
  <2> QED  BY <1>9, <2>1, Stands DEF Curated
<1>11. p \in Pid
  BY <1>5, <1>6
<1>12. to \in 1..(Len(h) + 1)
  BY <1>3, <1>5, <1>8, <1>9
<1>13. Curated(InsertAt(h, to, p)) /\ ToSet(InsertAt(h, to, p)) = ToSet(h) \cup {p}
  BY <1>9, <1>10, <1>11, <1>12, InsertEmbeds
<1> QED  BY <1>1, <1>2, <1>4, <1>9, <1>13 DEF d

LEMMA CuratedServiceVerb == ASSUME CurInv, ServiceVerb PROVE CurInv'
<1> "service" \in Program
  BY DEF Program
<1>1. ASSUME NEW p \in Pid \cup {None}, Create(p) PROVE CurInv'
  BY <1>1, PlainBegins, PlainCurated DEF Create
<1>2. ASSUME NEW p \in Pid, Settle("service", p) PROVE CurInv'
  BY <1>2, PlainBegins, PlainCurated DEF Settle
<1>3. ASSUME NEW p \in Pid, Delete(p) PROVE CurInv'
  BY <1>3, PlainBegins, PlainCurated DEF Delete
<1>4. ASSUME Save PROVE CurInv'
  <2> DEFINE w == Writing(Job("save", "writing", draft.pid, {}), <<<<draft.pid, draft.doc>>>>)
             read == [NothingRead EXCEPT ![draft.pid] = draft.doc]
             k == [w EXCEPT !.read = read]
  <2>1. Plain(w) /\ Begins("service", k)
    BY <1>4, PlainCurated DEF Save
  <2> HIDE DEF w, read
  <2>2. Plain(k)
    BY <2>1 DEF Plain, Idle
  <2> QED  BY <2>1, <2>2, PlainBegins
<1>5. ASSUME NEW seq \in SetToSeqs(Actives), SetOrder(seq) PROVE CurInv'
  <2> DEFINE k == [Idle EXCEPT !.verb = "set", !.phase = "setting", !.actives = Actives,
                               !.order = seq]
  <2>1. Begins("service", k)
    BY <1>5 DEF SetOrder
  <2>2. Actives \in SUBSET Pid
    BY DEF Actives, OnDisk
  <2>3. Curated(seq)
    BY <1>5, <2>2, ChosenCurated
  <2>4. k.id = None /\ k.actives = Actives /\ k.order = seq /\ k.supersedes = <<>>
    BY DEF Idle
  <2> HIDE DEF k
  <2>5. CuratedJob(k)
    BY <2>2, <2>3, <2>4 DEF CuratedJob, None
  <2> QED  BY <2>1, <2>5, CuratedBegins
<1> QED  BY <1>1, <1>2, <1>3, <1>4, <1>5 DEF ServiceVerb

LEMMA CuratedPipelineVerb == ASSUME CurInv, PipelineVerb PROVE CurInv'
<1> "pipeline" \in Program
  BY DEF Program
<1>1. ASSUME NEW verb, New(verb) PROVE CurInv'
  BY <1>1, PlainBegins, PlainCurated DEF New
<1>2. ASSUME NEW p \in Pid, UpdateProposes(p) PROVE CurInv'
  BY <1>2, PlainBegins, PlainCurated DEF UpdateProposes
<1>3. ASSUME NEW p \in Pid, UpdateDecomposes(p) PROVE CurInv'
  BY <1>3, PlainBegins, PlainCurated DEF UpdateDecomposes
<1>4. ASSUME NEW p \in Pid, RemoveProcess(p) PROVE CurInv'
  BY <1>4, PlainBegins, PlainCurated DEF RemoveProcess
<1>5. ASSUME NEW p \in Pid, Settle("pipeline", p) PROVE CurInv'
  BY <1>5, PlainBegins, PlainCurated DEF Settle
<1>6. ASSUME NEW p \in Pid, NEW c \in Pid, Attach(p, c) PROVE CurInv'
  <2> DEFINE k == Job("attach", "writing", p, {p, c})
             j == [k EXCEPT !.other = c]
  <2>1. Plain(k)
    BY PlainCurated
  <2>2. PICK todo : Begins("pipeline", Writing(j, todo))
    BY <1>6 DEF Attach
  <2> HIDE DEF k
  <2>3. Plain(j)
    BY <2>1 DEF Plain, Idle
  <2> HIDE DEF j
  <2> QED  BY <2>2, <2>3, PlainCurated, PlainBegins
<1>7. ASSUME NEW p \in Pid, NEW to \in Pid, MoveInOrder(p, to) PROVE CurInv'
  <2> DEFINE seq == Moved(Dedup(order), p, to)
             k == [Idle EXCEPT !.verb = "move", !.phase = "setting",
                               !.actives = ToSet(order), !.order = seq]
  <2>1. Begins("pipeline", k) /\ Placed(p, order) /\ to \in DOMAIN Dedup(order)
    BY <1>7 DEF MoveInOrder
  <2>2. Curated(order)
    BY DEF CurInv
  <2>3. Curated(seq)
    BY <2>1, <2>2, MovedCurated
  <2> HIDE DEF seq
  <2>4. ToSet(order) \subseteq Pid
    BY <2>2, PlacesParts DEF Curated, ToSet
  <2>5. k.id = None /\ k.actives = ToSet(order) /\ k.order = seq /\ k.supersedes = <<>>
    BY DEF Idle
  <2> HIDE DEF k
  <2>6. CuratedJob(k)
    BY <2>3, <2>4, <2>5 DEF CuratedJob, None
  <2> QED  BY <2>1, <2>6, CuratedBegins
<1>8. ASSUME NEW s \in Plan, NEW c \in Pid \cup {None}, Restructure(s, c) PROVE CurInv'
  <2> DEFINE k == Job("restructure", "allocating", None, {})
             j == [k EXCEPT !.supersedes = s, !.other = c]
  <2>1. Plain(k) /\ k.verb = "restructure"
    <3>1. Plain(k)
      BY PlainCurated
    <3>2. k.verb = "restructure"
      BY DEF Job, Idle
    <3> QED  BY <3>1, <3>2
  <2>2. Begins("pipeline", j)
    BY <1>8 DEF Restructure
  <2> HIDE DEF k
  <2>3. j.id = None /\ j.actives = {} /\ j.order = <<>> /\ j.verb = "restructure"
    BY <2>1 DEF Plain, Idle
  <2> HIDE DEF j
  <2>4. CuratedJob(j)
    BY <2>3, EmptyCurated DEF CuratedJob, None
  <2> QED  BY <2>2, <2>4, CuratedBegins
<1> QED  BY <1>1, <1>2, <1>3, <1>4, <1>5, <1>6, <1>7, <1>8 DEF PipelineVerb

\* A step that keeps of a job what its sequence is made from.
LEMMA SameCurated ==
    ASSUME NEW j, CuratedJob(j), NEW k,
           k.id = j.id, k.actives = j.actives, k.order = j.order,
           k.supersedes = j.supersedes, k.verb = j.verb
    PROVE  CuratedJob(k)
BY DEF CuratedJob

LEMMA SyncCurated ==
    ASSUME CurInv, NEW a \in Program, job[a].subject \in Nat, SyncWrites(a)
    PROVE  LET j == job[a] IN
           Curated(order') /\ ToSet(order') = j.actives /\ KeepsOrder(j.order, order')
           /\ TakesPlace(j.order, order', j.id, ToSet(j.supersedes))
<1> DEFINE j == job[a]
           s == j.order
           r == Reconciled(j.actives, s, HeirHints(j), ChildHints(j))
           old == ToSet(j.supersedes)
<1>1. Curated(s) /\ j.actives \in SUBSET Pid /\ j.id \in Nat /\ j.subject \in Nat
      /\ (j.supersedes # <<>> => j.verb = "restructure")
  BY DEF CurInv, CuratedJob
<1>2. order' = r
  BY DEF SyncWrites
<1>3. CASE j.verb = "restructure" /\ j.supersedes # <<>>
  <2>1. HeirHints(j) = [x \in {j.id} |-> old] /\ ChildHints(j) = NoHints
    BY <1>3 DEF HeirHints, ChildHints
  <2>2. r = Reconciled(j.actives, s, [x \in {j.id} |-> old], NoHints)
    BY <2>1
  <2> HIDE DEF j, s, r, old
  <2>3. Curated(r) /\ ToSet(r) = j.actives /\ KeepsOrder(s, r) /\ TakesPlace(s, r, j.id, old)
    <3> DEFINE A == j.actives
               h == j.id
    <3>1. A \in SUBSET Pid /\ h \in Nat /\ r = Reconciled(A, s, [x \in {h} |-> old], NoHints)
      BY <1>1, <2>2
    <3> HIDE DEF A, h
    <3>2. Curated(r) /\ ToSet(r) = A /\ KeepsOrder(s, r) /\ TakesPlace(s, r, h, old)
      <4>1. /\ Syncs(s, A, Reconciled(A, s, [x \in {h} |-> old], NoHints))
            /\ TakesPlace(s, Reconciled(A, s, [x \in {h} |-> old], NoHints), h, old)
        BY <1>1, <3>1, HeirReconciled
      <4> QED  BY <3>1, <4>1, Zenon DEF Syncs
    <3> QED  BY <3>2 DEF h, A
  <2> QED  BY <1>2, <2>3 DEF j, s, old
<1>4. CASE ~(j.verb = "restructure" /\ j.supersedes # <<>>)
  <2>1. HeirHints(j) = NoHints /\ old = {}
    <3>1. j.supersedes = <<>>
      BY <1>1, <1>4
    <3> QED  BY <1>4, <3>1 DEF HeirHints, ToSet
  <2>2. Curated(r) /\ ToSet(r) = j.actives /\ KeepsOrder(s, r)
    <3>1. CASE j.verb = "update" /\ j.id # None
      <4>1. r = Reconciled(j.actives, s, NoHints, [x \in {j.subject} |-> {j.id}])
        BY <2>1, <3>1 DEF ChildHints
      <4> DEFINE p == j.subject
                 c == j.id
                 A == j.actives
                 hints == [x \in {p} |-> {c}]
      <4>2. /\ r = Reconciled(A, s, NoHints, hints) /\ hints = [x \in {p} |-> {c}]
            /\ p \in Nat /\ c \in Nat /\ A \in SUBSET Pid
        BY <1>1, <4>1
      <4> HIDE DEF p, c, A, hints
      <4> HIDE DEF j, s, r
      <4>3. Curated(s)
        BY <1>1
      <4>4. Syncs(s, A, Reconciled(A, s, NoHints, hints))
        BY <4>2, <4>3, ChildReconciled
      <4>5. Curated(r) /\ ToSet(r) = A /\ KeepsOrder(s, r)
        BY <4>2, <4>4, Zenon DEF Syncs
      <4> QED  BY <4>5 DEF A
    <3>2. CASE ~(j.verb = "update" /\ j.id # None)
      <4>1. r = Reconciled(j.actives, s, NoHints, NoHints)
        BY <2>1, <3>2 DEF ChildHints
      <4> DEFINE A == j.actives
      <4> HIDE DEF j, s, r
      <4>2. A \in SUBSET Pid /\ r = Reconciled(A, s, NoHints, NoHints)
        BY <1>1, <4>1
      <4> HIDE DEF A
      <4>3. Syncs(s, A, Reconciled(A, s, NoHints, NoHints))
        BY <1>1, <4>2, PlainReconciled
      <4>4. Curated(r) /\ ToSet(r) = A /\ KeepsOrder(s, r)
        BY <4>2, <4>3, Zenon DEF Syncs
      <4> QED  BY <4>4 DEF A
    <3> QED  BY <3>1, <3>2
  <2> HIDE DEF r
  <2>3. TakesPlace(s, r, j.id, old)
    BY <2>1 DEF TakesPlace
  <2> QED  BY <1>2, <2>2, <2>3
<1> QED  BY <1>3, <1>4

LEMMA CuratedInnerStep ==
    ASSUME CurInv, HeirInv, NEW a \in Program,
           \/ MintReads(a) \/ MintOpens(a) \/ MintWrites(a) \/ Writes(a)
           \/ SyncReads(a) \/ SyncWrites(a) \/ OrderSet(a) \/ Stops(a)
    PROVE  CurInv'
<1> DEFINE j == job[a]
<1>0. DOMAIN j = DOMAIN Idle /\ DOMAIN job = Program /\ CuratedJob(j) /\ Curated(order)
      /\ j.subject \in Pid \cup {None} /\ CuratedJob(Idle)
  BY PlainCurated DEF HeirInv, HonestJob, MintsUnder, Loaded, Formed, CurInv
<1>1. CASE MintReads(a)
  <2>1. PICK n \in Pid : job' = [job EXCEPT ![a].id = n, ![a].phase = "minting"]
    BY <1>1 DEF MintReads
  <2> DEFINE k == [j EXCEPT !.id = n, !.phase = "minting"]
  <2>2. job' = [job EXCEPT ![a] = k] /\ order' = order
    BY <1>0, <1>1, <2>1 DEF MintReads, files
  <2>3. k.id = n /\ k.actives = j.actives /\ k.order = j.order /\ k.supersedes = j.supersedes
        /\ k.verb = j.verb
    BY <1>0 DEF Idle
  <2> HIDE DEF k
  <2>4. CuratedJob(k)
    BY <1>0, <2>3, PidIsFinite DEF CuratedJob
  <2> QED  BY <1>0, <2>2, <2>4, CuratedStep
<1>2. CASE MintWrites(a)
  <2> DEFINE k == Minted(j)
  <2>1. job' = [job EXCEPT ![a] = k] /\ order' = order
    BY <1>2 DEF MintWrites
  <2>2. /\ k.id = j.id /\ k.actives = j.actives /\ k.order = j.order /\ k.supersedes = j.supersedes
        /\ k.verb = j.verb \/ (j.verb = "nest" /\ k.verb = "new")
    BY <1>0 DEF Idle, Minted, Writing
  <2> HIDE DEF k, j
  <2>3. CuratedJob(k)
    BY <1>0, <2>2 DEF CuratedJob
  <2> QED  BY <1>0, <2>1, <2>3, CuratedStep
<1>8. CASE MintOpens(a)
  <2> DEFINE k == [j EXCEPT !.phase = "storing"]
  <2>1. job' = [job EXCEPT ![a] = k] /\ order' = order
    BY <1>0, <1>8 DEF MintOpens
  <2>2. k.id = j.id /\ k.actives = j.actives /\ k.order = j.order
        /\ k.supersedes = j.supersedes /\ k.verb = j.verb
    BY <1>0 DEF Idle
  <2> HIDE DEF k, j
  <2>3. CuratedJob(k)
    BY <1>0, <2>2, SameCurated
  <2> QED  BY <1>0, <2>1, <2>3, CuratedStep
<1>3. CASE Writes(a)
  <2> DEFINE p == j.todo[1][1]
             rest == [j EXCEPT !.todo = Tail(@), !.read[p] = j.todo[1][2]]
             k == IF Len(j.todo) = 1 THEN AfterWriting(j) ELSE rest
  <2>1. job' = [job EXCEPT ![a] = k] /\ order' = order
    BY <1>3 DEF Writes
  <2>2. CuratedJob(AfterWriting(j))
    <3>1. CASE j.verb = "save"
      BY <1>0, <3>1 DEF AfterWriting
    <3>2. CASE j.verb # "save"
      <4> DEFINE e == AfterWriting(j)
      <4>1. e.id = j.id /\ e.actives = j.actives /\ e.order = j.order
            /\ e.supersedes = j.supersedes /\ e.verb = j.verb
        BY <1>0, <3>2 DEF Idle, AfterWriting
      <4> HIDE DEF e, j
      <4>2. CuratedJob(e)
        BY <1>0, <4>1, SameCurated
      <4> QED  BY <4>2 DEF e
    <3> QED  BY <3>1, <3>2
  <2>3. rest.id = j.id /\ rest.actives = j.actives /\ rest.order = j.order
        /\ rest.supersedes = j.supersedes /\ rest.verb = j.verb
    BY <1>0 DEF Idle
  <2> HIDE DEF rest, j
  <2>4. CuratedJob(rest)
    BY <1>0, <2>3, SameCurated
  <2>5. CuratedJob(k)
    BY <2>2, <2>4
  <2> HIDE DEF k
  <2> QED  BY <1>0, <2>1, <2>5, CuratedStep
<1>4. CASE SyncReads(a)
  <2> DEFINE k == [j EXCEPT !.phase = "ordering", !.actives = Actives, !.order = order]
  <2>1. job' = [job EXCEPT ![a] = k] /\ order' = order
    BY <1>0, <1>4 DEF SyncReads, files
  <2>2. k.id = j.id /\ k.actives = Actives /\ k.order = order /\ k.supersedes = j.supersedes
        /\ k.verb = j.verb
    BY <1>0 DEF Idle
  <2> HIDE DEF k
  <2>3. Actives \subseteq Pid
    BY DEF Actives, OnDisk
  <2>4. CuratedJob(k)
    BY <1>0, <2>2, <2>3 DEF CuratedJob
  <2> QED  BY <1>0, <2>1, <2>4, CuratedStep
<1>5. CASE SyncWrites(a)
  <2>1. j.subject \in Nat
    <3>1. Pid \in SUBSET Nat /\ None \in Nat
      BY PidIsFinite DEF None
    <3> QED  BY <1>0, <3>1
  <2>2. Curated(order')
    BY <1>5, <2>1, SyncCurated
  <2>3. job' = [job EXCEPT ![a] = Idle]
    BY <1>5 DEF SyncWrites
  <2> QED  BY <1>0, <2>2, <2>3, CuratedStep
<1>6. CASE OrderSet(a)
  <2>1. job' = [job EXCEPT ![a] = Idle] /\ order' = j.order
    BY <1>6 DEF OrderSet
  <2>2. Curated(order')
    BY <1>0, <2>1 DEF CuratedJob
  <2> QED  BY <1>0, <2>1, <2>2, CuratedStep
<1>7. CASE Stops(a)
  <2>1. job' = [job EXCEPT ![a] = Idle] /\ order' = order
    BY <1>7 DEF Stops, files
  <2> QED  BY <1>0, <2>1, CuratedStep
<1> QED  BY <1>1, <1>2, <1>3, <1>4, <1>5, <1>6, <1>7, <1>8

LEMMA CuratedOwnStep ==
    ASSUME CurInv, HeirInv,
           RestructureLoads \/ RestructureRefused \/ SweepReads \/ SweepWrites \/ SweepEnds
    PROVE  CurInv'
<1> DEFINE s == job["service"]
           q == job["pipeline"]
<1>0. /\ "service" \in Program /\ "pipeline" \in Program /\ DOMAIN job = Program
      /\ DOMAIN s = DOMAIN Idle /\ DOMAIN q = DOMAIN Idle
      /\ CuratedJob(s) /\ CuratedJob(q) /\ CuratedJob(Idle) /\ Curated(order)
  BY PlainCurated DEF HeirInv, HonestJob, MintsUnder, Loaded, Formed, CurInv, Program
<1>1. CASE RestructureLoads
  <2>1. PICK read, todo :
            job' = [job EXCEPT !["pipeline"] = Writing([q EXCEPT !.read = read], todo)]
    BY <1>1 DEF RestructureLoads
  <2> DEFINE k == Writing([q EXCEPT !.read = read], todo)
  <2>2. k.id = q.id /\ k.actives = q.actives /\ k.order = q.order
        /\ k.supersedes = q.supersedes /\ k.verb = q.verb
    BY <1>0 DEF Idle, Writing
  <2>3. order' = order
    BY <1>1 DEF RestructureLoads, files
  <2> HIDE DEF k
  <2>4. CuratedJob(k)
    <3> HIDE DEF q
    <3> QED  BY <1>0, <2>2, SameCurated
  <2> QED  BY <1>0, <2>1, <2>3, <2>4, CuratedStep DEF k
<1>2. CASE RestructureRefused
  <2>1. job' = [job EXCEPT !["pipeline"] = Idle] /\ order' = order
    BY <1>2 DEF RestructureRefused, files
  <2> QED  BY <1>0, <2>1, CuratedStep
<1>3. CASE SweepReads
  <2> DEFINE p == s.other + 1
             seen == [s EXCEPT !.other = p]
             found == [s EXCEPT !.other = p, !.read[p] = doc[p],
                                !.todo = <<<<p, Swept(doc[p], s.subject)>>>>]
             k == IF doc[p] # NoDoc /\ Swept(doc[p], s.subject) # doc[p] THEN found ELSE seen
  <2>1. job' = [job EXCEPT !["service"] = k] /\ order' = order
    BY <1>3 DEF SweepReads, files
  <2>2. seen.id = s.id /\ seen.actives = s.actives /\ seen.order = s.order
        /\ seen.supersedes = s.supersedes /\ seen.verb = s.verb
    BY <1>0 DEF Idle
  <2>3. found.id = s.id /\ found.actives = s.actives /\ found.order = s.order
        /\ found.supersedes = s.supersedes /\ found.verb = s.verb
    BY <1>0 DEF Idle
  <2> HIDE DEF seen, found
  <2>4. k.id = s.id /\ k.actives = s.actives /\ k.order = s.order
        /\ k.supersedes = s.supersedes /\ k.verb = s.verb
    BY <2>2, <2>3
  <2> HIDE DEF k
  <2>5. CuratedJob(k)
    <3> HIDE DEF s
    <3> QED  BY <1>0, <2>4, SameCurated
  <2> QED  BY <1>0, <2>1, <2>5, CuratedStep
<1>4. CASE SweepWrites
  <2>1. PICK p : job' = [job EXCEPT !["service"].todo = <<>>, !["service"].read[p] = NoDoc]
    BY <1>4 DEF SweepWrites
  <2> DEFINE k == [s EXCEPT !.todo = <<>>, !.read[p] = NoDoc]
  <2>2. job' = [job EXCEPT !["service"] = k] /\ order' = order
    BY <1>0, <1>4, <2>1 DEF SweepWrites, Idle
  <2>3. k.id = s.id /\ k.actives = s.actives /\ k.order = s.order
        /\ k.supersedes = s.supersedes /\ k.verb = s.verb
    BY <1>0 DEF Idle
  <2> HIDE DEF k
  <2>4. CuratedJob(k)
    <3> HIDE DEF s
    <3> QED  BY <1>0, <2>3, SameCurated
  <2> QED  BY <1>0, <2>2, <2>4, CuratedStep
<1>5. CASE SweepEnds
  <2> DEFINE k == [s EXCEPT !.phase = "syncing"]
  <2>1. job' = [job EXCEPT !["service"] = k] /\ order' = order
    BY <1>0, <1>5 DEF SweepEnds, files
  <2>2. k.id = s.id /\ k.actives = s.actives /\ k.order = s.order
        /\ k.supersedes = s.supersedes /\ k.verb = s.verb
    BY <1>0 DEF Idle
  <2> HIDE DEF k
  <2>3. CuratedJob(k)
    <3> HIDE DEF s
    <3> QED  BY <1>0, <2>2, SameCurated
  <2> QED  BY <1>0, <2>1, <2>3, CuratedStep
<1> QED  BY <1>1, <1>2, <1>3, <1>4, <1>5

LEMMA CuratedNext == HeirInv /\ CurInv /\ [Next]_vars => CurInv'
<1> SUFFICES ASSUME HeirInv, CurInv, [Next]_vars PROVE CurInv'
  OBVIOUS
<1>1. CASE ServiceVerb \/ PipelineVerb
  BY <1>1, CuratedServiceVerb, CuratedPipelineVerb
<1>2. ASSUME UNCHANGED <<order, job>> PROVE CurInv'
  BY <1>2 DEF CurInv, CuratedJob, Curated, Once
<1>3. ASSUME NEW p \in Pid, ClientLoads(p) PROVE CurInv'
  BY <1>2, <1>3 DEF ClientLoads, files
<1>4. ASSUME NEW a \in Program,
             \/ MintReads(a) \/ MintOpens(a) \/ MintWrites(a) \/ Writes(a)
             \/ SyncReads(a) \/ SyncWrites(a) \/ OrderSet(a) \/ Stops(a)
      PROVE  CurInv'
  BY <1>4, CuratedInnerStep
<1>5. CASE RestructureLoads \/ RestructureRefused \/ SweepReads \/ SweepWrites \/ SweepEnds
  BY <1>5, CuratedOwnStep
<1>6. CASE UNCHANGED vars
  BY <1>2, <1>6 DEF vars, files
<1> QED  BY <1>1, <1>3, <1>4, <1>5, <1>6 DEF Next

LEMMA CuratedInit == Init => CurInv
<1> SUFFICES ASSUME Init PROVE CurInv
  OBVIOUS
<1>1. 1..Existing \in SUBSET Pid
  BY StoreAssumption DEF Pid
<1>2. order = InIdOrder(1..Existing) /\ job = [a \in Program |-> Idle]
  BY DEF Init
<1>3. Curated(order)
  BY <1>1, <1>2, InIdOrderIs
<1>4. CuratedJob(Idle)
  BY PlainCurated
<1> QED  BY <1>2, <1>3, <1>4 DEF CurInv

LEMMA KeptByStep ==
    ASSUME HeirInv, CurInv, [Next]_vars, NEW a \in Program
    PROVE  KeepsCuration(a)
<1> DEFINE j == job[a]
<1>1. SUFFICES ASSUME j.phase = "ordering", job'[a] = Idle, order' # order, order = j.order
               PROVE  KeepsCuration(a)
  BY DEF KeepsCuration
<1>2. j # Idle /\ DOMAIN job = Program /\ j.subject \in Nat
  <2>1. j.subject \in Pid \cup {None} /\ DOMAIN job = Program
    BY DEF HeirInv, HonestJob, MintsUnder, Loaded
  <2>2. Pid \in SUBSET Nat /\ None \in Nat
    BY PidIsFinite DEF None
  <2>3. j # Idle
    BY <1>1 DEF Idle
  <2> QED  BY <2>1, <2>2, <2>3
<1>3. SyncWrites(a)
  <2>1. ASSUME NEW b \in Program, SyncWrites(b) \/ OrderSet(b) PROVE SyncWrites(a)
    <3>1. b = a
      BY <1>1, <1>2, <2>1 DEF SyncWrites, OrderSet
    <3>2. ~OrderSet(b)
      BY <1>1, <3>1 DEF OrderSet
    <3> QED  BY <2>1, <3>1, <3>2
  <2>2. ASSUME order' = order PROVE SyncWrites(a)
    BY <1>1, <2>2
  <2>3. CASE ServiceVerb \/ PipelineVerb
    BY <2>2, <2>3 DEF ServiceVerb, PipelineVerb, Create, Settle, Delete, Save, SetOrder, New,
        UpdateProposes, UpdateDecomposes, RemoveProcess, Attach, MoveInOrder, Restructure,
        Begins, files
  <2>4. ASSUME NEW p \in Pid, ClientLoads(p) PROVE SyncWrites(a)
    BY <2>2, <2>4 DEF ClientLoads, files
  <2>5. ASSUME NEW b \in Program,
               \/ MintReads(b) \/ MintOpens(b) \/ MintWrites(b)
               \/ Writes(b) \/ SyncReads(b) \/ Stops(b)
        PROVE  SyncWrites(a)
    BY <2>2, <2>5 DEF MintReads, MintOpens, MintWrites, Writes, SyncReads, Stops, files
  <2>6. CASE RestructureLoads \/ RestructureRefused \/ SweepReads \/ SweepWrites \/ SweepEnds
    BY <2>2, <2>6 DEF RestructureLoads, RestructureRefused, SweepReads, SweepWrites, SweepEnds,
        files
  <2>7. CASE UNCHANGED vars
    BY <2>2, <2>7 DEF vars, files
  <2> QED  BY <2>1, <2>3, <2>4, <2>5, <2>6, <2>7 DEF Next
<1>4. KeepsOrder(order, order') /\ TakesPlace(order, order', j.id, ToSet(j.supersedes))
  BY <1>1, <1>2, <1>3, SyncCurated
<1> QED  BY <1>4 DEF KeepsCuration, KeepsOrder, TakesPlace

\* Reconciling order.json keeps what an editor curated: a sync that lands on
\* the sequence it read leaves what stays in its order (reconcile inserts
\* before it drops), and an heir takes the lowest place held by anything it
\* supersedes.
THEOREM CurationIsAlwaysKept == Spec => CurationKept
<1>1. HeirInv /\ CurInv /\ [Next]_vars => [\A a \in Program : KeepsCuration(a)]_<<order, job>>
  BY KeptByStep
<1> QED  BY <1>1, HeirsInit, HeirsStep, CuratedInit, CuratedNext, PTL DEF Spec, CurationKept

-----------------------------------------------------------------------------
(* The way up: what is above a process, and what a changed parent does to  *)
(* it.                                                                     *)

Docs == [Pid -> Doc \cup {NoDoc}]

\* The way up from p in the documents d, None after its end.
WayUp(w, d, p) ==
    /\ w \in [0..(MaxId + 1) -> Pid \cup {None}]
    /\ w[0] = p
    /\ \A i \in 1..(MaxId + 1) : w[i] = ParentIn(d, w[i - 1])

IsMet(met, d, p) ==
    met = [n \in 1..(MaxId + 1) |-> ParentIn(d, IF n = 1 THEN p ELSE met[n - 1])]

LEMMA ParentIsNamed ==
    ASSUME NEW d \in Docs, NEW p
    PROVE  ParentIn(d, p) \in Pid \cup {None} /\ ParentIn(d, None) = None
<1>1. None \notin Pid
  BY PidIsFinite
<1>2. \A x \in Doc : x.parent \in Pid \cup {None}
  BY DEF Doc
<1> QED  BY <1>1, <1>2 DEF ParentIn, Docs

LEMMA WayUpExists ==
    ASSUME NEW d \in Docs, NEW p \in Pid \cup {None}
    PROVE  \E w : WayUp(w, d, p)
<1> DEFINE T == Pid \cup {None}
           step == [x \in Nat \X T |-> ParentIn(d, x[2])]
<1>1. step \in [Nat \X T -> T]
  BY ParentIsNamed
<1>2. \A i \in Nat, q \in T : step[<<i, q>>] = ParentIn(d, q)
  OBVIOUS
<1> HIDE DEF step
<1>3. MaxId + 1 \in Nat
  BY StoreAssumption
<1>4. PICK w : IsRun(w, T, p, step, MaxId + 1)
  BY <1>1, <1>3, RunExists
<1>5. \A i \in 1..(MaxId + 1) : w[i] = ParentIn(d, w[i - 1])
  <2>1. \A i \in 1..(MaxId + 1) : i \in Nat /\ i - 1 \in 0..(MaxId + 1)
    BY <1>3
  <2> QED  BY <1>2, <1>4, <2>1 DEF IsRun
<1> QED  BY <1>4, <1>5 DEF IsRun, WayUp

\* What is above p is what its way up meets.
LEMMA AboveIsTheWay ==
    ASSUME NEW d \in Docs, NEW p \in Pid \cup {None}, NEW w, WayUp(w, d, p)
    PROVE  Above(d, p) = {w[i] : i \in 1..(MaxId + 1)} \ {None}
<1> DEFINE last == MaxId + 1
           g == [n \in 1..last |-> w[n]]
<1>0. last \in Nat /\ 1..last \subseteq Nat
  BY StoreAssumption
<1>1. \A n \in 1..last : w[n] = ParentIn(d, IF n = 1 THEN p ELSE w[n - 1])
  BY <1>0 DEF WayUp
<1>2. IsMet(g, d, p)
  <2>1. \A n \in 1..last : n = 1 \/ n - 1 \in 1..last
    BY <1>0
  <2>2. g = [n \in 1..last |-> ParentIn(d, IF n = 1 THEN p ELSE g[n - 1])]
    BY <1>1, <2>1
  <2> QED  BY <2>2 DEF IsMet
<1>3. ASSUME NEW f, IsMet(f, d, p) PROVE \A n \in 1..last : f[n] = w[n]
  <2> DEFINE S == {n \in Nat : n = 0 \/ f[n] = w[n]}
  <2>1. \A n \in 1..last : f[n] = ParentIn(d, IF n = 1 THEN p ELSE f[n - 1])
    BY <1>3 DEF IsMet
  <2>2. 0 \in S
    OBVIOUS
  <2>3. \A n \in 1..last : n - 1 \in S => n \in S
    <3> SUFFICES ASSUME NEW n \in 1..last, n - 1 \in S PROVE f[n] = w[n]
      BY <1>0
    <3>1. CASE n = 1
      BY <1>1, <2>1, <3>1
    <3>2. CASE n # 1
      <4>1. f[n - 1] = w[n - 1]
        BY <1>0, <3>2
      <4> QED  BY <1>1, <2>1, <3>2, <4>1
    <3> QED  BY <3>1, <3>2
  <2>4. S \in SUBSET Nat
    OBVIOUS
  <2> HIDE DEF S, last
  <2>5. 0..last \subseteq S
    BY <1>0, <2>2, <2>3, <2>4, UpTo
  <2>6. \A n \in 1..last : n \in S /\ n # 0
    BY <1>0, <2>5
  <2> QED  BY <2>6 DEF S
<1>4. Climb(d, p) = [n \in 1..last |-> (CHOOSE met : IsMet(met, d, p))[n]]
  BY DEF Climb, IsMet
<1>5. Climb(d, p) = g
  BY <1>2, <1>3, <1>4
<1>6. ToSet(g) = {w[i] : i \in 1..last}
  BY DEF ToSet
<1> QED  BY <1>5, <1>6 DEF Above

\* The same ways as far as they are the same.
LEMMA SameWay ==
    ASSUME NEW d \in Docs, NEW e \in Docs, NEW p \in Pid \cup {None}, NEW c,
           NEW w, WayUp(w, d, p), NEW v, WayUp(v, e, p),
           \A q \in Pid \ {c} : ParentIn(e, q) = ParentIn(d, q),
           NEW m \in 0..(MaxId + 1), \A i \in 0..(m - 1) : w[i] # c
    PROVE  \A i \in 0..m : v[i] = w[i]
<1> DEFINE S == {i \in Nat : v[i] = w[i]}
<1>0. MaxId + 1 \in Nat /\ m \in Nat
  BY StoreAssumption
<1>1. 0 \in S
  BY DEF WayUp
<1>2. \A i \in 1..m : i - 1 \in S => i \in S
  <2> SUFFICES ASSUME NEW i \in 1..m, v[i - 1] = w[i - 1] PROVE v[i] = w[i]
    BY <1>0
  <2>1. i \in 1..(MaxId + 1) /\ i - 1 \in 0..(m - 1) /\ i - 1 \in 0..(MaxId + 1)
    BY <1>0
  <2>2. v[i] = ParentIn(e, w[i - 1]) /\ w[i] = ParentIn(d, w[i - 1]) /\ w[i - 1] \in Pid \cup {None}
    BY <2>1 DEF WayUp
  <2>3. ParentIn(e, None) = None /\ ParentIn(d, None) = None
    BY ParentIsNamed
  <2>4. w[i - 1] # c
    BY <2>1
  <2> QED  BY <2>2, <2>3, <2>4
<1>3. S \in SUBSET Nat
  OBVIOUS
<1> HIDE DEF S
<1>4. 0..m \subseteq S
  BY <1>0, <1>1, <1>2, <1>3, UpTo
<1> QED  BY <1>4 DEF S

\* A way that passes q goes on as the way up from q does.
LEMMA WayGoesOn ==
    ASSUME NEW d \in Docs, NEW p, NEW q, NEW w, WayUp(w, d, p), NEW v, WayUp(v, d, q),
           NEW i \in 0..(MaxId + 1), w[i] = q
    PROVE  \A k \in 0..(MaxId + 1) : i + k <= MaxId + 1 => w[i + k] = v[k]
<1> DEFINE S == {k \in Nat : i + k <= MaxId + 1 => w[i + k] = v[k]}
           n == MaxId + 1
<1>0. n \in Nat /\ i \in Nat
  BY StoreAssumption
<1>1. 0 \in S
  BY <1>0 DEF WayUp
<1>2. \A k \in 1..n : k - 1 \in S => k \in S
  <2> SUFFICES ASSUME NEW k \in 1..n, k - 1 \in S, i + k <= n PROVE w[i + k] = v[k]
    BY <1>0
  <2>1. i + (k - 1) <= n /\ i + k \in 1..n /\ (i + k) - 1 = i + (k - 1)
    BY <1>0
  <2>2. w[i + (k - 1)] = v[k - 1]
    BY <2>1
  <2> QED  BY <2>1, <2>2 DEF WayUp
<1>3. S \in SUBSET Nat
  OBVIOUS
<1> HIDE DEF S
<1>4. 0..n \subseteq S
  BY <1>0, <1>1, <1>2, <1>3, UpTo
<1> QED  BY <1>4 DEF S

\* Whoever is not on the way does not change it.
LEMMA ElsewhereAbove ==
    ASSUME NEW d \in Docs, NEW e \in Docs, NEW p \in Pid \cup {None}, NEW c, c # None,
           \A q \in Pid \ {c} : ParentIn(e, q) = ParentIn(d, q),
           c # p, c \notin Above(d, p)
    PROVE  Above(e, p) = Above(d, p)
<1>1. PICK w : WayUp(w, d, p)
  BY WayUpExists
<1>2. PICK v : WayUp(v, e, p)
  BY WayUpExists
<1> DEFINE n == MaxId + 1
<1>0. n \in Nat
  BY StoreAssumption
<1>3. Above(d, p) = {w[i] : i \in 1..n} \ {None} /\ Above(e, p) = {v[i] : i \in 1..n} \ {None}
  BY <1>1, <1>2, AboveIsTheWay
<1>4. \A i \in 0..(n - 1) : w[i] # c
  <2>1. \A i \in 0..(n - 1) : i = 0 \/ i \in 1..n
    BY <1>0
  <2>2. w[0] = p
    BY <1>1 DEF WayUp
  <2> QED  BY <1>3, <2>1, <2>2
<1>5. n \in 0..(MaxId + 1)
  BY <1>0
<1>7. 1..n \subseteq 0..n
  BY <1>0
<1> HIDE DEF n
<1>6. \A i \in 0..n : v[i] = w[i]
  BY <1>1, <1>2, <1>4, <1>5, SameWay
<1> QED  BY <1>3, <1>6, <1>7

\* Where parents go, less is above.
LEMMA CutAbove ==
    ASSUME NEW d \in Docs, NEW e \in Docs, NEW p \in Pid \cup {None},
           \A q \in Pid : ParentIn(e, q) \in {ParentIn(d, q), None}
    PROVE  Above(e, p) \subseteq Above(d, p)
<1>1. PICK w : WayUp(w, d, p)
  BY WayUpExists
<1>2. PICK v : WayUp(v, e, p)
  BY WayUpExists
<1> DEFINE n == MaxId + 1
           S == {i \in Nat : v[i] \in {w[i], None}}
<1>0. n \in Nat
  BY StoreAssumption
<1>3. Above(d, p) = {w[i] : i \in 1..n} \ {None} /\ Above(e, p) = {v[i] : i \in 1..n} \ {None}
  BY <1>1, <1>2, AboveIsTheWay
<1>4. 0 \in S
  BY <1>1, <1>2 DEF WayUp
<1>5. \A i \in 1..n : i - 1 \in S => i \in S
  <2> SUFFICES ASSUME NEW i \in 1..n, v[i - 1] \in {w[i - 1], None} PROVE v[i] \in {w[i], None}
    BY <1>0
  <2>1. v[i] = ParentIn(e, v[i - 1]) /\ w[i] = ParentIn(d, w[i - 1])
    BY <1>1, <1>2 DEF WayUp
  <2>2. i - 1 \in 0..n
    BY <1>0
  <2>3. w[i - 1] \in Pid \cup {None}
    BY <1>1, <2>2 DEF WayUp
  <2>4. ParentIn(e, None) = None /\ ParentIn(d, None) = None
    BY ParentIsNamed
  <2> QED  BY <2>1, <2>3, <2>4
<1>6. S \in SUBSET Nat
  OBVIOUS
<1> HIDE DEF S
<1>7. 0..n \subseteq S
  BY <1>0, <1>4, <1>5, <1>6, UpTo
<1>8. \A i \in 1..n : v[i] \in {w[i], None}
  BY <1>0, <1>7 DEF S
<1> HIDE DEF n
<1> QED  BY <1>3, <1>8

-----------------------------------------------------------------------------

Loopless(d) == \A p \in Pid : p \in Above(d, p) => ParentIn(d, p) = p

LEMMA CutLoopless ==
    ASSUME NEW d \in Docs, NEW e \in Docs, Loopless(d),
           \A q \in Pid : ParentIn(e, q) \in {ParentIn(d, q), None}
    PROVE  Loopless(e)
<1> SUFFICES ASSUME NEW p \in Pid, p \in Above(e, p) PROVE ParentIn(e, p) = p
  BY DEF Loopless
<1>1. p \in Above(d, p)
  BY CutAbove
<1>2. ParentIn(d, p) = p
  BY <1>1 DEF Loopless
<1>3. PICK v : WayUp(v, e, p)
  BY WayUpExists
<1>4. ASSUME ParentIn(e, p) = None PROVE FALSE
  <2> DEFINE n == MaxId + 1
             S == {i \in Nat : i = 0 \/ v[i] = None}
  <2>0. n \in Nat
    BY StoreAssumption
  <2>1. \A i \in 1..n : i - 1 \in S => i \in S
    <3> SUFFICES ASSUME NEW i \in 1..n, i - 1 = 0 \/ v[i - 1] = None PROVE v[i] = None
      BY <2>0
    <3>1. v[i] = ParentIn(e, v[i - 1])
      BY <1>3 DEF WayUp
    <3>2. ParentIn(e, None) = None /\ v[0] = p
      BY <1>3, ParentIsNamed DEF WayUp
    <3> QED  BY <1>4, <3>1, <3>2
  <2>2. S \in SUBSET Nat /\ 0 \in S
    OBVIOUS
  <2> HIDE DEF S
  <2>3. 0..n \subseteq S
    BY <2>0, <2>1, <2>2, UpTo
  <2>4. \A i \in 1..n : v[i] = None
    BY <2>0, <2>3 DEF S
  <2>5. Above(e, p) = {v[i] : i \in 1..n} \ {None}
    BY <1>3, AboveIsTheWay
  <2> HIDE DEF n
  <2> QED  BY <2>4, <2>5
<1> QED  BY <1>2, <1>4

\* Nobody comes above himself by a parent he is not above.
LEMMA HungLoopless ==
    ASSUME NEW d \in Docs, NEW e \in Docs, Loopless(d), NEW c \in Pid,
           \A q \in Pid \ {c} : ParentIn(e, q) = ParentIn(d, q),
           ParentIn(e, c) = c \/ c \notin Above(d, ParentIn(e, c))
    PROVE  Loopless(e)
<1> SUFFICES ASSUME NEW y \in Pid, y \in Above(e, y) PROVE ParentIn(e, y) = y
  BY DEF Loopless
<1> DEFINE n == MaxId + 1
<1>0. n \in Nat /\ None \notin Pid
  BY StoreAssumption, PidIsFinite
<1>1. PICK w : WayUp(w, e, y)
  BY WayUpExists
<1>2. PICK m \in 1..n : w[m] = y
  <2>1. Above(e, y) = {w[i] : i \in 1..n} \ {None}
    BY <1>1, AboveIsTheWay
  <2> QED  BY <2>1
<1>3. CASE \A i \in 0..(m - 1) : w[i] # c
  <2>1. PICK u : WayUp(u, d, y)
    BY WayUpExists
  <2>2. \A q \in Pid \ {c} : ParentIn(d, q) = ParentIn(e, q)
    OBVIOUS
  <2>3. m \in 0..(MaxId + 1)
    BY <1>0
  <2>4. \A i \in 0..m : u[i] = w[i]
    BY <1>1, <1>3, <2>1, <2>2, <2>3, SameWay
  <2>5. u[m] = y
    BY <1>0, <1>2, <2>4
  <2>6. Above(d, y) = {u[i] : i \in 1..n} \ {None}
    BY <2>1, AboveIsTheWay
  <2>7. y \in Above(d, y)
    BY <1>0, <2>5, <2>6
  <2>8. w[0] = y /\ 0 \in 0..(m - 1)
    BY <1>0, <1>1 DEF WayUp
  <2> QED  BY <1>3, <2>7, <2>8 DEF Loopless
<1>4. CASE \E i \in 0..(m - 1) : w[i] = c
  <2>1. PICK i \in 0..(m - 1) : w[i] = c
    BY <1>4
  <2>2. PICK v : WayUp(v, e, c)
    BY WayUpExists
  <2>3. i \in 0..(MaxId + 1) /\ m - i \in 0..(MaxId + 1) /\ i + (m - i) = m /\ m <= MaxId + 1
        /\ (m - i) + i = m /\ m \in 0..(MaxId + 1)
    BY <1>0, <2>1
  <2>4. w[i + (m - i)] = v[m - i]
    BY <1>1, <2>1, <2>2, <2>3, WayGoesOn
  <2>5. v[m - i] = y
    BY <1>2, <2>3, <2>4
  <2>6. v[(m - i) + i] = w[i]
    BY <1>1, <2>2, <2>3, <2>5, WayGoesOn
  <2>7. v[m] = c
    BY <2>1, <2>3, <2>6
  <2> DEFINE x == ParentIn(e, c)
  <2>8. x \in Pid \cup {None}
    BY ParentIsNamed
  <2>9. v[1] = x /\ v[0] = c
    <3>1. 1 \in 1..(MaxId + 1) /\ 1 - 1 = 0
      BY <1>0
    <3> QED  BY <2>2, <3>1 DEF WayUp
  <2>10. CASE x = c
    <3> DEFINE S == {k \in Nat : v[k] = c}
    <3>1. 0 \in S /\ S \in SUBSET Nat
      BY <2>9
    <3>2. \A k \in 1..n : k - 1 \in S => k \in S
      <4>1. \A k \in 1..n : v[k] = ParentIn(e, v[k - 1]) /\ k \in Nat
        BY <1>0, <2>2 DEF WayUp
      <4> QED  BY <2>10, <4>1
    <3> HIDE DEF S
    <3>3. 0..n \subseteq S
      BY <1>0, <3>1, <3>2, UpTo
    <3>4. y = c
      BY <2>3, <2>5, <3>3 DEF S
    <3> QED  BY <2>10, <3>4
  <2>11. CASE x # c
    <3>1. PICK u : WayUp(u, d, x)
      BY <2>8, WayUpExists
    <3>2. c \notin Above(d, x) /\ Above(d, x) = {u[k] : k \in 1..n} \ {None}
      BY <2>8, <2>11, <3>1, AboveIsTheWay
    <3>3. \A k \in 0..n : u[k] # c
      <4>1. \A k \in 0..n : k = 0 \/ k \in 1..n
        BY <1>0
      <4>2. u[0] = x
        BY <3>1 DEF WayUp
      <4> QED  BY <1>0, <2>11, <3>2, <4>1, <4>2
    <3> DEFINE S == {k \in Nat : k <= MaxId => v[k + 1] = u[k]}
    <3>4. 0 \in S /\ S \in SUBSET Nat
      BY <2>9, <3>1 DEF WayUp
    <3>5. \A k \in 1..MaxId : k - 1 \in S => k \in S
      <4>0. \A k \in 1..MaxId : k \in Nat
        BY StoreAssumption
      <4> SUFFICES ASSUME NEW k \in 1..MaxId, k - 1 \in S PROVE v[k + 1] = u[k]
        BY <4>0
      <4>1. k - 1 <= MaxId /\ (k - 1) + 1 = k /\ k + 1 \in 1..n /\ (k + 1) - 1 = k /\ k \in 1..n /\ k - 1 \in 0..n
        BY StoreAssumption
      <4>2. v[k] = u[k - 1]
        BY <4>1
      <4>3. v[k + 1] = ParentIn(e, v[k]) /\ u[k] = ParentIn(d, u[k - 1]) /\ u[k - 1] \in Pid \cup {None}
        BY <2>2, <3>1, <4>1 DEF WayUp
      <4>4. ParentIn(e, None) = None /\ ParentIn(d, None) = None
        BY ParentIsNamed
      <4>5. u[k - 1] # c
        BY <3>3, <4>1
      <4> QED  BY <4>2, <4>3, <4>4, <4>5
    <3> HIDE DEF S
    <3>6. 0..MaxId \subseteq S
      BY StoreAssumption, <3>4, <3>5, UpTo
    <3>7. m - 1 \in 0..MaxId /\ m - 1 <= MaxId /\ (m - 1) + 1 = m /\ m - 1 \in 0..n
      BY <1>0, StoreAssumption
    <3>8. v[m] = u[m - 1]
      BY <3>6, <3>7 DEF S
    <3> QED  BY <2>7, <3>3, <3>7, <3>8
  <2> QED  BY <2>10, <2>11
<1> QED  BY <1>3, <1>4

\* Who is nobody's parent is above nobody.
LEMMA NobodysParent ==
    ASSUME NEW d \in Docs, NEW c, c # None, \A q \in Pid : ParentIn(d, q) # c,
           NEW p \in Pid \cup {None}
    PROVE  c \notin Above(d, p)
<1>1. PICK w : WayUp(w, d, p)
  BY WayUpExists
<1> DEFINE n == MaxId + 1
<1>0. n \in Nat
  BY StoreAssumption
<1>2. \A i \in 1..n : w[i] # c
  <2> TAKE i \in 1..n
  <2>1. i - 1 \in 0..n
    BY <1>0
  <2>2. w[i] = ParentIn(d, w[i - 1]) /\ w[i - 1] \in Pid \cup {None}
    BY <1>1, <2>1 DEF WayUp
  <2> QED  BY <2>2, ParentIsNamed
<1>3. Above(d, p) = {w[i] : i \in 1..n} \ {None}
  BY <1>1, AboveIsTheWay
<1> HIDE DEF n
<1> QED  BY <1>2, <1>3

-----------------------------------------------------------------------------
(* What a verb has in hand: the links of the files it is about to write.    *)

Links(d) == IF d = NoDoc THEN {} ELSE {d.parent, d.subprocess} \ {None}
LEMMA LinksAre ==
    ASSUME NEW d \in Doc
    PROVE  /\ d # NoDoc /\ Links(d) = {d.parent, d.subprocess} \ {None} /\ Links(d) \subseteq Pid
           /\ \A x \in Pid \cup {None} :
                 /\ [d EXCEPT !.subprocess = x].parent = d.parent
                 /\ [d EXCEPT !.subprocess = x].subprocess = x
                 /\ [d EXCEPT !.parent = x].parent = x
                 /\ [d EXCEPT !.parent = x].subprocess = d.subprocess
           /\ \A s : /\ [d EXCEPT !.pending = s].parent = d.parent
                     /\ [d EXCEPT !.pending = s].subprocess = d.subprocess
           /\ \A heirs : /\ Buries(d, heirs).parent = d.parent
                         /\ Buries(d, heirs).subprocess = d.subprocess
<1>1. d # NoDoc /\ d.parent \in Pid \cup {None} /\ d.subprocess \in Pid \cup {None}
  BY NoDocAssumption DEF Doc
<1>2. DOMAIN d = {"tombstoned", "supersededBy", "parent", "subprocess", "pending"}
  BY DEF Doc
<1> QED  BY <1>1, <1>2 DEF Links, Buries

\* Over the originals' parents the plan hangs the heir, and nothing else.
Boxes(j) == {doc[s].parent : s \in ToSet(j.supersedes)}

AsHung(e, j) ==
    /\ Hangs(e, j)
    /\ \A p \in Pid \ {j.id} :
          IF doc[p] = NoDoc THEN e[p] = NoDoc
          ELSE /\ e[p] \in Doc /\ e[p].parent = doc[p].parent
               /\ Links(e[p]) \subseteq Links(doc[p]) \cup {j.id}
    /\ e[j.id].parent \in Boxes(j) \cup {None}
    /\ Links(e[j.id]) \subseteq Boxes(j) \cup {j.id}

LEMMA BuriedAsHung ==
    ASSUME NEW j, PlanJob(j), doc \in Docs, Closed(j)
    PROVE  AsHung(BuriedIn(doc, j), j)
<1> DEFINE b == BuriedIn(doc, j)
<1>1. /\ ToSet(j.supersedes) \subseteq OnDisk
      /\ Boxes(j) \subseteq OnDisk \cup {None, j.id}
  BY DEF Closed, Boxes
<1>2. Hangs(b, j)
  BY <1>1, BuriedHangs DEF Boxes, Docs
<1>3. \A p \in Pid : b[p] = IF p = j.id THEN Fresh(None)
                            ELSE IF p \in ToSet(j.supersedes) THEN Buries(doc[p], {j.id}) ELSE doc[p]
  BY DEF BuriedIn
<1>4. j.id \in Pid /\ b[j.id] = Fresh(None) /\ Fresh(None) \in Doc
  BY <1>3, FreshHonest DEF PlanJob
<1>5. b[j.id].parent = None /\ Links(b[j.id]) = {}
  BY <1>4, LinksAre DEF Fresh
<1>6. ASSUME NEW p \in Pid \ {j.id}
      PROVE  IF doc[p] = NoDoc THEN b[p] = NoDoc
             ELSE /\ b[p] \in Doc /\ b[p].parent = doc[p].parent
                  /\ Links(b[p]) \subseteq Links(doc[p]) \cup {j.id}
  <2>1. doc[p] = NoDoc => b[p] = NoDoc
    BY <1>1, <1>3 DEF OnDisk
  <2>2. CASE doc[p] # NoDoc /\ p \in ToSet(j.supersedes)
    <3>1. doc[p] \in Doc /\ b[p] = Buries(doc[p], {j.id}) /\ {j.id} \in SUBSET Pid
      BY <1>3, <1>4, <2>2 DEF Docs
    <3>2. b[p] \in Doc /\ b[p].parent = doc[p].parent /\ b[p].subprocess = doc[p].subprocess
      BY <3>1, BuriedDoc, LinksAre
    <3> QED  BY <2>1, <3>1, <3>2, LinksAre
  <2>3. CASE doc[p] # NoDoc /\ p \notin ToSet(j.supersedes)
    BY <1>3, <2>3 DEF Docs
  <2> QED  BY <2>1, <2>2, <2>3
<1> HIDE DEF b
<1>7. QED
  BY <1>2, <1>5, <1>6 DEF AsHung, b

LEMMA RetargetAsHung ==
    ASSUME NEW j, PlanJob(j), doc \in Docs, ToSet(j.supersedes) \subseteq OnDisk,
           NEW e, AsHung(e, j), NEW s \in ToSet(j.supersedes)
    PROVE  AsHung(Retarget(e, s, j.id), j)
<1> DEFINE q == e[s].parent
           h == j.id
           g == [e EXCEPT ![q].subprocess = h]
           f == [g EXCEPT ![h].parent = q]
<1>0. h \in Pid /\ s \in Pid /\ e \in [Pid -> Doc \cup {NoDoc}] /\ e[h] \in Doc /\ e[s] \in Doc
  BY DEF PlanJob, AsHung, Hangs, OnDisk
<1>1. Hangs(Retarget(e, s, j.id), j)
  BY RetargetKeeps DEF AsHung
<1>2. CASE q # None /\ e[q].subprocess = s
  <2>1. q \in Pid /\ e[q] \in Doc /\ h \in Pid \cup {None}
    BY <1>0, <1>2 DEF AsHung, Hangs
  <2>2. q \in Boxes(j)
    <3>1. CASE s = h
      BY <1>2, <3>1 DEF AsHung
    <3>2. CASE s # h
      <4>1. e[s].parent = doc[s].parent
        BY <1>0, <3>2 DEF AsHung, OnDisk
      <4> QED  BY <4>1 DEF Boxes
    <3> QED  BY <3>1, <3>2
  <2>3. Retarget(e, s, j.id) = f
    BY <1>2 DEF Retarget
  <2> DEFINE eq == [e[q] EXCEPT !.subprocess = h]
  <2> HIDE DEF q, h
  <2>4. eq \in Doc /\ eq.parent = e[q].parent /\ eq.subprocess = h
    BY <2>1 DEF Doc
  <2>5. g \in [Pid -> Doc \cup {NoDoc}] /\ \A p \in Pid : g[p] = IF p = q THEN eq ELSE e[p]
    BY <1>0, <2>1, <2>4
  <2> DEFINE gh == [g[h] EXCEPT !.parent = q]
  <2> HIDE DEF g, eq
  <2>6. g[h] \in Doc /\ g[h].subprocess \in {h, e[h].subprocess}
    BY <1>0, <2>4, <2>5
  <2>7. gh \in Doc /\ gh.parent = q /\ gh.subprocess \in {h, e[h].subprocess}
    BY <2>1, <2>6 DEF Doc
  <2>8. \A p \in Pid : f[p] = IF p = h THEN gh ELSE g[p]
    BY <2>5
  <2> HIDE DEF f, gh
  <2>9. Links(f[h]) \subseteq Boxes(j) \cup {h} /\ f[h].parent \in Boxes(j)
    <3>1. f[h] = gh /\ Links(gh) = {q, gh.subprocess} \ {None}
      BY <1>0, <2>7, <2>8, LinksAre
    <3>2. Links(e[h]) = {e[h].parent, e[h].subprocess} \ {None} /\ Links(e[h]) \subseteq Boxes(j) \cup {h}
      BY <1>0, LinksAre DEF AsHung, h
    <3> QED  BY <2>2, <2>7, <3>1, <3>2
  <2>10. ASSUME NEW p \in Pid \ {h}
         PROVE  IF doc[p] = NoDoc THEN f[p] = NoDoc
                ELSE /\ f[p] \in Doc /\ f[p].parent = doc[p].parent
                     /\ Links(f[p]) \subseteq Links(doc[p]) \cup {h}
    <3>1. IF doc[p] = NoDoc THEN e[p] = NoDoc
          ELSE /\ e[p] \in Doc /\ e[p].parent = doc[p].parent
               /\ Links(e[p]) \subseteq Links(doc[p]) \cup {h}
      BY DEF AsHung, h
    <3>2. CASE p # q
      BY <2>5, <2>8, <3>1, <3>2
    <3>3. CASE p = q
      <4>1. f[p] = eq /\ e[p] \in Doc
        BY <2>1, <2>5, <2>8, <3>3
      <4>2. doc[p] # NoDoc
        BY <3>1, <4>1, NoDocAssumption
      <4>3. Links(eq) = {eq.parent, eq.subprocess} \ {None}
            /\ Links(e[p]) = {e[p].parent, e[p].subprocess} \ {None}
        BY <2>4, <4>1, LinksAre
      <4> QED  BY <2>4, <3>1, <3>3, <4>1, <4>2, <4>3
    <3> QED  BY <3>2, <3>3
  <2>11. Hangs(f, j)
    BY <1>1, <2>3
  <2>12. AsHung(f, j)
    BY <2>9, <2>10, <2>11 DEF AsHung, h
  <2> QED  BY <2>3, <2>12
<1>3. CASE ~(q # None /\ e[q].subprocess = s)
  BY <1>3 DEF Retarget
<1> QED  BY <1>2, <1>3

\* What a plan that is not refused does to links: an original's box gets the
\* heir, the heir gets the box and the child, the child gets the heir.
LEMMA PlanLinks ==
    ASSUME NEW j, PlanJob(j), DOMAIN j = DOMAIN Idle, doc \in Docs, Closed(j), j.other \in Nat
    PROVE  LET r == Restructured(doc, j)
           IN  /\ \A p \in OnDisk \cup {j.id} :
                     /\ r[p] \in Doc
                     /\ Links(r[p]) \subseteq (IF p = j.id THEN {} ELSE Links(doc[p]))
                                                \cup Boxes(j) \cup {j.id, j.other}
                     /\ p # j.id => r[p].parent = IF p = j.other THEN j.id ELSE doc[p].parent
               /\ r[j.id].parent \in Boxes(j) \cup {None}
               /\ j.other # None => j.other \notin Above([doc EXCEPT ![j.id] = r[j.id]], j.id)
<1> DEFINE n == Len(j.supersedes)
           after == CHOOSE f : IsHung(f, doc, j)
           hung == after[n]
           c == j.other
           h == j.id
           r == Restructured(doc, j)
           T == {e \in Docs : AsHung(e, j)}
<1>0. h \in Pid /\ ToSet(j.supersedes) \subseteq OnDisk /\ OnDisk \subseteq Pid
  BY DEF PlanJob, Closed, OnDisk
<1>1. AsHung(hung, j) /\ hung \in Docs
  <2>1. \A e : AsHung(e, j) => e \in Docs
    BY DEF AsHung, Hangs, Docs
  <2>2. BuriedIn(doc, j) \in T
    BY <2>1, BuriedAsHung
  <2>3. \A e \in T, s \in ToSet(j.supersedes) : Retarget(e, s, j.id) \in T
    BY <1>0, <2>1, RetargetAsHung
  <2>4. \A e \in T : AsHung(e, j) /\ e \in Docs
    OBVIOUS
  <2> HIDE DEF T
  <2>5. \E f : IsHung(f, doc, j) /\ \A g : IsHung(g, doc, j) => g[Len(j.supersedes)] \in T
    BY <2>2, <2>3, HungStays
  <2>6. hung \in T
    BY <2>5
  <2> QED  BY <2>4, <2>6
<1>2. r = IF c = None THEN hung ELSE [hung EXCEPT ![h].subprocess = c, ![c].parent = h]
  BY DEF Restructured, IsHung, BuriedIn
<1>3. c # None => c \notin Above(hung, h) /\ c # h /\ c \in OnDisk
  <2> SUFFICES ASSUME c # None PROVE c \notin Above(hung, h) /\ c # h /\ c \in OnDisk
    OBVIOUS
  <2>1. c # h /\ NotBeneath(Hung(j), c, h)
    BY DEF Closed
  <2>2. c \in OnDisk
    BY <1>0, <2>1 DEF Closed, Neighbours
  <2> DEFINE k == [j EXCEPT !.other = None]
  <2>3. Hung(j) = hung
    <3>1. Hung(j) = Restructured(doc, k)
      BY DEF Hung
    <3>2. k.other = None /\ k.id = j.id /\ k.supersedes = j.supersedes
      BY DEF Idle
    <3> HIDE DEF k
    <3> QED  BY <3>1, <3>2 DEF Restructured, IsHung, BuriedIn
  <2> QED  BY <2>1, <2>2, <2>3 DEF NotBeneath
<1> HIDE DEF hung, r
<1>4. ASSUME NEW p \in OnDisk \ {h}
      PROVE  hung[p] \in Doc /\ hung[p].parent = doc[p].parent /\ Links(hung[p]) \subseteq Links(doc[p]) \cup {h}
  BY <1>0, <1>1 DEF AsHung, OnDisk
<1>5. /\ hung[h] \in Doc /\ hung[h].parent \in Boxes(j) \cup {None}
      /\ Links(hung[h]) \subseteq Boxes(j) \cup {h}
  BY <1>1 DEF AsHung, Hangs
<1>6. CASE c = None
  <2>1. r = hung
    BY <1>2, <1>6
  <2>3. \A p \in OnDisk \cup {j.id} :
               /\ r[p] \in Doc
               /\ Links(r[p]) \subseteq (IF p = j.id THEN {} ELSE Links(doc[p]))
                                          \cup Boxes(j) \cup {j.id, j.other}
               /\ p # j.id => r[p].parent = IF p = j.other THEN j.id ELSE doc[p].parent
    <3> TAKE p \in OnDisk \cup {j.id}
    <3>1. CASE p = j.id
      BY <1>5, <2>1, <3>1
    <3>2. CASE p # j.id
      <4>1. p \in OnDisk \ {h} /\ p # None
        BY <1>0, <3>2, PidIsFinite
      <4> QED  BY <1>4, <1>6, <2>1, <3>2, <4>1
    <3> QED  BY <3>1, <3>2
  <2> QED  BY <1>5, <1>6, <2>1, <2>3 DEF r
<1>7. CASE c # None
  <2> DEFINE g == [hung EXCEPT ![h].subprocess = c]
             f == [g EXCEPT ![c].parent = h]
             hh == [hung[h] EXCEPT !.subprocess = c]
             cc == [g[c] EXCEPT !.parent = h]
  <2>0. c \in Pid /\ c \in OnDisk /\ c # h /\ r = f
    BY <1>0, <1>2, <1>3, <1>7
  <2>1. hh \in Doc /\ hh.parent = hung[h].parent /\ hh.subprocess = c
    BY <1>5, <2>0 DEF Doc
  <2> HIDE DEF hh, c, h
  <2>2. g \in [Pid -> Doc \cup {NoDoc}] /\ \A p \in Pid : g[p] = IF p = h THEN hh ELSE hung[p]
    BY <1>0, <1>1, <2>1 DEF Docs, hh
  <2> HIDE DEF g
  <2>3. g[c] = hung[c] /\ g[c] \in Doc
    BY <1>4, <2>0, <2>2
  <2>4. cc \in Doc /\ cc.parent = h /\ cc.subprocess = hung[c].subprocess
    <3>1. h \in Pid \cup {None}
      BY <1>0
    <3> HIDE DEF g
    <3>2. /\ [g[c] EXCEPT !.parent = h] \in Doc
          /\ [g[c] EXCEPT !.parent = h].parent = h
          /\ [g[c] EXCEPT !.parent = h].subprocess = g[c].subprocess
      BY <2>3, <3>1 DEF Doc
    <3> QED  BY <2>3, <3>2
  <2>5. \A p \in Pid : f[p] = IF p = c THEN cc ELSE g[p]
    BY <2>2
  <2> HIDE DEF f, cc
  <2>6. r[h] = hh /\ r[c] = cc /\ \A p \in Pid \ {h, c} : r[p] = hung[p]
    BY <1>0, <2>0, <2>2, <2>5
  <2>7. /\ Links(hh) = {hh.parent, c} \ {None}
        /\ Links(cc) = {h, cc.subprocess} \ {None}
        /\ Links(hung[c]) = {hung[c].parent, hung[c].subprocess} \ {None}
    BY <2>1, <2>3, <2>4, LinksAre
  <2>8. \A p \in OnDisk \cup {h} :
                     /\ r[p] \in Doc
                     /\ Links(r[p]) \subseteq (IF p = h THEN {} ELSE Links(doc[p]))
                                                \cup Boxes(j) \cup {h, c}
                     /\ p # h => r[p].parent = IF p = c THEN h ELSE doc[p].parent
    <3> SUFFICES ASSUME NEW p \in OnDisk \cup {h}
                 PROVE  /\ r[p] \in Doc
                        /\ Links(r[p]) \subseteq (IF p = h THEN {} ELSE Links(doc[p]))
                                                \cup Boxes(j) \cup {h, c}
                        /\ p # h => r[p].parent = IF p = c THEN h ELSE doc[p].parent
      OBVIOUS
    <3>1. CASE p = h
      BY <1>5, <2>1, <2>6, <2>7, <3>1
    <3>2. CASE p = c
      <4>1. Links(hung[c]) \subseteq Links(doc[c]) \cup {h}
        BY <1>4, <2>0
      <4> QED  BY <2>0, <2>4, <2>6, <2>7, <3>2, <4>1
    <3>3. CASE p # h /\ p # c
      <4>1. p \in Pid \ {h, c} /\ p \in OnDisk \ {h}
        BY <1>0, <3>3
      <4>2. r[p] = hung[p]
        BY <2>6, <4>1
      <4> QED  BY <1>4, <3>3, <4>1, <4>2
    <3> QED  BY <3>1, <3>2, <3>3
  <2> DEFINE e == [doc EXCEPT ![h] = hh]
  <2>9. e \in Docs /\ \A p \in Pid : e[p] = IF p = h THEN hh ELSE doc[p]
    BY <1>0, <2>1 DEF Docs
  <2> HIDE DEF e
  <2>10. \A p \in Pid : ParentIn(e, p) = ParentIn(hung, p)
    <3> TAKE p \in Pid
    <3>1. CASE p = h
      BY <1>5, <2>1, <2>9, <3>1, NoDocAssumption DEF ParentIn
    <3>2. CASE p # h /\ doc[p] = NoDoc
      BY <1>1, <2>9, <3>2 DEF ParentIn, AsHung, h
    <3>3. CASE p # h /\ doc[p] # NoDoc
      <4>1. p \in OnDisk \ {h}
        BY <3>3 DEF OnDisk
      <4> QED  BY <1>4, <2>9, <3>3, <4>1, NoDocAssumption DEF ParentIn
    <3> QED  BY <3>1, <3>2, <3>3
  <2>11. Above(e, h) = Above(hung, h)
    <3>1. \A p \in Pid : /\ ParentIn(e, p) \in {ParentIn(hung, p), None}
                         /\ ParentIn(hung, p) \in {ParentIn(e, p), None}
      BY <2>10
    <3>2. h \in Pid \cup {None}
      BY <1>0
    <3>3. Above(e, h) \subseteq Above(hung, h)
      BY <1>1, <2>9, <3>1, <3>2, CutAbove
    <3>4. Above(hung, h) \subseteq Above(e, h)
      BY <1>1, <2>9, <3>1, <3>2, CutAbove
    <3> QED  BY <3>3, <3>4
  <2>12. c \notin Above([doc EXCEPT ![h] = r[h]], h)
    BY <1>3, <1>7, <2>6, <2>11 DEF e, c, h
  <2>13. r[h].parent \in Boxes(j) \cup {None}
    BY <1>5, <2>1, <2>6
  <2> HIDE DEF f
  <2>14. /\ \A p \in OnDisk \cup {j.id} :
               /\ r[p] \in Doc
               /\ Links(r[p]) \subseteq (IF p = j.id THEN {} ELSE Links(doc[p]))
                                          \cup Boxes(j) \cup {j.id, j.other}
               /\ p # j.id => r[p].parent = IF p = j.other THEN j.id ELSE doc[p].parent
         /\ r[j.id].parent \in Boxes(j) \cup {None}
         /\ j.other # None => j.other \notin Above([doc EXCEPT ![j.id] = r[j.id]], j.id)
    BY <2>8, <2>12, <2>13 DEF c, h
  <2> QED  BY <2>14 DEF r
<1> QED  BY <1>6, <1>7

\* A link a verb is about to write was in what it read, names a file it has
\* read or written, or one it is about to write.
LinkKept(j, k) ==
    \A x \in Links(j.todo[k][2]) :
        \/ j.read[x] # NoDoc
        \/ \E l \in DOMAIN j.todo : j.todo[l][1] = x
        \/ /\ x \in Links(j.read[j.todo[k][1]])
           /\ \A l \in 1..(k - 1) : j.todo[l][1] = j.todo[k][1] => x \in Links(j.todo[l][2])

\* What a verb is about to do, by its kind.
AboutTo(j) ==
    IF j.verb = "delete" THEN j.other = None /\ j.todo = <<<<j.subject, NoDoc>>>>
    ELSE \A k \in DOMAIN j.todo : j.todo[k][2] \in Doc /\ LinkKept(j, k)

SaneJob(a, j) ==
    /\ j.verb \in {"create", "delete"} => a = "service"
    /\ j.verb = "nest" => j.subject = None
    /\ j.phase \in {"allocating", "minting", "storing", "loading"} =>
          /\ j.verb # "delete" /\ j.todo = <<>>
          /\ \A p \in Pid : j.read[p] # NoDoc => p = j.subject
    /\ j.verb = "save" => j.phase = "writing" /\ \E p \in Pid : j.todo = <<<<p, j.read[p]>>>>
    /\ j.phase = "writing" => AboutTo(j)
    /\ j.phase = "sweeping" =>
          /\ j.verb = "delete"
          /\ j.todo # <<>> => /\ j.read[j.other] # NoDoc
                              /\ j.todo = <<<<j.other, Swept(j.read[j.other], j.subject)>>>>
    /\ j.phase = "setting" => ToSet(j.order) = j.actives /\ j.todo = <<>>

\* A parent that gets a child from the service stays where it is meanwhile.
CreatesUnder(d, j) ==
    j.verb = "create" /\ j.subject # None =>
        /\ j.phase = "allocating" => d[j.subject] # NoDoc
        /\ j.phase \in {"minting", "storing"} => d[j.subject] # NoDoc /\ j.id # j.subject

SaneInv == \A a \in Program : SaneJob(a, job[a]) /\ CreatesUnder(doc, job[a])

\* The parents that documents name.
ParentsIn(d) == {d[p].parent : p \in {q \in Pid : d[q] # NoDoc}}

Disk == OnDisk \cup ParentsIn(doc)

InDraft == {draft.pid} \cup (IF draft.doc = NoDoc THEN {} ELSE {draft.doc.parent})

InHand(j) ==
    {j.subject} \cup ParentsIn(j.read)
        \cup {j.todo[k][1] : k \in DOMAIN j.todo}
        \cup {j.todo[k][2].parent : k \in {l \in DOMAIN j.todo : j.todo[l][2] # NoDoc}}
        \cup (IF j.phase \in {"loading", "writing"} THEN {j.id} ELSE {})

\* The parent a verb is about to give is what it was, or the new file's, or
\* one the file is not above.
SameParent(j, k) ==
    LET t == j.todo[k][1] IN
    /\ j.read[t] # NoDoc /\ j.todo[k][2].parent = j.read[t].parent
    /\ \A l \in 1..(k - 1) : j.todo[l][1] = t => j.todo[l][2].parent = j.todo[k][2].parent

NewFile(j, k) ==
    /\ j.todo[k][1] = j.id /\ j.read[j.id] = NoDoc
    /\ \A l \in DOMAIN j.todo : l # k => j.todo[l][1] # j.id

Planned(d, j) == IF j.todo[1][1] = j.id THEN [d EXCEPT ![j.id] = j.todo[1][2]] ELSE d

Adopted(a, d, j, k) ==
    LET t == j.todo[k][1]
        x == j.todo[k][2].parent
    IN  /\ a = "pipeline" /\ t = j.other /\ t # j.id /\ t # x
        /\ \A l \in DOMAIN j.todo : l # 1 => j.todo[l][1] # j.id
        /\ t \notin Above(Planned(d, j), x)

ParentKept(a, d, j, k) ==
    \/ j.todo[k][2] = NoDoc
    \/ j.todo[k][2].parent \in {None, j.todo[k][1]}
    \/ SameParent(j, k) \/ NewFile(j, k) \/ Adopted(a, d, j, k)

\* What a verb that begins has in hand.
FreshStart(a, j) ==
    /\ SaneJob(a, j) /\ CreatesUnder(doc, j)
    /\ j.phase \in {"allocating", "writing", "setting"}
    /\ j.id = None
    /\ j.phase = "writing" => \A k \in DOMAIN j.todo : ParentKept(a, doc, j, k)
    /\ InHand(j) \subseteq Disk \cup InDraft \cup {None}

Quietly(a, j) == a \in Program /\ Begins(a, j) /\ FreshStart(a, j)

\* What a verb has read of one process.
ReadsOne(j, verb, phase, p) ==
    /\ DOMAIN j = DOMAIN Idle
    /\ j.verb = verb /\ j.phase = phase /\ j.subject = p /\ j.other = None
    /\ j.id = None /\ j.todo = <<>> /\ j.order = <<>> /\ j.actives = {}
    /\ j.read[p] = doc[p] /\ doc[p] \in Doc /\ p \in Pid
    /\ ParentsIn(j.read) = {doc[p].parent}

LEMMA ReadOne ==
    ASSUME HeirInv, NEW p \in OnDisk, NEW verb, NEW phase
    PROVE  ReadsOne(Job(verb, phase, p, {p}), verb, phase, p)
<1> DEFINE j == Job(verb, phase, p, {p})
<1>1. p \in Pid /\ doc[p] \in Doc
  BY DiskIsHonest DEF HeirInv, HonestRead, OnDisk
<1>2. /\ DOMAIN j = DOMAIN Idle
      /\ j.verb = verb /\ j.phase = phase /\ j.subject = p /\ j.other = None
      /\ j.id = None /\ j.todo = <<>> /\ j.order = <<>> /\ j.actives = {}
      /\ j.read = [q \in Pid |-> IF q \in {p} THEN doc[q] ELSE NoDoc]
  BY DEF Job, Idle
<1> HIDE DEF j
<1>3. j.read[p] = doc[p] /\ ParentsIn(j.read) = {doc[p].parent}
  BY <1>1, <1>2, NoDocAssumption DEF ParentsIn
<1> QED  BY <1>1, <1>2, <1>3 DEF j, ReadsOne

\* A job with its files.
Ready(w, j, todo) ==
    /\ DOMAIN w = DOMAIN Idle
    /\ w.verb = j.verb /\ w.phase = "writing" /\ w.subject = j.subject
    /\ w.other = j.other /\ w.id = j.id /\ w.todo = todo /\ w.read = j.read

LEMMA InWriting ==
    ASSUME NEW j, DOMAIN j = DOMAIN Idle, NEW todo
    PROVE  Ready(Writing(j, todo), j, todo)
BY DEF Writing, Idle, Ready

LEMMA SameLinks ==
    ASSUME NEW d \in Doc, NEW e \in Doc, d.parent = e.parent, d.subprocess = e.subprocess
    PROVE  Links(d) = Links(e)
BY NoDocAssumption DEF Links

LEMMA DiskNames ==
    ASSUME NEW p \in OnDisk
    PROVE  p \in Disk /\ doc[p].parent \in Disk
BY DEF Disk, ParentsIn, OnDisk

\* A verb that rewrites one file and leaves its links alone.
LEMMA OneFileStarts ==
    ASSUME HeirInv, NEW a \in Program, NEW p \in OnDisk,
           NEW verb, verb \notin {"delete", "save", "create", "nest"},
           NEW new \in Doc, new.parent = doc[p].parent, new.subprocess = doc[p].subprocess,
           Begins(a, Writing(Job(verb, "writing", p, {p}), <<<<p, new>>>>))
    PROVE  \E b, j : Quietly(b, j)
<1> DEFINE j == Job(verb, "writing", p, {p})
           todo == <<<<p, new>>>>
           w == Writing(j, todo)
<1>1. /\ DOMAIN j = DOMAIN Idle /\ j.verb = verb /\ j.subject = p /\ j.other = None /\ j.id = None
      /\ j.read[p] = doc[p] /\ doc[p] \in Doc /\ p \in Pid /\ ParentsIn(j.read) = {doc[p].parent}
  <2>1. ReadsOne(j, verb, "writing", p)
    BY ReadOne
  <2> QED  BY <2>1 DEF ReadsOne
<1> HIDE DEF j
<1>2. /\ w.verb = verb /\ w.phase = "writing" /\ w.subject = p
      /\ w.other = None /\ w.id = None /\ w.todo = todo /\ w.read = j.read
  BY <1>1, InWriting DEF Ready
<1>3. DOMAIN todo = {1} /\ todo[1] = <<p, new>>
  OBVIOUS
<1>4. Links(new) = Links(doc[p])
  BY <1>1, SameLinks
<1> HIDE DEF w, todo
<1>5. \A k \in DOMAIN w.todo : w.todo[k][2] \in Doc /\ LinkKept(w, k) /\ SameParent(w, k)
  <2> SUFFICES w.todo[1][2] \in Doc /\ LinkKept(w, 1) /\ SameParent(w, 1)
    BY <1>2, <1>3
  <2>1. w.todo[1] = <<p, new>> /\ w.read[p] = doc[p] /\ doc[p] # NoDoc
    BY <1>1, <1>2, <1>3, NoDocAssumption
  <2>2. \A l \in 1..(1 - 1) : FALSE
    OBVIOUS
  <2> QED  BY <1>4, <2>1, <2>2 DEF LinkKept, SameParent
<1>6. SaneJob(a, w) /\ CreatesUnder(doc, w)
  BY <1>2, <1>5 DEF SaneJob, AboutTo, CreatesUnder
<1>7. InHand(w) \subseteq Disk \cup {None}
  <2>1. InHand(w) = {p} \cup {doc[p].parent} \cup {p} \cup {new.parent} \cup {None}
    <3>1. {todo[k][1] : k \in DOMAIN todo} = {p}
      BY <1>3
    <3>2. {todo[k][2].parent : k \in {l \in DOMAIN todo : todo[l][2] # NoDoc}} = {new.parent}
      BY <1>3, NoDocAssumption
    <3> QED  BY <1>1, <1>2, <3>1, <3>2 DEF InHand
  <2> QED  BY <2>1, DiskNames
<1>8. FreshStart(a, w)
  BY <1>2, <1>5, <1>6, <1>7 DEF FreshStart, ParentKept
<1> QED  BY <1>8 DEF Quietly, w, j, todo

\* A verb that has read its subject and has yet to mint.
ToMint(j, verb, p, loaded) ==
    /\ DOMAIN j = DOMAIN Idle
    /\ j.verb = verb /\ j.phase = "allocating" /\ j.subject = p /\ j.id = None /\ j.todo = <<>>
    /\ \A q \in Pid : j.read[q] = IF q \in loaded THEN doc[q] ELSE NoDoc

LEMMA AllocatingStarts ==
    ASSUME HeirInv, NEW a \in Program, NEW p \in OnDisk \cup {None},
           NEW loaded, loaded \cap Pid \subseteq {p},
           NEW verb, verb \notin {"delete", "save"}, verb = "create" => a = "service",
           verb = "nest" => p = None,
           NEW j, ToMint(j, verb, p, loaded), Begins(a, j)
    PROVE  \E b, k : Quietly(b, k)
<1>0. /\ j.verb = verb /\ j.phase = "allocating" /\ j.subject = p /\ j.id = None /\ j.todo = <<>>
      /\ \A q \in Pid : j.read[q] = IF q \in loaded THEN doc[q] ELSE NoDoc
  BY DEF ToMint
<1>1. \A q \in Pid : j.read[q] # NoDoc => q = p /\ j.read[q] = doc[p]
  BY <1>0
<1>2. DOMAIN j.todo = {}
  BY <1>0
<1>3. SaneJob(a, j) /\ CreatesUnder(doc, j)
  BY <1>0, <1>1 DEF SaneJob, CreatesUnder, OnDisk
<1>4. InHand(j) \subseteq Disk \cup {None}
  <2>1. ParentsIn(j.read) \subseteq {doc[p].parent} /\ (p = None => ParentsIn(j.read) = {})
    BY <1>0, <1>1, PidIsFinite DEF ParentsIn
  <2>2. InHand(j) = {p} \cup ParentsIn(j.read)
    BY <1>0, <1>2 DEF InHand
  <2> QED  BY <1>0, <2>1, <2>2, DiskNames
<1> QED  BY <1>0, <1>3, <1>4 DEF Quietly, FreshStart

\* A verb that has a sequence ready.
LEMMA SequenceStarts ==
    ASSUME NEW a \in Program, NEW verb \in {"set", "move"}, NEW seq, NEW S, ToSet(seq) = S,
           Begins(a, [Idle EXCEPT !.verb = verb, !.phase = "setting", !.actives = S, !.order = seq])
    PROVE  \E b, k : Quietly(b, k)
<1> DEFINE j == [Idle EXCEPT !.verb = verb, !.phase = "setting", !.actives = S, !.order = seq]
<1>1. /\ j.verb = verb /\ j.phase = "setting" /\ j.subject = None /\ j.id = None
      /\ j.todo = <<>> /\ j.actives = S /\ j.order = seq /\ j.read = NothingRead
  BY DEF Idle
<1>2. Begins(a, j)
  OBVIOUS
<1> HIDE DEF j
<1>3. SaneJob(a, j) /\ CreatesUnder(doc, j)
  BY <1>1 DEF SaneJob, CreatesUnder
<1>4. InHand(j) = {None}
  <2>1. DOMAIN j.todo = {} /\ ParentsIn(j.read) = {}
    BY <1>1 DEF ParentsIn, NothingRead
  <2> QED  BY <1>1, <2>1 DEF InHand
<1> QED  BY <1>1, <1>2, <1>3, <1>4 DEF Quietly, FreshStart

LEMMA DeleteStarts ==
    ASSUME HeirInv, NEW p \in OnDisk, Delete(p)
    PROVE  \E b, k : Quietly(b, k)
<1> DEFINE j == Job("delete", "writing", p, {p})
           todo == <<<<p, NoDoc>>>>
           w == Writing(j, todo)
<1>1. /\ DOMAIN j = DOMAIN Idle /\ j.verb = "delete" /\ j.subject = p /\ j.other = None /\ j.id = None
      /\ ParentsIn(j.read) = {doc[p].parent}
  <2>1. ReadsOne(j, "delete", "writing", p)
    BY ReadOne
  <2> QED  BY <2>1 DEF ReadsOne
<1>2. Begins("service", w)
  BY DEF Delete
<1> HIDE DEF j
<1>3. /\ w.verb = "delete" /\ w.phase = "writing" /\ w.subject = p
      /\ w.other = None /\ w.id = None /\ w.todo = todo /\ w.read = j.read
  BY <1>1, InWriting DEF Ready
<1>4. DOMAIN todo = {1} /\ todo[1] = <<p, NoDoc>>
  OBVIOUS
<1> HIDE DEF w
<1>5. SaneJob("service", w) /\ CreatesUnder(doc, w)
  BY <1>3 DEF SaneJob, AboutTo, CreatesUnder
<1> HIDE DEF todo
<1>6. \A k \in DOMAIN w.todo : ParentKept("service", doc, w, k)
  BY <1>3, <1>4 DEF ParentKept
<1>7. InHand(w) \subseteq Disk \cup {None}
  <2>1. InHand(w) = {p, doc[p].parent, None}
    <3>1. {todo[k][1] : k \in DOMAIN todo} = {p}
      BY <1>4
    <3>2. {todo[k][2].parent : k \in {l \in DOMAIN todo : todo[l][2] # NoDoc}} = {}
      BY <1>4
    <3> QED  BY <1>1, <1>3, <3>1, <3>2 DEF InHand
  <2> QED  BY <2>1, DiskNames
<1> QED  BY <1>2, <1>3, <1>5, <1>6, <1>7 DEF Quietly, FreshStart, Program

LEMMA SaveStarts ==
    ASSUME HeirInv, Save
    PROVE  \E b, k : Quietly(b, k)
<1> DEFINE p == draft.pid
           d == draft.doc
           j == Job("save", "writing", p, {})
           todo == <<<<p, d>>>>
           w == Writing(j, todo)
           read == [NothingRead EXCEPT ![p] = d]
           v == [w EXCEPT !.read = read]
<1>1. p \in Pid /\ d \in Doc /\ d # NoDoc
  BY NoDocAssumption DEF Save, HeirInv, HonestDraft, NoDraft, None
<1>2. Begins("service", v)
  BY DEF Save
<1>3. DOMAIN j = DOMAIN Idle /\ j.verb = "save" /\ j.subject = p /\ j.other = None /\ j.id = None
  BY DEF Job, Idle
<1> HIDE DEF j
<1>4. /\ DOMAIN w = DOMAIN Idle /\ w.verb = "save" /\ w.phase = "writing" /\ w.subject = p
      /\ w.other = None /\ w.id = None /\ w.todo = todo
  BY <1>3, InWriting DEF Ready
<1> HIDE DEF w
<1>5. DOMAIN todo = {1} /\ todo[1] = <<p, d>>
  OBVIOUS
<1>6. read[p] = d /\ ParentsIn(read) = {d.parent}
  <2>1. \A q \in Pid : read[q] = IF q = p THEN d ELSE NoDoc
    BY DEF NothingRead
  <2> HIDE DEF read
  <2> QED  BY <1>1, <2>1 DEF ParentsIn
<1> HIDE DEF read
<1>7. /\ v.verb = "save" /\ v.phase = "writing" /\ v.subject = p
      /\ v.other = None /\ v.id = None /\ v.todo = todo /\ v.read = read
  BY <1>4 DEF Idle
<1> HIDE DEF v
<1>8. v.todo[1] = <<p, d>> /\ v.read[p] = d
  BY <1>5, <1>6, <1>7
<1>9. v.todo = <<<<p, v.read[p]>>>>
  BY <1>7, <1>8
<1> HIDE DEF todo
<1>10. \A k \in DOMAIN v.todo : v.todo[k][2] \in Doc /\ LinkKept(v, k) /\ SameParent(v, k)
  <2> SUFFICES v.todo[1][2] \in Doc /\ LinkKept(v, 1) /\ SameParent(v, 1)
    BY <1>5, <1>7
  <2>2. \A l \in 1..(1 - 1) : FALSE
    OBVIOUS
  <2> QED  BY <1>1, <1>8, <2>2 DEF LinkKept, SameParent
<1>11. SaneJob("service", v) /\ CreatesUnder(doc, v)
  BY <1>1, <1>7, <1>9, <1>10 DEF SaneJob, AboutTo, CreatesUnder
<1>12. InHand(v) \subseteq InDraft \cup {None}
  <2>1. InHand(v) = {p, d.parent, None}
    <3>1. {todo[k][1] : k \in DOMAIN todo} = {p}
      BY <1>5
    <3>2. {todo[k][2].parent : k \in {l \in DOMAIN todo : todo[l][2] # NoDoc}} = {d.parent}
      BY <1>1, <1>5
    <3> QED  BY <1>6, <1>7, <3>1, <3>2 DEF InHand
  <2> QED  BY <1>1, <2>1 DEF InDraft
<1> QED  BY <1>2, <1>7, <1>10, <1>11, <1>12 DEF Quietly, FreshStart, ParentKept, Program

\* Every sequence that lists a finite set without repetition has all of it.
LEMMA ExactlyAll ==
    ASSUME NEW S \in SUBSET Pid, NEW seq \in SetToSeqs(S), ExactlyThe(S, seq)
    PROVE  ToSet(seq) = S
<1>1. IsFiniteSet(S) /\ Cardinality(S) \in Nat
  BY PidIsFinite, FS_Subset, FS_CardinalityType
<1> DEFINE c == Cardinality(S)
<1>2. seq \in [1..c -> S]
  BY DEF SetToSeqs
<1> HIDE DEF c
<1>3. DOMAIN seq = 1..c /\ seq \in Seq(S)
  BY <1>1, <1>2 DEF c
<1>4. ToSet(seq) = {seq[i] : i \in DOMAIN seq}
  BY DEF ToSet
<1> QED  BY <1>2, <1>3, <1>4 DEF ExactlyThe, Placed


LEMMA AttachStarts ==
    ASSUME HeirInv, NEW p \in Pid, NEW c \in Pid, Attach(p, c)
    PROVE  \E b, k : Quietly(b, k)
<1> DEFINE i == Job("attach", "writing", p, {p, c})
           j == [i EXCEPT !.other = c]
           d == [doc[p] EXCEPT !.subprocess = c]
           e == [doc[c] EXCEPT !.parent = p]
           todo == <<<<p, d>>, <<c, e>>>>
           w == Writing(j, todo)
<1>0. None \notin Pid
  BY PidIsFinite
<1>1. /\ p \in OnDisk /\ c \in OnDisk /\ doc[p] \in Doc /\ doc[c] \in Doc
      /\ doc[p].subprocess = None /\ c \notin Above(doc, p)
  BY DiskIsHonest DEF Attach, NotBeneath
<1>2. Begins("pipeline", w)
  BY DEF Attach
<1>3. /\ DOMAIN j = DOMAIN Idle /\ j.verb = "attach" /\ j.subject = p /\ j.other = c /\ j.id = None
      /\ j.read = [q \in Pid |-> IF q \in {p, c} THEN doc[q] ELSE NoDoc]
  BY DEF Job, Idle
<1> HIDE DEF i, j
<1>4. /\ w.verb = "attach" /\ w.phase = "writing" /\ w.subject = p
      /\ w.other = c /\ w.id = None /\ w.todo = todo /\ w.read = j.read
  BY <1>3, InWriting DEF Ready
<1>5. /\ d \in Doc /\ d.parent = doc[p].parent /\ d.subprocess = c
      /\ e \in Doc /\ e.parent = p /\ e.subprocess = doc[c].subprocess
  <2>1. d \in Doc /\ d.parent = doc[p].parent /\ d.subprocess = c
    BY <1>1 DEF Doc
  <2>2. e \in Doc /\ e.parent = p /\ e.subprocess = doc[c].subprocess
    BY <1>1 DEF Doc
  <2> QED  BY <2>1, <2>2
<1> HIDE DEF d, e, w
<1>6. DOMAIN todo = {1, 2} /\ todo[1] = <<p, d>> /\ todo[2] = <<c, e>>
  OBVIOUS
<1> HIDE DEF todo
<1>7. /\ w.read[p] = doc[p] /\ w.read[c] = doc[c] /\ doc[p] # NoDoc /\ doc[c] # NoDoc
      /\ DOMAIN w.todo = {1, 2} /\ w.todo[1] = <<p, d>> /\ w.todo[2] = <<c, e>>
  BY <1>1, <1>3, <1>4, <1>6, NoDocAssumption
<1>8. /\ \A l \in 1..(1 - 1) : FALSE
      /\ \A l \in 1..(2 - 1) : l = 1
  OBVIOUS
<1>9. LinkKept(w, 1) /\ SameParent(w, 1)
  <2>1. Links(d) \subseteq Links(doc[p]) \cup {c}
    BY <1>1, <1>5, LinksAre
  <2> QED  BY <1>5, <1>7, <1>8, <2>1 DEF LinkKept, SameParent
<1>10. LinkKept(w, 2)
  <2>1. Links(e) \subseteq {p, doc[c].subprocess} \ {None}
    BY <1>5, LinksAre
  <2>2. Links(doc[c]) = {doc[c].parent, doc[c].subprocess} \ {None}
    BY <1>1, LinksAre
  <2>3. p = c => doc[c].subprocess = None
    BY <1>1
  <2> QED  BY <1>7, <1>8, <2>1, <2>2, <2>3 DEF LinkKept
<1>11. ParentKept("pipeline", doc, w, 2)
  <2>1. CASE p = c
    BY <1>5, <1>7, <2>1 DEF ParentKept
  <2>2. CASE p # c
    <3>1. Planned(doc, w) = doc
      BY <1>0, <1>4, <1>7 DEF Planned
    <3>2. Adopted("pipeline", doc, w, 2)
      BY <1>0, <1>1, <1>4, <1>5, <1>7, <2>2, <3>1 DEF Adopted
    <3> QED  BY <3>2 DEF ParentKept
  <2> QED  BY <2>1, <2>2
<1>12. SaneJob("pipeline", w) /\ CreatesUnder(doc, w)
  BY <1>4, <1>5, <1>7, <1>9, <1>10 DEF SaneJob, AboutTo, CreatesUnder
<1>13. \A k \in DOMAIN w.todo : ParentKept("pipeline", doc, w, k)
  BY <1>7, <1>9, <1>11 DEF ParentKept
<1>14. InHand(w) \subseteq Disk \cup {None}
  <2>1. ParentsIn(w.read) \subseteq {doc[p].parent, doc[c].parent}
    BY <1>3, <1>4 DEF ParentsIn
  <2>2. {w.todo[k][1] : k \in DOMAIN w.todo} \subseteq {p, c}
    BY <1>7
  <2>3. {w.todo[k][2].parent : k \in {l \in DOMAIN w.todo : w.todo[l][2] # NoDoc}}
            \subseteq {doc[p].parent, p}
    BY <1>5, <1>7
  <2>4. InHand(w) \subseteq {p, c, doc[p].parent, doc[c].parent, None}
    BY <1>4, <2>1, <2>2, <2>3 DEF InHand
  <2> QED  BY <1>1, <2>4, DiskNames
<1> QED  BY <1>2, <1>4, <1>12, <1>13, <1>14 DEF Quietly, FreshStart, Program

LEMMA ServiceStarts ==
    ASSUME HeirInv, ServiceVerb
    PROVE  \E b, k : Quietly(b, k)
<1> "service" \in Program
  BY DEF Program
<1>1. ASSUME NEW p \in Pid \cup {None}, Create(p) PROVE \E b, k : Quietly(b, k)
  <2> DEFINE j == Job("create", "allocating", p, {p})
  <2>1. ToMint(j, "create", p, {p})
    BY DEF ToMint, Job, Idle
  <2>2. Begins("service", j) /\ p \in OnDisk \cup {None}
    BY <1>1 DEF Create
  <2> HIDE DEF j
  <2>3. \A q : {q} \cap Pid \subseteq {q} /\ {} \cap Pid \subseteq {q}
    OBVIOUS
  <2> QED  BY <2>1, <2>2, <2>3, AllocatingStarts
<1>2. ASSUME NEW p \in Pid, Settle("service", p) PROVE \E b, k : Quietly(b, k)
  <2>1. p \in OnDisk /\ doc[p] \in Doc
    BY <1>2, DiskIsHonest DEF Settle
  <2> DEFINE new == [doc[p] EXCEPT !.pending = "settled"]
  <2>2. new \in Doc /\ new.parent = doc[p].parent /\ new.subprocess = doc[p].subprocess
    BY <2>1 DEF Doc
  <2>3. Begins("service", Writing(Job("settle", "writing", p, {p}), <<<<p, new>>>>))
    BY <1>2 DEF Settle
  <2> HIDE DEF new
  <2> QED  BY <2>1, <2>2, <2>3, OneFileStarts
<1>3. ASSUME NEW p \in Pid, Delete(p) PROVE \E b, k : Quietly(b, k)
  <2>1. p \in OnDisk
    BY <1>3 DEF Delete
  <2> QED  BY <1>3, <2>1, DeleteStarts
<1>4. ASSUME Save PROVE \E b, k : Quietly(b, k)
  BY <1>4, SaveStarts
<1>5. ASSUME NEW seq \in SetToSeqs(Actives), SetOrder(seq) PROVE \E b, k : Quietly(b, k)
  <2>1. Actives \in SUBSET Pid
    BY DEF Actives, OnDisk
  <2>2. ToSet(seq) = Actives
    BY <1>5, <2>1, ExactlyAll DEF SetOrder
  <2> QED  BY <1>5, <2>2, SequenceStarts DEF SetOrder
<1> QED  BY <1>1, <1>2, <1>3, <1>4, <1>5 DEF ServiceVerb

LEMMA PipelineStarts ==
    ASSUME HeirInv, CurInv, PipelineVerb
    PROVE  \E b, k : Quietly(b, k)
<1> "pipeline" \in Program
  BY DEF Program
<1>1. ASSUME NEW verb \in {"new", "nest"}, New(verb) PROVE \E b, k : Quietly(b, k)
  <2> DEFINE j == Job(verb, "allocating", None, {})
  <2>1. ToMint(j, verb, None, {})
    BY DEF ToMint, Job, Idle
  <2>2. Begins("pipeline", j)
    BY <1>1 DEF New
  <2> HIDE DEF j
  <2>3. \A q : {q} \cap Pid \subseteq {q} /\ {} \cap Pid \subseteq {q}
    OBVIOUS
  <2> QED  BY <2>1, <2>2, <2>3, AllocatingStarts
<1>2. ASSUME NEW p \in Pid, UpdateProposes(p) PROVE \E b, k : Quietly(b, k)
  <2>1. p \in OnDisk /\ doc[p] \in Doc
    BY <1>2, DiskIsHonest DEF UpdateProposes
  <2> DEFINE new == [doc[p] EXCEPT !.pending = "open"]
  <2>2. new \in Doc /\ new.parent = doc[p].parent /\ new.subprocess = doc[p].subprocess
    BY <2>1 DEF Doc
  <2>3. Begins("pipeline", Writing(Job("update", "writing", p, {p}), <<<<p, new>>>>))
    BY <1>2 DEF UpdateProposes
  <2> HIDE DEF new
  <2> QED  BY <2>1, <2>2, <2>3, OneFileStarts
<1>3. ASSUME NEW p \in Pid, UpdateDecomposes(p) PROVE \E b, k : Quietly(b, k)
  <2> DEFINE j == Job("update", "allocating", p, {p})
  <2>1. ToMint(j, "update", p, {p})
    BY DEF ToMint, Job, Idle
  <2>2. Begins("pipeline", j) /\ p \in OnDisk \cup {None}
    BY <1>3 DEF UpdateDecomposes
  <2> HIDE DEF j
  <2>3. \A q : {q} \cap Pid \subseteq {q} /\ {} \cap Pid \subseteq {q}
    OBVIOUS
  <2> QED  BY <2>1, <2>2, <2>3, AllocatingStarts
<1>4. ASSUME NEW p \in Pid, RemoveProcess(p) PROVE \E b, k : Quietly(b, k)
  <2>1. p \in OnDisk /\ doc[p] \in Doc /\ {} \in SUBSET Pid
    BY <1>4, DiskIsHonest DEF RemoveProcess
  <2> DEFINE new == Buries(doc[p], {})
  <2>2. new \in Doc /\ new.parent = doc[p].parent /\ new.subprocess = doc[p].subprocess
    BY <2>1, BuriedDoc, LinksAre
  <2>3. Begins("pipeline", Writing(Job("remove", "writing", p, {p}), <<<<p, new>>>>))
    BY <1>4 DEF RemoveProcess
  <2> HIDE DEF new
  <2> QED  BY <2>1, <2>2, <2>3, OneFileStarts
<1>5. ASSUME NEW p \in Pid, Settle("pipeline", p) PROVE \E b, k : Quietly(b, k)
  <2>1. p \in OnDisk /\ doc[p] \in Doc
    BY <1>5, DiskIsHonest DEF Settle
  <2> DEFINE new == [doc[p] EXCEPT !.pending = "settled"]
  <2>2. new \in Doc /\ new.parent = doc[p].parent /\ new.subprocess = doc[p].subprocess
    BY <2>1 DEF Doc
  <2>3. Begins("pipeline", Writing(Job("settle", "writing", p, {p}), <<<<p, new>>>>))
    BY <1>5 DEF Settle
  <2> HIDE DEF new
  <2> QED  BY <2>1, <2>2, <2>3, OneFileStarts
<1>6. ASSUME NEW p \in Pid, NEW c \in Pid, Attach(p, c) PROVE \E b, k : Quietly(b, k)
  BY <1>6, AttachStarts
<1>7. ASSUME NEW p \in Pid, NEW to \in Pid, MoveInOrder(p, to) PROVE \E b, k : Quietly(b, k)
  <2>1. ToSet(Moved(Dedup(order), p, to)) = ToSet(order)
    BY <1>7, MovedCurated DEF CurInv, MoveInOrder
  <2> QED  BY <1>7, <2>1, SequenceStarts DEF MoveInOrder
<1>8. ASSUME NEW s \in Plan, NEW c \in Pid \cup {None}, Restructure(s, c) PROVE \E b, k : Quietly(b, k)
  <2> DEFINE i == Job("restructure", "allocating", None, {})
             j == [i EXCEPT !.supersedes = s, !.other = c]
  <2>1. ToMint(j, "restructure", None, {})
    BY DEF ToMint, Job, Idle
  <2>2. Begins("pipeline", j)
    BY <1>8 DEF Restructure
  <2> HIDE DEF j
  <2>3. \A q : {q} \cap Pid \subseteq {q} /\ {} \cap Pid \subseteq {q}
    OBVIOUS
  <2> QED  BY <2>1, <2>2, <2>3, AllocatingStarts
<1> QED  BY <1>1, <1>2, <1>3, <1>4, <1>5, <1>6, <1>7, <1>8 DEF PipelineVerb

-----------------------------------------------------------------------------
(* What a verb has in hand stays sane.                                      *)

LEMMA IdleSane == \A a, d : SaneJob(a, Idle) /\ CreatesUnder(d, Idle)
BY DEF SaneJob, CreatesUnder, Idle

LEMMA SaneStep ==
    ASSUME SaneInv, DOMAIN job = Program, NEW a \in Program, NEW k, SaneJob(a, k), CreatesUnder(doc', k),
           job' = [job EXCEPT ![a] = k],
           \A b \in Program \ {a} : CreatesUnder(doc', job[b])
    PROVE  SaneInv'
<1>1. \A b \in Program : job'[b] = IF b = a THEN k ELSE job[b]
  OBVIOUS
<1>2. \A b \in Program : SaneJob(b, job'[b]) /\ CreatesUnder(doc', job'[b])
  BY <1>1 DEF SaneInv
<1> QED  BY <1>2 DEF SaneInv

LEMMA SaneStill ==
    ASSUME SaneInv, DOMAIN job = Program, NEW a \in Program, NEW k, SaneJob(a, k), CreatesUnder(doc, k),
           job' = [job EXCEPT ![a] = k], doc' = doc
    PROVE  SaneInv'
BY SaneStep DEF SaneInv

\* A file that is written takes no parent away.
LEMMA CreatesStill ==
    ASSUME NEW d \in Docs, NEW j, j.subject \in Pid \cup {None}, CreatesUnder(d, j), NEW p, NEW new,
           new # NoDoc
    PROVE  CreatesUnder([d EXCEPT ![p] = new], j)
BY DEF CreatesUnder, Docs

\* The first file of several is written: the others' links are still kept.
LEMMA LinkStillKept ==
    ASSUME NEW j, NEW k, j.todo \in Seq(File), j.todo # <<>>, j.read \in Docs,
           k.todo = Tail(j.todo), k.read = [j.read EXCEPT ![j.todo[1][1]] = j.todo[1][2]],
           \A n \in DOMAIN j.todo : j.todo[n][2] \in Doc /\ LinkKept(j, n)
    PROVE  \A n \in DOMAIN k.todo : k.todo[n][2] \in Doc /\ LinkKept(k, n)
<1> DEFINE p == j.todo[1][1]
           new == j.todo[1][2]
<1>1. /\ Len(j.todo) \in Nat \ {0} /\ DOMAIN j.todo = 1..Len(j.todo) /\ 1 \in DOMAIN j.todo
      /\ DOMAIN k.todo = 1..(Len(j.todo) - 1)
      /\ \A n \in DOMAIN k.todo : n + 1 \in DOMAIN j.todo /\ k.todo[n] = j.todo[n + 1]
      /\ \A n \in DOMAIN j.todo \ {1} : n - 1 \in DOMAIN k.todo /\ k.todo[n - 1] = j.todo[n]
  OBVIOUS
<1>2. p \in Pid /\ new \in Doc /\ new # NoDoc
  BY <1>1, NoDocAssumption DEF File
<1>3. \A x \in Pid : k.read[x] = IF x = p THEN new ELSE j.read[x]
  BY DEF Docs
<1> HIDE DEF p, new
<1> SUFFICES ASSUME NEW n \in DOMAIN k.todo PROVE k.todo[n][2] \in Doc /\ LinkKept(k, n)
  OBVIOUS
<1>4. /\ n + 1 \in DOMAIN j.todo /\ k.todo[n] = j.todo[n + 1] /\ k.todo[n][2] \in Doc
      /\ LinkKept(j, n + 1)
  BY <1>1
<1>5. ASSUME NEW x \in Links(k.todo[n][2])
      PROVE  \/ k.read[x] # NoDoc
             \/ \E l \in DOMAIN k.todo : k.todo[l][1] = x
             \/ /\ x \in Links(k.read[k.todo[n][1]])
                /\ \A l \in 1..(n - 1) : k.todo[l][1] = k.todo[n][1] => x \in Links(k.todo[l][2])
  <2>1. x \in Pid
    BY <1>4, <1>5, LinksAre
  <2>2. CASE j.read[x] # NoDoc
    BY <1>2, <1>3, <2>1, <2>2
  <2>3. CASE \E l \in DOMAIN j.todo : j.todo[l][1] = x
    <3>1. PICK l \in DOMAIN j.todo : j.todo[l][1] = x
      BY <2>3
    <3>2. CASE l = 1
      BY <1>2, <1>3, <2>1, <3>1, <3>2 DEF p
    <3>3. CASE l # 1
      BY <1>1, <3>1, <3>3
    <3> QED  BY <3>2, <3>3
  <2>4. CASE /\ x \in Links(j.read[j.todo[n + 1][1]])
             /\ \A l \in 1..((n + 1) - 1) : j.todo[l][1] = j.todo[n + 1][1] => x \in Links(j.todo[l][2])
    <3> DEFINE t == j.todo[n + 1][1]
    <3>1. t \in Pid /\ t = k.todo[n][1]
      BY <1>4 DEF File
    <3>2. \A l \in 1..(n - 1) : l + 1 \in 1..((n + 1) - 1) /\ k.todo[l] = j.todo[l + 1]
      BY <1>1
    <3>3. 1 \in 1..((n + 1) - 1)
      BY <1>1
    <3> HIDE DEF t
    <3>4. \A l \in 1..(n - 1) : k.todo[l][1] = k.todo[n][1] => x \in Links(k.todo[l][2])
      BY <2>4, <3>1, <3>2 DEF t
    <3>5. x \in Links(k.read[t])
      <4>1. CASE t = p
        <5>1. x \in Links(new)
          BY <2>4, <3>3, <4>1 DEF t, p, new
        <5> QED  BY <1>3, <3>1, <4>1, <5>1
      <4>2. CASE t # p
        BY <1>3, <2>4, <3>1, <4>2 DEF t
      <4> QED  BY <4>1, <4>2
    <3> QED  BY <3>1, <3>4, <3>5
  <2> QED  BY <1>4, <1>5, <2>2, <2>3, <2>4 DEF LinkKept
<1> QED  BY <1>4, <1>5 DEF LinkKept

LEMMA MintedSane ==
    ASSUME HeirInv, SaneInv, NEW a \in Program, job[a].phase = "storing",
           job[a].verb \notin {"restructure", "nest"}, job[a].id \in Pid
    PROVE  SaneJob(a, Writing(job[a], MintedWrites(job[a])))
<1> DEFINE j == job[a]
           s == j.subject
           child == <<j.id, Fresh(s)>>
           known == IF j.verb = "new" THEN Fresh(None) ELSE j.read[s]
           old == IF j.verb = "new" THEN {} ELSE Links(j.read[s])
           new == [known EXCEPT !.subprocess = j.id]
           parent == <<s, new>>
           todo == MintedWrites(j)
           w == Writing(j, todo)
<1>1. /\ DOMAIN j = DOMAIN Idle /\ j.id \in Pid /\ s \in Pid \cup {None}
      /\ s # None /\ j.verb # "new" => j.read[s] \in Doc
      /\ SaneJob(a, j) /\ CreatesUnder(doc, j) /\ j.phase = "storing"
  BY NoDocAssumption DEF HeirInv, HonestJob, MintsUnder, Loaded, Formed, HonestRead, SaneInv
<1>2. w.verb = j.verb /\ w.phase = "writing" /\ w.todo = todo /\ w.read = j.read
  BY <1>1, InWriting DEF Ready
<1>3. j.verb \notin {"delete", "save", "nest"} /\ (j.verb = "create" => a = "service")
  BY <1>1 DEF SaneJob
<1>4. Fresh(s) \in Doc /\ Links(Fresh(s)) = {s} \ {None}
  <2>1. Fresh(s) \in Doc
    BY <1>1, FreshHonest
  <2>2. Fresh(s).parent = s /\ Fresh(s).subprocess = None
    BY DEF Fresh
  <2> QED  BY <2>1, <2>2, LinksAre
<1>5. s # None => /\ new \in Doc /\ Links(new) \subseteq old \cup {j.id}
                  /\ j.verb # "new" => j.read[s] # NoDoc /\ old = Links(j.read[s])
  <2> SUFFICES ASSUME s # None PROVE new \in Doc /\ Links(new) \subseteq old \cup {j.id}
    BY <1>1, NoDocAssumption
  <2>1. Fresh(None) \in Doc /\ Fresh(None).parent = None
    BY FreshHonest DEF Fresh
  <2>2. known \in Doc /\ (j.verb = "new" => known.parent = None)
    BY <1>1, <2>1
  <2>4. known.parent \in old \cup {None}
    BY <1>1, <2>2, LinksAre
  <2> HIDE DEF known, old
  <2>3. new \in Doc /\ new.parent = known.parent /\ new.subprocess = j.id
    BY <1>1, <2>2 DEF Doc
  <2> HIDE DEF new
  <2> QED  BY <2>2, <2>3, <2>4, LinksAre
<1>6. /\ s = None => todo = <<child>>
      /\ s # None /\ j.verb = "create" => todo = <<child, parent>>
      /\ s # None /\ j.verb # "create" => todo = <<parent, child>>
  BY DEF MintedWrites
<1>9. s # None /\ j.verb = "create" => j.id # s
  BY <1>1 DEF CreatesUnder
<1> HIDE DEF j, w, todo, new, s, old, known
<1>14. s # None => \A x \in Links(new) : x = j.id \/ (x \in old /\ j.verb # "new")
  BY <1>5 DEF old
<1>7. \A l \in 1..(1 - 1) : FALSE
  OBVIOUS
<1>8. \A l \in 1..(2 - 1) : l = 1
  OBVIOUS
<1>10. ASSUME s = None
       PROVE  \A k \in DOMAIN w.todo : w.todo[k][2] \in Doc /\ LinkKept(w, k)
  <2>1. DOMAIN w.todo = {1} /\ w.todo[1] = child
    BY <1>2, <1>6, <1>10
  <2> QED  BY <1>4, <1>10, <2>1 DEF LinkKept
<1>11. ASSUME s # None, j.verb = "create"
       PROVE  \A k \in DOMAIN w.todo : w.todo[k][2] \in Doc /\ LinkKept(w, k)
  <2>1. DOMAIN w.todo = {1, 2} /\ w.todo[1] = child /\ w.todo[2] = parent
    BY <1>2, <1>6, <1>11
  <2>2. LinkKept(w, 1)
    BY <1>2, <1>4, <1>5, <1>11, <2>1 DEF LinkKept
  <2>3. LinkKept(w, 2)
    BY <1>2, <1>5, <1>8, <1>9, <1>11, <1>14, <2>1 DEF LinkKept
  <2> QED  BY <1>4, <1>5, <1>11, <2>1, <2>2, <2>3
<1>12. ASSUME s # None, j.verb # "create"
       PROVE  \A k \in DOMAIN w.todo : w.todo[k][2] \in Doc /\ LinkKept(w, k)
  <2>1. DOMAIN w.todo = {1, 2} /\ w.todo[1] = parent /\ w.todo[2] = child
    BY <1>2, <1>6, <1>12
  <2>2. LinkKept(w, 1)
    BY <1>2, <1>5, <1>7, <1>12, <1>14, <2>1 DEF LinkKept
  <2>3. LinkKept(w, 2)
    BY <1>2, <1>4, <1>5, <1>12, <2>1 DEF LinkKept
  <2> QED  BY <1>4, <1>5, <1>12, <2>1, <2>2, <2>3
<1>13. SaneJob(a, w)
  BY <1>2, <1>3, <1>10, <1>11, <1>12 DEF SaneJob, AboutTo
<1> QED  BY <1>13 DEF w, todo, j

LEMMA Behind ==
    ASSUME NEW A, NEW x, NEW t \in Seq(A), NEW u \in Seq(A)
    PROVE  \A k \in DOMAIN (<<x>> \o t \o u) : k # 1 => (<<x>> \o t \o u)[k] \in A
<1> DEFINE B == A \cup {x}
           v == <<x>> \o t
<1>1. <<x>> \in Seq(B) /\ t \in Seq(B) /\ u \in Seq(B) /\ Len(<<x>>) = 1
  OBVIOUS
<1> HIDE DEF B
<1>2. v \in Seq(B) /\ Len(v) = 1 + Len(t) /\ \A k \in 2..(1 + Len(t)) : v[k] = t[k - 1]
  BY <1>1
<1> HIDE DEF v
<1>3. /\ DOMAIN (v \o u) = 1..(1 + Len(t) + Len(u))
      /\ \A k \in 1..(1 + Len(t) + Len(u)) :
            (v \o u)[k] = IF k <= 1 + Len(t) THEN v[k] ELSE u[k - (1 + Len(t))]
  BY <1>1, <1>2
<1>4. /\ \A k \in 2..(1 + Len(t)) : t[k - 1] \in A
      /\ \A k \in (2 + Len(t))..(1 + Len(t) + Len(u)) : u[k - (1 + Len(t))] \in A
  OBVIOUS
<1>5. Len(t) \in Nat /\ Len(u) \in Nat
  OBVIOUS
<1> SUFFICES ASSUME NEW k \in DOMAIN (v \o u), k # 1 PROVE (v \o u)[k] \in A
  BY DEF v
<1>6. \/ k \in 2..(1 + Len(t)) /\ k <= 1 + Len(t)
      \/ k \in (2 + Len(t))..(1 + Len(t) + Len(u)) /\ ~(k <= 1 + Len(t))
  BY <1>3, <1>5
<1> QED  BY <1>2, <1>3, <1>4, <1>6

\* Behind the heir come neighbours and originals.
LEMMA PlanFilesFrom ==
    ASSUME NEW j, PlanJob(j), Closed(j)
    PROVE  \A k \in DOMAIN PlanFiles(j) :
              k # 1 => PlanFiles(j)[k] \in Neighbours(j) \cup ToSet(j.supersedes)
<1> DEFINE N == Neighbours(j)
           A == N \cup ToSet(j.supersedes)
           s == <<j.id>>
           t == LoadOrder(j)
           u == j.supersedes
<1>1. t \in Seq(A)
  BY LoadOrderIs
<1>2. u \in Seq(A)
  BY DEF PlanJob, ToSet
<1>3. PlanFiles(j) = s \o t \o u
  BY DEF PlanFiles
<1> HIDE DEF A, s, t, u
<1>6. \A k \in DOMAIN (s \o t \o u) : k # 1 => (s \o t \o u)[k] \in A
  BY <1>1, <1>2, Behind DEF s
<1> QED  BY <1>3, <1>6 DEF A


\* A plan with its files.
PlanLoaded(w, j) ==
    LET S == Neighbours(j) \cup ToSet(j.supersedes) IN
    /\ w.verb = j.verb /\ w.phase = "writing" /\ w.subject = j.subject
    /\ w.other = j.other /\ w.id = j.id
    /\ w.read = [p \in Pid |-> IF p \in S THEN doc[p] ELSE NoDoc]
    /\ DOMAIN w.todo = 1..Len(PlanFiles(j)) /\ Len(PlanFiles(j)) \in Nat \ {0}
    /\ w.todo[1][1] = j.id
    /\ \A k \in DOMAIN w.todo : /\ w.todo[k][1] \in OnDisk \cup {j.id}
                                /\ k # 1 => w.todo[k][1] \in S
                                /\ w.todo[k][2] = Restructured(doc, j)[w.todo[k][1]]

LEMMA PlanIsLoaded ==
    ASSUME HeirInv, RestructureLoads
    PROVE  \E w : PlanLoaded(w, job["pipeline"]) /\ job' = [job EXCEPT !["pipeline"] = w]
<1> DEFINE j == job["pipeline"]
           F == PlanFiles(j)
           result == Restructured(doc, j)
           S == Neighbours(j) \cup ToSet(j.supersedes)
           read == [p \in Pid |-> IF p \in S THEN doc[p] ELSE NoDoc]
           loaded == [j EXCEPT !.read = read]
           todo == [i \in DOMAIN F |-> <<F[i], result[F[i]]>>]
           w == Writing(loaded, todo)
<1>1. Closed(j) /\ PlanJob(j) /\ DOMAIN j = DOMAIN Idle
  BY DEF HeirInv, HonestJob, MintsUnder, Loaded, Formed, PlanJob, RestructureLoads, Program
<1>2. F \in Seq(OnDisk \cup {j.id}) /\ Len(F) > 0 /\ F[1] = j.id
  BY <1>1, PlanFilesAre
<1>3. \A k \in DOMAIN F : k # 1 => F[k] \in S
  BY <1>1, PlanFilesFrom
<1>4. job' = [job EXCEPT !["pipeline"] = w]
  BY DEF RestructureLoads
<1> HIDE DEF j, F, result, S, read
<1>5. /\ DOMAIN loaded = DOMAIN Idle /\ loaded.verb = j.verb /\ loaded.subject = j.subject
      /\ loaded.other = j.other /\ loaded.id = j.id /\ loaded.read = read
  BY <1>1 DEF Idle
<1> HIDE DEF loaded
<1>6. /\ w.verb = j.verb /\ w.phase = "writing" /\ w.subject = j.subject
      /\ w.other = j.other /\ w.id = j.id /\ w.read = read /\ w.todo = todo
  BY <1>5, InWriting DEF Ready
<1> HIDE DEF w
<1>7. DOMAIN F = 1..Len(F) /\ Len(F) \in Nat \ {0} /\ \A k \in DOMAIN F : F[k] \in OnDisk \cup {j.id}
  BY <1>2
<1>8. DOMAIN todo = DOMAIN F /\ \A k \in DOMAIN F : todo[k] = <<F[k], result[F[k]]>>
  OBVIOUS
<1> HIDE DEF todo
<1>9. \A k \in DOMAIN w.todo : w.todo[k][1] = F[k] /\ w.todo[k][2] = result[F[k]]
  BY <1>6, <1>8
<1>10. 1 \in DOMAIN w.todo /\ DOMAIN w.todo = 1..Len(F)
  BY <1>6, <1>7, <1>8
<1>11. PlanLoaded(w, j)
  BY <1>2, <1>3, <1>6, <1>7, <1>8, <1>9, <1>10 DEF PlanLoaded, F, result, S, read
<1> QED  BY <1>4, <1>11 DEF j

LEMMA PlanSane ==
    ASSUME HeirInv, SaneInv, RestructureLoads
    PROVE  SaneInv'
<1> DEFINE j == job["pipeline"]
           S == Neighbours(j) \cup ToSet(j.supersedes)
           r == Restructured(doc, j)
<1>1. "pipeline" \in Program /\ DOMAIN job = Program /\ doc' = doc
  BY DEF Program, HeirInv, RestructureLoads, files
<1>2. PICK w : PlanLoaded(w, j) /\ job' = [job EXCEPT !["pipeline"] = w]
  BY PlanIsLoaded
<1>3. /\ Closed(j) /\ PlanJob(j) /\ DOMAIN j = DOMAIN Idle /\ j.other \in Nat /\ j.phase = "loading"
      /\ doc \in Docs /\ SaneJob("pipeline", j)
  BY <1>1 DEF HeirInv, HonestJob, MintsUnder, Loaded, Formed, PlanJob, RestructureLoads, HonestRead, Docs, SaneInv
<1>4. \A p \in OnDisk \cup {j.id} :
         /\ r[p] \in Doc
         /\ Links(r[p]) \subseteq (IF p = j.id THEN {} ELSE Links(doc[p]))
                                    \cup Boxes(j) \cup {j.id, j.other}
  BY <1>3, PlanLinks
<1>5. j.verb \notin {"delete", "save"}
  BY <1>3 DEF SaneJob
<1>6. \A x \in (Boxes(j) \cup {j.id, j.other}) \ {None} : x = j.id \/ (x \in S /\ doc[x] # NoDoc /\ x \in Pid)
  <2>1. Boxes(j) \subseteq OnDisk \cup {None, j.id} /\ S \subseteq OnDisk
    BY <1>3 DEF Closed, Boxes
  <2>2. (Boxes(j) \cup {j.other}) \ ({None, j.id} \cup ToSet(j.supersedes)) \subseteq Neighbours(j)
    BY DEF Neighbours, Boxes
  <2> QED  BY <2>1, <2>2 DEF OnDisk
<1> HIDE DEF j, S, r
<1>7. /\ w.verb = j.verb /\ w.phase = "writing" /\ w.id = j.id
      /\ w.read = [p \in Pid |-> IF p \in S THEN doc[p] ELSE NoDoc]
      /\ w.todo[1][1] = j.id /\ 1 \in DOMAIN w.todo
      /\ \A k \in DOMAIN w.todo : /\ w.todo[k][1] \in OnDisk \cup {j.id}
                                  /\ k # 1 => w.todo[k][1] \in S
                                  /\ w.todo[k][2] = r[w.todo[k][1]]
  <2>1. PlanLoaded(w, j) /\ \A n \in Nat \ {0} : 1 \in 1..n
    BY <1>2
  <2> QED  BY <2>1 DEF PlanLoaded, S, r
<1>8. ASSUME NEW k \in DOMAIN w.todo PROVE LinkKept(w, k)
  <2> SUFFICES ASSUME NEW x \in Links(w.todo[k][2])
               PROVE  \/ w.read[x] # NoDoc
                      \/ \E l \in DOMAIN w.todo : w.todo[l][1] = x
                      \/ /\ x \in Links(w.read[w.todo[k][1]])
                         /\ \A l \in 1..(k - 1) : w.todo[l][1] = w.todo[k][1] => x \in Links(w.todo[l][2])
    BY DEF LinkKept
  <2> DEFINE p == w.todo[k][1]
  <2>1. p \in OnDisk \cup {j.id} /\ w.todo[k][2] = r[p] /\ (k # 1 => p \in S)
    BY <1>7
  <2>2. x # None /\ x \in (IF p = j.id THEN {} ELSE Links(doc[p])) \cup Boxes(j) \cup {j.id, j.other}
    BY <1>4, <2>1, LinksAre
  <2>3. CASE x = j.id
    BY <1>7, <2>3
  <2>4. CASE x \in Boxes(j) \cup {j.other} /\ x # j.id
    BY <1>6, <1>7, <2>2, <2>4
  <2>5. CASE x \in Links(doc[p]) /\ p # j.id
    <3>1. k # 1
      BY <1>7, <2>5
    <3>2. p \in Pid /\ w.read[p] = doc[p]
      BY <1>7, <2>1, <2>5, <3>1 DEF OnDisk
    <3>3. \A l \in 1..(k - 1) : l \in DOMAIN w.todo
      <4>1. \E n \in Nat : DOMAIN w.todo = 1..n
        BY <1>2 DEF PlanLoaded, j
      <4> QED  BY <4>1
    <3>4. \A l \in 1..(k - 1) : w.todo[l][1] = p => w.todo[l][2] = r[p]
      BY <1>7, <3>3
    <3> QED  BY <2>1, <2>5, <3>2, <3>4
  <2> QED  BY <2>2, <2>3, <2>4, <2>5
<1>9. \A k \in DOMAIN w.todo : w.todo[k][2] \in Doc
  BY <1>4, <1>7
<1>10. SaneJob("pipeline", w) /\ CreatesUnder(doc, w)
  <2>1. j.verb # "create" /\ (j.verb = "nest" => w.subject = None)
    BY <1>2, <1>3 DEF SaneJob, PlanLoaded, j
  <2> QED  BY <1>5, <1>7, <1>8, <1>9, <2>1 DEF SaneJob, AboutTo, CreatesUnder
<1> QED  BY <1>1, <1>2, <1>10, SaneStill

-----------------------------------------------------------------------------
(* What each step makes of the job that takes it.                           *)

\* The same files in hand, in another phase.
InPhase(k, j, phase) ==
    /\ k.verb = j.verb /\ k.phase = phase /\ k.subject = j.subject
    /\ k.other = j.other /\ k.read = j.read /\ k.todo = j.todo

LEMMA JobsAre ==
    ASSUME HeirInv, NEW a \in Program
    PROVE  /\ DOMAIN job = Program /\ DOMAIN job[a] = DOMAIN Idle
           /\ job[a].subject \in Pid \cup {None} /\ job[a].read \in Docs
           /\ job[a].other \in Nat /\ job[a].todo \in Seq(File)
           /\ job[a].phase \in {"minting", "storing"} => job[a].id \in Pid
BY DEF HeirInv, HonestJob, MintsUnder, Loaded, Formed, HonestRead, HonestFiles, Docs

LEMMA MintReadsIs ==
    ASSUME HeirInv, NEW a \in Program, MintReads(a)
    PROVE  /\ UNCHANGED <<files, draft, history>> /\ job[a].phase = "allocating"
           /\ \E k : /\ job' = [job EXCEPT ![a] = k]
                     /\ InPhase(k, job[a], "minting") /\ k.id \in Pid /\ IsNext(job[a], k.id)
<1> DEFINE j == job[a]
<1>1. DOMAIN job = Program /\ DOMAIN j = DOMAIN Idle
  BY JobsAre
<1>2. PICK n \in Pid : IsNext(j, n) /\ job' = [job EXCEPT ![a].id = n, ![a].phase = "minting"]
  BY DEF MintReads
<1> DEFINE k == [j EXCEPT !.id = n, !.phase = "minting"]
<1>3. job' = [job EXCEPT ![a] = k]
  BY <1>1, <1>2
<1> HIDE DEF j
<1>4. InPhase(k, j, "minting") /\ k.id = n
  BY <1>1 DEF InPhase, Idle
<1> QED  BY <1>2, <1>3, <1>4 DEF MintReads, j

LEMMA MintOpensIs ==
    ASSUME HeirInv, NEW a \in Program, MintOpens(a)
    PROVE  /\ UNCHANGED <<doc, ledger, order, draft, given, torn, gone, disturbed>>
           /\ job[a].phase = "minting" /\ ~whole'
           /\ raced' = (raced \/ ~IsNext(job[a], job[a].id) \/ \E b \in Program : job[b].phase = "storing")
           /\ \E k : /\ job' = [job EXCEPT ![a] = k]
                     /\ InPhase(k, job[a], "storing") /\ k.id = job[a].id
<1> DEFINE j == job[a]
           k == [j EXCEPT !.phase = "storing"]
<1>1. DOMAIN job = Program /\ DOMAIN j = DOMAIN Idle
  BY JobsAre
<1>2. job' = [job EXCEPT ![a] = k]
  BY <1>1 DEF MintOpens
<1> HIDE DEF j
<1>3. InPhase(k, j, "storing") /\ k.id = j.id
  BY <1>1 DEF InPhase, Idle
<1> QED  BY <1>2, <1>3 DEF MintOpens, j

\* A `new` with a sub-process has its own number and mints the other.
Nests(k, j) ==
    /\ k.verb = "new" /\ k.phase = "allocating" /\ k.subject = j.id /\ k.id = j.id
    /\ k.other = j.other /\ k.read = j.read /\ k.todo = j.todo

LEMMA NestMintsIs ==
    ASSUME HeirInv, NEW a \in Program, MintWrites(a), job[a].verb = "nest"
    PROVE  \E k : job' = [job EXCEPT ![a] = k] /\ Nests(k, job[a])
<1> DEFINE j == job[a]
           k == [j EXCEPT !.verb = "new", !.phase = "allocating", !.subject = j.id]
<1>1. DOMAIN j = DOMAIN Idle
  BY JobsAre
<1>2. job' = [job EXCEPT ![a] = k]
  BY DEF MintWrites, Minted
<1> HIDE DEF j
<1>3. Nests(k, j)
  BY <1>1 DEF Nests, Idle
<1> HIDE DEF k
<1> QED  BY <1>2, <1>3 DEF j

LEMMA RestructureMintsIs ==
    ASSUME HeirInv, NEW a \in Program, MintWrites(a), job[a].verb = "restructure"
    PROVE  \E k : /\ job' = [job EXCEPT ![a] = k]
                  /\ InPhase(k, job[a], "loading") /\ k.id = job[a].id
<1> DEFINE j == job[a]
           k == [j EXCEPT !.phase = "loading"]
<1>1. DOMAIN j = DOMAIN Idle
  BY JobsAre
<1>2. job' = [job EXCEPT ![a] = k]
  BY DEF MintWrites, Minted
<1> HIDE DEF j
<1>3. InPhase(k, j, "loading") /\ k.id = j.id
  BY <1>1 DEF InPhase, Idle
<1> QED  BY <1>2, <1>3 DEF j

\* A sweep that looks at the next file: it has nothing to write, or that file.
Looks(k, j) ==
    /\ k.verb = j.verb /\ k.phase = "sweeping" /\ k.subject = j.subject /\ k.other = j.other + 1
    /\ \/ /\ k.read = j.read /\ k.todo = <<>>
          /\ doc[k.other] = NoDoc \/ Swept(doc[k.other], j.subject) = doc[k.other]
       \/ /\ k.read = [j.read EXCEPT ![k.other] = doc[k.other]]
          /\ k.todo = <<<<k.other, Swept(doc[k.other], j.subject)>>>>
          /\ doc[k.other] # NoDoc

LEMMA SweepReadsIs ==
    ASSUME HeirInv, SweepReads
    PROVE  /\ UNCHANGED <<files, draft, history>> /\ "service" \in Program
           /\ job["service"].phase = "sweeping" /\ job["service"].todo = <<>>
           /\ job["service"].other + 1 \in Pid
           /\ \E k : job' = [job EXCEPT !["service"] = k] /\ Looks(k, job["service"])
<1> DEFINE j == job["service"]
           p == j.other + 1
           d == Swept(doc[p], j.subject)
           read == [j.read EXCEPT ![p] = doc[p]]
           seen == [j EXCEPT !.other = p]
           found == [j EXCEPT !.other = p, !.read[p] = doc[p], !.todo = <<<<p, d>>>>]
           k == IF doc[p] # NoDoc /\ d # doc[p] THEN found ELSE seen
<1>1. "service" \in Program /\ DOMAIN j = DOMAIN Idle
  BY JobsAre DEF Program
<1>2. /\ p \in Pid /\ job' = [job EXCEPT !["service"] = k] /\ j.phase = "sweeping" /\ j.todo = <<>>
      /\ UNCHANGED <<files, draft, history>>
  BY DEF SweepReads
<1> HIDE DEF j, p, d
<1>3. /\ seen.verb = j.verb /\ seen.phase = j.phase /\ seen.subject = j.subject /\ seen.other = p
      /\ seen.read = j.read /\ seen.todo = j.todo
  BY <1>1 DEF Idle
<1>4. found = [j EXCEPT !.other = p, !.read = read, !.todo = <<<<p, d>>>>]
  BY <1>1 DEF Idle
<1> HIDE DEF seen, found, read
<1>5. /\ found.verb = j.verb /\ found.phase = j.phase /\ found.subject = j.subject /\ found.other = p
      /\ found.read = read /\ found.todo = <<<<p, d>>>>
  BY <1>1, <1>4 DEF Idle
<1>6. Looks(k, j)
  <2>1. CASE doc[p] # NoDoc /\ d # doc[p]
    <3>1. k = found
      BY <2>1
    <3> HIDE DEF k
    <3> QED  BY <1>2, <1>5, <2>1, <3>1 DEF Looks, d, p, read
  <2>2. CASE ~(doc[p] # NoDoc /\ d # doc[p])
    <3>1. k = seen
      BY <2>2
    <3> HIDE DEF k
    <3> QED  BY <1>2, <1>3, <2>2, <3>1 DEF Looks, d, p
  <2> QED  BY <2>1, <2>2
<1> HIDE DEF k
<1> QED  BY <1>1, <1>2, <1>6 DEF j, p

LEMMA SweepWritesIs ==
    ASSUME HeirInv, SweepWrites
    PROVE  LET j == job["service"]
               p == j.todo[1][1]
           IN  /\ "service" \in Program
               /\ j.phase = "sweeping" /\ j.todo # <<>> /\ p \in Pid /\ j.todo[1][2] \in Doc
               /\ doc' = [doc EXCEPT ![p] = j.todo[1][2]]
               /\ disturbed' = (disturbed \/ doc[p] # j.read[p])
               /\ UNCHANGED <<ledger, whole, order, draft, given, raced, torn, gone>>
               /\ \E k : /\ job' = [job EXCEPT !["service"] = k]
                         /\ k.verb = j.verb /\ k.phase = "sweeping" /\ k.subject = j.subject
                         /\ k.other = j.other /\ k.todo = <<>>
                         /\ k.read = [j.read EXCEPT ![p] = NoDoc]
<1> DEFINE j == job["service"]
           p == j.todo[1][1]
           read == [j.read EXCEPT ![p] = NoDoc]
           k == [j EXCEPT !.todo = <<>>, !.read = read]
<1>1. "service" \in Program /\ DOMAIN job = Program /\ DOMAIN j = DOMAIN Idle /\ HonestJob(j, Known)
  BY JobsAre DEF Program, HeirInv
<1>2. /\ j.phase = "sweeping" /\ j.todo # <<>>
      /\ job' = [job EXCEPT !["service"].todo = <<>>, !["service"].read[p] = NoDoc]
      /\ doc' = [doc EXCEPT ![p] = j.todo[1][2]]
      /\ disturbed' = (disturbed \/ doc[p] # j.read[p])
      /\ UNCHANGED <<ledger, whole, order, draft, given, raced, torn, gone>>
  BY DEF SweepWrites
<1>3. job' = [job EXCEPT !["service"] = k]
  BY <1>1, <1>2 DEF Idle
<1>4. p \in Pid /\ j.todo[1][2] \in Doc
  BY <1>1, <1>2, FirstWritten DEF HonestJob, MintsUnder
<1> HIDE DEF j, p, read
<1>5. /\ k.verb = j.verb /\ k.phase = j.phase /\ k.subject = j.subject /\ k.other = j.other
      /\ k.todo = <<>> /\ k.read = read
  BY <1>1 DEF Idle
<1> HIDE DEF k
<1> QED  BY <1>1, <1>2, <1>3, <1>4, <1>5 DEF j, p, read

LEMMA SweepEndsIs ==
    ASSUME HeirInv, SweepEnds
    PROVE  /\ UNCHANGED <<files, draft, history>> /\ "service" \in Program
           /\ job["service"].phase = "sweeping" /\ job["service"].todo = <<>>
           /\ job["service"].other = MaxId
           /\ \E k : job' = [job EXCEPT !["service"] = k] /\ InPhase(k, job["service"], "syncing")
<1> DEFINE j == job["service"]
           k == [j EXCEPT !.phase = "syncing"]
<1>1. "service" \in Program /\ DOMAIN job = Program /\ DOMAIN j = DOMAIN Idle
  BY JobsAre DEF Program
<1>2. job' = [job EXCEPT !["service"] = k]
  BY <1>1 DEF SweepEnds
<1>3. /\ j.phase = "sweeping" /\ j.todo = <<>> /\ j.other = MaxId /\ UNCHANGED <<files, draft, history>>
  BY DEF SweepEnds
<1> HIDE DEF j
<1>4. InPhase(k, j, "syncing")
  BY <1>1 DEF InPhase, Idle
<1> HIDE DEF k
<1> QED  BY <1>1, <1>2, <1>3, <1>4 DEF j

LEMMA SyncReadsIs ==
    ASSUME HeirInv, NEW a \in Program, SyncReads(a)
    PROVE  /\ UNCHANGED <<files, draft, history>> /\ job[a].phase = "syncing"
           /\ \E k : job' = [job EXCEPT ![a] = k] /\ InPhase(k, job[a], "ordering")
<1> DEFINE j == job[a]
           k == [j EXCEPT !.phase = "ordering", !.actives = Actives, !.order = order]
<1>1. DOMAIN job = Program /\ DOMAIN j = DOMAIN Idle
  BY JobsAre
<1>2. job' = [job EXCEPT ![a] = k]
  BY <1>1 DEF SyncReads
<1>3. j.phase = "syncing" /\ UNCHANGED <<files, draft, history>>
  BY DEF SyncReads
<1> HIDE DEF j
<1>4. InPhase(k, j, "ordering")
  BY <1>1 DEF InPhase, Idle
<1> HIDE DEF k
<1> QED  BY <1>2, <1>3, <1>4 DEF j

\* A verb that has written its last file.
IsDone(k, j) ==
    \/ k = Idle /\ j.verb = "save"
    \/ /\ k.verb = j.verb /\ k.subject = j.subject /\ k.other = j.other
       /\ k.todo = <<>> /\ k.read = NothingRead /\ j.verb # "save"
       /\ k.phase = IF j.verb = "delete" THEN "sweeping" ELSE "syncing"

\* A verb that has more to write.
GoesOn(k, j) ==
    /\ k.verb = j.verb /\ k.phase = "writing" /\ k.subject = j.subject
    /\ k.other = j.other /\ k.id = j.id /\ k.todo = Tail(j.todo)
    /\ k.read = [j.read EXCEPT ![j.todo[1][1]] = j.todo[1][2]]

LEMMA WritesIs ==
    ASSUME HeirInv, NEW a \in Program, Writes(a)
    PROVE  LET j == job[a]
               p == j.todo[1][1]
               new == j.todo[1][2]
           IN  /\ j.phase = "writing" /\ j.todo # <<>> /\ p \in Pid /\ new \in Doc \cup {NoDoc}
               /\ doc' = [doc EXCEPT ![p] = new]
               /\ disturbed' = (disturbed \/ Overtaken(j, p))
               /\ UNCHANGED <<ledger, whole, order, draft, given, raced, torn>>
               /\ \E k : /\ job' = [job EXCEPT ![a] = k]
                         /\ IF Len(j.todo) = 1 THEN IsDone(k, j) ELSE GoesOn(k, j)
<1> DEFINE j == job[a]
           p == j.todo[1][1]
           new == j.todo[1][2]
           read == [j.read EXCEPT ![p] = new]
           rest == [j EXCEPT !.todo = Tail(@), !.read[p] = new]
           k == IF Len(j.todo) = 1 THEN AfterWriting(j) ELSE rest
<1>1. DOMAIN j = DOMAIN Idle /\ HonestJob(j, Known)
  BY JobsAre DEF HeirInv
<1>2. /\ j.phase = "writing" /\ job' = [job EXCEPT ![a] = k]
      /\ doc' = [doc EXCEPT ![p] = new] /\ disturbed' = (disturbed \/ Overtaken(j, p))
      /\ UNCHANGED <<ledger, whole, order, draft, given, raced, torn>>
  BY DEF Writes
<1>3. j.todo # <<>> /\ p \in Pid /\ new \in Doc \cup {NoDoc}
  BY <1>1, <1>2, FirstWritten DEF HonestJob, MintsUnder
<1> HIDE DEF j, p, new
<1>4. IsDone(AfterWriting(j), j)
  <2>1. CASE j.verb = "save"
    BY <2>1 DEF AfterWriting, IsDone
  <2>2. CASE j.verb = "delete"
    <3>1. AfterWriting(j) = [j EXCEPT !.phase = "sweeping", !.todo = <<>>, !.read = NothingRead]
      BY <2>2 DEF AfterWriting
    <3> QED  BY <1>1, <2>2, <3>1 DEF Idle, IsDone
  <2>3. CASE j.verb \notin {"save", "delete"}
    <3>1. AfterWriting(j) = [j EXCEPT !.phase = "syncing", !.todo = <<>>, !.read = NothingRead]
      BY <2>3 DEF AfterWriting
    <3> QED  BY <1>1, <2>3, <3>1 DEF Idle, IsDone
  <2> QED  BY <2>1, <2>2, <2>3
<1>5. GoesOn(rest, j)
  <2>1. rest = [j EXCEPT !.todo = Tail(j.todo), !.read = read]
    BY <1>1 DEF Idle
  <2> HIDE DEF rest, read
  <2>2. /\ rest.verb = j.verb /\ rest.phase = j.phase /\ rest.subject = j.subject
        /\ rest.other = j.other /\ rest.id = j.id /\ rest.todo = Tail(j.todo) /\ rest.read = read
    BY <1>1, <2>1 DEF Idle
  <2> QED  BY <1>2, <2>2 DEF GoesOn, read, p, new
<1>6. IF Len(j.todo) = 1 THEN IsDone(k, j) ELSE GoesOn(k, j)
  BY <1>4, <1>5
<1> HIDE DEF k
<1> QED  BY <1>2, <1>3, <1>6 DEF j, p, new

-----------------------------------------------------------------------------

\* A job that has nothing left to write.
LEMMA DoneSane ==
    ASSUME NEW a, NEW d, NEW k, k.phase \in {"syncing", "ordering"}, k.verb # "save",
           k.verb \in {"create", "delete"} => a = "service", k.verb = "nest" => k.subject = None
    PROVE  SaneJob(a, k) /\ CreatesUnder(d, k)
BY DEF SaneJob, CreatesUnder

LEMMA SaneBegins ==
    ASSUME SaneInv, DOMAIN job = Program, NEW a, NEW k, Quietly(a, k)
    PROVE  SaneInv'
BY SaneStill DEF Quietly, FreshStart, Begins, files

LEMMA SaneMints ==
    ASSUME HeirInv, SaneInv, NEW a \in Program, MintReads(a) \/ MintOpens(a) \/ MintWrites(a)
    PROVE  SaneInv'
<1> DEFINE j == job[a]
<1>1. /\ DOMAIN job = Program /\ DOMAIN j = DOMAIN Idle /\ j.subject \in Pid \cup {None}
      /\ SaneJob(a, j) /\ CreatesUnder(doc, j) /\ (j.phase = "storing" => j.id \in Pid)
      /\ j.read \in Docs
  BY JobsAre DEF SaneInv
<1>2. CASE MintReads(a)
  <2>1. doc' = doc /\ j.phase = "allocating"
    BY <1>2, MintReadsIs DEF files
  <2>2. PICK k : /\ job' = [job EXCEPT ![a] = k]
                 /\ InPhase(k, j, "minting") /\ k.id \in Pid /\ IsNext(j, k.id)
    BY <1>2, MintReadsIs
  <2>3. k.verb = j.verb /\ k.phase = "minting" /\ k.subject = j.subject /\ k.read = j.read /\ k.todo = j.todo
    BY <2>2 DEF InPhase
  <2> HIDE DEF j
  <2>4. SaneJob(a, k)
    BY <1>1, <2>1, <2>3 DEF SaneJob
  <2>5. CreatesUnder(doc, k)
    <3>1. \A m \in OnDisk : m # k.id
      <4>1. \A m \in OnDisk : m < k.id /\ m \in Nat
        BY <2>2, PidIsFinite DEF IsNext, OnDisk
      <4> QED  BY <4>1
    <3> QED  BY <1>1, <2>1, <2>3, <3>1 DEF CreatesUnder, OnDisk
  <2> QED  BY <1>1, <2>1, <2>2, <2>4, <2>5, SaneStill
<1>5. CASE MintOpens(a)
  <2>1. doc' = doc /\ j.phase = "minting"
    BY <1>5, MintOpensIs
  <2>2. PICK k : job' = [job EXCEPT ![a] = k] /\ InPhase(k, j, "storing") /\ k.id = j.id
    BY <1>5, MintOpensIs
  <2>3. k.verb = j.verb /\ k.phase = "storing" /\ k.subject = j.subject /\ k.read = j.read /\ k.todo = j.todo
    BY <2>2 DEF InPhase
  <2> HIDE DEF j
  <2>4. SaneJob(a, k) /\ CreatesUnder(doc, k)
    BY <1>1, <2>1, <2>2, <2>3 DEF SaneJob, CreatesUnder
  <2> QED  BY <1>1, <2>1, <2>2, <2>4, SaneStill
<1>3. CASE MintWrites(a) /\ j.verb = "restructure"
  <2>1. doc' = doc /\ j.phase = "storing"
    BY <1>3 DEF MintWrites
  <2>2. PICK k : job' = [job EXCEPT ![a] = k] /\ InPhase(k, j, "loading") /\ k.id = j.id
    BY <1>3, RestructureMintsIs
  <2>3. k.verb = j.verb /\ k.phase = "loading" /\ k.subject = j.subject /\ k.read = j.read /\ k.todo = j.todo
    BY <2>2 DEF InPhase
  <2> HIDE DEF j
  <2>4. SaneJob(a, k) /\ CreatesUnder(doc, k)
    BY <1>1, <1>3, <2>1, <2>3 DEF SaneJob, CreatesUnder
  <2> QED  BY <1>1, <2>1, <2>2, <2>4, SaneStill
<1>6. CASE MintWrites(a) /\ j.verb = "nest"
  <2>1. doc' = doc /\ j.phase = "storing"
    BY <1>6 DEF MintWrites
  <2>2. PICK k : job' = [job EXCEPT ![a] = k] /\ Nests(k, j)
    BY <1>6, NestMintsIs
  <2> HIDE DEF j
  <2>3. /\ k.verb = "new" /\ k.phase = "allocating" /\ k.subject = j.id
        /\ k.read = j.read /\ k.todo = j.todo
    BY <2>2 DEF Nests
  <2>4. j.todo = <<>> /\ \A p \in Pid : j.read[p] = NoDoc
    BY <1>1, <1>6, <2>1, PidIsFinite DEF SaneJob
  <2>5. SaneJob(a, k) /\ CreatesUnder(doc, k)
    BY <2>3, <2>4 DEF SaneJob, CreatesUnder
  <2> QED  BY <1>1, <2>1, <2>2, <2>5, SaneStill
<1>4. CASE MintWrites(a) /\ j.verb \notin {"restructure", "nest"}
  <2> DEFINE w == Writing(j, MintedWrites(j))
  <2>1. doc' = doc /\ j.phase = "storing" /\ job' = [job EXCEPT ![a] = w]
    BY <1>4 DEF MintWrites, Minted
  <2>2. SaneJob(a, w)
    BY <1>1, <1>4, <2>1, MintedSane
  <2> HIDE DEF j
  <2>3. CreatesUnder(doc, w)
    <3>1. w.phase = "writing"
      BY <1>1, InWriting DEF Ready
    <3> HIDE DEF w
    <3> QED  BY <3>1 DEF CreatesUnder
  <2> HIDE DEF w
  <2> QED  BY <1>1, <2>1, <2>2, <2>3, SaneStill
<1> QED  BY <1>2, <1>3, <1>4, <1>5, <1>6

LEMMA SaneWrites ==
    ASSUME HeirInv, SaneInv, NEW a \in Program, Writes(a)
    PROVE  SaneInv'
<1> DEFINE j == job[a]
           p == j.todo[1][1]
           new == j.todo[1][2]
<1>1. /\ DOMAIN job = Program /\ DOMAIN j = DOMAIN Idle /\ j.subject \in Pid \cup {None}
      /\ j.todo \in Seq(File) /\ j.read \in Docs /\ doc \in Docs
      /\ SaneJob(a, j) /\ CreatesUnder(doc, j)
  BY JobsAre DEF SaneInv, HeirInv, HonestRead, Docs
<1>2. /\ j.phase = "writing" /\ j.todo # <<>> /\ p \in Pid /\ new \in Doc \cup {NoDoc}
      /\ doc' = [doc EXCEPT ![p] = new]
  BY WritesIs
<1>3. PICK k : /\ job' = [job EXCEPT ![a] = k]
               /\ IF Len(j.todo) = 1 THEN IsDone(k, j) ELSE GoesOn(k, j)
  BY WritesIs
<1>4. Len(j.todo) \in Nat \ {0} /\ 1 \in DOMAIN j.todo
  BY <1>1, <1>2
<1> HIDE DEF j, p, new
<1>5. j.verb = "delete" => a = "service" /\ j.todo = <<<<j.subject, NoDoc>>>> /\ j.other = None
  BY <1>1, <1>2 DEF SaneJob, AboutTo
<1>6. j.verb = "delete" \/ j.verb = "save" => Len(j.todo) = 1
  <2>1. ASSUME NEW x PROVE Len(<<x>>) = 1
    OBVIOUS
  <2> QED  BY <1>1, <1>5, <2>1 DEF SaneJob
<1>7. new = NoDoc => j.verb = "delete"
  BY <1>1, <1>2, <1>4, NoDocAssumption DEF SaneJob, AboutTo, new
<1>8. ASSUME NEW b \in Program \ {a} PROVE CreatesUnder(doc', job[b])
  <2>1. SaneJob(b, job[b]) /\ CreatesUnder(doc, job[b]) /\ job[b].subject \in Pid \cup {None}
    BY JobsAre DEF SaneInv
  <2>2. CASE new # NoDoc
    BY <1>1, <1>2, <2>1, <2>2, CreatesStill
  <2>3. CASE new = NoDoc
    <3>1. job[b].verb # "create"
      BY <1>5, <1>7, <2>1, <2>3 DEF SaneJob
    <3> QED  BY <3>1 DEF CreatesUnder
  <2> QED  BY <2>2, <2>3
<1>9. ASSUME IsDone(k, j) PROVE SaneJob(a, k) /\ CreatesUnder(doc', k)
  <2>1. CASE k = Idle
    BY <2>1, IdleSane
  <2>2. CASE /\ k.verb = j.verb /\ k.subject = j.subject /\ k.other = j.other
             /\ k.todo = <<>> /\ k.read = NothingRead /\ j.verb # "save"
             /\ k.phase = IF j.verb = "delete" THEN "sweeping" ELSE "syncing"
    <3>1. CASE j.verb = "delete"
      BY <1>5, <2>2, <3>1 DEF SaneJob, CreatesUnder
    <3>2. CASE j.verb # "delete"
      BY <1>1, <2>2, <3>2 DEF SaneJob, CreatesUnder
    <3> QED  BY <3>1, <3>2
  <2> QED  BY <1>9, <2>1, <2>2 DEF IsDone
<1>10. ASSUME Len(j.todo) # 1, GoesOn(k, j) PROVE SaneJob(a, k) /\ CreatesUnder(doc', k)
  <2>1. j.verb \notin {"delete", "save"}
    BY <1>6, <1>10
  <2>2. /\ k.verb = j.verb /\ k.phase = "writing" /\ k.subject = j.subject
        /\ k.todo = Tail(j.todo) /\ k.read = [j.read EXCEPT ![j.todo[1][1]] = j.todo[1][2]]
    BY <1>10 DEF GoesOn
  <2>3. \A n \in DOMAIN j.todo : j.todo[n][2] \in Doc /\ LinkKept(j, n)
    BY <1>1, <1>2, <2>1 DEF SaneJob, AboutTo
  <2>4. \A n \in DOMAIN k.todo : k.todo[n][2] \in Doc /\ LinkKept(k, n)
    BY <1>1, <1>2, <2>2, <2>3, LinkStillKept
  <2> QED  BY <1>1, <2>1, <2>2, <2>4 DEF SaneJob, AboutTo, CreatesUnder
<1> QED  BY <1>1, <1>3, <1>8, <1>9, <1>10, SaneStep

LEMMA SaneSweeps ==
    ASSUME HeirInv, SaneInv, SweepReads \/ SweepWrites \/ SweepEnds
    PROVE  SaneInv'
<1> DEFINE j == job["service"]
<1>0. "service" \in Program
  BY DEF Program
<1>1. /\ DOMAIN job = Program /\ DOMAIN j = DOMAIN Idle /\ j.subject \in Pid \cup {None}
      /\ j.read \in Docs /\ doc \in Docs /\ SaneJob("service", j)
  BY <1>0, JobsAre DEF SaneInv, HeirInv, HonestRead, Docs
<1>2. CASE SweepReads
  <2>1. doc' = doc /\ j.phase = "sweeping" /\ j.other + 1 \in Pid
    BY <1>2, SweepReadsIs DEF files
  <2>2. PICK k : job' = [job EXCEPT !["service"] = k] /\ Looks(k, j)
    BY <1>2, SweepReadsIs
  <2> HIDE DEF j
  <2>3. /\ k.verb = j.verb /\ k.phase = "sweeping" /\ k.subject = j.subject /\ k.other = j.other + 1
        /\ \/ k.todo = <<>>
           \/ /\ k.read = [j.read EXCEPT ![k.other] = doc[k.other]]
              /\ k.todo = <<<<k.other, Swept(doc[k.other], j.subject)>>>>
              /\ doc[k.other] # NoDoc
    BY <2>2 DEF Looks
  <2>4. k.todo # <<>> => /\ k.read[k.other] # NoDoc
                         /\ k.todo = <<<<k.other, Swept(k.read[k.other], k.subject)>>>>
    <3>1. k.read = [j.read EXCEPT ![k.other] = doc[k.other]] => k.read[k.other] = doc[k.other]
      BY <1>1, <2>1, <2>3 DEF Docs
    <3> QED  BY <2>3, <3>1
  <2>5. SaneJob("service", k) /\ CreatesUnder(doc, k)
    BY <1>1, <2>1, <2>3, <2>4 DEF SaneJob, CreatesUnder
  <2> QED  BY <1>0, <1>1, <2>1, <2>2, <2>5, SaneStill
<1>3. CASE SweepWrites
  <2> DEFINE p == j.todo[1][1]
             new == j.todo[1][2]
  <2>1. j.phase = "sweeping" /\ p \in Pid /\ new \in Doc /\ doc' = [doc EXCEPT ![p] = new]
    BY <1>3, SweepWritesIs
  <2>2. PICK k : /\ job' = [job EXCEPT !["service"] = k]
                 /\ k.verb = j.verb /\ k.phase = "sweeping" /\ k.todo = <<>>
    BY <1>3, SweepWritesIs
  <2> HIDE DEF j, p, new
  <2>3. SaneJob("service", k) /\ CreatesUnder(doc', k)
    BY <1>1, <2>1, <2>2 DEF SaneJob, CreatesUnder
  <2>4. \A b \in Program : CreatesUnder(doc', job[b])
    <3>1. new # NoDoc
      BY <2>1, NoDocAssumption
    <3> TAKE b \in Program
    <3>2. CreatesUnder(doc, job[b]) /\ job[b].subject \in Pid \cup {None}
      BY JobsAre DEF SaneInv
    <3>3. CreatesUnder([doc EXCEPT ![p] = new], job[b])
      BY <1>1, <3>1, <3>2 DEF CreatesUnder, Docs
    <3> QED  BY <2>1, <3>3
  <2> QED  BY <1>0, <1>1, <2>2, <2>3, <2>4, SaneStep
<1>4. CASE SweepEnds
  <2>1. doc' = doc /\ j.phase = "sweeping"
    BY <1>4, SweepEndsIs DEF files
  <2>2. PICK k : job' = [job EXCEPT !["service"] = k] /\ InPhase(k, j, "syncing")
    BY <1>4, SweepEndsIs
  <2> HIDE DEF j
  <2>3. k.verb = "delete" /\ k.phase = "syncing"
    BY <1>1, <2>1, <2>2 DEF SaneJob, InPhase
  <2>4. SaneJob("service", k) /\ CreatesUnder(doc, k)
    BY <2>3, DoneSane
  <2> QED  BY <1>0, <1>1, <2>1, <2>2, <2>4, SaneStill
<1> QED  BY <1>2, <1>3, <1>4

LEMMA SaneSyncs ==
    ASSUME HeirInv, SaneInv, NEW a \in Program, SyncReads(a) \/ SyncWrites(a) \/ OrderSet(a) \/ Stops(a)
    PROVE  SaneInv'
<1> DEFINE j == job[a]
<1>1. DOMAIN job = Program /\ SaneJob(a, j)
  BY JobsAre DEF SaneInv
<1>2. CASE SyncReads(a)
  <2>1. doc' = doc /\ j.phase = "syncing"
    BY <1>2, SyncReadsIs DEF files
  <2>2. PICK k : job' = [job EXCEPT ![a] = k] /\ InPhase(k, j, "ordering")
    BY <1>2, SyncReadsIs
  <2> HIDE DEF j
  <2>3. SaneJob(a, k) /\ CreatesUnder(doc, k)
    <3>1. k.verb = j.verb /\ k.phase = "ordering" /\ k.subject = j.subject
      BY <2>2 DEF InPhase
    <3>2. /\ k.verb # "save" /\ (k.verb \in {"create", "delete"} => a = "service")
          /\ k.verb = "nest" => k.subject = None
      BY <1>1, <2>1, <3>1 DEF SaneJob
    <3> QED  BY <3>1, <3>2, DoneSane
  <2> QED  BY <1>1, <2>1, <2>2, <2>3, SaneStill
<1>3. CASE SyncWrites(a) \/ OrderSet(a) \/ Stops(a)
  <2>1. job' = [job EXCEPT ![a] = Idle] /\ doc' = doc
    BY <1>3 DEF SyncWrites, OrderSet, Stops, files
  <2> QED  BY <1>1, <2>1, IdleSane, SaneStill
<1> QED  BY <1>2, <1>3

LEMMA SaneNext == HeirInv /\ CurInv /\ SaneInv /\ [Next]_vars => SaneInv'
<1> SUFFICES ASSUME HeirInv, CurInv, SaneInv, [Next]_vars PROVE SaneInv'
  OBVIOUS
<1>0. DOMAIN job = Program
  BY DEF HeirInv
<1>1. CASE ServiceVerb \/ PipelineVerb
  BY <1>0, <1>1, ServiceStarts, PipelineStarts, SaneBegins
<1>2. ASSUME NEW p \in Pid, ClientLoads(p) PROVE SaneInv'
  BY <1>2 DEF ClientLoads, files, SaneInv
<1>3. ASSUME NEW a \in Program,
             \/ MintReads(a) \/ MintOpens(a) \/ MintWrites(a) \/ Writes(a)
             \/ SyncReads(a) \/ SyncWrites(a) \/ OrderSet(a) \/ Stops(a)
      PROVE  SaneInv'
  BY <1>3, SaneMints, SaneWrites, SaneSyncs
<1>4. CASE RestructureLoads
  BY <1>4, PlanSane
<1>5. CASE RestructureRefused
  <2>1. "pipeline" \in Program /\ job' = [job EXCEPT !["pipeline"] = Idle] /\ doc' = doc
    BY <1>5 DEF RestructureRefused, files, Program
  <2> QED  BY <1>0, <2>1, IdleSane, SaneStill
<1>6. CASE SweepReads \/ SweepWrites \/ SweepEnds
  BY <1>6, SaneSweeps
<1>7. CASE UNCHANGED vars
  BY <1>7 DEF vars, files, SaneInv
<1> QED  BY <1>1, <1>2, <1>3, <1>4, <1>5, <1>6, <1>7 DEF Next

LEMMA SaneInit == Init => SaneInv
BY IdleSane DEF Init, SaneInv

-----------------------------------------------------------------------------
(* Links.  A link to a file that is not there is about to resolve, or about *)
(* to go: a verb has yet to write the file, or a sweep to reach the link.   *)

WillWrite(j, x) ==
    j.phase = "writing" /\ \E k \in DOMAIN j.todo : j.todo[k][1] = x /\ j.todo[k][2] # NoDoc

WillSweep(j, p, x) ==
    j.phase = "sweeping" /\ j.subject = x /\ (p > j.other \/ (j.todo # <<>> /\ p = j.other))

LinksInv ==
    disturbed \/ \A p \in OnDisk : \A x \in Links(doc[p]) :
                    x \in OnDisk \/ \E a \in Program : WillWrite(job[a], x) \/ WillSweep(job[a], p, x)

LEMMA LinksStep ==
    ASSUME LinksInv, DOMAIN job = Program, NEW a \in Program, NEW k, job' = [job EXCEPT ![a] = k],
           doc' = doc, disturbed => disturbed',
           \A x : WillWrite(job[a], x) => WillWrite(k, x),
           \A p \in OnDisk : \A x \in Links(doc[p]) : WillSweep(job[a], p, x) => WillSweep(k, p, x)
    PROVE  LinksInv'
<1>1. \A b \in Program : job'[b] = IF b = a THEN k ELSE job[b]
  OBVIOUS
<1>2. OnDisk' = OnDisk
  BY DEF OnDisk
<1> SUFFICES ASSUME ~disturbed, NEW p \in OnDisk, NEW x \in Links(doc[p]), x \notin OnDisk
             PROVE  \E b \in Program : WillWrite(job'[b], x) \/ WillSweep(job'[b], p, x)
  BY <1>2 DEF LinksInv
<1>3. PICK b \in Program : WillWrite(job[b], x) \/ WillSweep(job[b], p, x)
  BY DEF LinksInv
<1>4. WillWrite(job'[b], x) \/ WillSweep(job'[b], p, x)
  BY <1>1, <1>3
<1> QED  BY <1>4

\* A step of a job that neither writes nor sweeps.
LEMMA LinksStill ==
    ASSUME LinksInv, DOMAIN job = Program, NEW a \in Program, NEW k, job' = [job EXCEPT ![a] = k],
           doc' = doc, disturbed => disturbed', job[a].phase \notin {"writing", "sweeping"}
    PROVE  LinksInv'
BY LinksStep DEF WillWrite, WillSweep

\* A verb writes a file: what it links to is there, or will be.
LEMMA LinksWrites ==
    ASSUME HeirInv, SaneInv, LinksInv, NEW a \in Program, Writes(a)
    PROVE  LinksInv'
<1> DEFINE j == job[a]
           p == j.todo[1][1]
           new == j.todo[1][2]
<1> SUFFICES ASSUME ~disturbed' PROVE LinksInv'
  BY DEF LinksInv
<1>1. /\ DOMAIN job = Program /\ j.todo \in Seq(File) /\ j.read \in Docs /\ doc \in Docs
      /\ SaneJob(a, j)
  BY JobsAre DEF SaneInv, HeirInv, HonestRead, Docs
<1>2. /\ j.phase = "writing" /\ j.todo # <<>> /\ p \in Pid /\ new \in Doc \cup {NoDoc}
      /\ doc' = [doc EXCEPT ![p] = new] /\ disturbed' = (disturbed \/ Overtaken(j, p))
  BY WritesIs
<1>3. PICK k : /\ job' = [job EXCEPT ![a] = k]
               /\ IF Len(j.todo) = 1 THEN IsDone(k, j) ELSE GoesOn(k, j)
  BY WritesIs
<1>4. /\ ~disturbed /\ doc[p] = j.read[p] /\ \A q \in Pid : j.read[q] # NoDoc => doc[q] = j.read[q]
  BY <1>2 DEF Overtaken
<1>5. \A b \in Program : job'[b] = IF b = a THEN k ELSE job[b]
  BY <1>1, <1>3
<1>6. /\ Len(j.todo) \in Nat \ {0} /\ 1 \in DOMAIN j.todo /\ DOMAIN j.todo = 1..Len(j.todo)
      /\ Len(j.todo) # 1 => /\ \A l \in DOMAIN j.todo \ {1} :
                                  l - 1 \in DOMAIN Tail(j.todo) /\ Tail(j.todo)[l - 1] = j.todo[l]
  BY <1>1, <1>2
<1>7. \A q \in Pid : doc'[q] = IF q = p THEN new ELSE doc[q]
  BY <1>1, <1>2 DEF Docs
<1> HIDE DEF p, new
\* What a waited for is there, or still waited for.
<1>8. ASSUME NEW x, NEW l \in DOMAIN j.todo, j.todo[l][1] = x, j.todo[l][2] # NoDoc
      PROVE  x \in OnDisk' \/ WillWrite(k, x)
  <2>1. CASE l = 1
    BY <1>2, <1>7, <1>8, <2>1 DEF OnDisk, p, new
  <2>2. CASE l # 1
    <3>0. \A n \in 1..1 : n = 1
      OBVIOUS
    <3>1. Len(j.todo) # 1
      BY <1>6, <1>8, <2>2, <3>0
    <3>2. k.phase = "writing" /\ k.todo = Tail(j.todo)
      BY <1>3, <3>1 DEF GoesOn
    <3>3. l - 1 \in DOMAIN k.todo /\ k.todo[l - 1] = j.todo[l]
      BY <1>6, <2>2, <3>1, <3>2
    <3> QED  BY <1>8, <3>2, <3>3 DEF WillWrite
  <2> QED  BY <2>1, <2>2
<1>9. \A x, q : ~WillSweep(j, q, x)
  BY <1>2 DEF WillSweep
\* A file that stays, or is waited for, or is swept for: so it is afterwards.
<1>10. ASSUME new # NoDoc, NEW q \in OnDisk, NEW x \in Links(doc[q])
       PROVE  x \in OnDisk' \/ \E b \in Program : WillWrite(job'[b], x) \/ WillSweep(job'[b], q, x)
  <2>1. CASE x \in OnDisk
    BY <1>7, <1>10, <2>1 DEF OnDisk
  <2>2. CASE x \notin OnDisk
    <3>1. PICK b \in Program : WillWrite(job[b], x) \/ WillSweep(job[b], q, x)
      BY <1>4, <1>10, <2>2 DEF LinksInv
    <3>2. CASE b = a
      <4>1. x \in OnDisk' \/ WillWrite(k, x)
        BY <1>8, <1>9, <3>1, <3>2 DEF WillWrite
      <4> QED  BY <1>5, <4>1
    <3>3. CASE b # a
      BY <1>5, <3>1, <3>3
    <3> QED  BY <3>2, <3>3
  <2> QED  BY <2>1, <2>2
<1>11. CASE new # NoDoc
  <2>1. j.verb # "delete"
    <3>1. ASSUME NEW s PROVE <<<<s, NoDoc>>>>[1][2] = NoDoc
      OBVIOUS
    <3> QED  BY <1>1, <1>2, <1>11, <3>1 DEF SaneJob, AboutTo, new
  <2>2. AboutTo(j)
    BY <1>1, <1>2 DEF SaneJob
  <2> SUFFICES ASSUME NEW q \in OnDisk', NEW x \in Links(doc'[q])
               PROVE  x \in OnDisk' \/ \E b \in Program : WillWrite(job'[b], x) \/ WillSweep(job'[b], q, x)
    BY DEF LinksInv
  <2>3. q \in Pid
    BY DEF OnDisk
  <2>4. CASE q # p
    <3>1. q \in OnDisk /\ x \in Links(doc[q])
      BY <1>7, <2>3, <2>4 DEF OnDisk
    <3> QED  BY <1>10, <1>11, <3>1
  <2>5. CASE q = p
    <3>1. x \in Links(new) /\ LinkKept(j, 1) /\ new \in Doc
      BY <1>2, <1>6, <1>7, <1>11, <2>1, <2>2, <2>3, <2>5 DEF AboutTo, new
    <3>2. x \in Pid
      BY <3>1, LinksAre
    <3>3. CASE j.read[x] # NoDoc
      <4>1. doc'[x] # NoDoc
        BY <1>4, <1>7, <1>11, <3>2, <3>3
      <4> QED  BY <3>2, <4>1 DEF OnDisk
    <3>4. CASE \E l \in DOMAIN j.todo : j.todo[l][1] = x
      <4>1. PICK l \in DOMAIN j.todo : j.todo[l][1] = x
        BY <3>4
      <4>2. j.todo[l][2] # NoDoc
        BY <2>1, <2>2, NoDocAssumption DEF AboutTo
      <4>3. x \in OnDisk' \/ WillWrite(k, x)
        BY <1>8, <4>1, <4>2
      <4> QED  BY <1>5, <4>3
    <3>5. CASE x \in Links(j.read[p])
      <4>1. x \in Links(doc[p]) /\ p \in OnDisk
        BY <1>2, <1>4, <3>5 DEF OnDisk, Links
      <4> QED  BY <1>10, <1>11, <2>5, <4>1
    <3> QED  BY <3>1, <3>3, <3>4, <3>5 DEF LinkKept, p, new
  <2> QED  BY <2>4, <2>5
<1>12. CASE new = NoDoc
  <2>1. j.verb = "delete"
    BY <1>1, <1>2, <1>6, <1>12, NoDocAssumption DEF SaneJob, AboutTo, new
  <2>2. j.other = None /\ j.todo = <<<<j.subject, NoDoc>>>>
    BY <1>1, <1>2, <2>1 DEF SaneJob, AboutTo
  <2>3. Len(j.todo) = 1 /\ j.subject = p
    BY <2>2 DEF p
  <2>4. IsDone(k, j)
    BY <1>3, <2>3
  <2>5. k.phase = "sweeping" /\ k.subject = p /\ k.other = 0 /\ k.todo = <<>>
    BY <2>1, <2>2, <2>3, <2>4 DEF IsDone, None
  <2> SUFFICES ASSUME NEW q \in OnDisk', NEW x \in Links(doc'[q])
               PROVE  x \in OnDisk' \/ \E b \in Program : WillWrite(job'[b], x) \/ WillSweep(job'[b], q, x)
    BY DEF LinksInv
  <2>6. q \in Pid /\ q # p /\ q \in OnDisk /\ x \in Links(doc[q])
    BY <1>7, <1>12 DEF OnDisk
  <2>7. CASE x = p
    <3>1. q > 0
      BY <2>6 DEF Pid
    <3> QED  BY <1>5, <2>5, <2>7, <3>1 DEF WillSweep
  <2>8. CASE x # p
    <3>1. CASE x \in OnDisk
      BY <1>7, <2>8, <3>1 DEF OnDisk
    <3>2. CASE x \notin OnDisk
      <4>1. PICK b \in Program : WillWrite(job[b], x) \/ WillSweep(job[b], q, x)
        BY <1>4, <2>6, <3>2 DEF LinksInv
      <4>2. ~WillWrite(j, x)
        <5>1. \A l \in DOMAIN j.todo : j.todo[l][2] = NoDoc
          BY <2>2
        <5> QED  BY <5>1 DEF WillWrite
      <4>3. b # a
        BY <1>9, <4>1, <4>2
      <4> QED  BY <1>5, <4>1, <4>3
    <3> QED  BY <3>1, <3>2
  <2> QED  BY <2>7, <2>8
<1> QED  BY <1>11, <1>12

LEMMA LinksSweeps ==
    ASSUME HeirInv, SaneInv, LinksInv, SweepReads \/ SweepWrites \/ SweepEnds
    PROVE  LinksInv'
<1> DEFINE j == job["service"]
<1>0. "service" \in Program
  BY DEF Program
<1>1. /\ DOMAIN job = Program /\ j.other \in Nat /\ j.read \in Docs /\ doc \in Docs
      /\ SaneJob("service", j)
  BY <1>0, JobsAre DEF SaneInv, HeirInv, HonestRead, Docs
<1>2. ASSUME NEW d \in Doc, NEW x \in Pid
      PROVE  Links(Swept(d, x)) \subseteq Links(d) \ {x} /\ Swept(d, x) \in Doc
  <2>1. Swept(d, x) \in Doc
    BY ChangedDoc
  <2>2. /\ Swept(d, x).subprocess = (IF d.subprocess = x THEN None ELSE d.subprocess)
        /\ Swept(d, x).parent = (IF d.parent = x THEN None ELSE d.parent)
    BY DEF Doc, Swept
  <2> QED  BY <2>1, <2>2, LinksAre
<1>3. CASE SweepReads
  <2>1. doc' = doc /\ disturbed' = disturbed /\ j.phase = "sweeping" /\ j.todo = <<>> /\ j.other + 1 \in Pid
    BY <1>3, SweepReadsIs DEF files, history
  <2>2. PICK k : job' = [job EXCEPT !["service"] = k] /\ Looks(k, j)
    BY <1>3, SweepReadsIs
  <2> HIDE DEF j
  <2>3. \A x : ~WillWrite(j, x)
    BY <2>1 DEF WillWrite
  <2>4. ASSUME NEW p \in OnDisk, NEW x \in Links(doc[p]), WillSweep(j, p, x)
        PROVE  WillSweep(k, p, x)
    <3>1. j.subject = x /\ p > j.other
      BY <2>1, <2>4 DEF WillSweep
    <3>2. /\ k.phase = "sweeping" /\ k.subject = x /\ k.other = j.other + 1
          /\ \/ k.todo = <<>> /\ (doc[k.other] = NoDoc \/ Swept(doc[k.other], x) = doc[k.other])
             \/ k.todo = <<<<k.other, Swept(doc[k.other], x)>>>>
      BY <2>2, <3>1 DEF Looks
    <3>3. p \in Pid /\ doc[p] \in Doc /\ doc[p] # NoDoc /\ p \in Nat
      BY <1>1, PidIsFinite DEF OnDisk, Docs
    <3>4. CASE p > k.other
      BY <3>2, <3>4 DEF WillSweep
    <3>5. CASE ~(p > k.other)
      <4>1. p = k.other
        BY <1>1, <3>1, <3>2, <3>3, <3>5
      <4>2. Swept(doc[p], x) # doc[p]
        BY <1>2, <2>4, <3>3, LinksAre
      <4>3. k.todo = <<<<k.other, Swept(doc[k.other], x)>>>>
        BY <3>2, <3>3, <4>1, <4>2
      <4>4. k.todo # <<>>
        BY <4>3
      <4> QED  BY <3>2, <4>1, <4>4 DEF WillSweep
    <3> QED  BY <3>4, <3>5
  <2> QED  BY <1>0, <1>1, <2>1, <2>2, <2>3, <2>4, LinksStep DEF j
<1>4. CASE SweepWrites
  <2> DEFINE p == j.todo[1][1]
             new == j.todo[1][2]
  <2> SUFFICES ASSUME ~disturbed' PROVE LinksInv'
    BY DEF LinksInv
  <2>1. /\ j.phase = "sweeping" /\ j.todo # <<>> /\ p \in Pid /\ new \in Doc
        /\ doc' = [doc EXCEPT ![p] = new] /\ disturbed' = (disturbed \/ doc[p] # j.read[p])
    BY <1>4, SweepWritesIs
  <2>2. PICK k : /\ job' = [job EXCEPT !["service"] = k]
                 /\ k.phase = "sweeping" /\ k.subject = j.subject /\ k.other = j.other /\ k.todo = <<>>
    BY <1>4, SweepWritesIs
  <2>3. j.read[j.other] # NoDoc /\ j.todo = <<<<j.other, Swept(j.read[j.other], j.subject)>>>>
    BY <1>1, <2>1 DEF SaneJob
  <2>4. p = j.other /\ new = Swept(j.read[p], j.subject) /\ j.read[p] # NoDoc
    BY <2>3
  <2>5. ~disturbed /\ doc[p] = j.read[p] /\ p \in OnDisk /\ doc[p] \in Doc
    BY <1>1, <2>1, <2>4 DEF OnDisk, Docs
  <2>6. \A b \in Program : job'[b] = IF b = "service" THEN k ELSE job[b]
    BY <1>1, <2>2
  <2>7. \A q \in Pid : doc'[q] = IF q = p THEN new ELSE doc[q]
    BY <1>1, <2>1 DEF Docs
  <2> HIDE DEF j, p, new
  <2>8. OnDisk' = OnDisk
    BY <2>1, <2>5, <2>7, NoDocAssumption DEF OnDisk
  <2>9. Links(new) \subseteq Links(doc[p]) /\ j.subject \notin Links(new)
    <3>1. CASE j.subject \in Pid
      BY <1>2, <2>4, <2>5, <3>1
    <3>2. CASE j.subject = None
      <4>1. new.parent = doc[p].parent /\ new.subprocess = doc[p].subprocess /\ new \in Doc
        BY <2>1, <2>4, <2>5, <3>2 DEF Doc, Swept
      <4>2. Links(new) = Links(doc[p])
        BY <2>5, <4>1, NoDocAssumption DEF Links
      <4>3. None \notin Links(new)
        BY DEF Links
      <4> QED  BY <3>2, <4>2, <4>3
    <3>3. j.subject \in Pid \cup {None}
      BY <1>0, JobsAre DEF j
    <3> QED  BY <3>1, <3>2, <3>3
  <2> SUFFICES ASSUME NEW q \in OnDisk, NEW x \in Links(doc'[q]), x \notin OnDisk
               PROVE  \E b \in Program : WillWrite(job'[b], x) \/ WillSweep(job'[b], q, x)
    BY <2>8 DEF LinksInv
  <2>10. q \in Pid /\ x \in Links(doc[q]) /\ (q = p => x # j.subject)
    BY <2>7, <2>9 DEF OnDisk
  <2>11. PICK b \in Program : WillWrite(job[b], x) \/ WillSweep(job[b], q, x)
    BY <2>5, <2>10 DEF LinksInv
  <2>12. CASE b # "service"
    BY <2>6, <2>11, <2>12
  <2>13. CASE b = "service"
    <3>1. ~WillWrite(j, x)
      BY <2>1 DEF WillWrite
    <3>2. WillSweep(j, q, x)
      BY <2>11, <2>13, <3>1 DEF j
    <3>3. q # p
      BY <2>10, <3>2 DEF WillSweep
    <3>4. WillSweep(k, q, x)
      BY <2>2, <2>4, <3>2, <3>3 DEF WillSweep
    <3> QED  BY <1>0, <2>6, <3>4
  <2> QED  BY <2>12, <2>13
<1>5. CASE SweepEnds
  <2>1. doc' = doc /\ disturbed' = disturbed /\ j.phase = "sweeping" /\ j.todo = <<>> /\ j.other = MaxId
    BY <1>5, SweepEndsIs DEF files, history
  <2>2. PICK k : job' = [job EXCEPT !["service"] = k]
    BY <1>5, SweepEndsIs
  <2> HIDE DEF j
  <2>3. \A x : ~WillWrite(j, x)
    BY <2>1 DEF WillWrite
  <2>4. \A p \in OnDisk : \A x : ~WillSweep(j, p, x)
    <3>1. \A p \in OnDisk : ~(p > MaxId)
      BY StoreAssumption DEF OnDisk, Pid
    <3> QED  BY <2>1, <3>1 DEF WillSweep
  <2> QED  BY <1>0, <1>1, <2>1, <2>2, <2>3, <2>4, LinksStep DEF j
<1> QED  BY <1>3, <1>4, <1>5

LEMMA LinksNext == HeirInv /\ CurInv /\ SaneInv /\ LinksInv /\ [Next]_vars => LinksInv'
<1> SUFFICES ASSUME HeirInv, CurInv, SaneInv, LinksInv, [Next]_vars PROVE LinksInv'
  OBVIOUS
<1>0. DOMAIN job = Program
  BY DEF HeirInv
<1>1. CASE ServiceVerb \/ PipelineVerb
  <2>1. PICK a, k : Quietly(a, k)
    BY <1>1, ServiceStarts, PipelineStarts
  <2>2. /\ a \in Program /\ job' = [job EXCEPT ![a] = k] /\ doc' = doc /\ disturbed' = disturbed
        /\ job[a].phase = "idle"
    BY <2>1 DEF Quietly, Begins, files, history, Idle
  <2> QED  BY <1>0, <2>2, LinksStill
<1>2. ASSUME NEW p \in Pid, ClientLoads(p) PROVE LinksInv'
  BY <1>2 DEF ClientLoads, files, history, LinksInv, OnDisk
<1>3. ASSUME NEW a \in Program, MintReads(a) PROVE LinksInv'
  <2>1. doc' = doc /\ disturbed' = disturbed /\ job[a].phase = "allocating"
    BY <1>3, MintReadsIs DEF files, history
  <2>2. PICK k : job' = [job EXCEPT ![a] = k]
    BY <1>3, MintReadsIs
  <2> QED  BY <1>0, <2>1, <2>2, LinksStill
<1>4. ASSUME NEW a \in Program, MintOpens(a) \/ MintWrites(a) PROVE LinksInv'
  <2>1. doc' = doc /\ disturbed' = disturbed /\ job[a].phase \in {"minting", "storing"}
        /\ \E k : job' = [job EXCEPT ![a] = k]
    BY <1>4, MintOpensIs DEF MintWrites
  <2> QED  BY <1>0, <2>1, LinksStill
<1>5. ASSUME NEW a \in Program, Writes(a) PROVE LinksInv'
  BY <1>5, LinksWrites
<1>6. ASSUME NEW a \in Program, SyncReads(a) PROVE LinksInv'
  <2>1. doc' = doc /\ disturbed' = disturbed /\ job[a].phase = "syncing"
    BY <1>6, SyncReadsIs DEF files, history
  <2>2. PICK k : job' = [job EXCEPT ![a] = k]
    BY <1>6, SyncReadsIs
  <2> QED  BY <1>0, <2>1, <2>2, LinksStill
<1>7. ASSUME NEW a \in Program, SyncWrites(a) \/ OrderSet(a) PROVE LinksInv'
  <2>1. doc' = doc /\ (disturbed => disturbed') /\ job[a].phase \in {"ordering", "setting"}
        /\ job' = [job EXCEPT ![a] = Idle]
    BY <1>7 DEF SyncWrites, OrderSet, LinksInv
  <2> QED  BY <1>0, <2>1, LinksStill
<1>8. ASSUME NEW a \in Program, Stops(a) PROVE LinksInv'
  BY <1>8 DEF Stops, LinksInv
<1>9. CASE RestructureLoads \/ RestructureRefused
  <2>1. doc' = doc /\ disturbed' = disturbed /\ job["pipeline"].phase = "loading"
        /\ "pipeline" \in Program /\ \E k : job' = [job EXCEPT !["pipeline"] = k]
    BY <1>9 DEF RestructureLoads, RestructureRefused, files, history, Program
  <2> QED  BY <1>0, <2>1, LinksStill
<1>10. CASE SweepReads \/ SweepWrites \/ SweepEnds
  BY <1>10, LinksSweeps
<1>11. CASE UNCHANGED vars
  BY <1>11 DEF vars, files, history, LinksInv, OnDisk
<1> QED  BY <1>1, <1>2, <1>3, <1>4, <1>5, <1>6, <1>7, <1>8, <1>9, <1>10, <1>11 DEF Next

LEMMA LinksInit == Init => LinksInv
<1> SUFFICES ASSUME Init PROVE LinksInv
  OBVIOUS
<1>1. Fresh(None) \in Doc /\ Fresh(None).parent = None /\ Fresh(None).subprocess = None
  BY FreshHonest DEF Fresh
<1>2. Links(Fresh(None)) = {}
  BY <1>1, LinksAre
<1> QED  BY <1>2 DEF Init, LinksInv, OnDisk

LEMMA LinksQuiet == LinksInv => LinksResolve
<1> SUFFICES ASSUME LinksInv, Quiet, ~disturbed, NEW p \in OnDisk
             PROVE  {doc[p].parent, doc[p].subprocess} \subseteq OnDisk \cup {None}
  BY DEF LinksResolve
<1>1. \A a \in Program : \A x : ~WillWrite(job[a], x) /\ ~WillSweep(job[a], p, x)
  BY DEF Quiet, WillWrite, WillSweep, Idle
<1>2. Links(doc[p]) = {doc[p].parent, doc[p].subprocess} \ {None}
  BY DEF Links, OnDisk
<1> QED  BY <1>1, <1>2 DEF LinksInv

-----------------------------------------------------------------------------
(* The sequence.  It is the active processes but while a verb that will      *)
(* bring it in line is under way.                                            *)

Pending(j) == j.verb # "save" /\ j.phase \in {"writing", "sweeping", "syncing", "ordering"}

OrderInv ==
    disturbed \/ ToSet(order) = Actives \/ \E a \in Program : Pending(job[a])

\* A step that leaves files and sequence alone, of a job that stays pending.
LEMMA OrderStep ==
    ASSUME OrderInv, DOMAIN job = Program, NEW a \in Program, NEW k, job' = [job EXCEPT ![a] = k],
           doc' = doc, order' = order, disturbed => disturbed',
           Pending(job[a]) => Pending(k)
    PROVE  OrderInv'
<1>1. \A b \in Program : job'[b] = IF b = a THEN k ELSE job[b]
  OBVIOUS
<1>2. Actives' = Actives
  BY DEF Actives, OnDisk
<1>3. ASSUME NEW b \in Program, Pending(job[b]) PROVE Pending(job'[b])
  BY <1>1, <1>3
<1>4. (\E b \in Program : Pending(job[b])) => \E b \in Program : Pending(job'[b])
  BY <1>3
<1>5. (\E b \in Program : Pending(job[b]))' <=> \E b \in Program : Pending(job'[b])
  BY DEF Pending
<1> QED  BY <1>2, <1>4, <1>5 DEF OrderInv

\* A step after which a job is pending.
LEMMA OrderWaits ==
    ASSUME DOMAIN job = Program, NEW a \in Program, NEW k, job' = [job EXCEPT ![a] = k], Pending(k)
    PROVE  OrderInv'
<1>1. job'[a] = k
  OBVIOUS
<1> QED  BY <1>1 DEF OrderInv, Pending

\* A step after which the sequence is the active processes.
LEMMA OrderIsRight ==
    ASSUME ToSet(order') = Actives'
    PROVE  OrderInv'
<1>1. ToSet(order)' = ToSet(order')
  BY DEF ToSet
<1> QED  BY <1>1 DEF OrderInv

LEMMA OrderWrites ==
    ASSUME HeirInv, SaneInv, OrderInv, NEW a \in Program, Writes(a)
    PROVE  OrderInv'
<1> DEFINE j == job[a]
           p == j.todo[1][1]
           new == j.todo[1][2]
<1>1. DOMAIN job = Program /\ doc \in Docs /\ SaneJob(a, j)
  BY JobsAre DEF SaneInv, HeirInv, HonestRead, Docs
<1>2. /\ j.phase = "writing" /\ doc' = [doc EXCEPT ![p] = new] /\ order' = order
      /\ disturbed' = (disturbed \/ Overtaken(j, p))
  BY WritesIs
<1>3. PICK k : /\ job' = [job EXCEPT ![a] = k]
               /\ IF Len(j.todo) = 1 THEN IsDone(k, j) ELSE GoesOn(k, j)
  BY WritesIs
<1> SUFFICES ASSUME ~disturbed' PROVE OrderInv'
  BY DEF OrderInv
<1> HIDE DEF j, p, new
<1>4. CASE j.verb # "save"
  <2>1. Pending(k)
    BY <1>3, <1>4, <1>2 DEF Pending, IsDone, GoesOn
  <2> QED  BY <1>1, <1>3, <2>1, OrderWaits
<1>5. CASE j.verb = "save"
  <2>1. PICK q \in Pid : j.todo = <<<<q, j.read[q]>>>>
    BY <1>1, <1>5 DEF SaneJob
  <2>2. p = q /\ new = j.read[q]
    BY <2>1 DEF p, new
  <2>3. doc[p] = new
    BY <1>2, <2>2 DEF Overtaken
  <2>4. doc' = doc
    BY <1>1, <1>2, <2>2, <2>3 DEF Docs
  <2>5. ~Pending(job[a])
    BY <1>5 DEF Pending, j
  <2>6. disturbed => disturbed'
    BY <1>2
  <2> QED  BY <1>1, <1>2, <1>3, <2>4, <2>5, <2>6, OrderStep
<1> QED  BY <1>4, <1>5

LEMMA OrderSweeps ==
    ASSUME HeirInv, SaneInv, OrderInv, SweepReads \/ SweepWrites \/ SweepEnds
    PROVE  OrderInv'
<1> DEFINE j == job["service"]
<1>0. "service" \in Program
  BY DEF Program
<1>1. DOMAIN job = Program /\ SaneJob("service", j)
  BY <1>0, JobsAre DEF SaneInv
<1>2. j.phase = "sweeping" /\ \E k : /\ job' = [job EXCEPT !["service"] = k]
                                     /\ k.verb = j.verb /\ k.phase \in {"sweeping", "syncing"}
  BY SweepReadsIs, SweepWritesIs, SweepEndsIs DEF Looks, InPhase
<1>3. j.verb = "delete"
  BY <1>1, <1>2 DEF SaneJob
<1>4. PICK k : job' = [job EXCEPT !["service"] = k] /\ Pending(k)
  BY <1>2, <1>3 DEF Pending
<1> QED  BY <1>0, <1>1, <1>4, OrderWaits

LEMMA OrderSyncs ==
    ASSUME HeirInv, CurInv, SaneInv, OrderInv, NEW a \in Program, SyncReads(a) \/ SyncWrites(a)
    PROVE  OrderInv'
<1> DEFINE j == job[a]
<1>1. DOMAIN job = Program /\ SaneJob(a, j)
  BY JobsAre DEF SaneInv
<1>2. CASE SyncReads(a)
  <2>1. j.phase = "syncing" /\ \E k : job' = [job EXCEPT ![a] = k] /\ InPhase(k, j, "ordering")
    BY <1>2, SyncReadsIs
  <2>2. j.verb # "save"
    BY <1>1, <2>1 DEF SaneJob
  <2>3. PICK k : job' = [job EXCEPT ![a] = k] /\ Pending(k)
    BY <2>1, <2>2 DEF InPhase, Pending
  <2> QED  BY <1>1, <2>3, OrderWaits
<1>3. CASE SyncWrites(a)
  <2>1. j.subject \in Nat
    BY JobsAre DEF Pid, None
  <2>2. ToSet(order') = j.actives
    BY <1>3, <2>1, SyncCurated
  <2>3. doc' = doc /\ disturbed' = (disturbed \/ order # j.order \/ Actives # j.actives)
    BY <1>3 DEF SyncWrites
  <2>4. Actives' = Actives
    BY <2>3 DEF Actives, OnDisk
  <2>5. CASE disturbed'
    BY <2>5 DEF OrderInv
  <2>6. CASE ~disturbed'
    <3>1. ToSet(order') = Actives'
      BY <2>2, <2>3, <2>4, <2>6
    <3> QED  BY <3>1, OrderIsRight
  <2> QED  BY <2>5, <2>6
<1> QED  BY <1>2, <1>3

LEMMA OrderSets ==
    ASSUME HeirInv, SaneInv, OrderInv, NEW a \in Program, OrderSet(a)
    PROVE  OrderInv'
<1> DEFINE j == job[a]
<1>1. DOMAIN job = Program /\ SaneJob(a, j)
  BY JobsAre DEF SaneInv
<1>2. /\ j.phase = "setting" /\ order' = j.order /\ doc' = doc /\ job' = [job EXCEPT ![a] = Idle]
      /\ disturbed' = (disturbed \/ MadeFrom(j) # j.actives)
  BY DEF OrderSet
<1>3. ToSet(order') = j.actives
  BY <1>1, <1>2 DEF SaneJob
<1>4. Actives' = Actives
  BY <1>2 DEF Actives, OnDisk
<1> SUFFICES ASSUME ~disturbed' PROVE OrderInv'
  BY DEF OrderInv
<1>5. CASE MadeFrom(j) = Actives
  <2>1. ToSet(order') = Actives'
    BY <1>2, <1>3, <1>4, <1>5
  <2> QED  BY <2>1, OrderIsRight
<1>6. CASE MadeFrom(j) = ToSet(order)
  <2>1. ToSet(order') = ToSet(order)
    BY <1>2, <1>3, <1>6
  <2>2. CASE ToSet(order) = Actives
    <3>1. ToSet(order') = Actives'
      BY <1>4, <2>1, <2>2
    <3> QED  BY <3>1, OrderIsRight
  <2>3. CASE ToSet(order) # Actives
    <3>1. PICK b \in Program : Pending(job[b])
      BY <1>2, <2>3 DEF OrderInv
    <3>2. b # a
      BY <1>2, <3>1 DEF Pending
    <3>3. job'[b] = job[b]
      BY <1>1, <1>2, <3>2
    <3>4. Pending(job'[b])
      BY <3>1, <3>3
    <3> QED  BY <3>4 DEF OrderInv, Pending
  <2> QED  BY <2>2, <2>3
<1> QED  BY <1>5, <1>6 DEF MadeFrom

LEMMA OrderNext == HeirInv /\ CurInv /\ SaneInv /\ OrderInv /\ [Next]_vars => OrderInv'
<1> SUFFICES ASSUME HeirInv, CurInv, SaneInv, OrderInv, [Next]_vars PROVE OrderInv'
  OBVIOUS
<1>0. DOMAIN job = Program
  BY DEF HeirInv
<1>1. CASE ServiceVerb \/ PipelineVerb
  <2>1. PICK a, k : Quietly(a, k)
    BY <1>1, ServiceStarts, PipelineStarts
  <2>2. /\ a \in Program /\ job' = [job EXCEPT ![a] = k] /\ doc' = doc /\ order' = order
        /\ disturbed' = disturbed /\ ~Pending(job[a])
    BY <2>1 DEF Quietly, Begins, files, history, Idle, Pending
  <2> QED  BY <1>0, <2>2, OrderStep
<1>2. ASSUME NEW p \in Pid, ClientLoads(p) PROVE OrderInv'
  BY <1>2 DEF ClientLoads, files, history, OrderInv, Actives, OnDisk, Pending
<1>3. ASSUME NEW a \in Program, MintReads(a) PROVE OrderInv'
  <2>1. doc' = doc /\ order' = order /\ disturbed' = disturbed /\ ~Pending(job[a])
    BY <1>3, MintReadsIs DEF files, history, Pending
  <2>2. PICK k : job' = [job EXCEPT ![a] = k]
    BY <1>3, MintReadsIs
  <2> QED  BY <1>0, <2>1, <2>2, OrderStep
<1>4. ASSUME NEW a \in Program, MintOpens(a) \/ MintWrites(a) PROVE OrderInv'
  <2>1. doc' = doc /\ order' = order /\ disturbed' = disturbed /\ ~Pending(job[a])
        /\ \E k : job' = [job EXCEPT ![a] = k]
    BY <1>4, MintOpensIs DEF MintWrites, Pending
  <2> QED  BY <1>0, <2>1, OrderStep
<1>5. ASSUME NEW a \in Program, Writes(a) PROVE OrderInv'
  BY <1>5, OrderWrites
<1>6. ASSUME NEW a \in Program, SyncReads(a) \/ SyncWrites(a) PROVE OrderInv'
  BY <1>6, OrderSyncs
<1>7. ASSUME NEW a \in Program, OrderSet(a) PROVE OrderInv'
  BY <1>7, OrderSets
<1>8. ASSUME NEW a \in Program, Stops(a) PROVE OrderInv'
  BY <1>8 DEF Stops, OrderInv
<1>9. CASE RestructureLoads \/ RestructureRefused
  <2>1. doc' = doc /\ order' = order /\ disturbed' = disturbed /\ ~Pending(job["pipeline"])
        /\ "pipeline" \in Program /\ \E k : job' = [job EXCEPT !["pipeline"] = k]
    BY <1>9 DEF RestructureLoads, RestructureRefused, files, history, Program, Pending
  <2> QED  BY <1>0, <2>1, OrderStep
<1>10. CASE SweepReads \/ SweepWrites \/ SweepEnds
  BY <1>10, OrderSweeps
<1>11. CASE UNCHANGED vars
  BY <1>11 DEF vars, files, history, OrderInv, Actives, OnDisk, Pending
<1> QED  BY <1>1, <1>2, <1>3, <1>4, <1>5, <1>6, <1>7, <1>8, <1>9, <1>10, <1>11 DEF Next

LEMMA OrderInit == Init => OrderInv
<1> SUFFICES ASSUME Init PROVE ToSet(order) = Actives
  BY DEF OrderInv
<1>1. Existing \in Nat /\ 1..Existing \subseteq Pid
  BY StoreAssumption DEF Pid
<1>2. ToSet(order) = 1..Existing
  BY <1>1, InIdOrderIs DEF Init
<1>3. Fresh(None) # NoDoc /\ ~Fresh(None).tombstoned
  BY FreshHonest, NoDocAssumption DEF Fresh
<1>4. \A p \in Pid : p <= Existing <=> p \in 1..Existing
  BY <1>1 DEF Pid
<1>5. Actives = 1..Existing
  BY <1>1, <1>3, <1>4 DEF Init, Actives, OnDisk
<1> QED  BY <1>2, <1>5

\* A sequence without repetition is as long as the set it lists.
LEMMA ListsAll ==
    ASSUME NEW s, Curated(s)
    PROVE  ExactlyThe(ToSet(s), s)
<1>1. s \in Seq(Pid) /\ Once(s) /\ Len(s) \in Nat /\ DOMAIN s = 1..Len(s)
  BY DEF Curated
<1>2. IsFiniteSet(DOMAIN s) /\ Cardinality(DOMAIN s) = Len(s)
  BY <1>1, FirstNumbers
<1>3. \A x, y \in DOMAIN s : s[x] = s[y] => x = y
  BY <1>1 DEF Once
<1>4. Cardinality({s[x] : x \in DOMAIN s}) = Len(s)
  BY <1>2, <1>3, AsManyValues
<1>5. ToSet(s) = {s[x] : x \in DOMAIN s}
  BY DEF ToSet
<1>6. \A p \in ToSet(s) : Placed(p, s)
  BY <1>1, Stands
<1> QED  BY <1>4, <1>5, <1>6 DEF ExactlyThe

LEMMA OrderQuiet == CurInv /\ OrderInv => OrderIsTheActives
<1> SUFFICES ASSUME CurInv, OrderInv, Quiet, ~disturbed PROVE ExactlyThe(Actives, order)
  BY DEF OrderIsTheActives
<1>1. \A a \in Program : ~Pending(job[a])
  BY DEF Quiet, Pending, Idle
<1>2. ToSet(order) = Actives
  BY <1>1 DEF OrderInv
<1> QED  BY <1>2, ListsAll DEF CurInv

-----------------------------------------------------------------------------
(* Parents.                                                                  *)

\* Where parents go or turn to themselves, nobody new is above.
LEMMA StayAbove ==
    ASSUME NEW d \in Docs, NEW e \in Docs, NEW p \in Pid \cup {None},
           \A q \in Pid : ParentIn(e, q) \in {ParentIn(d, q), None, q}
    PROVE  Above(e, p) \subseteq Above(d, p) \cup {p}
<1>1. PICK w : WayUp(w, d, p)
  BY WayUpExists
<1>2. PICK v : WayUp(v, e, p)
  BY WayUpExists
<1> DEFINE n == MaxId + 1
           S == {i \in Nat : v[i] = None \/ \E l \in 0..i : v[i] = w[l]}
<1>0. n \in Nat
  BY StoreAssumption
<1>3. Above(d, p) = {w[i] : i \in 1..n} \ {None} /\ Above(e, p) = {v[i] : i \in 1..n} \ {None}
  BY <1>1, <1>2, AboveIsTheWay
<1>4. 0 \in S
  <2>1. v[0] = w[0] /\ 0 \in 0..0
    BY <1>1, <1>2 DEF WayUp
  <2> QED  BY <2>1
<1>5. \A i \in 1..n : i - 1 \in S => i \in S
  <2> SUFFICES ASSUME NEW i \in 1..n, v[i - 1] = None \/ \E l \in 0..(i - 1) : v[i - 1] = w[l]
               PROVE  v[i] = None \/ \E l \in 0..i : v[i] = w[l]
    BY <1>0
  <2>1. v[i] = ParentIn(e, v[i - 1])
    BY <1>2 DEF WayUp
  <2>2. ParentIn(e, None) = None /\ ParentIn(d, None) = None
    BY ParentIsNamed
  <2>3. CASE v[i - 1] = None
    BY <2>1, <2>2, <2>3
  <2>4. CASE \E l \in 0..(i - 1) : v[i - 1] = w[l]
    <3>1. PICK l \in 0..(i - 1) : v[i - 1] = w[l]
      BY <2>4
    <3>2. /\ l \in 0..n /\ l \in 0..i /\ l + 1 \in 0..i /\ l + 1 \in 1..(MaxId + 1)
          /\ (l + 1) - 1 = l
      BY <1>0
    <3>3. w[l] \in Pid \cup {None} /\ w[l + 1] = ParentIn(d, w[l])
      BY <1>1, <3>2 DEF WayUp
    <3>4. v[i] \in {w[l + 1], None, w[l]}
      BY <2>1, <2>2, <3>1, <3>3
    <3> QED  BY <3>2, <3>4
  <2> QED  BY <2>3, <2>4
<1>6. S \in SUBSET Nat
  OBVIOUS
<1> HIDE DEF S
<1>7. 0..n \subseteq S
  BY <1>0, <1>4, <1>5, <1>6, UpTo
<1>8. \A i \in 1..n : v[i] = None \/ v[i] = p \/ \E l \in 1..n : v[i] = w[l]
  <2> TAKE i \in 1..n
  <2>1. i \in S /\ \A l \in 0..i : l = 0 \/ l \in 1..n
    BY <1>0, <1>7
  <2>2. w[0] = p
    BY <1>1 DEF WayUp
  <2> QED  BY <2>1, <2>2 DEF S
<1> HIDE DEF n
<1> QED  BY <1>3, <1>8

\* A job whose file is not written yet, under a number nobody else names.
Holds(j) ==
    \/ j.phase = "loading"
    \/ j.phase = "writing" /\ \E k \in DOMAIN j.todo : j.todo[k][1] = j.id

\* The new file is written once, and no file before it names it as parent.
Ahead(j) ==
    j.phase = "writing" =>
        \A k \in DOMAIN j.todo :
            \/ NewFile(j, k)
            \/ /\ j.todo[k][1] # j.id
               /\ (\A l \in 1..k : j.todo[l][1] # j.id) =>
                      j.todo[k][2] = NoDoc \/ j.todo[k][2].parent # j.id

Apart(a) ==
    Holds(job[a]) =>
        /\ job[a].id \notin Disk \cup InDraft
        /\ \A b \in Program \ {a} : job[a].id \notin InHand(job[b])
        /\ Ahead(job[a])

\* Every number a parent or a job names was given.
NamesInv ==
    /\ Disk \cup InDraft \subseteq 0..ledger
    /\ \A a \in Program : InHand(job[a]) \subseteq 0..ledger /\ Apart(a)

KeptInv ==
    \A a \in Program :
        job[a].phase = "writing" => \A k \in DOMAIN job[a].todo : ParentKept(a, doc, job[a], k)

Hierarchy == Loopless(doc) /\ KeptInv /\ NamesInv

ParentsInv == disturbed \/ raced \/ Hierarchy

LEMMA HeldIsPid ==
    ASSUME HeirInv, NEW a \in Program, Holds(job[a])
    PROVE  job[a].id \in Pid
<1>1. HonestJob(job[a], Known) /\ job[a].todo \in Seq(File)
  BY JobsAre DEF HeirInv
<1>2. CASE job[a].phase = "loading"
  BY <1>1, <1>2 DEF HonestJob, MintsUnder, Loaded, PlanJob, Formed
<1>3. CASE \E k \in DOMAIN job[a].todo : job[a].todo[k][1] = job[a].id
  BY <1>1, <1>3 DEF File
<1> QED  BY <1>2, <1>3 DEF Holds

\* A job takes a step that adds no name but those it has or finds.
LEMMA NamesStep ==
    ASSUME HeirInv, NamesInv, DOMAIN job = Program, NEW a \in Program, NEW k,
           job' = [job EXCEPT ![a] = k], ledger' = ledger, ledger \in Nat,
           Disk' \subseteq Disk \cup InHand(job[a]) \cup {None},
           InDraft' = InDraft,
           InHand(k) \subseteq InHand(job[a]) \cup Disk \cup InDraft \cup {None},
           Holds(k) => /\ Holds(job[a]) /\ k.id = job[a].id /\ k.id \notin Disk' /\ Ahead(k)
    PROVE  NamesInv'
<1>1. \A b \in Program : job'[b] = IF b = a THEN k ELSE job[b]
  OBVIOUS
<1>2. None \in 0..ledger
  BY DEF None
<1>3. Disk' \cup InDraft' \subseteq 0..ledger'
  BY <1>2 DEF NamesInv
<1>4. \A b \in Program : InHand(job'[b]) \subseteq 0..ledger'
  BY <1>1, <1>2 DEF NamesInv
<1>5. ASSUME NEW b \in Program, Holds(job'[b])
      PROVE  /\ job'[b].id \notin Disk' \cup InDraft'
             /\ \A c \in Program \ {b} : job'[b].id \notin InHand(job'[c])
             /\ Ahead(job'[b])
  <2>1. CASE b = a
    <3>1. /\ Holds(job[a]) /\ k.id = job[a].id /\ k.id \notin Disk' /\ Ahead(k) /\ job'[b] = k
      BY <1>1, <1>5, <2>1
    <3>2. Apart(a)
      BY DEF NamesInv
    <3> QED  BY <1>1, <2>1, <3>1, <3>2 DEF Apart
  <2>2. CASE b # a
    <3>1. job'[b] = job[b] /\ Holds(job[b]) /\ Apart(b)
      BY <1>1, <1>5, <2>2 DEF NamesInv
    <3>2. job[b].id # None
      BY <3>1, HeldIsPid, PidIsFinite
    <3>3. /\ job[b].id \notin Disk \cup InDraft
          /\ \A c \in Program \ {b} : job[b].id \notin InHand(job[c])
          /\ Ahead(job[b])
      BY <3>1 DEF Apart
    <3>4. ASSUME NEW c \in Program \ {b} PROVE job[b].id \notin InHand(job'[c])
      <4>1. CASE c = a
        <5>1. job[b].id \notin InHand(job[a]) /\ job'[c] = k
          BY <1>1, <2>2, <3>3, <4>1
        <5> QED  BY <3>2, <3>3, <5>1
      <4>2. CASE c # a
        BY <1>1, <3>3, <4>2
      <4> QED  BY <4>1, <4>2
    <3>5. job[b].id \notin Disk' \cup InDraft'
      BY <2>2, <3>2, <3>3
    <3> QED  BY <3>1, <3>3, <3>4, <3>5
  <2> QED  BY <2>1, <2>2
<1>6. \A b \in Program : Apart(b)'
  BY <1>5, Zenon DEF Apart, Holds, InHand, Ahead, NewFile, ParentsIn
<1>7. \A b \in Program : InHand(job[b])' \subseteq 0..ledger'
  BY <1>4 DEF InHand, ParentsIn
<1> QED  BY <1>3, <1>6, <1>7 DEF NamesInv

LEMMA HandsIdle == InHand(Idle) = {None} /\ ~Holds(Idle)
<1>1. ParentsIn(NothingRead) = {}
  BY DEF ParentsIn, NothingRead
<1>2. Idle.subject = None /\ Idle.read = NothingRead /\ Idle.todo = <<>> /\ Idle.phase = "idle"
  BY DEF Idle
<1> QED  BY <1>1, <1>2 DEF InHand, Holds

LEMMA HandsStay ==
    ASSUME NEW j, NEW k, NEW phase, phase \notin {"loading", "writing"}, InPhase(k, j, phase)
    PROVE  InHand(k) \subseteq InHand(j) /\ ~Holds(k)
BY DEF InPhase, InHand, Holds

\* A job takes a step; files, draft and ledger stay as they are.
LEMMA StillHierarchy ==
    ASSUME HeirInv, Hierarchy, ledger \in Nat, NEW a \in Program, NEW k,
           job' = [job EXCEPT ![a] = k], doc' = doc, draft' = draft, ledger' = ledger,
           InHand(k) \subseteq InHand(job[a]) \cup Disk \cup InDraft \cup {None},
           k.phase = "writing" => \A n \in DOMAIN k.todo : ParentKept(a, doc, k, n),
           Holds(k) => Holds(job[a]) /\ k.id = job[a].id /\ Ahead(k)
    PROVE  Hierarchy'
<1>0. DOMAIN job = Program
  BY DEF HeirInv
<1>1. \A b \in Program : job'[b] = IF b = a THEN k ELSE job[b]
  BY <1>0
<1>2. OnDisk' = OnDisk /\ Disk' = Disk /\ InDraft' = InDraft
  BY DEF OnDisk, Disk, ParentsIn, InDraft
<1>3. Loopless(doc')
  BY DEF Hierarchy
<1>4. \A b \in Program :
        job'[b].phase = "writing" => \A n \in DOMAIN job'[b].todo : ParentKept(b, doc', job'[b], n)
  BY <1>1 DEF Hierarchy, KeptInv
<1>5. Holds(k) => k.id \notin Disk'
  BY <1>2 DEF Hierarchy, NamesInv, Apart
<1>6. Disk' \subseteq Disk \cup InHand(job[a]) \cup {None}
  BY <1>2
<1>7. NamesInv'
  BY <1>0, <1>2, <1>5, <1>6, NamesStep DEF Hierarchy
<1> QED  BY <1>3, <1>4, <1>7 DEF Hierarchy, KeptInv

\* A job ends.
LEMMA EndsHierarchy ==
    ASSUME HeirInv, Hierarchy, ledger \in Nat, NEW a \in Program,
           job' = [job EXCEPT ![a] = Idle], doc' = doc, draft' = draft, ledger' = ledger
    PROVE  Hierarchy'
<1>1. Idle.phase # "writing"
  BY DEF Idle
<1>2. InHand(Idle) \subseteq InHand(job[a]) \cup Disk \cup InDraft \cup {None}
  BY HandsIdle
<1> QED  BY <1>1, <1>2, HandsIdle, StillHierarchy

\* A job goes on to a phase in which it has no new file.
LEMMA GoesOnHierarchy ==
    ASSUME HeirInv, Hierarchy, ledger \in Nat, NEW a \in Program, NEW k, NEW phase,
           phase \notin {"loading", "writing"}, InPhase(k, job[a], phase),
           job' = [job EXCEPT ![a] = k], doc' = doc, draft' = draft, ledger' = ledger
    PROVE  Hierarchy'
<1>1. k.phase # "writing"
  BY DEF InPhase
<1>2. InHand(k) \subseteq InHand(job[a]) \cup Disk \cup InDraft \cup {None} /\ ~Holds(k)
  BY HandsStay
<1> QED  BY <1>1, <1>2, StillHierarchy

\* A verb begins: its file is not a new one.
LEMMA BeginsHierarchy ==
    ASSUME HeirInv, HeirInv', Hierarchy, ledger \in Nat, NEW a, NEW k, Quietly(a, k)
    PROVE  Hierarchy'
<1>1. /\ a \in Program /\ job' = [job EXCEPT ![a] = k] /\ doc' = doc /\ draft' = draft
      /\ ledger' = ledger /\ job[a] = Idle
  BY DEF Quietly, Begins, files
<1>2. /\ k.phase \in {"allocating", "writing", "setting"} /\ k.id = None
      /\ k.phase = "writing" => \A n \in DOMAIN k.todo : ParentKept(a, doc, k, n)
      /\ InHand(k) \subseteq Disk \cup InDraft \cup {None}
  BY DEF Quietly, FreshStart
<1>3. k.todo \in Seq(File)
  <2>1. job'[a] = k
    BY <1>1 DEF HeirInv
  <2>2. HonestJob(job'[a], Known')
    BY <1>1 DEF HeirInv, HonestJob, MintsUnder, HonestFiles, Loaded, Formed, HonestRead, Honest
  <2> QED  BY <2>1, <2>2 DEF HonestJob, MintsUnder, HonestFiles
<1>4. ~Holds(k)
  <2>1. \A n \in DOMAIN k.todo : k.todo[n][1] \in Pid
    BY <1>3 DEF File
  <2> QED  BY <1>2, <2>1, PidIsFinite DEF Holds
<1> QED  BY <1>1, <1>2, <1>4, StillHierarchy

\* The sweep looks at the next file.
LEMMA LooksHierarchy ==
    ASSUME HeirInv, Hierarchy, ledger \in Nat, SweepReads
    PROVE  Hierarchy'
<1> DEFINE j == job["service"]
<1>1. /\ "service" \in Program /\ doc' = doc /\ draft' = draft /\ ledger' = ledger
      /\ j.todo = <<>> /\ j.other + 1 \in Pid
  BY SweepReadsIs DEF files
<1>2. PICK k : job' = [job EXCEPT !["service"] = k] /\ Looks(k, j)
  BY SweepReadsIs
<1>3. j.read \in Docs /\ doc \in Docs /\ j.subject \in Pid \cup {None}
  BY <1>1, JobsAre DEF HeirInv, HonestRead, Docs
<1> HIDE DEF j
<1> DEFINE p == j.other + 1
           new == Swept(doc[p], j.subject)
<1>4. /\ k.phase = "sweeping" /\ k.subject = j.subject
      /\ \/ k.read = j.read /\ k.todo = <<>>
         \/ /\ k.read = [j.read EXCEPT ![p] = doc[p]]
            /\ k.todo = <<<<p, new>>>> /\ doc[p] # NoDoc
  BY <1>2 DEF Looks
<1>5. doc[p] # NoDoc => p \in Disk /\ doc[p].parent \in Disk /\ new.parent \in {doc[p].parent, None}
  <2> SUFFICES ASSUME doc[p] # NoDoc PROVE p \in Disk /\ doc[p].parent \in Disk
                                           /\ new.parent \in {doc[p].parent, None}
    OBVIOUS
  <2>1. p \in OnDisk /\ doc[p] \in Doc
    BY <1>1, <1>3 DEF OnDisk, Docs
  <2>2. new.parent = IF doc[p].parent = j.subject THEN None ELSE doc[p].parent
    BY <2>1 DEF Swept, Doc
  <2> QED  BY <2>1, <2>2, DiskNames
<1> HIDE DEF p, new
<1>6. InHand(k) \subseteq InHand(j) \cup Disk \cup InDraft \cup {None}
  <2>1. CASE k.read = j.read /\ k.todo = <<>>
    BY <1>4, <2>1 DEF InHand
  <2>2. CASE k.read = [j.read EXCEPT ![p] = doc[p]] /\ k.todo = <<<<p, new>>>> /\ doc[p] # NoDoc
    <3>1. ParentsIn(k.read) \subseteq ParentsIn(j.read) \cup {doc[p].parent}
      <4>1. DOMAIN j.read = Pid /\ \A q \in Pid : k.read[q] = IF q = p THEN doc[p] ELSE j.read[q]
        BY <1>3, <2>2 DEF Docs
      <4> QED  BY <4>1 DEF ParentsIn
    <3>2. DOMAIN k.todo = {1} /\ k.todo[1] = <<p, new>>
      BY <2>2
    <3>3. InHand(k) = {j.subject} \cup ParentsIn(k.read) \cup {k.todo[l][1] : l \in DOMAIN k.todo}
                        \cup {k.todo[l][2].parent : l \in {l \in DOMAIN k.todo : k.todo[l][2] # NoDoc}}
      BY <1>4 DEF InHand
    <3>4. {k.todo[l][1] : l \in DOMAIN k.todo} = {p}
      BY <3>2
    <3>5. {k.todo[l][2].parent : l \in {l \in DOMAIN k.todo : k.todo[l][2] # NoDoc}} \subseteq {new.parent}
      BY <3>2
    <3>6. j.subject \in InHand(j) /\ ParentsIn(j.read) \subseteq InHand(j)
      BY DEF InHand
    <3> QED  BY <1>5, <2>2, <3>1, <3>3, <3>4, <3>5, <3>6
  <2> QED  BY <1>4, <2>1, <2>2
<1>7. ~Holds(k) /\ k.phase # "writing"
  BY <1>4 DEF Holds
<1> QED  BY <1>1, <1>2, <1>6, <1>7, StillHierarchy DEF j

\* A browser loads a document.
LEMMA DraftHierarchy ==
    ASSUME HeirInv, Hierarchy, NEW p \in Pid, ClientLoads(p)
    PROVE  Hierarchy'
<1>1. p \in OnDisk /\ draft' = [pid |-> p, doc |-> doc[p]] /\ UNCHANGED <<files, job>>
  BY DEF ClientLoads, Actives
<1>2. OnDisk' = OnDisk /\ Disk' = Disk
  BY <1>1 DEF files, OnDisk, Disk, ParentsIn
<1>3. InDraft' \subseteq Disk
  BY <1>1, DiskNames DEF InDraft
<1>4. ASSUME NEW a \in Program PROVE Apart(a)'
  <2>1. Apart(a)
    BY DEF Hierarchy, NamesInv
  <2> QED  BY <1>1, <1>2, <1>3, <2>1 DEF Apart
<1>5. NamesInv'
  BY <1>1, <1>2, <1>3, <1>4 DEF Hierarchy, NamesInv, files
<1> QED  BY <1>1, <1>5 DEF Hierarchy, KeptInv, files

\* A mint that no other has overtaken gives a number nobody names.
LEMMA MintedIsNew ==
    ASSUME HeirInv, Hierarchy, ledger \in Nat, NEW a \in Program, NEW n \in Pid, n > ledger
    PROVE  /\ n # None /\ n \notin Disk \cup InDraft /\ 0..ledger \subseteq 0..n
           /\ \A b \in Program : n \notin InHand(job[b]) /\ (Holds(job[b]) => job[b].id # n)
<1>1. n > ledger /\ n \in Nat
  BY PidIsFinite
<1>2. n \notin 0..ledger /\ 0..ledger \subseteq 0..n /\ n # None
  BY <1>1 DEF None
<1>3. \A b \in Program : Holds(job[b]) => job[b].id \in InHand(job[b])
  BY DEF Holds, InHand
<1> QED  BY <1>2, <1>3 DEF Hierarchy, NamesInv

\* The minting job has its number; nobody else's names have changed.
LEMMA MintHierarchy ==
    ASSUME HeirInv, Hierarchy, ledger \in Nat, NEW a \in Program, NEW k, NEW n \in Pid, n > ledger,
           job' = [job EXCEPT ![a] = k], doc' = doc, draft' = draft, ledger' = n, k.id = n,
           InHand(k) \subseteq InHand(job[a]) \cup {n, None},
           Ahead(k), k.phase = "writing" => \A l \in DOMAIN k.todo : ParentKept(a, doc, k, l)
    PROVE  Hierarchy'
<1>0. DOMAIN job = Program
  BY DEF HeirInv
<1>1. \A b \in Program : job'[b] = IF b = a THEN k ELSE job[b]
  BY <1>0
<1>2. OnDisk' = OnDisk /\ Disk' = Disk /\ InDraft' = InDraft
  BY DEF OnDisk, Disk, ParentsIn, InDraft
<1>3. Loopless(doc')
  BY DEF Hierarchy
<1>4. \A b \in Program :
        job'[b].phase = "writing" => \A l \in DOMAIN job'[b].todo : ParentKept(b, doc', job'[b], l)
  BY <1>1 DEF Hierarchy, KeptInv
<1>5. /\ n # None /\ n \notin Disk \cup InDraft /\ 0..ledger \subseteq 0..n
      /\ \A b \in Program : n \notin InHand(job[b]) /\ (Holds(job[b]) => job[b].id # n)
  BY MintedIsNew
<1>6. None \in 0..n /\ n \in 0..n
  BY PidIsFinite DEF None
<1>7. Disk' \cup InDraft' \subseteq 0..ledger' /\ \A b \in Program : InHand(job'[b]) \subseteq 0..ledger'
  BY <1>1, <1>2, <1>5, <1>6 DEF Hierarchy, NamesInv
<1>8. ASSUME NEW b \in Program, Holds(job'[b])
      PROVE  /\ job'[b].id \notin Disk' \cup InDraft'
             /\ \A c \in Program \ {b} : job'[b].id \notin InHand(job'[c])
             /\ Ahead(job'[b])
  <2>1. CASE b = a
    BY <1>1, <1>2, <1>5, <2>1
  <2>2. CASE b # a
    <3>1. job'[b] = job[b] /\ Holds(job[b]) /\ Apart(b)
      BY <1>1, <1>8, <2>2 DEF Hierarchy, NamesInv
    <3>2. job[b].id # None /\ job[b].id # n
      BY <1>5, <3>1, HeldIsPid, PidIsFinite
    <3>3. /\ job[b].id \notin Disk \cup InDraft
          /\ \A c \in Program \ {b} : job[b].id \notin InHand(job[c])
          /\ Ahead(job[b])
      BY <3>1 DEF Apart
    <3>4. ASSUME NEW c \in Program \ {b} PROVE job[b].id \notin InHand(job'[c])
      <4>1. CASE c = a
        <5>1. job[b].id \notin InHand(job[a]) /\ job'[c] = k
          BY <1>1, <2>2, <3>3, <4>1
        <5> QED  BY <3>2, <3>3, <5>1
      <4>2. CASE c # a
        BY <1>1, <3>3, <4>2
      <4> QED  BY <4>1, <4>2
    <3> QED  BY <1>2, <3>1, <3>3, <3>4
  <2> QED  BY <2>1, <2>2
<1>9. \A b \in Program : Apart(b)'
  BY <1>8, Zenon DEF Apart, Holds, InHand, Ahead, NewFile, ParentsIn
<1>10. \A b \in Program : InHand(job[b])' \subseteq 0..ledger'
  BY <1>7 DEF InHand, ParentsIn
<1>11. NamesInv'
  BY <1>7, <1>9, <1>10 DEF NamesInv
<1> QED  BY <1>3, <1>4, <1>11 DEF Hierarchy, KeptInv

LEMMA RestructureMintsHierarchy ==
    ASSUME HeirInv, Hierarchy, ledger \in Nat, NEW a \in Program, MintWrites(a),
           job[a].verb = "restructure", job[a].id \in Pid, job[a].id > ledger
    PROVE  Hierarchy'
<1> DEFINE j == job[a]
<1>1. doc' = doc /\ draft' = draft /\ ledger' = j.id
  BY DEF MintWrites
<1>2. PICK k : job' = [job EXCEPT ![a] = k] /\ InPhase(k, j, "loading") /\ k.id = j.id
  BY RestructureMintsIs
<1> HIDE DEF j
<1>3. InHand(k) \subseteq InHand(j) \cup {j.id, None}
  BY <1>2 DEF InPhase, InHand
<1>4. k.phase = "loading"
  BY <1>2 DEF InPhase
<1>5. Ahead(k) /\ k.phase # "writing"
  BY <1>4 DEF Ahead
<1> QED  BY <1>1, <1>2, <1>3, <1>5, MintHierarchy DEF j

LEMMA NestMintsHierarchy ==
    ASSUME HeirInv, Hierarchy, ledger \in Nat, NEW a \in Program, MintWrites(a),
           job[a].verb = "nest", job[a].id \in Pid, job[a].id > ledger
    PROVE  Hierarchy'
<1> DEFINE j == job[a]
<1>1. doc' = doc /\ draft' = draft /\ ledger' = j.id
  BY DEF MintWrites
<1>2. PICK k : job' = [job EXCEPT ![a] = k] /\ Nests(k, j)
  BY NestMintsIs
<1> HIDE DEF j
<1>3. InHand(k) \subseteq InHand(j) \cup {j.id, None}
  BY <1>2 DEF Nests, InHand
<1>4. k.phase = "allocating" /\ k.id = j.id
  BY <1>2 DEF Nests
<1>5. Ahead(k) /\ k.phase # "writing"
  BY <1>4 DEF Ahead
<1> QED  BY <1>1, <1>2, <1>3, <1>4, <1>5, MintHierarchy DEF j

\* The parent file a minting verb has read, or made itself.
KnownParent(j) == IF j.verb = "new" THEN None ELSE j.read[j.subject].parent

\* What stands in the files a verb writes that has minted.
LEMMA MintedFiles ==
    ASSUME HeirInv, SaneInv, NEW a \in Program, job[a].phase = "storing", job[a].id \in Pid,
           job[a].verb \notin {"restructure", "nest"}
    PROVE  LET j == job[a]
               s == j.subject
               w == Writing(j, MintedWrites(j))
           IN  /\ w.phase = "writing" /\ w.read = j.read /\ w.id = j.id /\ w.subject = s
               /\ \A q \in Pid : j.read[q] # NoDoc => q = s
               /\ s # None => s \in Pid /\ (j.verb # "new" => j.read[s] # NoDoc)
               /\ \/ /\ s = None /\ DOMAIN w.todo = {1}
                     /\ w.todo[1][1] = j.id /\ w.todo[1][2].parent = None
                  \/ /\ s # None /\ DOMAIN w.todo = {1, 2}
                     /\ w.todo[1][1] = j.id /\ w.todo[1][2].parent = s
                     /\ w.todo[2][1] = s /\ w.todo[2][2].parent = KnownParent(j)
                  \/ /\ s # None /\ DOMAIN w.todo = {1, 2}
                     /\ w.todo[1][1] = s /\ w.todo[1][2].parent = KnownParent(j)
                     /\ w.todo[2][1] = j.id /\ w.todo[2][2].parent = s
<1> DEFINE j == job[a]
           s == j.subject
           child == <<j.id, Fresh(s)>>
           known == IF j.verb = "new" THEN Fresh(None) ELSE j.read[s]
           new == [known EXCEPT !.subprocess = j.id]
           parent == <<s, new>>
           todo == MintedWrites(j)
           w == Writing(j, todo)
<1>1. /\ DOMAIN j = DOMAIN Idle /\ s \in Pid \cup {None} /\ j.id \in Pid
      /\ SaneJob(a, j) /\ j.read \in Docs /\ j.phase = "storing"
  BY JobsAre DEF SaneInv
<1>2. w.phase = "writing" /\ w.todo = todo /\ w.read = j.read /\ w.id = j.id /\ w.subject = s
  BY <1>1, InWriting DEF Ready
<1>3. \A q \in Pid : j.read[q] # NoDoc => q = s
  BY <1>1 DEF SaneJob
<1>7. s # None => s \in Pid /\ (j.verb # "new" => j.read[s] \in Doc /\ j.read[s] # NoDoc)
  <2>1. s # None /\ j.verb # "new" => j.read[s] # NoDoc
    BY <1>1 DEF HeirInv, HonestJob, MintsUnder
  <2> QED  BY <1>1, <2>1 DEF Docs
<1>4. child[1] = j.id /\ child[2].parent = s
  BY DEF Fresh
<1>5. s # None => (parent[1] = s /\ parent[2].parent = KnownParent(j))
  <2> SUFFICES ASSUME s # None PROVE new.parent = KnownParent(j)
    OBVIOUS
  <2>1. known \in Doc /\ known.parent = KnownParent(j)
    BY <1>7, FreshHonest DEF Fresh, KnownParent
  <2> HIDE DEF known
  <2> QED  BY <2>1 DEF Doc
<1>6. /\ s = None => todo = <<child>>
      /\ s # None /\ j.verb = "create" => todo = <<child, parent>>
      /\ s # None /\ j.verb # "create" => todo = <<parent, child>>
  BY DEF MintedWrites
<1> HIDE DEF child, parent, w, todo
<1>8. /\ s = None => DOMAIN w.todo = {1} /\ w.todo[1] = child
      /\ s # None /\ j.verb = "create" => DOMAIN w.todo = {1, 2} /\ w.todo[1] = child /\ w.todo[2] = parent
      /\ s # None /\ j.verb # "create" => DOMAIN w.todo = {1, 2} /\ w.todo[1] = parent /\ w.todo[2] = child
  BY <1>2, <1>6
<1>9. \/ /\ s = None /\ DOMAIN w.todo = {1}
         /\ w.todo[1][1] = j.id /\ w.todo[1][2].parent = None
      \/ /\ s # None /\ DOMAIN w.todo = {1, 2}
         /\ w.todo[1][1] = j.id /\ w.todo[1][2].parent = s
         /\ w.todo[2][1] = s /\ w.todo[2][2].parent = KnownParent(j)
      \/ /\ s # None /\ DOMAIN w.todo = {1, 2}
         /\ w.todo[1][1] = s /\ w.todo[1][2].parent = KnownParent(j)
         /\ w.todo[2][1] = j.id /\ w.todo[2][2].parent = s
  BY <1>4, <1>5, <1>8
<1> QED  BY <1>2, <1>3, <1>7, <1>9 DEF w, todo

LEMMA MintedHierarchy ==
    ASSUME HeirInv, SaneInv, Hierarchy, ledger \in Nat, NEW a \in Program, MintWrites(a),
           job[a].verb \notin {"restructure", "nest"}, job[a].id \in Pid, job[a].id > ledger
    PROVE  Hierarchy'
<1> DEFINE j == job[a]
           s == j.subject
           n == j.id
           w == Writing(j, MintedWrites(j))
           up == KnownParent(j)
<1>1. /\ doc' = doc /\ draft' = draft /\ ledger' = n /\ job' = [job EXCEPT ![a] = w]
      /\ j.phase = "storing"
  BY DEF MintWrites, Minted
<1>2. n # None /\ n \notin InHand(j)
  BY MintedIsNew
<1>3. /\ w.phase = "writing" /\ w.read = j.read /\ w.id = n /\ w.subject = s
      /\ \A q \in Pid : j.read[q] # NoDoc => q = s
      /\ s # None => s \in Pid /\ (j.verb # "new" => j.read[s] # NoDoc)
  BY <1>1, MintedFiles
<1>4. \/ /\ s = None /\ DOMAIN w.todo = {1}
         /\ w.todo[1][1] = n /\ w.todo[1][2].parent = None
      \/ /\ s # None /\ DOMAIN w.todo = {1, 2}
         /\ w.todo[1][1] = n /\ w.todo[1][2].parent = s
         /\ w.todo[2][1] = s /\ w.todo[2][2].parent = up
      \/ /\ s # None /\ DOMAIN w.todo = {1, 2}
         /\ w.todo[1][1] = s /\ w.todo[1][2].parent = up
         /\ w.todo[2][1] = n /\ w.todo[2][2].parent = s
  BY <1>1, MintedFiles
<1>14. /\ j.verb = "new" => up = None
       /\ j.verb # "new" => up = j.read[s].parent
  BY DEF KnownParent
<1> HIDE DEF w, j, n, s, up
<1>5. s \in InHand(j) /\ (s # None => up \in InHand(j) \cup {None})
  <2>1. s \in InHand(j)
    BY DEF InHand, s
  <2>2. s # None /\ up # None => j.read[s].parent \in ParentsIn(j.read) /\ up = j.read[s].parent
    <3>1. s # None /\ up # None => s \in Pid /\ j.read[s] # NoDoc /\ up = j.read[s].parent
      BY <1>3, <1>14, Zenon
    <3> QED  BY <3>1, Zenon DEF ParentsIn
  <2> QED  BY <2>1, <2>2 DEF InHand
<1>6. n # s /\ (s # None => up # n) /\ j.read[n] = NoDoc
  <2>1. n \in Pid
    BY DEF n, j
  <2> QED  BY <1>2, <1>3, <1>5, <2>1
<1>7. InHand(w) \subseteq InHand(j) \cup {n, None}
  <2>1. {w.todo[k][1] : k \in DOMAIN w.todo} \subseteq {n, s}
    BY <1>4
  <2>2. {w.todo[k][2].parent : k \in {l \in DOMAIN w.todo : w.todo[l][2] # NoDoc}}
            \subseteq {None, s} \cup (IF s = None THEN {} ELSE {up})
    BY <1>4
  <2>3. InHand(w) = {s} \cup ParentsIn(j.read) \cup {w.todo[k][1] : k \in DOMAIN w.todo}
            \cup {w.todo[k][2].parent : k \in {l \in DOMAIN w.todo : w.todo[l][2] # NoDoc}} \cup {n}
    BY <1>3 DEF InHand
  <2>4. ParentsIn(j.read) \subseteq InHand(j)
    BY DEF InHand
  <2> QED  BY <1>5, <2>1, <2>2, <2>3, <2>4
<1>8. \A l \in 1..(1 - 1) : FALSE
  OBVIOUS
<1>9. (\A l \in 1..(2 - 1) : l = 1) /\ 1 \in 1..1 /\ 1 \in 1..2 /\ 2 \in 1..2
  OBVIOUS
<1>10. \A k \in DOMAIN w.todo : w.todo[k][1] = n => NewFile(w, k)
  BY <1>3, <1>4, <1>6 DEF NewFile
<1>11. \A k \in DOMAIN w.todo : w.todo[k][1] # n =>
          (SameParent(w, k) \/ w.todo[k][2].parent = None) /\ w.todo[k][2].parent # n
  <2> SUFFICES ASSUME NEW k \in DOMAIN w.todo, w.todo[k][1] # n
               PROVE  (SameParent(w, k) \/ w.todo[k][2].parent = None) /\ w.todo[k][2].parent # n
    OBVIOUS
  <2>1. s # None /\ w.todo[k][1] = s /\ w.todo[k][2].parent = up
        /\ \A l \in 1..(k - 1) : w.todo[l][1] # s
    BY <1>4, <1>6, <1>8, <1>9
  <2>2. CASE j.verb = "new"
    <3>1. w.todo[k][2].parent = None /\ w.todo[k][2].parent # n
      BY <1>6, <1>14, <2>1, <2>2, Zenon
    <3> QED  BY <3>1
  <2>3. CASE j.verb # "new"
    <3>1. j.read[s] # NoDoc /\ up = j.read[s].parent
      BY <1>3, <1>14, <2>1, <2>3
    <3> QED  BY <1>3, <1>6, <2>1, <3>1 DEF SameParent
  <2> QED  BY <2>2, <2>3
<1>12. Ahead(w) /\ \A k \in DOMAIN w.todo : ParentKept(a, doc, w, k)
  BY <1>3, <1>10, <1>11 DEF Ahead, ParentKept
<1>13. HeirInv /\ Hierarchy /\ ledger \in Nat /\ n \in Pid /\ n > ledger
  BY DEF n, j
<1> QED  BY <1>1, <1>3, <1>7, <1>12, <1>13, MintHierarchy DEF j

\* The plan has its files: the child's new parent is the heir it is not above.
LEMMA PlanHierarchy ==
    ASSUME HeirInv, SaneInv, Hierarchy, ledger \in Nat, RestructureLoads
    PROVE  Hierarchy'
<1> DEFINE j == job["pipeline"]
           S == Neighbours(j) \cup ToSet(j.supersedes)
           r == Restructured(doc, j)
           h == j.id
<1>1. /\ "pipeline" \in Program /\ doc' = doc /\ draft' = draft /\ ledger' = ledger
  BY DEF Program, RestructureLoads, files
<1>2. PICK w : PlanLoaded(w, j) /\ job' = [job EXCEPT !["pipeline"] = w]
  BY PlanIsLoaded
<1>3. /\ Closed(j) /\ PlanJob(j) /\ DOMAIN j = DOMAIN Idle /\ j.other \in Nat /\ j.phase = "loading"
      /\ doc \in Docs /\ h \in Pid
  BY <1>1 DEF HeirInv, HonestJob, MintsUnder, Loaded, Formed, PlanJob, RestructureLoads, HonestRead, Docs
<1>4. /\ \A p \in OnDisk \cup {h} :
            /\ r[p] \in Doc
            /\ p # h => r[p].parent = IF p = j.other THEN h ELSE doc[p].parent
      /\ r[h].parent \in Boxes(j) \cup {None}
      /\ j.other # None => j.other \notin Above([doc EXCEPT ![h] = r[h]], h)
  BY <1>3, PlanLinks
<1>5. S \subseteq OnDisk /\ Boxes(j) \subseteq Disk \cup {None, h}
  <2>1. Boxes(j) \subseteq OnDisk \cup {None, h} /\ S \subseteq OnDisk
    BY <1>3 DEF Closed, Boxes
  <2> QED  BY <2>1 DEF Disk
<1>6. Holds(j) /\ Apart("pipeline") /\ h \in InHand(j)
  BY <1>1, <1>3 DEF Hierarchy, NamesInv, Holds, InHand
<1>7. h \notin OnDisk /\ h # None
  BY <1>3, <1>6, PidIsFinite DEF Apart, Disk
<1>8. j.other # h
  BY <1>3, <1>7, PidIsFinite DEF Closed, None
<1>9. /\ w.phase = "writing" /\ w.id = h /\ w.subject = j.subject /\ w.other = j.other
      /\ w.read = [p \in Pid |-> IF p \in S THEN doc[p] ELSE NoDoc]
      /\ w.todo[1][1] = h /\ 1 \in DOMAIN w.todo
      /\ \A k \in DOMAIN w.todo : /\ w.todo[k][1] \in OnDisk \cup {h}
                                  /\ k # 1 => w.todo[k][1] \in S
                                  /\ w.todo[k][2] = r[w.todo[k][1]]
      /\ \A k \in DOMAIN w.todo : \A l \in 1..k : l \in DOMAIN w.todo
      /\ \A k \in DOMAIN w.todo : 1 \in 1..k /\ \A l \in 1..(k - 1) : l \in DOMAIN w.todo
  <2>1. PlanLoaded(w, j)
    BY <1>2
  <2>2. PICK n \in Nat \ {0} : DOMAIN w.todo = 1..n
    BY <2>1 DEF PlanLoaded
  <2>3. /\ 1 \in DOMAIN w.todo
        /\ \A k \in DOMAIN w.todo : \A l \in 1..k : l \in DOMAIN w.todo
        /\ \A k \in DOMAIN w.todo : 1 \in 1..k /\ \A l \in 1..(k - 1) : l \in DOMAIN w.todo
    BY <2>2
  <2> QED  BY <2>1, <2>3 DEF PlanLoaded, S, r
<1> HIDE DEF j, S, r, h
<1>10. \A k \in DOMAIN w.todo : k # 1 => w.todo[k][1] # h
  BY <1>5, <1>7, <1>9
<1>11. NewFile(w, 1)
  <2>1. w.read[h] = NoDoc
    BY <1>3, <1>5, <1>7, <1>9
  <2> QED  BY <1>9, <1>10, <2>1 DEF NewFile
<1>12. Ahead(w)
  BY <1>9, <1>10, <1>11 DEF Ahead
<1>13. ASSUME NEW k \in DOMAIN w.todo PROVE ParentKept("pipeline", doc, w, k)
  <2> DEFINE t == w.todo[k][1]
  <2>1. CASE k = 1
    BY <1>11, <2>1 DEF ParentKept
  <2>2. CASE k # 1 /\ t # j.other
    <3>1. t \in S /\ t \in OnDisk /\ t # h /\ w.todo[k][2] = r[t]
      BY <1>5, <1>9, <1>10, <2>2
    <3>2. r[t].parent = doc[t].parent /\ w.read[t] = doc[t] /\ doc[t] # NoDoc
      BY <1>4, <1>9, <2>2, <3>1 DEF OnDisk
    <3>3. \A l \in 1..(k - 1) : w.todo[l][1] = t => w.todo[l][2] = r[t]
      BY <1>9
    <3>4. SameParent(w, k)
      BY <3>1, <3>2, <3>3 DEF SameParent
    <3> QED  BY <3>4 DEF ParentKept
  <2>3. CASE k # 1 /\ t = j.other
    <3>1. t \in OnDisk /\ t # h /\ w.todo[k][2] = r[t] /\ r[t].parent = h
      BY <1>4, <1>5, <1>9, <1>10, <2>3
    <3>2. t # None
      BY <3>1, PidIsFinite DEF OnDisk
    <3>3. Planned(doc, w) = [doc EXCEPT ![h] = r[h]]
      BY <1>9 DEF Planned
    <3>4. t \notin Above(Planned(doc, w), h)
      BY <1>4, <2>3, <3>2, <3>3
    <3>5. Adopted("pipeline", doc, w, k)
      BY <1>9, <1>10, <2>3, <3>1, <3>4 DEF Adopted
    <3> QED  BY <3>5 DEF ParentKept
  <2> QED  BY <2>1, <2>2, <2>3
<1>14. InHand(w) \subseteq InHand(j) \cup Disk \cup InDraft \cup {None}
  <2>1. ParentsIn(w.read) \subseteq Disk
    <3>1. \A p \in Pid : w.read[p] # NoDoc => p \in OnDisk /\ w.read[p] = doc[p]
      BY <1>5, <1>9 DEF OnDisk
    <3> QED  BY <1>9, <3>1, DiskNames DEF ParentsIn
  <2>2. {w.todo[k][1] : k \in DOMAIN w.todo} \subseteq OnDisk \cup {h}
    BY <1>9
  <2>3. \A p \in OnDisk \cup {h} : r[p].parent \in Disk \cup {None, h}
    BY <1>4, <1>5, DiskNames
  <2>4. {w.todo[k][2].parent : k \in {l \in DOMAIN w.todo : w.todo[l][2] # NoDoc}} \subseteq Disk \cup {None, h}
    BY <1>9, <2>3
  <2>5. InHand(w) = {j.subject} \cup ParentsIn(w.read) \cup {w.todo[k][1] : k \in DOMAIN w.todo}
            \cup {w.todo[k][2].parent : k \in {l \in DOMAIN w.todo : w.todo[l][2] # NoDoc}} \cup {h}
    BY <1>9 DEF InHand
  <2>6. j.subject \in InHand(j) /\ OnDisk \subseteq Disk
    BY DEF InHand, Disk
  <2> QED  BY <1>6, <2>1, <2>2, <2>4, <2>5, <2>6
<1>15. Holds(w) => Holds(job["pipeline"]) /\ w.id = job["pipeline"].id /\ Ahead(w)
  BY <1>6, <1>9, <1>12 DEF j, h
<1> QED  BY <1>1, <1>2, <1>13, <1>14, <1>15, StillHierarchy DEF j

\* A file whose parent goes, turns to itself or stays.
Cuts(d, p, new) == new = NoDoc \/ new.parent \in {None, p, ParentIn(d, p)}

\* A new file nobody names: nobody's parent, in no verb's hands.
Unnamed(d, j, p, x) == p # x /\ p # None /\ \A q \in Pid : ParentIn(Planned(d, j), q) # p

\* Another program writes a file: an adopted child is still not above its heir.
LEMMA StillAdopted ==
    ASSUME NEW d \in Docs, NEW p \in Pid, NEW new \in Doc \cup {NoDoc},
           NEW a, NEW j, j.todo \in Seq(File), NEW k \in DOMAIN j.todo, j.todo[k][2] \in Doc,
           Adopted(a, d, j, k),
           Cuts(d, p, new) \/ Unnamed(d, j, p, j.todo[k][2].parent)
    PROVE  Adopted(a, [d EXCEPT ![p] = new], j, k)
<1> DEFINE t == j.todo[k][1]
           x == j.todo[k][2].parent
           h == j.todo[1][2]
           e == [d EXCEPT ![p] = new]
           P == Planned(d, j)
           R == Planned(e, j)
<1>1. /\ t \in Pid /\ x \in Pid \cup {None} /\ h \in Doc \cup {NoDoc} /\ j.todo[1][1] \in Pid
      /\ e \in Docs /\ t # x /\ t \notin Above(P, x)
  <2>1. 1 \in DOMAIN j.todo
    OBVIOUS
  <2>2. e \in Docs
    BY DEF Docs
  <2> QED  BY <2>1, <2>2 DEF File, Doc, Adopted
<1>2. ASSUME NEW f \in Docs
      PROVE  /\ Planned(f, j) \in Docs
             /\ \A q \in Pid : Planned(f, j)[q] = IF q = j.id /\ j.todo[1][1] = j.id THEN h ELSE f[q]
  BY <1>1 DEF Planned, Docs
<1>3. P \in Docs /\ R \in Docs
  BY <1>1, <1>2
<1>4. \A q \in Pid : e[q] = IF q = p THEN new ELSE d[q]
  BY DEF Docs
<1>5. \A q \in Pid : \/ P[q] = R[q]
                     \/ q = p /\ P[q] = d[q] /\ R[q] = new
  <2> DEFINE swaps(q) == q = j.id /\ j.todo[1][1] = j.id
  <2>1. \A q \in Pid : P[q] = IF swaps(q) THEN h ELSE d[q]
    BY <1>2
  <2>2. \A q \in Pid : R[q] = IF swaps(q) THEN h ELSE e[q]
    BY <1>1, <1>2
  <2> HIDE DEF P, R, e, h, swaps
  <2> QED  BY <1>4, <2>1, <2>2
<1> HIDE DEF P, R, e, h, t, x
<1>6. CASE Cuts(d, p, new)
  <2>1. \A q \in Pid : ParentIn(R, q) \in {ParentIn(P, q), None, q}
    BY <1>5, <1>6 DEF ParentIn, Cuts
  <2>2. Above(R, x) \subseteq Above(P, x) \cup {x}
    BY <1>1, <1>3, <2>1, StayAbove
  <2>3. t \notin Above(R, x)
    BY <1>1, <2>2
  <2> QED  BY <2>3 DEF Adopted, t, x, R, e
<1>7. CASE Unnamed(d, j, p, x)
  <2>1. p # x /\ p # None /\ \A q \in Pid : ParentIn(P, q) # p
    BY <1>7 DEF Unnamed, P
  <2>2. p \notin Above(P, x)
    BY <1>1, <1>3, <2>1, NobodysParent
  <2>3. \A q \in Pid \ {p} : ParentIn(R, q) = ParentIn(P, q)
    BY <1>5 DEF ParentIn
  <2>4. Above(R, x) = Above(P, x)
    BY <1>1, <1>3, <2>1, <2>2, <2>3, ElsewhereAbove
  <2>5. t \notin Above(R, x)
    BY <1>1, <2>4
  <2> QED  BY <2>5 DEF Adopted, t, x, R, e
<1> QED  BY <1>6, <1>7 DEF x

\* What one knows of a job that writes its first file, of several or the last.
WritesWell(a, d, j) ==
    /\ d \in Docs /\ Loopless(d) /\ j.read \in Docs /\ j.todo \in Seq(File) /\ j.todo # <<>>
    /\ d[j.todo[1][1]] = j.read[j.todo[1][1]]
    /\ \A k \in DOMAIN j.todo : ParentKept(a, d, j, k)
    /\ \A k \in DOMAIN j.todo : NewFile(j, k) => \A q \in Pid : ParentIn(d, q) # j.id

\* The first file is written and closes no loop.
LEMMA WritesLoopless ==
    ASSUME NEW a, NEW d, NEW j, WritesWell(a, d, j)
    PROVE  Loopless([d EXCEPT ![j.todo[1][1]] = j.todo[1][2]])
<1> DEFINE p == j.todo[1][1]
           new == j.todo[1][2]
           e == [d EXCEPT ![p] = new]
<1>0. 1 \in DOMAIN j.todo
  BY DEF WritesWell
<1>1. /\ d \in Docs /\ Loopless(d) /\ p \in Pid /\ new \in Doc \cup {NoDoc}
      /\ d[p] = j.read[p] /\ ParentKept(a, d, j, 1)
      /\ NewFile(j, 1) => \A q \in Pid : ParentIn(d, q) # j.id
  BY <1>0 DEF WritesWell, File
<1>2. /\ e \in Docs
      /\ \A q \in Pid \ {p} : ParentIn(e, q) = ParentIn(d, q)
      /\ ParentIn(e, p) = IF new = NoDoc THEN None ELSE new.parent
  <2> HIDE DEF p, new
  <2>1. e \in Docs /\ \A q \in Pid : e[q] = IF q = p THEN new ELSE d[q]
    BY <1>1 DEF Docs
  <2> HIDE DEF e
  <2> QED  BY <1>1, <2>1 DEF ParentIn
<1> SUFFICES Loopless(e)
  OBVIOUS
<1> HIDE DEF e, p, new
<1>3. CASE new = NoDoc \/ new.parent = None
  BY <1>1, <1>2, <1>3, CutLoopless
<1>4. CASE new # NoDoc /\ new.parent = p
  <2>1. ParentIn(e, p) = p
    BY <1>2, <1>4
  <2> QED  BY <1>1, <1>2, <2>1, HungLoopless
<1>5. CASE new # NoDoc /\ SameParent(j, 1)
  <2>1. ParentIn(e, p) = ParentIn(d, p)
    BY <1>1, <1>2, <1>5 DEF SameParent, ParentIn, p, new
  <2> QED  BY <1>1, <1>2, <2>1, CutLoopless
<1>6. CASE new # NoDoc /\ NewFile(j, 1)
  <2>1. \A q \in Pid : ParentIn(d, q) # p
    BY <1>1, <1>6 DEF NewFile, p
  <2>2. p # None /\ ParentIn(e, p) \in Pid \cup {None}
    BY <1>1, <1>2, PidIsFinite, ParentIsNamed
  <2>3. p \notin Above(d, ParentIn(e, p))
    BY <1>1, <2>1, <2>2, NobodysParent
  <2> QED  BY <1>1, <1>2, <2>3, HungLoopless
<1>7. CASE new # NoDoc /\ Adopted(a, d, j, 1)
  <2>1. p \notin Above(d, new.parent)
    BY <1>7 DEF Adopted, Planned, p, new
  <2> QED  BY <1>1, <1>2, <1>7, <2>1, HungLoopless
<1>8. \/ new = NoDoc \/ new.parent \in {None, p} \/ SameParent(j, 1) \/ NewFile(j, 1)
      \/ Adopted(a, d, j, 1)
  BY <1>1 DEF ParentKept, p, new
<1> QED  BY <1>3, <1>4, <1>5, <1>6, <1>7, <1>8

\* The rest of a job whose first file is written.
RestOf(k, j) ==
    /\ k.id = j.id /\ k.other = j.other /\ k.todo = Tail(j.todo)
    /\ k.read = [j.read EXCEPT ![j.todo[1][1]] = j.todo[1][2]]

LEMMA RestIs ==
    ASSUME NEW j, NEW k, RestOf(k, j), j.todo \in Seq(File), j.todo # <<>>, j.read \in Docs
    PROVE  /\ 1 \in DOMAIN j.todo /\ j.todo[1][1] \in Pid /\ j.todo[1][2] \in Doc \cup {NoDoc}
           /\ \A q \in Pid : k.read[q] = IF q = j.todo[1][1] THEN j.todo[1][2] ELSE j.read[q]
           /\ \A n \in DOMAIN k.todo :
                 /\ n + 1 \in DOMAIN j.todo /\ n + 1 # 1 /\ k.todo[n] = j.todo[n + 1] /\ n \in Nat \ {0}
                 /\ 1 \in 1..((n + 1) - 1) /\ 1 \in DOMAIN k.todo
                 /\ \A l \in 1..(n - 1) : l + 1 \in 1..((n + 1) - 1) /\ k.todo[l] = j.todo[l + 1]
                 /\ \A l \in 1..(n + 1) : l = 1 \/ (l - 1 \in 1..n /\ k.todo[l - 1] = j.todo[l])
           /\ \A l \in DOMAIN j.todo \ {1} : l - 1 \in DOMAIN k.todo /\ k.todo[l - 1] = j.todo[l]
<1>1. /\ Len(j.todo) \in Nat \ {0} /\ DOMAIN j.todo = 1..Len(j.todo) /\ 1 \in DOMAIN j.todo
      /\ DOMAIN k.todo = 1..(Len(j.todo) - 1)
      /\ \A n \in 1..(Len(j.todo) - 1) : k.todo[n] = j.todo[n + 1]
  BY DEF RestOf
<1>2. j.todo[1][1] \in Pid /\ j.todo[1][2] \in Doc \cup {NoDoc}
  BY <1>1 DEF File
<1>3. \A q \in Pid : k.read[q] = IF q = j.todo[1][1] THEN j.todo[1][2] ELSE j.read[q]
  BY DEF RestOf, Docs
<1>4. ASSUME NEW n \in DOMAIN k.todo
      PROVE  /\ n + 1 \in DOMAIN j.todo /\ n + 1 # 1 /\ k.todo[n] = j.todo[n + 1] /\ n \in Nat \ {0}
             /\ 1 \in 1..((n + 1) - 1) /\ 1 \in DOMAIN k.todo
             /\ \A l \in 1..(n - 1) : l + 1 \in 1..((n + 1) - 1) /\ k.todo[l] = j.todo[l + 1]
             /\ \A l \in 1..(n + 1) : l = 1 \/ (l - 1 \in 1..n /\ k.todo[l - 1] = j.todo[l])
  <2>1. n \in 1..(Len(j.todo) - 1) /\ 1..(n - 1) \subseteq 1..(Len(j.todo) - 1)
        /\ 1..n \subseteq 1..(Len(j.todo) - 1)
    BY <1>1
  <2>2. \A l \in 1..(n + 1) : l = 1 \/ (l - 1 \in 1..n /\ (l - 1) + 1 = l)
    BY <1>1
  <2>3. \A l \in 1..n : k.todo[l] = j.todo[l + 1]
    BY <1>1, <2>1
  <2> QED  BY <1>1, <2>1, <2>2, <2>3
<1>5. \A l \in DOMAIN j.todo \ {1} : l - 1 \in DOMAIN k.todo /\ k.todo[l - 1] = j.todo[l]
  <2>1. \A l \in DOMAIN j.todo \ {1} : l - 1 \in 1..(Len(j.todo) - 1) /\ (l - 1) + 1 = l
    BY <1>1
  <2> QED  BY <1>1, <2>1
<1> QED  BY <1>1, <1>2, <1>3, <1>4, <1>5

\* The files that are still to be written keep their parents.
LEMMA ParentStillKept ==
    ASSUME NEW a, NEW d, NEW j, NEW k, WritesWell(a, d, j), RestOf(k, j), j.todo[1][2] \in Doc,
           NEW n \in DOMAIN k.todo
    PROVE  ParentKept(a, [d EXCEPT ![j.todo[1][1]] = j.todo[1][2]], k, n)
<1> DEFINE p == j.todo[1][1]
           new == j.todo[1][2]
           e == [d EXCEPT ![p] = new]
           t == k.todo[n][1]
           x == k.todo[n][2].parent
           m == n + 1
<1>0. j.todo \in Seq(File) /\ j.todo # <<>> /\ j.read \in Docs
  BY DEF WritesWell
<1>1. /\ p \in Pid /\ new \in Doc \cup {NoDoc} /\ d \in Docs /\ d[p] = j.read[p]
      /\ m \in DOMAIN j.todo /\ m # 1 /\ k.todo[n] = j.todo[m] /\ 1 \in 1..(m - 1)
      /\ ParentKept(a, d, j, 1) /\ ParentKept(a, d, j, m) /\ 1 \in DOMAIN j.todo /\ 1 \in DOMAIN k.todo
  BY <1>0, RestIs DEF WritesWell
<1>2. \A q \in Pid : k.read[q] = IF q = p THEN new ELSE j.read[q]
  BY <1>0, RestIs
<1>3. k.todo[n] \in File /\ k.id = j.id /\ k.other = j.other
  BY <1>0, <1>1 DEF RestOf
<1>4. t \in Pid /\ k.todo[n][2] \in Doc \cup {NoDoc} /\ k.todo[1] = j.todo[2] /\ 2 \in DOMAIN j.todo
  <2>1. 1 + 1 \in DOMAIN j.todo /\ k.todo[1] = j.todo[1 + 1] /\ 1 + 1 = 2
    BY <1>0, <1>1, RestIs
  <2> QED  BY <1>3, <2>1 DEF File
<1>5. \A l \in 1..(n - 1) : l + 1 \in 1..(m - 1) /\ k.todo[l] = j.todo[l + 1]
  BY <1>0, RestIs
<1>6. \A l \in DOMAIN k.todo : l + 1 \in DOMAIN j.todo /\ l + 1 # 1 /\ k.todo[l] = j.todo[l + 1]
  BY <1>0, RestIs
<1> SUFFICES ParentKept(a, e, k, n)
  OBVIOUS
<1>14. \A l \in DOMAIN k.todo : l # n => l + 1 # m
  <2>1. \A l \in DOMAIN k.todo : l \in Nat \ {0}
    BY <1>0, RestIs
  <2> QED  BY <2>1
<1> HIDE DEF p, new, e, m
<1>7. CASE SameParent(j, m)
  <2>1. /\ j.read[t] # NoDoc /\ x = j.read[t].parent
        /\ \A l \in 1..(m - 1) : j.todo[l][1] = t => j.todo[l][2].parent = x
    BY <1>1, <1>7 DEF SameParent
  <2>2. k.read[t] # NoDoc /\ x = k.read[t].parent
    <3>1. CASE t = p
      BY <1>1, <1>2, <1>4, <2>1, <3>1, NoDocAssumption DEF p, new
    <3>2. CASE t # p
      BY <1>2, <1>4, <2>1, <3>2
    <3> QED  BY <3>1, <3>2
  <2>3. \A l \in 1..(n - 1) : k.todo[l][1] = t => k.todo[l][2].parent = x
    BY <1>5, <2>1
  <2> QED  BY <2>2, <2>3 DEF SameParent, ParentKept
<1>8. CASE NewFile(j, m)
  <2>1. /\ t = k.id /\ j.read[t] = NoDoc /\ p # t
        /\ \A l \in DOMAIN j.todo : l # m => j.todo[l][1] # k.id
    BY <1>1, <1>3, <1>8 DEF NewFile, p
  <2>2. k.read[k.id] = NoDoc
    BY <1>2, <1>4, <2>1
  <2>3. \A l \in DOMAIN k.todo : l # n => k.todo[l][1] # k.id
    BY <1>6, <1>14, <2>1
  <2> QED  BY <2>1, <2>2, <2>3 DEF NewFile, ParentKept
<1>9. CASE Adopted(a, d, j, m) /\ k.todo[n][2] # NoDoc
  <2>1. /\ a = "pipeline" /\ t = k.other /\ t # k.id /\ t # x
        /\ \A l \in DOMAIN j.todo : l # 1 => j.todo[l][1] # k.id
        /\ t \notin Above(Planned(d, j), x)
    BY <1>1, <1>3, <1>9 DEF Adopted
  <2>2. \A l \in DOMAIN k.todo : k.todo[l][1] # k.id
    BY <1>6, <2>1
  <2>3. Planned(e, k) = e
    BY <1>1, <2>2 DEF Planned
  <2>4. /\ e \in Docs /\ x \in Pid \cup {None} /\ t # None
        /\ \A q \in Pid \ {p} : ParentIn(e, q) = ParentIn(d, q)
        /\ Cuts(d, p, new) => \A q \in Pid : ParentIn(e, q) \in {ParentIn(d, q), None, q}
    <3>1. x \in Pid \cup {None} /\ t # None
      BY <1>4, <1>9, PidIsFinite DEF Doc
    <3>2. e \in Docs /\ \A q \in Pid : e[q] = IF q = p THEN new ELSE d[q]
      BY <1>1 DEF Docs, e
    <3>3. /\ \A q \in Pid \ {p} : ParentIn(e, q) = ParentIn(d, q)
          /\ ParentIn(e, p) = IF new = NoDoc THEN None ELSE new.parent
      BY <1>1, <3>2 DEF ParentIn
    <3> QED  BY <1>1, <3>1, <3>2, <3>3 DEF Cuts
  <2>5. t \notin Above(e, x)
    <3>1. CASE p = k.id
      BY <1>3, <2>1, <3>1 DEF Planned, e, p, new
    <3>2. CASE p # k.id
      <4>1. t \notin Above(d, x)
        BY <1>3, <2>1, <3>2 DEF Planned, p
      <4>2. CASE p = t
        <5>1. Above(e, x) = Above(d, x)
          BY <1>1, <2>1, <2>4, <4>1, <4>2, ElsewhereAbove
        <5> QED  BY <4>1, <5>1
      <4>3. CASE p # t
        <5>1. new.parent \in {None, p} \/ SameParent(j, 1) \/ new = NoDoc
          BY <1>1, <1>3, <2>1, <3>2, <4>3 DEF ParentKept, NewFile, Adopted, p, new
        <5>2. SameParent(j, 1) => new.parent = ParentIn(d, p)
          BY <1>1 DEF SameParent, ParentIn, p, new
        <5>3. Cuts(d, p, new)
          BY <5>1, <5>2 DEF Cuts
        <5>4. Above(e, x) \subseteq Above(d, x) \cup {x}
          BY <1>1, <2>4, <5>3, StayAbove
        <5> QED  BY <2>1, <4>1, <5>4
      <4> QED  BY <4>2, <4>3
    <3> QED  BY <3>1, <3>2
  <2>6. Adopted(a, e, k, n)
    BY <2>1, <2>2, <2>3, <2>5 DEF Adopted
  <2> QED  BY <2>6 DEF ParentKept
<1>10. CASE k.todo[n][2] = NoDoc \/ x \in {None, t}
  BY <1>10 DEF ParentKept
<1> QED  BY <1>1, <1>7, <1>8, <1>9, <1>10 DEF ParentKept

\* The new file is still ahead, if it is not the one just written.
LEMMA StillAhead ==
    ASSUME NEW j, NEW k, RestOf(k, j), j.todo \in Seq(File), j.todo # <<>>, j.read \in Docs,
           j.phase = "writing", Ahead(j), j.todo[1][2] \in Doc,
           \E n \in DOMAIN k.todo : k.todo[n][1] = k.id
    PROVE  j.todo[1][1] # j.id /\ j.todo[1][2].parent # j.id /\ Ahead(k)
<1> DEFINE p == j.todo[1][1]
           new == j.todo[1][2]
<1>1. /\ 1 \in DOMAIN j.todo /\ p \in Pid
      /\ \A q \in Pid : k.read[q] = IF q = p THEN new ELSE j.read[q]
      /\ \A n \in DOMAIN k.todo : n + 1 \in DOMAIN j.todo /\ n + 1 # 1 /\ k.todo[n] = j.todo[n + 1]
                                  /\ n \in Nat \ {0}
  <2>1. 1 \in DOMAIN j.todo /\ p \in Pid
    BY RestIs
  <2>2. \A q \in Pid : k.read[q] = IF q = p THEN new ELSE j.read[q]
    BY RestIs
  <2>3. \A n \in DOMAIN k.todo : n + 1 \in DOMAIN j.todo /\ n + 1 # 1 /\ k.todo[n] = j.todo[n + 1]
                                  /\ n \in Nat \ {0}
    BY RestIs
  <2> QED  BY <2>1, <2>2, <2>3
<1>2. k.id = j.id /\ new # NoDoc
  BY NoDocAssumption DEF RestOf
<1>3. PICK m \in DOMAIN k.todo : k.todo[m][1] = j.id
  BY <1>2
<1>4. m + 1 \in DOMAIN j.todo /\ m + 1 # 1 /\ j.todo[m + 1][1] = j.id
  BY <1>1, <1>3
<1>5. NewFile(j, m + 1)
  BY <1>4 DEF Ahead
<1>6. p # j.id
  BY <1>1, <1>4, <1>5 DEF NewFile
<1>7. new.parent # j.id
  <2>1. \A l \in 1..1 : j.todo[l][1] # j.id
    BY <1>6
  <2> QED  BY <1>1, <1>2, <1>6, <2>1 DEF Ahead, NewFile
<1> HIDE DEF p, new
<1>8. ASSUME NEW n \in DOMAIN k.todo
      PROVE  \/ NewFile(k, n)
             \/ /\ k.todo[n][1] # k.id
                /\ (\A l \in 1..n : k.todo[l][1] # k.id) =>
                       k.todo[n][2] = NoDoc \/ k.todo[n][2].parent # k.id
  <2>1. /\ n + 1 \in DOMAIN j.todo /\ k.todo[n] = j.todo[n + 1]
        /\ \/ NewFile(j, n + 1)
           \/ /\ j.todo[n + 1][1] # j.id
              /\ (\A l \in 1..(n + 1) : j.todo[l][1] # j.id) =>
                     j.todo[n + 1][2] = NoDoc \/ j.todo[n + 1][2].parent # j.id
    BY <1>1 DEF Ahead
  <2>2. CASE NewFile(j, n + 1)
    <3>1. /\ k.todo[n][1] = j.id /\ j.read[j.id] = NoDoc /\ j.id \in Pid
          /\ \A l \in DOMAIN j.todo : l # n + 1 => j.todo[l][1] # j.id
      <4>1. j.todo[n + 1] \in File
        BY <2>1
      <4> QED  BY <2>1, <2>2, <4>1 DEF NewFile, File
    <3>2. k.read[j.id] = NoDoc
      BY <1>1, <1>6, <3>1
    <3>3. \A l \in DOMAIN k.todo : l # n => l + 1 # n + 1
      BY <1>1
    <3>4. ASSUME NEW l \in DOMAIN k.todo, l # n PROVE k.todo[l][1] # j.id
      <4>1. l + 1 \in DOMAIN j.todo /\ k.todo[l] = j.todo[l + 1]
        BY <1>1
      <4> QED  BY <3>1, <3>3, <3>4, <4>1
    <3> QED  BY <1>2, <3>1, <3>2, <3>4 DEF NewFile
  <2>3. CASE j.todo[n + 1][1] # j.id
    <3>1. ASSUME \A l \in 1..n : k.todo[l][1] # k.id
          PROVE  \A l \in 1..(n + 1) : j.todo[l][1] # j.id
      <4>1. \A l \in 1..(n + 1) : l = 1 \/ (l - 1 \in 1..n /\ k.todo[l - 1] = j.todo[l])
        BY RestIs
      <4> QED  BY <1>2, <1>6, <3>1, <4>1 DEF p
    <3> QED  BY <1>2, <2>1, <2>3, <3>1 DEF NewFile
  <2> QED  BY <2>1, <2>2, <2>3 DEF NewFile
<1> QED  BY <1>6, <1>7, <1>8 DEF Ahead, p, new

\* A job that writes: the first file keeps its parent one way or the other.
LEMMA FirstFile ==
    ASSUME NEW a, NEW d, NEW j, WritesWell(a, d, j)
    PROVE  \/ Cuts(d, j.todo[1][1], j.todo[1][2]) \/ Adopted(a, d, j, 1)
           \/ NewFile(j, 1) /\ j.todo[1][1] = j.id
<1>1. 1 \in DOMAIN j.todo
  BY DEF WritesWell
<1>2. ParentKept(a, d, j, 1) /\ j.todo[1][1] \in Pid /\ d[j.todo[1][1]] = j.read[j.todo[1][1]]
  BY <1>1 DEF WritesWell, File
<1>3. SameParent(j, 1) => j.todo[1][2].parent = ParentIn(d, j.todo[1][1])
  BY <1>2 DEF SameParent, ParentIn
<1> QED  BY <1>2, <1>3 DEF ParentKept, Cuts, NewFile

\* What is in hand: the files to come and their parents.
LEMMA InHandAre ==
    ASSUME NEW j, NEW k \in DOMAIN j.todo
    PROVE  /\ j.todo[k][1] \in InHand(j)
           /\ j.todo[k][2] # NoDoc => j.todo[k][2].parent \in InHand(j)
BY DEF InHand

LEMMA DiskParents ==
    ASSUME NEW q
    PROVE  ParentIn(doc, q) \in Disk \cup {None}
<1>1. CASE q \in Pid /\ doc[q] # NoDoc
  <2>1. q \in OnDisk
    BY <1>1 DEF OnDisk
  <2> QED  BY <1>1, <2>1, DiskNames DEF ParentIn
<1>2. CASE ~(q \in Pid /\ doc[q] # NoDoc)
  BY <1>2 DEF ParentIn
<1> QED  BY <1>1, <1>2

\* One about to write with what it has read still there writes well.
LEMMA WritingWell ==
    ASSUME HeirInv, Hierarchy, NEW a \in Program, job[a].phase = "writing", job[a].todo # <<>>,
           doc[job[a].todo[1][1]] = job[a].read[job[a].todo[1][1]]
    PROVE  /\ WritesWell(a, doc, job[a])
           /\ \A n \in DOMAIN job[a].todo : NewFile(job[a], n) => Holds(job[a])
<1> DEFINE j == job[a]
<1>1. /\ j.todo \in Seq(File) /\ j.read \in Docs /\ doc \in Docs
  BY JobsAre DEF HeirInv, HonestRead, Docs
<1>2. Loopless(doc) /\ \A k \in DOMAIN j.todo : ParentKept(a, doc, j, k)
  BY DEF Hierarchy, KeptInv
<1>3. \A n \in DOMAIN j.todo : NewFile(j, n) => Holds(j)
  BY DEF NewFile, Holds
<1>4. Holds(j) => \A q \in Pid : ParentIn(doc, q) # j.id
  <2> SUFFICES ASSUME Holds(j), NEW q \in Pid PROVE ParentIn(doc, q) # j.id
    OBVIOUS
  <2>1. j.id \notin Disk /\ j.id # None
    BY HeldIsPid, PidIsFinite DEF Hierarchy, NamesInv, Apart
  <2> QED  BY <2>1, DiskParents
<1> QED  BY <1>1, <1>2, <1>3, <1>4 DEF WritesWell

\* Another's adopted child, while this job writes its first file.
LEMMA OthersKept ==
    ASSUME HeirInv, Hierarchy, NEW a \in Program, NEW b \in Program, a # b,
           WritesWell(a, doc, job[a]), job[a].phase = "writing", job[b].phase = "writing",
           NEW n \in DOMAIN job[b].todo
    PROVE  ParentKept(b, [doc EXCEPT ![job[a].todo[1][1]] = job[a].todo[1][2]], job[b], n)
<1> DEFINE j == job[a]
           p == j.todo[1][1]
           new == j.todo[1][2]
           e == [doc EXCEPT ![p] = new]
           jb == job[b]
           x == jb.todo[n][2].parent
<1>1. jb.todo \in Seq(File) /\ doc \in Docs /\ ParentKept(b, doc, jb, n)
  BY JobsAre DEF Hierarchy, KeptInv, WritesWell
<1>2. 1 \in DOMAIN j.todo /\ 1 \in DOMAIN jb.todo
  BY <1>1 DEF WritesWell
<1>3. /\ p \in Pid /\ new \in Doc \cup {NoDoc} /\ jb.todo[n][2] \in Doc \cup {NoDoc}
      /\ jb.todo[1][2] \in Doc \cup {NoDoc}
  BY <1>1, <1>2 DEF WritesWell, File
<1>4. Cuts(doc, p, new) \/ Adopted(a, doc, j, 1) \/ (NewFile(j, 1) /\ p = j.id)
  BY FirstFile
<1>5. ASSUME Adopted(b, doc, jb, n), jb.todo[n][2] # NoDoc
      PROVE  Adopted(b, e, jb, n)
  <2>1. ~Adopted(a, doc, j, 1)
    BY <1>5 DEF Adopted, Program
  <2>2. CASE Cuts(doc, p, new)
    BY <1>1, <1>3, <1>5, <2>2, StillAdopted
  <2>3. CASE NewFile(j, 1) /\ p = j.id
    <3>1. Holds(j)
      BY <1>2, <2>3 DEF Holds
    <3>2. p \notin Disk /\ p \notin InHand(jb) /\ p # None
      BY <1>3, <2>3, <3>1, PidIsFinite DEF Hierarchy, NamesInv, Apart
    <3>3. p # x
      BY <1>5, <3>2, InHandAre
    <3>4. ASSUME NEW q \in Pid PROVE ParentIn(Planned(doc, jb), q) # p
      <4>1. Planned(doc, jb)[q] \in {doc[q], jb.todo[1][2]}
        BY <1>1 DEF Planned, Docs
      <4>2. jb.todo[1][2] # NoDoc => jb.todo[1][2].parent # p
        BY <1>2, <3>2, InHandAre
      <4>3. ParentIn(doc, q) # p
        BY <3>2, DiskParents
      <4> QED  BY <3>2, <4>1, <4>2, <4>3 DEF ParentIn
    <3>5. Unnamed(doc, jb, p, x)
      BY <3>2, <3>3, <3>4 DEF Unnamed
    <3> QED  BY <1>1, <1>3, <1>5, <3>5, StillAdopted
  <2> QED  BY <1>4, <2>1, <2>2, <2>3
<1> QED  BY <1>1, <1>5 DEF ParentKept

\* A file that is written brings the names its job had in hand to the disk.
LEMMA DiskWritten ==
    ASSUME doc \in Docs, NEW p \in Pid, NEW new \in Doc \cup {NoDoc}, doc' = [doc EXCEPT ![p] = new]
    PROVE  Disk' \subseteq Disk \cup {p} \cup (IF new = NoDoc THEN {} ELSE {new.parent})
<1>1. \A q \in Pid : doc'[q] = IF q = p THEN new ELSE doc[q]
  BY DEF Docs
<1>2. OnDisk' \subseteq OnDisk \cup {p}
  BY <1>1 DEF OnDisk
<1>3. ParentsIn(doc') \subseteq ParentsIn(doc) \cup (IF new = NoDoc THEN {} ELSE {new.parent})
  BY <1>1 DEF ParentsIn
<1>4. ParentsIn(doc)' = ParentsIn(doc')
  BY DEF ParentsIn
<1> QED  BY <1>2, <1>3, <1>4 DEF Disk

\* The rest of a job has no name in hand the job had not.
LEMMA HandsOfRest ==
    ASSUME NEW j, NEW k, RestOf(k, j), j.todo \in Seq(File), j.todo # <<>>, j.read \in Docs,
           k.phase = j.phase, k.subject = j.subject
    PROVE  InHand(k) \subseteq InHand(j)
<1>1. /\ 1 \in DOMAIN j.todo
      /\ \A q \in Pid : k.read[q] = IF q = j.todo[1][1] THEN j.todo[1][2] ELSE j.read[q]
      /\ \A n \in DOMAIN k.todo : n + 1 \in DOMAIN j.todo /\ k.todo[n] = j.todo[n + 1]
  <2>1. 1 \in DOMAIN j.todo
    BY RestIs
  <2>2. \A q \in Pid : k.read[q] = IF q = j.todo[1][1] THEN j.todo[1][2] ELSE j.read[q]
    BY RestIs
  <2>3. \A n \in DOMAIN k.todo : n + 1 \in DOMAIN j.todo /\ k.todo[n] = j.todo[n + 1]
    BY RestIs
  <2> QED  BY <2>1, <2>2, <2>3
<1>2. j.todo[1][2] # NoDoc => j.todo[1][2].parent \in InHand(j)
  BY <1>1, InHandAre
<1>3. ParentsIn(k.read) \subseteq InHand(j)
  <2>1. ParentsIn(k.read) \subseteq ParentsIn(j.read)
                                    \cup (IF j.todo[1][2] = NoDoc THEN {} ELSE {j.todo[1][2].parent})
    BY <1>1 DEF ParentsIn
  <2>2. ParentsIn(j.read) \subseteq InHand(j)
    BY DEF InHand
  <2> QED  BY <1>2, <2>1, <2>2
<1>4. \A n \in DOMAIN k.todo : /\ k.todo[n][1] \in InHand(j)
                               /\ k.todo[n][2] # NoDoc => k.todo[n][2].parent \in InHand(j)
  BY <1>1, InHandAre
<1>5. k.id = j.id /\ j.subject \in InHand(j)
  BY DEF RestOf, InHand
<1>6. k.phase \in {"loading", "writing"} => k.id \in InHand(j)
  BY <1>5 DEF InHand
<1> QED  BY <1>3, <1>4, <1>5, <1>6 DEF InHand

\* A verb writes a file, of what is still there: the hierarchy stays sound.
LEMMA WritesHierarchy ==
    ASSUME HeirInv, SaneInv, Hierarchy, ledger \in Nat, NEW a \in Program, Writes(a), ~disturbed'
    PROVE  Hierarchy'
<1> DEFINE j == job[a]
           p == j.todo[1][1]
           new == j.todo[1][2]
<1>1. /\ DOMAIN job = Program /\ j.todo \in Seq(File) /\ j.read \in Docs /\ doc \in Docs
      /\ SaneJob(a, j) /\ NamesInv
  BY JobsAre DEF SaneInv, HeirInv, HonestRead, Docs, Hierarchy
<1>2. /\ j.phase = "writing" /\ j.todo # <<>> /\ p \in Pid /\ new \in Doc \cup {NoDoc}
      /\ doc' = [doc EXCEPT ![p] = new] /\ doc[p] = j.read[p]
      /\ ledger' = ledger /\ draft' = draft
  BY WritesIs DEF Overtaken
<1>3. PICK k : /\ job' = [job EXCEPT ![a] = k]
               /\ IF Len(j.todo) = 1 THEN IsDone(k, j) ELSE GoesOn(k, j)
  BY WritesIs
<1>4. WritesWell(a, doc, j) /\ \A n \in DOMAIN j.todo : NewFile(j, n) => Holds(j)
  BY <1>2, WritingWell
<1>5. Loopless(doc')
  BY <1>2, <1>4, WritesLoopless
<1>6. \A b \in Program : job'[b] = IF b = a THEN k ELSE job[b]
  BY <1>1, <1>3
<1>7. 1 \in DOMAIN j.todo
  BY <1>1, <1>2
<1>8. ASSUME NEW b \in Program, b # a, job[b].phase = "writing", NEW n \in DOMAIN job[b].todo
      PROVE  ParentKept(b, doc', job[b], n)
  BY <1>2, <1>4, <1>8, OthersKept
<1>9. p \in InHand(j) /\ (new # NoDoc => new.parent \in InHand(j))
  BY <1>7, InHandAre
<1>14. Disk' \subseteq Disk \cup {p} \cup (IF new = NoDoc THEN {} ELSE {new.parent})
  BY <1>1, <1>2, DiskWritten
<1>10. Disk' \subseteq Disk \cup InHand(j) \cup {None}
  BY <1>9, <1>14
<1>11. InDraft' = InDraft
  BY <1>2 DEF InDraft
<1>12. CASE IsDone(k, j)
  <2>1. k.phase \notin {"writing", "loading"} /\ InHand(k) \subseteq InHand(j) \cup {None}
    <3>1. CASE k = Idle
      <4>1. Idle.phase = "idle"
        BY DEF Idle
      <4> QED  BY <3>1, <4>1, HandsIdle
    <3>2. CASE k.subject = j.subject /\ k.todo = <<>> /\ k.read = NothingRead
               /\ k.phase = IF j.verb = "delete" THEN "sweeping" ELSE "syncing"
      <4>1. ParentsIn(NothingRead) = {} /\ j.subject \in InHand(j)
        BY DEF ParentsIn, NothingRead, InHand
      <4> HIDE DEF j
      <4>2. InHand(k) \subseteq {j.subject}
        BY <3>2, <4>1 DEF InHand
      <4> QED  BY <3>2, <4>1, <4>2
    <3> QED  BY <1>12, <3>1, <3>2 DEF IsDone
  <2>2. ~Holds(k)
    BY <2>1 DEF Holds
  <2>3. NamesInv'
    BY <1>1, <1>2, <1>3, <1>10, <1>11, <2>1, <2>2, NamesStep
  <2>4. \A b \in Program : job'[b].phase = "writing" =>
            \A n \in DOMAIN job'[b].todo : ParentKept(b, doc', job'[b], n)
    BY <1>6, <1>8, <2>1
  <2> QED  BY <1>5, <2>3, <2>4 DEF Hierarchy, KeptInv
<1>13. CASE Len(j.todo) # 1 /\ GoesOn(k, j)
  <2>1. RestOf(k, j) /\ k.phase = "writing" /\ k.subject = j.subject
    BY <1>13 DEF GoesOn, RestOf
  <2>2. new \in Doc
    <3>1. ASSUME NEW x PROVE Len(<<x>>) = 1
      OBVIOUS
    <3>2. j.verb # "delete"
      BY <1>1, <1>2, <1>13, <3>1 DEF SaneJob, AboutTo
    <3> QED  BY <1>1, <1>2, <1>7, <3>2 DEF SaneJob, AboutTo
  <2>3. \A n \in DOMAIN k.todo : ParentKept(a, doc', k, n)
    BY <1>2, <1>4, <2>1, <2>2, ParentStillKept
  <2>4. InHand(k) \subseteq InHand(j)
    BY <1>1, <1>2, <2>1, HandsOfRest
  <2>5. Holds(k) => Holds(j) /\ k.id = j.id /\ k.id \notin Disk' /\ Ahead(k)
    <3> SUFFICES ASSUME Holds(k) PROVE Holds(j) /\ k.id = j.id /\ k.id \notin Disk' /\ Ahead(k)
      OBVIOUS
    <3>1. PICK n \in DOMAIN k.todo : k.todo[n][1] = k.id
      BY <2>1 DEF Holds
    <3>2. n + 1 \in DOMAIN j.todo /\ k.todo[n] = j.todo[n + 1] /\ k.id = j.id
      BY <1>1, <1>2, <2>1, RestIs DEF RestOf
    <3>3. Holds(j)
      BY <1>2, <3>1, <3>2 DEF Holds
    <3>4. Ahead(j) /\ j.id \notin Disk
      BY <3>3 DEF Hierarchy, NamesInv, Apart
    <3>5. p # j.id /\ new.parent # j.id /\ Ahead(k)
      BY <1>1, <1>2, <2>1, <2>2, <3>1, <3>4, StillAhead
    <3>6. j.id \notin Disk'
      BY <1>14, <3>4, <3>5
    <3> QED  BY <3>2, <3>3, <3>5, <3>6
  <2>6. NamesInv'
    BY <1>1, <1>2, <1>3, <1>10, <1>11, <2>4, <2>5, NamesStep
  <2>7. \A b \in Program : job'[b].phase = "writing" =>
            \A n \in DOMAIN job'[b].todo : ParentKept(b, doc', job'[b], n)
    BY <1>6, <1>8, <2>3
  <2> QED  BY <1>5, <2>6, <2>7 DEF Hierarchy, KeptInv
<1> QED  BY <1>3, <1>12, <1>13

\* The sweep writes a file: its parent stays, or goes.
LEMMA SweptHierarchy ==
    ASSUME HeirInv, SaneInv, Hierarchy, ledger \in Nat, SweepWrites, ~disturbed'
    PROVE  Hierarchy'
<1> DEFINE j == job["service"]
           p == j.todo[1][1]
           new == j.todo[1][2]
<1>1. /\ "service" \in Program /\ j.phase = "sweeping" /\ j.todo # <<>> /\ p \in Pid /\ new \in Doc
      /\ doc' = [doc EXCEPT ![p] = new] /\ doc[p] = j.read[p]
      /\ ledger' = ledger /\ draft' = draft
  BY SweepWritesIs
<1>2. PICK k : /\ job' = [job EXCEPT !["service"] = k]
               /\ k.phase = "sweeping" /\ k.subject = j.subject /\ k.todo = <<>>
               /\ k.read = [j.read EXCEPT ![p] = NoDoc]
  BY SweepWritesIs
<1>3. /\ DOMAIN job = Program /\ j.todo \in Seq(File) /\ j.read \in Docs /\ doc \in Docs
      /\ SaneJob("service", j) /\ NamesInv /\ Loopless(doc) /\ j.subject \in Pid \cup {None}
  BY <1>1, JobsAre DEF SaneInv, HeirInv, HonestRead, Docs, Hierarchy
<1>4. j.read[j.other] # NoDoc /\ j.todo = <<<<j.other, Swept(j.read[j.other], j.subject)>>>>
  BY <1>1, <1>3 DEF SaneJob
<1>5. p = j.other /\ new = Swept(j.read[p], j.subject) /\ 1 \in DOMAIN j.todo
  BY <1>4
<1>6. doc[p] \in Doc
  BY <1>1, <1>3, <1>4, <1>5 DEF Docs
<1>7. new.parent \in {None, doc[p].parent} /\ new # NoDoc /\ doc[p] # NoDoc
  <2>1. new.parent = IF doc[p].parent = j.subject THEN None ELSE doc[p].parent
    BY <1>1, <1>5, <1>6, Zenon DEF Swept, Doc
  <2>2. new # NoDoc /\ doc[p] # NoDoc
    BY <1>1, <1>6, NoDocAssumption
  <2> HIDE DEF j, p, new
  <2> QED  BY <2>1, <2>2
<1>8. ParentIn(doc, p) = doc[p].parent
  BY <1>1, <1>7 DEF ParentIn
<1>9. p \in InHand(j) /\ new.parent \in InHand(j)
  BY <1>5, <1>7, InHandAre
<1> HIDE DEF p, new
<1>10. Cuts(doc, p, new)
  BY <1>7, <1>8 DEF Cuts
<1>11. Loopless(doc')
  <2> DEFINE e == [doc EXCEPT ![p] = new]
  <2>1. /\ e \in Docs
        /\ \A q \in Pid \ {p} : ParentIn(e, q) = ParentIn(doc, q)
        /\ ParentIn(e, p) = IF new = NoDoc THEN None ELSE new.parent
    <3>1. e \in Docs /\ \A q \in Pid : e[q] = IF q = p THEN new ELSE doc[q]
      BY <1>1, <1>3 DEF Docs
    <3> HIDE DEF e
    <3> QED  BY <1>1, <1>3, <3>1 DEF ParentIn
  <2> HIDE DEF e
  <2>2. \A q \in Pid : ParentIn(e, q) \in {ParentIn(doc, q), None}
    BY <1>7, <1>8, <2>1
  <2>3. Loopless(e)
    BY <1>3, <2>1, <2>2, CutLoopless
  <2> QED  BY <1>1, <2>3 DEF e
<1>12. \A b \in Program : job'[b] = IF b = "service" THEN k ELSE job[b]
  BY <1>3, <1>2
<1>13. ASSUME NEW b \in Program, b # "service", job[b].phase = "writing", NEW n \in DOMAIN job[b].todo
       PROVE  ParentKept(b, doc', job[b], n)
  <2>1. ParentKept(b, doc, job[b], n) /\ job[b].todo \in Seq(File)
    BY <1>13, JobsAre DEF Hierarchy, KeptInv
  <2>2. job[b].todo[n][2] \in Doc \cup {NoDoc}
    BY <2>1 DEF File
  <2>3. Adopted(b, doc, job[b], n) /\ job[b].todo[n][2] # NoDoc => Adopted(b, doc', job[b], n)
    BY <1>1, <1>3, <1>10, <2>1, <2>2, StillAdopted
  <2> QED  BY <2>1, <2>3 DEF ParentKept
<1>14. \A b \in Program : job'[b].phase = "writing" =>
           \A n \in DOMAIN job'[b].todo : ParentKept(b, doc', job'[b], n)
  BY <1>2, <1>12, <1>13
<1>15. InHand(k) \subseteq InHand(j)
  <2>1. ParentsIn(k.read) \subseteq ParentsIn(j.read)
    <3>1. \A q \in Pid : k.read[q] = IF q = p THEN NoDoc ELSE j.read[q]
      BY <1>2, <1>3 DEF Docs
    <3> QED  BY <3>1 DEF ParentsIn
  <2>2. ParentsIn(j.read) \subseteq InHand(j) /\ j.subject \in InHand(j)
    BY DEF InHand
  <2> HIDE DEF j
  <2>3. InHand(k) \subseteq {j.subject} \cup ParentsIn(k.read)
    BY <1>2 DEF InHand
  <2> QED  BY <2>1, <2>2, <2>3
<1>16. Disk' \subseteq Disk \cup {p} \cup (IF new = NoDoc THEN {} ELSE {new.parent})
  BY <1>1, <1>3, DiskWritten
<1>17. Disk' \subseteq Disk \cup InHand(j) \cup {None}
  BY <1>9, <1>16
<1>18. InDraft' = InDraft /\ ~Holds(k)
  BY <1>1, <1>2 DEF InDraft, Holds
<1>19. NamesInv'
  BY <1>1, <1>2, <1>3, <1>15, <1>17, <1>18, NamesStep
<1> QED  BY <1>11, <1>14, <1>19 DEF Hierarchy, KeptInv

\* The hierarchy is sound as long as nothing disturbed or raced.
\* A mint that stops while it writes is a verb that stops.
TornInv == torn = 0 \/ disturbed

LEMMA TornNext == TornInv /\ [Next]_vars => TornInv'
<1> SUFFICES ASSUME TornInv, [Next]_vars PROVE TornInv'
  OBVIOUS
<1>1. ASSUME torn' = torn, disturbed => disturbed' PROVE TornInv'
  BY <1>1 DEF TornInv
<1>2. CASE ServiceVerb \/ PipelineVerb
  BY <1>1, <1>2 DEF ServiceVerb, PipelineVerb, Create, Settle, Delete, Save, SetOrder, New,
      UpdateProposes, UpdateDecomposes, RemoveProcess, Attach, MoveInOrder, Restructure,
      Begins, history
<1>3. ASSUME NEW a \in Program,
             MintReads(a) \/ MintOpens(a) \/ MintWrites(a) \/ Writes(a)
      PROVE  TornInv'
  BY <1>1, <1>3 DEF MintReads, MintOpens, MintWrites, Writes, history
<1>4. ASSUME NEW a \in Program, SyncReads(a) \/ SyncWrites(a) \/ OrderSet(a) PROVE TornInv'
  BY <1>1, <1>4 DEF SyncReads, SyncWrites, OrderSet, history
<1>5. ASSUME NEW a \in Program, Stops(a) PROVE TornInv'
  BY <1>5 DEF Stops, TornInv
<1>6. ASSUME NEW p \in Pid, ClientLoads(p) PROVE TornInv'
  BY <1>1, <1>6 DEF ClientLoads, history
<1>7. CASE RestructureLoads \/ RestructureRefused \/ SweepReads \/ SweepWrites \/ SweepEnds
  BY <1>1, <1>7 DEF RestructureLoads, RestructureRefused, SweepReads, SweepWrites, SweepEnds, history
<1>8. CASE UNCHANGED vars
  BY <1>1, <1>8 DEF vars, history
<1> QED  BY <1>2, <1>3, <1>4, <1>5, <1>6, <1>7, <1>8 DEF Next

LEMMA ParentsNext ==
    HeirInv /\ CurInv /\ IInv /\ TornInv /\ SaneInv /\ ParentsInv /\ [Next]_vars => ParentsInv'
<1> SUFFICES ASSUME HeirInv, CurInv, IInv, TornInv, SaneInv, ParentsInv, [Next]_vars, ~disturbed', ~raced'
             PROVE  Hierarchy'
  BY DEF ParentsInv
<1>0. HeirInv' /\ ledger \in Nat /\ DOMAIN job = Program
  BY HeirsStep DEF IInv, Ledger, HeirInv
<1>1. CASE ServiceVerb \/ PipelineVerb
  <2>1. PICK a, k : Quietly(a, k)
    BY <1>1, ServiceStarts, PipelineStarts
  <2>2. ~disturbed /\ ~raced
    BY <2>1 DEF Quietly, Begins, history
  <2> QED  BY <1>0, <2>1, <2>2, BeginsHierarchy DEF ParentsInv
<1>2. ASSUME NEW p \in Pid, ClientLoads(p) PROVE Hierarchy'
  <2>1. ~disturbed /\ ~raced
    BY <1>2 DEF ClientLoads, history
  <2> QED  BY <1>2, <2>1, DraftHierarchy DEF ParentsInv
<1>3. ASSUME NEW a \in Program, MintReads(a) PROVE Hierarchy'
  <2>1. ~disturbed /\ ~raced /\ doc' = doc /\ draft' = draft /\ ledger' = ledger
    BY <1>3, MintReadsIs DEF files, history
  <2>2. PICK k : job' = [job EXCEPT ![a] = k] /\ InPhase(k, job[a], "minting")
    BY <1>3, MintReadsIs
  <2> QED  BY <1>0, <2>1, <2>2, GoesOnHierarchy DEF ParentsInv
<1>4. ASSUME NEW a \in Program, MintWrites(a) PROVE Hierarchy'
  <2>1. ~disturbed /\ ~raced /\ job[a].phase = "storing"
    BY <1>4 DEF MintWrites
  <2>2. job[a].id \in Pid /\ Hierarchy
    BY <2>1, JobsAre DEF ParentsInv
  <2>5. job[a].id > ledger
    BY <2>1 DEF TornInv, IInv, Ledger
  <2>3. CASE job[a].verb = "restructure"
    BY <1>0, <1>4, <2>2, <2>3, <2>5, RestructureMintsHierarchy
  <2>6. CASE job[a].verb = "nest"
    BY <1>0, <1>4, <2>2, <2>5, <2>6, NestMintsHierarchy
  <2>4. CASE job[a].verb \notin {"restructure", "nest"}
    BY <1>0, <1>4, <2>2, <2>4, <2>5, MintedHierarchy
  <2> QED  BY <2>3, <2>4, <2>6
<1>15. ASSUME NEW a \in Program, MintOpens(a) PROVE Hierarchy'
  <2>1. ~disturbed /\ ~raced /\ doc' = doc /\ draft' = draft /\ ledger' = ledger
    BY <1>15, MintOpensIs
  <2>2. PICK k : job' = [job EXCEPT ![a] = k] /\ InPhase(k, job[a], "storing")
    BY <1>15, MintOpensIs
  <2> QED  BY <1>0, <2>1, <2>2, GoesOnHierarchy DEF ParentsInv
<1>5. ASSUME NEW a \in Program, Writes(a) PROVE Hierarchy'
  <2>1. ~disturbed /\ ~raced
    BY <1>5, WritesIs
  <2> QED  BY <1>0, <1>5, <2>1, WritesHierarchy DEF ParentsInv
<1>6. ASSUME NEW a \in Program, SyncReads(a) PROVE Hierarchy'
  <2>1. ~disturbed /\ ~raced /\ doc' = doc /\ draft' = draft /\ ledger' = ledger
    BY <1>6, SyncReadsIs DEF files, history
  <2>2. PICK k : job' = [job EXCEPT ![a] = k] /\ InPhase(k, job[a], "ordering")
    BY <1>6, SyncReadsIs
  <2> QED  BY <1>0, <2>1, <2>2, GoesOnHierarchy DEF ParentsInv
<1>7. ASSUME NEW a \in Program, SyncWrites(a) \/ OrderSet(a) PROVE Hierarchy'
  <2>1. /\ ~disturbed /\ ~raced /\ doc' = doc /\ draft' = draft /\ ledger' = ledger
        /\ job' = [job EXCEPT ![a] = Idle]
    <3>1. CASE SyncWrites(a)
      BY <3>1 DEF SyncWrites
    <3>2. CASE OrderSet(a)
      BY <3>2 DEF OrderSet
    <3> QED  BY <1>7, <3>1, <3>2
  <2> QED  BY <1>0, <2>1, EndsHierarchy DEF ParentsInv
<1>8. ASSUME NEW a \in Program, Stops(a) PROVE Hierarchy'
  BY <1>8 DEF Stops
<1>9. CASE RestructureLoads
  <2>1. ~disturbed /\ ~raced
    BY <1>9 DEF RestructureLoads, history
  <2> QED  BY <1>0, <1>9, <2>1, PlanHierarchy DEF ParentsInv
<1>10. CASE RestructureRefused
  <2>1. /\ ~disturbed /\ ~raced /\ doc' = doc /\ draft' = draft /\ ledger' = ledger
        /\ job' = [job EXCEPT !["pipeline"] = Idle] /\ "pipeline" \in Program
    BY <1>10 DEF RestructureRefused, files, history, Program
  <2> QED  BY <1>0, <2>1, EndsHierarchy DEF ParentsInv
<1>11. CASE SweepReads
  <2>1. ~disturbed /\ ~raced
    BY <1>11, SweepReadsIs DEF history
  <2> QED  BY <1>0, <1>11, <2>1, LooksHierarchy DEF ParentsInv
<1>12. CASE SweepWrites
  <2>1. ~disturbed /\ ~raced
    BY <1>12 DEF SweepWrites
  <2> QED  BY <1>0, <1>12, <2>1, SweptHierarchy DEF ParentsInv
<1>13. CASE SweepEnds
  <2>1. ~disturbed /\ ~raced /\ doc' = doc /\ draft' = draft /\ ledger' = ledger
        /\ "service" \in Program
    BY <1>13, SweepEndsIs DEF files, history
  <2>2. PICK k : job' = [job EXCEPT !["service"] = k] /\ InPhase(k, job["service"], "syncing")
    BY <1>13, SweepEndsIs
  <2> QED  BY <1>0, <2>1, <2>2, GoesOnHierarchy DEF ParentsInv
<1>14. CASE UNCHANGED vars
  <2>1. ~disturbed /\ ~raced /\ Hierarchy /\ UNCHANGED <<doc, ledger, draft, job>>
    BY <1>14 DEF vars, files, history, ParentsInv
  <2> QED  BY <2>1 DEF Hierarchy, KeptInv, NamesInv, Apart, Disk, OnDisk, InDraft
<1> QED  BY <1>1, <1>2, <1>3, <1>4, <1>5, <1>6, <1>7, <1>8, <1>9, <1>10, <1>11, <1>12, <1>13, <1>14,
          <1>15 DEF Next

LEMMA ParentsInit == Init => ParentsInv
<1> SUFFICES ASSUME Init PROVE Hierarchy
  BY DEF ParentsInv
<1>1. doc = [p \in Pid |-> IF p <= Existing THEN Fresh(None) ELSE NoDoc]
      /\ ledger = Existing /\ job = [a \in Program |-> Idle] /\ draft = NoDraft
  BY DEF Init
<1>2. Existing \in Nat /\ \A p \in Pid : p <= Existing => p \in 0..Existing
  BY StoreAssumption DEF Pid
<1>3. Fresh(None) \in Doc /\ Fresh(None).parent = None
  BY FreshHonest DEF Fresh
<1>4. doc \in Docs /\ \A p \in Pid : doc[p] # NoDoc => p <= Existing /\ doc[p].parent = None
  BY <1>1, <1>3 DEF Docs
<1>5. OnDisk \subseteq 0..Existing /\ ParentsIn(doc) \subseteq {None}
  BY <1>2, <1>4 DEF OnDisk, ParentsIn
<1>6. InDraft = {None} /\ None \in 0..Existing
  BY <1>1, <1>2 DEF InDraft, NoDraft, None
<1>7. Loopless(doc)
  <2>1. \A q \in Pid : ParentIn(doc, q) = None
    BY <1>4 DEF ParentIn
  <2>2. \A p \in Pid : p \notin Above(doc, p)
    <3> TAKE p \in Pid
    <3>1. p # None
      BY PidIsFinite
    <3> QED  BY <1>4, <2>1, <3>1, NobodysParent
  <2> QED  BY <2>2 DEF Loopless
<1>8. Idle.phase # "writing"
  BY DEF Idle
<1>9. \A a \in Program : job[a] = Idle
  BY <1>1
<1>10. NamesInv
  BY <1>1, <1>5, <1>6, <1>9, HandsIdle DEF NamesInv, Disk, Apart
<1> QED  BY <1>7, <1>8, <1>9, <1>10 DEF Hierarchy, KeptInv

\* What holds of a department at every moment, between verbs and during them.
SoundInv ==
    HeirInv /\ IInv /\ TornInv /\ CurInv /\ SaneInv /\ LinksInv /\ OrderInv /\ ParentsInv

LEMMA SoundInit == Init => SoundInv
<1>1. Init => TornInv
  BY DEF Init, TornInv
<1> QED  BY <1>1, HeirsInit, IdsInit, CuratedInit, SaneInit, LinksInit, OrderInit, ParentsInit DEF SoundInv

LEMMA SoundNext == SoundInv /\ [Next]_vars => SoundInv'
<1> SUFFICES ASSUME SoundInv, [Next]_vars PROVE SoundInv'
  OBVIOUS
<1>1. HeirInv' /\ IInv' /\ CurInv'
  BY HeirsStep, IdsStep, CuratedNext DEF SoundInv
<1>3. TornInv'
  BY TornNext DEF SoundInv
<1>2. SaneInv' /\ LinksInv' /\ OrderInv' /\ ParentsInv'
  BY SaneNext, LinksNext, OrderNext, ParentsNext DEF SoundInv
<1> QED  BY <1>1, <1>2, <1>3 DEF SoundInv

LEMMA SoundIsSound == SoundInv => DepartmentIsSound
<1> SUFFICES ASSUME SoundInv PROVE DepartmentIsSound
  OBVIOUS
<1>1. HeirInv /\ IInv /\ CurInv /\ LinksInv /\ OrderInv /\ ParentsInv
  BY DEF SoundInv
<1>2. TypeOK
  <2>1. doc \in [Pid -> Doc \cup {NoDoc}] /\ gone \subseteq Pid /\ DOMAIN job = Program
    BY <1>1 DEF HeirInv, HonestRead
  <2>2. ledger \in Nat /\ whole \in BOOLEAN /\ torn \in Nat
    BY <1>1 DEF IInv, Ledger
  <2>3. ToSet(order) \subseteq Pid
    <3>1. order \in Seq(Pid)
      BY <1>1 DEF CurInv, Curated
    <3>2. \A n \in DOMAIN order : order[n] \in Pid
      BY <3>1
    <3> QED  BY <3>2 DEF ToSet
  <2>4. draft.pid \in Pid \cup {None}
    BY <1>1 DEF HeirInv, HonestDraft, NoDraft
  <2> QED  BY <2>1, <2>2, <2>3, <2>4 DEF TypeOK
<1>3. OrderIsTheActives /\ LinksResolve
  BY <1>1, OrderQuiet, LinksQuiet
<1>4. NoLoops
  <2> SUFFICES ASSUME ~disturbed, ~raced, NEW p \in OnDisk, p \in Above(doc, p) PROVE doc[p].parent = p
    BY DEF NoLoops
  <2>1. p \in Pid /\ doc[p] # NoDoc
    BY DEF OnDisk
  <2>2. Loopless(doc)
    BY <1>1 DEF ParentsInv, Hierarchy
  <2> QED  BY <2>1, <2>2 DEF Loopless, ParentIn
<1> QED  BY <1>2, <1>3, <1>4 DEF DepartmentIsSound

\* Between verbs a department is sound: its files are documents, order.json
\* lists each active process once (every verb ends with a sync), no link names
\* a process that is not there (a delete sweeps them, create and decompose
\* write both ends), and the parents lead up to an end (what the guards of
\* attach and restructure are for).  So it is for any number of processes and
\* verbs, of whichever program, unless one stopped half way or wrote after
\* what it had read was changed, or, for the parents alone, two mints
\* overlapped.
THEOREM DepartmentIsAlwaysSound == Spec => []DepartmentIsSound
BY SoundInit, SoundNext, SoundIsSound, PTL DEF Spec

-----------------------------------------------------------------------------
(* The projection: what is told of each commit.                            *)

Row == [parent : Nat, by : {"app", "other"}, tree : [Target -> Content]]

Mark == [fingerprint : Content, at : Nat, emitted : BOOLEAN]

Phases == {"idle", "begun", "seeding", "projecting"}

\* Every commit is on top of an older one.
HistoryInv ==
    /\ commits \in Seq(Row) /\ Len(commits) > 0
    /\ \A i \in Commit : commits[i].parent < i
    /\ head \in Commit

FilesInv ==
    /\ work \in [Target -> Content]
    /\ index \in [Target -> Content]

MarksInv ==
    /\ mark \in [Target -> Mark \cup {Nothing}]
    /\ confirming \in [target : Target, fingerprint : Content] \cup {Nothing}
    /\ life \in [Target -> {"whole", "broken", "announced"}]
    /\ events \in Nat

\* A commit of ours is recorded, if at all, under some sha; until then nothing
\* was projected of it.
SavesInv ==
    /\ save \in [phase : {"idle", "written", "staged", "committed", "named"},
                 target : Target \cup {Nothing}, commit : Commit \cup {0}]
    /\ save.phase \in {"committed", "named"} => save.commit \in Commit
    /\ save.phase = "committed" => commits[save.commit].by = "app"
    /\ save.phase = "committed" => named[save.commit] = 0 /\ projected[save.commit] = 0
    /\ named \in Seq(Nat) /\ Len(named) = Len(commits)
    /\ \A i \in Commit : named[i] \in Commit \cup {0}
    /\ \A i \in Commit : named[i] # 0 => commits[i].by = "app"
    /\ told \subseteq Commit

\* The lock: a pass and the recording of a commit exclude each other.
LockInv == pass.phase # "idle" => save.phase # "committed"

PassInv ==
    /\ DOMAIN pass = {"phase", "head", "rows", "seen", "judged"}
    /\ pass.phase \in Phases
    /\ pass.phase # "idle" => pass.head \in Commit
    /\ pass.phase \in {"idle", "begun"} => pass.seen = <<>> /\ pass.judged = <<>>
    /\ pass.phase = "projecting" =>
        /\ marker # 0 /\ marker \in Ancestors(pass.head)
        /\ pass.rows = {i \in Log(marker, pass.head) : ~Recorded(i)}

ProjectedInv ==
    /\ marker \in Commit \cup {0}
    /\ seeded \in Commit \cup {0}
    /\ projected \in Seq(Nat) /\ Len(projected) = Len(commits)
    /\ \A i \in Commit : projected[i] \in {0, 1}
    /\ \A i \in Commit : projected[i] = 1 => marker # 0 /\ i \in Ancestors(marker)
    /\ \A i \in Commit : named[i] = i => projected[i] = 0
    /\ NothingPassedOver

Inv == HistoryInv /\ FilesInv /\ MarksInv /\ SavesInv /\ LockInv /\ PassInv /\ ProjectedInv

-----------------------------------------------------------------------------
(* What came before a commit.                                              *)

\* What came before an ancestor came before.
LEMMA AncestorsOfAncestors ==
    ASSUME NEW n \in Commit, NEW m \in Ancestors(n)
    PROVE  Ancestors(m) \subseteq Ancestors(n)
BY DEF Ancestors

LEMMA AncestorsAreCommits == ASSUME NEW n PROVE Ancestors(n) \subseteq Commit
BY DEF Ancestors

\* A commit on top changes nothing of what came before the others.
LEMMA AncestorsStay ==
    ASSUME HistoryInv, NEW c \in Row, commits' = Append(commits, c), NEW n \in Commit
    PROVE  Ancestors(n)' = Ancestors(n)
<1> DEFINE Downward(S) == \A j \in S : commits[j].parent \in S \cup {0}
           ClosedNow(S) == \A j \in S : commits'[j].parent \in S \cup {0}
<1>1. Commit' = Commit \cup {Len(commits) + 1} /\ Len(commits) \in Nat
  BY DEF HistoryInv, Commit
<1>2. \A j \in Commit : commits'[j] = commits[j]
  BY DEF HistoryInv, Commit
<1>3. \A j \in Commit : commits[j].parent \in Commit \cup {0}
  <2>1. ASSUME NEW j \in Commit PROVE commits[j] \in Row /\ commits[j].parent < j
    BY DEF HistoryInv, Commit
  <2>2. QED
    BY <2>1 DEF Commit, Row
<1>4. ASSUME NEW i \in Ancestors(n)' PROVE i \in Ancestors(n)
  <2>1. Commit \in SUBSET Commit' /\ n \in Commit /\ ClosedNow(Commit)
    BY <1>1, <1>2, <1>3
  <2>2. i \in Commit
    BY <1>4, <2>1 DEF Ancestors
  <2>3. ASSUME NEW S \in SUBSET Commit, n \in S, Downward(S) PROVE i \in S
    <3>1. S \in SUBSET Commit' /\ ClosedNow(S)
      BY <1>1, <1>2, <2>3
    <3>2. QED
      BY <1>4, <2>3, <3>1 DEF Ancestors
  <2>4. QED
    BY <2>2, <2>3 DEF Ancestors
<1>5. ASSUME NEW i \in Ancestors(n) PROVE i \in Ancestors(n)'
  <2>1. i \in Commit
    BY <1>5 DEF Ancestors
  <2>2. ASSUME NEW S \in SUBSET Commit', n \in S, ClosedNow(S) PROVE i \in S
    <3>1. S \cap Commit \in SUBSET Commit /\ n \in S \cap Commit
      BY <2>2
    <3>2. Downward(S \cap Commit)
      BY <1>2, <1>3, <2>2
    <3>3. QED
      BY <1>5, <3>1, <3>2 DEF Ancestors
  <2>3. QED
    BY <1>1, <2>1, <2>2 DEF Ancestors
<1>6. QED
  BY <1>4, <1>5

LEMMA InvInit == ProjectionInit => Inv
<1> SUFFICES ASSUME ProjectionInit PROVE Inv
  OBVIOUS
<1> PICK tree \in [Target -> Content] :
        /\ commits = <<[parent |-> 0, by |-> "other", tree |-> tree]>>
        /\ work = tree
        /\ index = tree
  BY DEF ProjectionInit
<1>1. Commit = {1} /\ HistoryInv
  BY DEF ProjectionInit, Commit, HistoryInv, Row
<1>2. FilesInv /\ MarksInv
  BY DEF ProjectionInit, FilesInv, MarksInv
<1>3. SavesInv /\ LockInv
  BY <1>1 DEF ProjectionInit, SavesInv, IdleSave, LockInv, IdlePass
<1>4. PassInv
  BY DEF ProjectionInit, PassInv, IdlePass, Phases
<1>5. ProjectedInv
  BY <1>1 DEF ProjectionInit, ProjectedInv, NothingPassedOver
<1>6. QED
  BY <1>1, <1>2, <1>3, <1>4, <1>5 DEF Inv

-----------------------------------------------------------------------------
(* Steps that add no commit and write no row.                              *)

LEMMA TreesAreFiles ==
    ASSUME HistoryInv, NEW i \in Commit
    PROVE  Tree(i) \in [Target -> Content]
<1>1. commits[i] \in Row
  BY DEF HistoryInv, Commit
<1>2. QED
  BY <1>1 DEF Tree, Row

\* A mark's life goes on whatever is written.
LEMMA LivesOn ==
    ASSUME NEW l \in {"whole", "broken", "announced"}, NEW matches \in BOOLEAN
    PROVE  Lives(l, matches) \in {"whole", "broken", "announced"}
BY DEF Lives

LEMMA WritesFiles ==
    ASSUME MarksInv, NEW w \in [Target -> Content], TreeBecomes(w)
    PROVE  /\ work' \in [Target -> Content]
           /\ life' \in [Target -> {"whole", "broken", "announced"}]
BY LivesOn DEF MarksInv, TreeBecomes

\* What the pass and its rows depend on.
LEMMA ProjectionStays ==
    ASSUME Inv, UNCHANGED <<commits, named, marker, projected, pass, seeded>>
    PROVE  PassInv' /\ ProjectedInv'
<1>1. Commit' = Commit
  BY DEF Commit
<1>2. Ancestors(pass.head)' = Ancestors(pass.head) /\ Ancestors(marker)' = Ancestors(marker)
         /\ Ancestors(seeded)' = Ancestors(seeded)
  BY <1>1, Zenon DEF Ancestors
<1>3. \A i \in Commit : Recorded(i)' <=> Recorded(i)
  BY <1>1 DEF Recorded, UiCommits
<1>4. {i \in Log(marker, pass.head) : ~Recorded(i)}' = {i \in Log(marker, pass.head) : ~Recorded(i)}
  BY <1>2, <1>3, AncestorsAreCommits DEF Log
<1>5. NothingPassedOver'
  BY <1>1, <1>2, <1>3 DEF Inv, ProjectedInv, NothingPassedOver, Log
<1>6. PassInv'
  BY <1>1, <1>2, <1>4 DEF Inv, PassInv
<1>7. ProjectedInv'
  BY <1>1, <1>2, <1>5 DEF Inv, ProjectedInv
<1>8. QED
  BY <1>6, <1>7

LEMMA SavesStay ==
    ASSUME Inv, UNCHANGED <<commits, projected, saving>>
    PROVE  SavesInv'
BY DEF Inv, SavesInv, saving, Commit

\* Other containers write, stage and reset.
LEMMA OutsideStep ==
    ASSUME Inv,
           \/ \E t \in Target, c \in Content : OutsideWrites(t, c)
           \/ OutsideStages
           \/ \E i \in Commit : OutsideResets(i)
    PROVE  Inv'
<1> USE DEF Inv
<1>1. ASSUME NEW t \in Target, NEW c \in Content, OutsideWrites(t, c) PROVE Inv'
  <2>1. FilesInv' /\ MarksInv'
    BY <1>1, WritesFiles DEF OutsideWrites, FilesInv, MarksInv, confirmations
  <2>2. HistoryInv' /\ LockInv'
    BY <1>1 DEF OutsideWrites, HistoryInv, LockInv, repo, saving, projection, Commit
  <2>3. SavesInv' /\ PassInv' /\ ProjectedInv'
    BY <1>1, SavesStay, ProjectionStays DEF OutsideWrites, repo, saving, projection
  <2>4. QED
    BY <2>1, <2>2, <2>3
<1>2. CASE OutsideStages
  <2>1. FilesInv' /\ MarksInv'
    BY <1>2 DEF OutsideStages, FilesInv, MarksInv, confirmations
  <2>2. HistoryInv' /\ LockInv'
    BY <1>2 DEF OutsideStages, HistoryInv, LockInv, repo, saving, projection, Commit
  <2>3. SavesInv' /\ PassInv' /\ ProjectedInv'
    BY <1>2, SavesStay, ProjectionStays DEF OutsideStages, repo, saving, projection
  <2>4. QED
    BY <2>1, <2>2, <2>3
<1>3. ASSUME NEW i \in Commit, OutsideResets(i) PROVE Inv'
  <2>1. FilesInv' /\ MarksInv'
    BY <1>3, WritesFiles, TreesAreFiles
    DEF OutsideResets, Happens, FilesInv, MarksInv, confirmations
  <2>2. HistoryInv' /\ LockInv'
    BY <1>3 DEF OutsideResets, HistoryInv, LockInv, saving, projection, Commit
  <2>3. SavesInv' /\ PassInv' /\ ProjectedInv'
    BY <1>3, SavesStay, ProjectionStays DEF OutsideResets, saving, projection
  <2>4. QED
    BY <2>1, <2>2, <2>3
<1>4. QED
  BY <1>1, <1>2, <1>3

\* An Editor confirms and revokes.
LEMMA ConfirmStep ==
    ASSUME Inv, Confirming \/ ConfirmSets
    PROVE  Inv'
<1> USE DEF Inv
<1>1. ASSUME NEW t \in Target, ConfirmReads(t)
      PROVE  MarksInv' /\ UNCHANGED <<repo, work, index, saving, projection>>
  BY <1>1 DEF ConfirmReads, Happens, MarksInv, FilesInv
<1>2. ASSUME NEW t \in Target, Revoke(t)
      PROVE  MarksInv' /\ UNCHANGED <<repo, work, index, saving, projection>>
  BY <1>2 DEF Revoke, MarksInv
<1>3. ASSUME ConfirmSets
      PROVE  MarksInv' /\ UNCHANGED <<repo, work, index, saving, projection>>
  <2>1. confirming.target \in Target /\ confirming.fingerprint \in Content
    BY <1>3 DEF ConfirmSets, MarksInv
  <2>2. QED
    BY <1>3, <2>1, LivesOn DEF ConfirmSets, MarksInv, Mark
<1>4. MarksInv' /\ UNCHANGED <<repo, work, index, saving, projection>>
  BY <1>1, <1>2, <1>3 DEF Confirming
<1>5. HistoryInv' /\ FilesInv' /\ LockInv'
  BY <1>4 DEF HistoryInv, FilesInv, LockInv, repo, saving, projection, Commit
<1>6. SavesInv' /\ PassInv' /\ ProjectedInv'
  BY <1>4, SavesStay, ProjectionStays DEF repo, saving, projection
<1>7. QED
  BY <1>4, <1>5, <1>6

\* A save of ours, but for its commit and its record.
LEMMA SaveStep ==
    ASSUME Inv,
           \/ \E t \in Target, c \in Content : SaveWrites(t, c)
           \/ SaveStages \/ SaveFindsItCommitted \/ SaveTells \/ SaveDies
    PROVE  Inv'
<1> USE DEF Inv
<1>1. UNCHANGED <<commits, head, named, confirmations, projection>>
  BY DEF SaveWrites, SaveStages, SaveFindsItCommitted, SaveTells, SaveDies, repo
<1>2. FilesInv' /\ MarksInv'
  <2>1. ASSUME NEW t \in Target, NEW c \in Content, SaveWrites(t, c)
        PROVE  FilesInv' /\ MarksInv'
    BY <2>1, WritesFiles DEF SaveWrites, FilesInv, MarksInv, confirmations
  <2>2. ASSUME SaveStages PROVE FilesInv' /\ MarksInv'
    BY <2>2 DEF SaveStages, FilesInv, MarksInv, confirmations
  <2>3. ASSUME SaveFindsItCommitted \/ SaveTells PROVE FilesInv' /\ MarksInv'
    BY <2>3 DEF SaveFindsItCommitted, SaveTells, FilesInv, MarksInv, confirmations
  <2>4. ASSUME SaveDies PROVE FilesInv' /\ MarksInv'
    BY <2>4 DEF SaveDies, Happens, FilesInv, MarksInv, confirmations
  <2>5. QED
    BY <2>1, <2>2, <2>3, <2>4
<1>3. HistoryInv'
  BY <1>1 DEF HistoryInv, Commit
<1>4. save'.phase # "committed"
  <2>1. ASSUME SaveStages PROVE save'.phase \in {"idle", "staged"}
    BY <2>1 DEF SaveStages, SavesInv, IdleSave
  <2>2. ASSUME NEW t \in Target, NEW c \in Content, SaveWrites(t, c)
        PROVE  save'.phase = "written"
    BY <2>2 DEF SaveWrites
  <2>3. ASSUME SaveFindsItCommitted \/ SaveTells \/ SaveDies PROVE save'.phase = "idle"
    BY <2>3 DEF SaveFindsItCommitted, SaveTells, SaveDies, IdleSave
  <2>4. QED
    BY <2>1, <2>2, <2>3
<1>5. SavesInv'
  <2>1. ASSUME NEW t \in Target, NEW c \in Content, SaveWrites(t, c) PROVE SavesInv'
    BY <1>1, <2>1 DEF SaveWrites, SavesInv, Commit
  <2>2. ASSUME SaveStages PROVE SavesInv'
    BY <1>1, <2>2 DEF SaveStages, SavesInv, IdleSave, Commit
  <2>3. ASSUME SaveFindsItCommitted \/ SaveDies PROVE SavesInv'
    BY <1>1, <2>3 DEF SaveFindsItCommitted, SaveDies, SavesInv, IdleSave, Commit
  <2>4. ASSUME SaveTells PROVE SavesInv'
    BY <1>1, <2>4 DEF SaveTells, SavesInv, IdleSave, Commit
  <2>5. QED
    BY <2>1, <2>2, <2>3, <2>4
<1>6. LockInv'
  BY <1>4 DEF LockInv
<1>7. PassInv' /\ ProjectedInv'
  BY <1>1, ProjectionStays DEF projection
<1>8. QED
  BY <1>2, <1>3, <1>5, <1>6, <1>7

\* HEAD is recorded as the sha of our commit.  If it is ours, nothing of it was
\* projected: no pass has run since.
LEMMA NameStep ==
    ASSUME Inv, SaveNames
    PROVE  Inv'
<1> USE DEF Inv
<1>1. UNCHANGED <<commits, head, work, index, told, confirmations, projection, life, events>>
  BY DEF SaveNames, repo
<1>2. save.commit \in Commit /\ pass.phase = "idle"
  BY DEF SaveNames, SavesInv, LockInv
<1>3. save' \in [phase : {"idle", "named"}, target : Target \cup {Nothing},
                 commit : Commit \cup {0}]
  BY DEF SaveNames, SavesInv, IdleSave
<1>4. save'.phase = "named" => save'.commit = save.commit
  BY DEF SaveNames, SavesInv, IdleSave
<1>5. \/ UNCHANGED named
      \/ named' = [named EXCEPT ![save.commit] = head]
  BY DEF SaveNames
<1>6. named' \in Seq(Nat) /\ Len(named') = Len(commits)
  <2>1. head \in Nat /\ named \in Seq(Nat) /\ Len(named) = Len(commits)
    BY DEF HistoryInv, SavesInv, Commit
  <2>2. save.commit \in 1..Len(named)
    BY <1>2, <2>1 DEF Commit
  <2>3. QED
    BY <1>5, <2>1, <2>2, ExceptSeq
<1>7. ASSUME NEW i \in Commit PROVE named'[i] = IF i = save.commit /\ named' # named THEN head ELSE named[i]
  BY <1>2, <1>5, <1>7 DEF SavesInv, HistoryInv, Commit
<1>8. UiCommits \subseteq UiCommits'
  <2>1. named[save.commit] = 0
    BY DEF SaveNames, SavesInv
  <2>2. ASSUME NEW x \in UiCommits PROVE x \in UiCommits'
    <3>1. PICK i \in Commit : x = named[i] /\ x # 0
      BY <2>2 DEF UiCommits
    <3>2. i # save.commit
      BY <2>1, <3>1
    <3>3. named'[i] = x /\ Commit' = Commit
      BY <1>1, <1>7, <3>1, <3>2 DEF Commit
    <3>4. QED
      BY <3>1, <3>3 DEF UiCommits
  <2>3. QED
    BY <2>2
<1>9. HistoryInv' /\ FilesInv' /\ MarksInv' /\ LockInv'
  BY <1>1, <1>2 DEF HistoryInv, FilesInv, MarksInv, LockInv, Commit, confirmations, projection
<1>10. SavesInv'
  <2>1. commits[save.commit].by = "app" /\ head \in Commit
    BY DEF SaveNames, SavesInv, HistoryInv
  <2>2. ASSUME NEW i \in Commit
        PROVE  named'[i] \in Commit \cup {0} /\ (named'[i] # 0 => commits[i].by = "app")
    BY <1>7, <2>1, <2>2 DEF SavesInv
  <2>3. save' \in [phase : {"idle", "written", "staged", "committed", "named"},
                   target : Target \cup {Nothing}, commit : Commit \cup {0}]
    BY <1>3
  <2>4. QED
    BY <1>1, <1>2, <1>3, <1>4, <1>6, <2>2, <2>3 DEF SavesInv, Commit
<1>11. PassInv'
  BY <1>1, <1>2 DEF PassInv, projection, Commit
<1>12. ProjectedInv'
  <2>1. \A i \in Commit : Recorded(i) => Recorded(i)'
    BY <1>1, <1>8 DEF Recorded
  <2>2. NothingPassedOver'
    <3>1. Log(seeded, marker)' = Log(seeded, marker)
      BY <1>1, Zenon DEF projection, Log, Ancestors, Commit
    <3>2. QED
      BY <1>1, <2>1, <3>1 DEF ProjectedInv, NothingPassedOver, projection, Commit
  <2>3. projected[save.commit] = 0
    BY DEF SaveNames, SavesInv
  <2>4. \A i \in Commit : named'[i] = i => projected[i] = 0
    BY <1>7, <2>3 DEF ProjectedInv
  <2>5. Ancestors(marker)' = Ancestors(marker)
    BY <1>1, Zenon DEF projection, Ancestors, Commit
  <2>6. QED
    BY <1>1, <2>2, <2>4, <2>5 DEF ProjectedInv, projection, Commit
<1>13. QED
  BY <1>9, <1>10, <1>11, <1>12

-----------------------------------------------------------------------------
(* A commit, ours or not.                                                  *)

\* The new commit is in nobody's past, nothing of it is projected, and it is
\* recorded under no sha; all else is as it was.
LEMMA CommitStep ==
    ASSUME Inv, NEW by \in {"app", "other"}, Commits(by),
           UNCHANGED <<work, index, told, confirmations, marker, pass, seeded, life, events>>
    PROVE  /\ HistoryInv' /\ FilesInv' /\ MarksInv' /\ PassInv' /\ ProjectedInv'
           /\ Commit' = Commit \cup {Len(commits) + 1} /\ Len(commits) \in Nat
           /\ named' \in Seq(Nat) /\ Len(named') = Len(commits')
           /\ \A i \in Commit : /\ commits'[i] = commits[i] /\ named'[i] = named[i]
                               /\ projected'[i] = projected[i]
           /\ LET n == Len(commits) + 1
              IN  commits'[n].by = by /\ named'[n] = 0 /\ projected'[n] = 0
<1> USE DEF Inv
<1> DEFINE n == Len(commits) + 1
           c == [parent |-> head, by |-> by, tree |-> index]
<1>1. c \in Row
  BY DEF HistoryInv, FilesInv, Row, Commit
<1>2. commits' = Append(commits, c) /\ head' = n
  BY DEF Commits
<1>3. /\ commits \in Seq(Row) /\ named \in Seq(Nat) /\ projected \in Seq(Nat)
      /\ Len(named) = Len(commits) /\ Len(projected) = Len(commits) /\ Len(commits) \in Nat
  BY DEF HistoryInv, SavesInv, ProjectedInv
<1>4. named' = Append(named, 0) /\ projected' = Append(projected, 0)
  BY DEF Commits
<1>5. /\ Commit' = Commit \cup {n} /\ n \notin Commit /\ n \in Nat
      /\ commits' \in Seq(Row) /\ Len(commits') = n
  BY <1>1, <1>2, <1>3 DEF Commit
<1>6. /\ named' \in Seq(Nat) /\ Len(named') = n /\ named'[n] = 0
      /\ projected' \in Seq(Nat) /\ Len(projected') = n /\ projected'[n] = 0
  BY <1>3, <1>4
<1>7. \A i \in Commit : /\ commits'[i] = commits[i] /\ named'[i] = named[i]
                        /\ projected'[i] = projected[i]
  BY <1>2, <1>3, <1>4 DEF Commit
<1>8. commits'[n] = c
  BY <1>2, <1>3
<1>9. HistoryInv'
  <2>1. ASSUME NEW i \in Commit' PROVE commits'[i].parent < i
    BY <1>5, <1>7, <1>8 DEF HistoryInv, Commit
  <2>2. head' \in Commit' /\ Len(commits') > 0
    BY <1>2, <1>3, <1>5
  <2>3. QED
    BY <1>5, <2>1, <2>2 DEF HistoryInv
<1>10. FilesInv' /\ MarksInv'
  BY DEF FilesInv, MarksInv, confirmations
<1>11. \A m \in Commit : Ancestors(m)' = Ancestors(m) /\ Ancestors(m) \subseteq Commit
  BY <1>1, <1>2, AncestorsStay, AncestorsAreCommits
<1>12. \A i \in Commit : Recorded(i)' <=> Recorded(i)
  <2>1. ASSUME NEW x PROVE x \in UiCommits' <=> x \in UiCommits
    <3>1. x \in UiCommits' <=> x # 0 /\ \E i \in Commit' : x = named'[i]
      BY DEF UiCommits
    <3>2. x \in UiCommits <=> x # 0 /\ \E i \in Commit : x = named[i]
      BY DEF UiCommits
    <3>3. QED
      BY <1>5, <1>6, <1>7, <3>1, <3>2
  <2>2. QED
    BY <1>7, <2>1 DEF Recorded
<1>13. PassInv'
  <2>1. CASE pass.phase = "projecting"
    <3>1. pass.head \in Commit /\ marker \in Commit
      BY <2>1, <1>11 DEF PassInv
    <3>2. Log(marker, pass.head)' = Log(marker, pass.head)
      BY <1>11, <3>1 DEF Log
    <3>3. Log(marker, pass.head) \subseteq Commit
      BY <1>11, <3>1 DEF Log
    <3>4. QED
      BY <1>5, <1>11, <1>12, <2>1, <3>1, <3>2, <3>3 DEF PassInv
  <2>2. CASE pass.phase # "projecting"
    BY <1>5, <2>2 DEF PassInv
  <2>3. QED
    BY <2>1, <2>2
<1>14. ProjectedInv'
  <2>1. ASSUME NEW i \in Commit', projected'[i] = 1
        PROVE  marker' # 0 /\ i \in Ancestors(marker)'
    <3>1. i \in Commit /\ projected[i] = 1
      BY <1>5, <1>6, <1>7, <2>1
    <3>2. marker # 0 /\ i \in Ancestors(marker) /\ marker \in Commit
      BY <3>1 DEF ProjectedInv
    <3>3. QED
      BY <1>11, <3>2
  <2>2. ASSUME NEW i \in Commit', named'[i] = i PROVE projected'[i] = 0
    BY <1>5, <1>6, <1>7, <2>2 DEF ProjectedInv
  <2>3. ASSUME NEW i \in Commit', marker' # 0, i \in Log(seeded, marker)'
        PROVE  projected'[i] = 1 \/ Recorded(i)'
    <3>1. marker \in Commit /\ i \in Ancestors(marker)' /\ i \notin Ancestors(seeded)'
      BY <2>3 DEF ProjectedInv, Log
    <3>2. i \in Commit /\ i \in Ancestors(marker)
      BY <1>11, <3>1
    <3>3. i \notin Ancestors(seeded)
      <4>1. CASE seeded = 0
        BY <1>5, <3>1, <3>2, <4>1 DEF Ancestors, Commit
      <4>2. CASE seeded \in Commit
        BY <1>11, <3>1, <4>2
      <4>3. QED
        BY <4>1, <4>2 DEF ProjectedInv
    <3>4. QED
      BY <1>7, <1>12, <2>3, <3>2, <3>3 DEF ProjectedInv, NothingPassedOver, Log
  <2>4. \A i \in Commit' : projected'[i] \in {0, 1}
    BY <1>5, <1>6, <1>7 DEF ProjectedInv
  <2>5. QED
    BY <1>5, <1>6, <2>1, <2>2, <2>3, <2>4 DEF ProjectedInv, NothingPassedOver
<1>15. QED
  BY <1>5, <1>6, <1>7, <1>8, <1>9, <1>10, <1>13, <1>14

LEMMA OutsideCommitStep ==
    ASSUME Inv, OutsideCommits
    PROVE  Inv'
<1> USE DEF Inv
<1>1. /\ HistoryInv' /\ FilesInv' /\ MarksInv' /\ PassInv' /\ ProjectedInv'
      /\ Commit' = Commit \cup {Len(commits) + 1}
      /\ named' \in Seq(Nat) /\ Len(named') = Len(commits')
      /\ \A i \in Commit : /\ commits'[i] = commits[i] /\ named'[i] = named[i]
                          /\ projected'[i] = projected[i]
      /\ named'[Len(commits) + 1] = 0
  BY CommitStep DEF OutsideCommits
<1>2. SavesInv'
  BY <1>1 DEF OutsideCommits, SavesInv
<1>3. LockInv'
  BY DEF OutsideCommits, LockInv
<1>4. QED
  BY <1>1, <1>2, <1>3

LEMMA SaveCommitStep ==
    ASSUME Inv, SaveCommits
    PROVE  Inv'
<1> USE DEF Inv
<1> DEFINE n == Len(commits) + 1
<1>1. /\ HistoryInv' /\ FilesInv' /\ MarksInv' /\ PassInv' /\ ProjectedInv'
      /\ Commit' = Commit \cup {n}
      /\ named' \in Seq(Nat) /\ Len(named') = Len(commits')
      /\ \A i \in Commit : commits'[i] = commits[i] /\ named'[i] = named[i]
      /\ commits'[n].by = "app" /\ named'[n] = 0 /\ projected'[n] = 0
  BY CommitStep DEF SaveCommits
<1>2. save' \in [phase : {"committed"}, target : Target \cup {Nothing}, commit : {n}]
  BY DEF SaveCommits, SavesInv
<1>3. SavesInv'
  BY <1>1, <1>2 DEF SaveCommits, SavesInv
<1>4. LockInv'
  BY DEF SaveCommits, LockInv
<1>5. QED
  BY <1>1, <1>3, <1>4

-----------------------------------------------------------------------------
(* A pass.                                                                 *)

\* Reading leaves everything as it was, and the rows are what lies between the
\* marker and HEAD when the pass began, and is nobody's but other containers'.
LEMMA PassReadsStep ==
    ASSUME Inv, PassBegins \/ PassReadsLog \/ PassReadsMarks \/ PassJudges \/ PassDies
    PROVE  Inv'
<1> USE DEF Inv
<1>1. UNCHANGED <<repo, work, index, saving, confirmations, marker, projected, seeded, life>>
         /\ events' \in Nat
  BY DEF PassBegins, PassReadsLog, PassReadsMarks, PassJudges, PassDies, Happens, MarksInv
<1>2. HistoryInv' /\ FilesInv' /\ MarksInv'
  BY <1>1 DEF HistoryInv, FilesInv, MarksInv, repo, confirmations, Commit
<1>3. SavesInv'
  BY <1>1, SavesStay DEF repo
<1>4. LockInv'
  <2>1. ASSUME PassBegins PROVE save.phase # "committed"
    BY <2>1 DEF PassBegins, LockFreeForPass
  <2>2. ASSUME PassDies PROVE pass'.phase = "idle"
    BY <2>2 DEF PassDies, IdlePass
  <2>3. ASSUME PassReadsLog PROVE pass.phase # "idle"
    BY <2>3 DEF PassReadsLog
  <2>4. ASSUME PassReadsMarks \/ PassJudges PROVE pass'.phase = pass.phase
    BY <2>4 DEF PassReadsMarks, PassJudges, PassInv
  <2>5. QED
    BY <1>1, <2>1, <2>2, <2>3, <2>4 DEF LockInv, saving
<1>5. Commit' = Commit /\ (\A i \in Commit : Recorded(i)' <=> Recorded(i))
  BY <1>1 DEF repo, saving, Recorded, UiCommits, Commit
<1>6. ProjectedInv'
  <2>1. Ancestors(marker)' = Ancestors(marker) /\ Ancestors(seeded)' = Ancestors(seeded)
    BY <1>1, Zenon DEF repo, Ancestors, Commit
  <2>2. NothingPassedOver'
    BY <1>1, <1>5, <2>1 DEF ProjectedInv, NothingPassedOver, Log
  <2>3. QED
    BY <1>1, <1>5, <2>1, <2>2 DEF ProjectedInv, repo, saving
<1>7. PassInv'
  <2>1. CASE PassBegins
    BY <1>1, <1>5, <2>1 DEF PassBegins, PassInv, Phases, IdlePass, HistoryInv, repo
  <2>2. CASE PassDies
    BY <2>2 DEF PassDies, PassInv, Phases, IdlePass
  <2>3. CASE PassReadsLog
    <3>1. pass'.head = pass.head /\ DOMAIN pass' = DOMAIN pass
      BY <2>3 DEF PassReadsLog, PassInv
    <3>2. pass'.phase \in {"seeding", "projecting"} /\ pass.phase = "begun"
      BY <2>3 DEF PassReadsLog, PassInv
    <3>3. ASSUME pass'.phase = "projecting"
          PROVE  /\ marker # 0 /\ marker \in Ancestors(pass.head)
                 /\ pass'.rows = {i \in Log(marker, pass.head) : ~Recorded(i)}
      BY <2>3, <3>3 DEF PassReadsLog, PassInv
    <3>4. Log(marker, pass.head)' = Log(marker, pass.head)
             /\ Ancestors(pass.head)' = Ancestors(pass.head)
      BY <1>1, <3>1, Zenon DEF repo, Log, Ancestors, Commit
    <3>5. Log(marker, pass.head) \subseteq Commit
      BY AncestorsAreCommits DEF Log
    <3>6. QED
      BY <1>1, <1>5, <3>1, <3>2, <3>3, <3>4, <3>5 DEF PassInv, Phases
  <2>4. CASE PassReadsMarks \/ PassJudges
    <3>1. /\ pass'.head = pass.head /\ DOMAIN pass' = DOMAIN pass
          /\ pass'.phase = pass.phase /\ pass'.rows = pass.rows
      BY <2>4 DEF PassReadsMarks, PassJudges, PassInv
    <3>2. Log(marker, pass.head)' = Log(marker, pass.head)
             /\ Ancestors(pass.head)' = Ancestors(pass.head)
      BY <1>1, <3>1, Zenon DEF repo, Log, Ancestors, Commit
    <3>3. Log(marker, pass.head) \subseteq Commit
      BY AncestorsAreCommits DEF Log
    <3>4. pass.phase \notin {"idle", "begun"}
      BY <2>4 DEF PassReadsMarks, PassJudges, PassInv
    <3>5. QED
      BY <1>1, <1>5, <3>1, <3>2, <3>3, <3>4 DEF PassInv
  <2>5. QED
    BY <2>1, <2>2, <2>3, <2>4
<1>8. QED
  BY <1>2, <1>3, <1>4, <1>6, <1>7

\* The rows of a pass are past the marker and unrecorded, so they are new and
\* not ours; what else lies between the markers is recorded.
LEMMA RowsStep ==
    ASSUME Inv, PassWrites
    PROVE  ProjectedInv'
<1> USE DEF Inv
<1>1. /\ UNCHANGED <<commits, head, named>> /\ Commit' = Commit
      /\ marker' = pass.head
  BY DEF PassWrites, NewMarker, repo, saving, Commit
<1>2. /\ projected \in Seq(Nat) /\ Len(projected) = Len(commits) /\ Len(commits) \in Nat
      /\ \A i \in Commit : projected[i] \in {0, 1}
  BY DEF ProjectedInv, HistoryInv
<1>3. \A i \in Commit : Recorded(i)' <=> Recorded(i)
  BY <1>1 DEF Recorded, UiCommits
<1>4. CASE pass.phase = "seeding"
  <2>1. /\ projected' = [i \in Commit |-> 0] /\ seeded' = pass.head
        /\ pass.head \in Commit
    BY <1>4 DEF PassWrites, NewMarker, PassInv
  <2>2. projected' \in Seq(Nat) /\ Len(projected') = Len(commits)
    BY <1>2, <2>1 DEF Commit
  <2>3. NothingPassedOver'
    BY <1>1, <2>1 DEF NothingPassedOver, Log
  <2>4. QED
    BY <1>1, <2>1, <2>2, <2>3 DEF ProjectedInv
<1>5. CASE pass.phase # "seeding"
  <2>1. pass.phase = "projecting"
    <3>1. pass.phase \notin {"idle", "begun"}
      BY DEF PassWrites, PassInv
    <3>2. QED
      BY <1>5, <3>1 DEF PassInv, Phases
  <2> DEFINE rows == {i \in Log(marker, pass.head) : ~Recorded(i)}
  <2>2. /\ marker # 0 /\ marker \in Ancestors(pass.head) /\ pass.head \in Commit
        /\ pass.rows = rows
    BY <2>1 DEF PassInv
  <2>3. /\ projected' = [i \in Commit |-> IF i \in rows THEN projected[i] + 1 ELSE projected[i]]
        /\ seeded' = seeded
    BY <1>5, <2>2 DEF PassWrites
  <2>4. \A i \in rows : /\ i \in Ancestors(pass.head) /\ i \notin Ancestors(marker)
                        /\ ~Recorded(i)
    BY DEF Log
  <2>5. Ancestors(marker) \subseteq Ancestors(pass.head)
    BY <2>2, AncestorsOfAncestors
  <2>6. \A i \in Commit : i \in rows => projected[i] = 0
    BY <1>2, <2>4 DEF ProjectedInv
  <2>7. projected' \in Seq(Nat) /\ Len(projected') = Len(commits)
    BY <1>2, <2>3 DEF Commit
  <2>8. ASSUME NEW i \in Commit
        PROVE  /\ projected'[i] \in {0, 1}
               /\ projected'[i] = 1 => i \in Ancestors(pass.head)
               /\ named[i] = i => projected'[i] = 0
    <3>1. projected'[i] = IF i \in rows THEN 1 ELSE projected[i]
      BY <2>3, <2>6
    <3>2. projected[i] = 1 => i \in Ancestors(pass.head)
      BY <2>5 DEF ProjectedInv
    <3>3. named[i] = i => Recorded(i)
      <4>1. i # 0
        BY <1>2 DEF Commit
      <4>2. QED
        BY <4>1 DEF Recorded, UiCommits, SavesInv
    <3>4. named[i] = i => projected[i] = 0
      BY DEF ProjectedInv
    <3>5. QED
      BY <1>2, <2>4, <3>1, <3>2, <3>3, <3>4
  <2>9. ASSUME NEW i \in Commit, i \in Ancestors(pass.head), i \notin Ancestors(seeded)
        PROVE  projected'[i] = 1 \/ Recorded(i)
    <3>1. CASE i \in Ancestors(marker)
      <4>1. projected[i] = 1 \/ Recorded(i)
        BY <2>2, <2>9, <3>1 DEF ProjectedInv, NothingPassedOver, Log
      <4>2. i \notin rows
        BY <2>4, <3>1
      <4>3. QED
        BY <2>3, <4>1, <4>2
    <3>2. CASE i \notin Ancestors(marker)
      <4>1. Recorded(i) \/ i \in rows
        BY <2>9, <3>2 DEF Log
      <4>2. QED
        BY <2>3, <2>6, <4>1
    <3>3. QED
      BY <3>1, <3>2
  <2>10. \A m : Ancestors(m)' = Ancestors(m)
    BY <1>1, Zenon DEF Ancestors
  <2>11. Ancestors(marker)' = Ancestors(pass.head) /\ Ancestors(seeded)' = Ancestors(seeded)
    BY <1>1, <2>3, Zenon DEF Ancestors
  <2>12. NothingPassedOver'
    BY <1>1, <1>3, <2>9, <2>11 DEF NothingPassedOver, Log
  <2>13. pass.head # 0 /\ seeded \in Commit \cup {0}
    BY <1>2, <2>2 DEF Commit, ProjectedInv
  <2>14. QED
    BY <1>1, <2>2, <2>3, <2>7, <2>8, <2>11, <2>12, <2>13 DEF ProjectedInv
<1>6. QED
  BY <1>4, <1>5

\* Staleness keeps a mark a mark.
LEMMA PassWritesStep ==
    ASSUME Inv, PassWrites
    PROVE  Inv'
<1> USE DEF Inv
<1>1. UNCHANGED <<repo, work, index, saving, confirming, events>> /\ pass' = IdlePass
         /\ Commit' = Commit
  BY DEF PassWrites, repo, Commit
<1>2. HistoryInv' /\ FilesInv' /\ LockInv'
  BY <1>1 DEF HistoryInv, FilesInv, LockInv, IdlePass, repo
<1>3. MarksInv'
  <2>1. ASSUME NEW t \in Target PROVE Staleness(t) \in Mark \cup {Nothing}
    <3>1. CASE pass.judged[t] # Nothing /\ Unchanged(t)
      <4>1. mark[t] \in Mark
        BY <3>1 DEF Unchanged, Marked, MarksInv
      <4>2. QED
        BY <3>1, <4>1 DEF Staleness, Mark
    <3>2. CASE ~(pass.judged[t] # Nothing /\ Unchanged(t))
      BY <3>2 DEF Staleness, MarksInv
    <3>3. QED
      BY <3>1, <3>2
  <2>2. mark' \in [Target -> Mark \cup {Nothing}]
    BY <2>1 DEF PassWrites
  <2>3. ASSUME NEW t \in Target, NEW matches \in BOOLEAN
        PROVE  Lives("announced", matches) \in {"whole", "broken", "announced"}
    BY <2>3, LivesOn
  <2>4. life' \in [Target -> {"whole", "broken", "announced"}]
    BY <2>3 DEF PassWrites, MarksInv
  <2>5. QED
    BY <1>1, <2>2, <2>4 DEF MarksInv
<1>4. ProjectedInv'
  BY RowsStep
<1>5. SavesInv'
  <2>1. save.phase # "committed"
    BY DEF PassWrites, PassInv, LockInv
  <2>2. QED
    BY <1>1, <2>1 DEF SavesInv, saving, repo
<1>6. PassInv'
  BY <1>1 DEF PassInv, IdlePass, Phases
<1>7. QED
  BY <1>2, <1>3, <1>4, <1>5, <1>6

-----------------------------------------------------------------------------
(* The theorems.                                                           *)

LEMMA InvStep == Inv /\ [ProjectionNext]_projectionVars => Inv'
<1> SUFFICES ASSUME Inv, [ProjectionNext]_projectionVars PROVE Inv'
  OBVIOUS
<1>1. CASE Outside
  BY <1>1, OutsideStep, OutsideCommitStep DEF Outside
<1>2. CASE Saving
  BY <1>2, SaveStep, SaveCommitStep, NameStep DEF Saving
<1>3. CASE Confirming \/ ConfirmSets
  BY <1>3, ConfirmStep
<1>4. CASE Pass \/ PassDies
  BY <1>4, PassReadsStep, PassWritesStep DEF Pass
<1>5. CASE UNCHANGED projectionVars
  <2>1. UNCHANGED <<repo, work, index, saving, confirmations, projection, life, events>>
    BY <1>5 DEF projectionVars
  <2>2. HistoryInv' /\ FilesInv' /\ MarksInv' /\ LockInv'
    BY <2>1 DEF Inv, HistoryInv, FilesInv, MarksInv, LockInv, repo, saving, confirmations,
                projection, Commit
  <2>3. SavesInv' /\ PassInv' /\ ProjectedInv'
    BY <2>1, SavesStay, ProjectionStays DEF repo, saving, projection
  <2>4. QED
    BY <2>2, <2>3 DEF Inv
<1>6. QED
  BY <1>1, <1>2, <1>3, <1>4, <1>5 DEF ProjectionNext

THEOREM InvHolds == ProjectionSpec => []Inv
BY InvInit, InvStep, PTL DEF ProjectionSpec

LEMMA InvImpliesExactlyOnce == Inv => ExactlyOnce
<1> SUFFICES ASSUME Inv PROVE ExactlyOnce
  OBVIOUS
<1> USE DEF Inv
<1>1. ProjectionTypeOK
  <2>1. named \in [Commit -> Commit \cup {0}] /\ projected \in [Commit -> Nat]
    <3>1. named \in [1..Len(named) -> Nat] /\ projected \in [1..Len(projected) -> Nat]
      BY DEF SavesInv, ProjectedInv
    <3>2. QED
      BY <3>1 DEF SavesInv, ProjectedInv, Commit
  <2>2. QED
    BY <2>1 DEF ProjectionTypeOK, HistoryInv, FilesInv, MarksInv, SavesInv, ProjectedInv, Row, Mark
<1>2. ProjectedOnce
  BY DEF ProjectedInv, ProjectedOnce
<1>3. NotToldTwice
  BY DEF ProjectedInv, SavesInv, NotToldTwice
<1>4. QED
  BY <1>1, <1>2, <1>3 DEF ExactlyOnce, ProjectedInv

\* Every commit is told of exactly once, by the projection or by the endpoint
\* that made it, however the three that write interleave.
THEOREM AlwaysExactlyOnce == ProjectionSpec => []ExactlyOnce
BY InvHolds, InvImpliesExactlyOnce, PTL

-----------------------------------------------------------------------------
(* Once per break.  A mark carries its place in the order of confirmations, *)
(* so one that a pass read and finds again was there all the while, and a   *)
(* break the pass has judged is one of that mark.                           *)

\* A mark is as old as it says, and its life goes with what is on disk.
AgesInv ==
    \A t \in Target : mark[t] # Nothing =>
        /\ mark[t].at <= events
        /\ confirming # Nothing => mark[t].at < events
        /\ life[t] = "whole" => work[t] = mark[t].fingerprint
        /\ life[t] = "announced" => mark[t].emitted /\ work[t] # mark[t].fingerprint

\* What a pass has read is older than any mark still to be set.
SeenInv ==
    /\ pass.judged # <<>> => pass.seen # <<>>
    /\ pass.seen # <<>> =>
        \A t \in Target, f \in Content, a \in Nat : pass.seen[t] = <<f, a>> =>
            a <= events /\ (confirming # Nothing => a < events)

\* What a pass has judged of a mark still tells of its life.
JudgedInv ==
    pass.judged # <<>> =>
        \A t \in Target : pass.judged[t] # Nothing /\ Unchanged(t) =>
            IF pass.judged[t] = mark[t].fingerprint THEN life[t] # "announced"
            ELSE mark[t].emitted \/ life[t] = "broken"

BreakInv == AgesInv /\ SeenInv /\ JudgedInv

\* No mark, no pass and no confirmation is touched, and lives go on.
LEMMA LivesGoOn ==
    ASSUME Inv, BreakInv, UNCHANGED <<mark, confirming, pass>>,
           events' \in Nat, events <= events',
           \A t \in Target : mark[t] # Nothing =>
              \/ life'[t] = life[t] /\ work'[t] = work[t]
              \/ life'[t] = Lives(life[t], work'[t] = mark[t].fingerprint)
    PROVE  BreakInv'
<1>1. events \in Nat /\ \A t \in Target : mark[t] # Nothing => mark[t].at \in Nat
  BY DEF Inv, MarksInv, Mark
<1>2. ASSUME NEW t \in Target, mark[t] # Nothing
      PROVE  /\ life'[t] = "whole" => work'[t] = mark[t].fingerprint
             /\ life'[t] = "announced" => /\ work'[t] # mark[t].fingerprint
                                         /\ life[t] = "announced"
             /\ life[t] = "broken" => life'[t] = "broken"
  <2>1. life[t] \in {"whole", "broken", "announced"}
    BY DEF Inv, MarksInv
  <2>2. CASE life'[t] = life[t] /\ work'[t] = work[t]
    BY <1>2, <2>2 DEF BreakInv, AgesInv
  <2>3. CASE life'[t] = Lives(life[t], work'[t] = mark[t].fingerprint)
    BY <2>1, <2>3 DEF Lives
  <2>4. QED
    BY <1>2, <2>2, <2>3
<1>3. AgesInv'
  BY <1>1, <1>2 DEF BreakInv, AgesInv
<1>4. SeenInv'
  BY <1>1 DEF BreakInv, SeenInv
<1>5. JudgedInv'
  BY <1>2 DEF BreakInv, JudgedInv, Unchanged, Marked
<1>6. QED
  BY <1>3, <1>4, <1>5 DEF BreakInv

LEMMA BreakInvOutside ==
    ASSUME Inv, BreakInv, Outside \/ Saving
    PROVE  BreakInv'
<1> DEFINE Still == UNCHANGED <<mark, confirming, pass>> /\ events' \in {events, events + 1}
<1>1. ASSUME Outside PROVE Still
  <2>1. ASSUME NEW t \in Target, NEW c \in Content, OutsideWrites(t, c) PROVE Still
    BY <2>1 DEF OutsideWrites, confirmations, projection
  <2>2. ASSUME OutsideStages \/ OutsideCommits PROVE Still
    BY <2>2 DEF OutsideStages, OutsideCommits, confirmations, projection
  <2>3. ASSUME NEW i \in Commit, OutsideResets(i) PROVE Still
    BY <2>3 DEF OutsideResets, Happens, confirmations, projection
  <2>4. QED
    BY <1>1, <2>1, <2>2, <2>3 DEF Outside
<1>2. ASSUME Saving PROVE Still
  <2>1. ASSUME NEW t \in Target, NEW c \in Content, SaveWrites(t, c) PROVE Still
    BY <2>1 DEF SaveWrites, confirmations, projection
  <2>2. ASSUME SaveStages \/ SaveCommits \/ SaveFindsItCommitted \/ SaveNames \/ SaveTells
        PROVE  Still
    BY <2>2 DEF SaveStages, SaveCommits, SaveFindsItCommitted, SaveNames, SaveTells,
                confirmations, projection
  <2>3. ASSUME SaveDies PROVE Still
    BY <2>3 DEF SaveDies, Happens, confirmations, projection
  <2>4. QED
    BY <1>2, <2>1, <2>2, <2>3 DEF Saving
<1>3. UNCHANGED <<mark, confirming, pass>> /\ events' \in Nat /\ events <= events'
  BY <1>1, <1>2 DEF Inv, MarksInv
<1>4. \/ UNCHANGED <<work, life>>
      \/ \E w : TreeBecomes(w)
  BY DEF Outside, Saving, OutsideWrites, OutsideStages, OutsideCommits,
         OutsideResets, SaveWrites, SaveStages, SaveCommits, SaveFindsItCommitted, SaveNames,
         SaveTells, SaveDies
<1>5. QED
  BY <1>3, <1>4, LivesGoOn DEF TreeBecomes

LEMMA BreakInvConfirm ==
    ASSUME Inv, BreakInv, Confirming \/ ConfirmSets
    PROVE  BreakInv'
<1>1. events \in Nat /\ \A t \in Target : mark[t] # Nothing => mark[t].at \in Nat
  BY DEF Inv, MarksInv, Mark
<1>2. ASSUME NEW t \in Target, ConfirmReads(t) PROVE BreakInv'
  <2>1. UNCHANGED <<mark, pass, work, life>> /\ events' = events + 1
    BY <1>2 DEF ConfirmReads, Happens, projection
  <2>2. AgesInv'
    BY <1>1, <2>1 DEF BreakInv, AgesInv
  <2>3. SeenInv'
    BY <1>1, <2>1 DEF BreakInv, SeenInv
  <2>4. JudgedInv'
    BY <2>1 DEF BreakInv, JudgedInv, Unchanged, Marked
  <2>5. QED
    BY <2>2, <2>3, <2>4 DEF BreakInv
<1>3. ASSUME NEW t \in Target, Revoke(t) PROVE BreakInv'
  <2>1. UNCHANGED <<pass, work, events, confirming>> /\ mark'[t] = Nothing
           /\ \A u \in Target \ {t} : mark'[u] = mark[u] /\ life'[u] = life[u]
    BY <1>3 DEF Revoke, projection, Inv, MarksInv
  <2>2. AgesInv'
    BY <2>1 DEF BreakInv, AgesInv
  <2>3. SeenInv'
    BY <2>1 DEF BreakInv, SeenInv
  <2>4. JudgedInv'
    BY <2>1 DEF BreakInv, JudgedInv, Unchanged, Marked
  <2>5. QED
    BY <2>2, <2>3, <2>4 DEF BreakInv
<1>4. ASSUME ConfirmSets PROVE BreakInv'
  <2>1. PICK t \in Target, f \in Content :
            confirming # Nothing /\ confirming = [target |-> t, fingerprint |-> f]
    BY <1>4 DEF ConfirmSets, Inv, MarksInv
  <2>2. /\ UNCHANGED <<pass, work, events>> /\ confirming' = Nothing
        /\ \A u \in Target \ {t} : mark'[u] = mark[u] /\ life'[u] = life[u]
        /\ mark'[t] = [fingerprint |-> f, at |-> events, emitted |-> FALSE]
        /\ life'[t] = Lives("whole", work[t] = f)
    BY <1>4, <2>1 DEF ConfirmSets, projection, Inv, MarksInv
  <2>3. life'[t] \in {"whole", "broken"} /\ (life'[t] = "whole" => work[t] = f)
    BY <2>2 DEF Lives
  <2>4. AgesInv'
    BY <1>1, <2>1, <2>2, <2>3 DEF BreakInv, AgesInv
  <2>5. SeenInv'
    BY <1>1, <2>2, <2>1 DEF BreakInv, SeenInv
  <2>6. pass.judged # <<>> => ~Unchanged(t)'
    <3>1. pass.judged # <<>> => pass.seen[t] # <<f, events>>
      BY <1>1, <2>1 DEF BreakInv, SeenInv
    <3>2. QED
      BY <2>2, <3>1 DEF Unchanged
  <2>7. JudgedInv'
    <3>1. \A u \in Target \ {t} : Unchanged(u)' <=> Unchanged(u)
      BY <2>2 DEF Unchanged, Marked
    <3>2. QED
      BY <2>1, <2>2, <2>6, <3>1 DEF BreakInv, JudgedInv
  <2>8. QED
    BY <2>4, <2>5, <2>7 DEF BreakInv
<1>5. QED
  BY <1>2, <1>3, <1>4 DEF Confirming

LEMMA BreakInvPass ==
    ASSUME Inv, BreakInv, Pass \/ PassDies
    PROVE  BreakInv'
<1>1. events \in Nat /\ \A t \in Target : mark[t] # Nothing => mark[t] \in Mark
  BY DEF Inv, MarksInv
<1>2. CASE PassBegins \/ PassReadsLog \/ PassDies
  <2>1. UNCHANGED <<mark, confirming, work, life>> /\ events' \in {events, events + 1}
    BY <1>2 DEF PassBegins, PassReadsLog, PassDies, Happens, confirmations
  <2>2. pass'.seen = <<>> /\ pass'.judged = <<>>
    <3>1. ASSUME PassDies PROVE pass'.seen = <<>> /\ pass'.judged = <<>>
      BY <3>1 DEF PassDies, IdlePass
    <3>0. ASSUME PassBegins PROVE pass'.seen = <<>> /\ pass'.judged = <<>>
      BY <3>0 DEF PassBegins, IdlePass
    <3>2. ASSUME PassReadsLog PROVE pass'.seen = pass.seen /\ pass'.judged = pass.judged
      BY <3>2 DEF PassReadsLog, Inv, PassInv
    <3>3. ASSUME PassReadsLog PROVE pass.seen = <<>> /\ pass.judged = <<>>
      BY <3>3 DEF PassReadsLog, Inv, PassInv
    <3>4. QED
      BY <1>2, <3>0, <3>1, <3>2, <3>3
  <2>3. AgesInv'
    BY <1>1, <2>1 DEF BreakInv, AgesInv, Mark
  <2>4. QED
    BY <2>2, <2>3 DEF BreakInv, SeenInv, JudgedInv
<1>3. CASE PassReadsMarks
  <2>1. UNCHANGED <<mark, confirming, work, life, events>>
    BY <1>3 DEF PassReadsMarks, confirmations
  <2>2. /\ pass'.seen = [t \in Target |->
                    IF t \in Marked THEN <<mark[t].fingerprint, mark[t].at>> ELSE <<>>]
        /\ pass'.judged = <<>>
    BY <1>3 DEF PassReadsMarks, Inv, PassInv, BreakInv, SeenInv
  <2>3. AgesInv'
    BY <2>1 DEF BreakInv, AgesInv
  <2>4. ASSUME NEW t \in Target, NEW f \in Content, NEW a \in Nat, pass'.seen[t] = <<f, a>>
        PROVE  a <= events /\ (confirming # Nothing => a < events)
    <3>1. CASE t \in Marked
      <4>1. a = mark[t].at
        BY <2>2, <2>4, <3>1
      <4>2. QED
        BY <3>1, <4>1 DEF BreakInv, AgesInv, Marked
    <3>2. CASE t \notin Marked
      BY <2>2, <2>4, <3>2
    <3>3. QED
      BY <3>1, <3>2
  <2>5. QED
    BY <2>1, <2>2, <2>3, <2>4 DEF BreakInv, SeenInv, JudgedInv
<1>4. CASE PassJudges
  <2>1. UNCHANGED <<mark, confirming, work, life, events>>
    BY <1>4 DEF PassJudges, confirmations
  <2>2. /\ pass'.seen = pass.seen /\ pass.seen # <<>>
        /\ pass'.judged = [t \in Target |->
              IF t \in Judgeable(pass.head) THEN Tree(pass.head)[t] ELSE Nothing]
    BY <1>4 DEF PassJudges, Inv, PassInv
  <2>3. AgesInv' /\ SeenInv'
    BY <2>1, <2>2 DEF BreakInv, AgesInv, SeenInv
  <2>4. ASSUME NEW t \in Target, pass'.judged[t] # Nothing, Unchanged(t)'
        PROVE  IF pass'.judged[t] = mark[t].fingerprint THEN life[t] # "announced"
               ELSE mark[t].emitted \/ life[t] = "broken"
    <3>1. pass'.judged[t] = work[t]
      BY <2>2, <2>4 DEF Judgeable
    <3>2. mark[t] # Nothing
      BY <2>1, <2>4 DEF Unchanged, Marked
    <3>3. life[t] \in {"whole", "broken", "announced"}
      BY DEF Inv, MarksInv
    <3>4. QED
      BY <3>1, <3>2, <3>3 DEF BreakInv, AgesInv
  <2>5. QED
    BY <2>1, <2>3, <2>4 DEF BreakInv, JudgedInv
<1>5. CASE PassWrites
  <2>1. UNCHANGED <<confirming, work, events>> /\ pass' = IdlePass
    BY <1>5 DEF PassWrites
  <2>2. SeenInv' /\ JudgedInv'
    BY <2>1 DEF IdlePass, SeenInv, JudgedInv
  <2>3. ASSUME NEW t \in Target, mark'[t] # Nothing
        PROVE  /\ mark[t] # Nothing /\ mark'[t].at = mark[t].at
               /\ mark'[t].fingerprint = mark[t].fingerprint
               /\ life'[t] = "whole" => work[t] = mark[t].fingerprint
               /\ life'[t] = "announced" => mark'[t].emitted /\ work[t] # mark[t].fingerprint
    <3>1. mark'[t] = Staleness(t)
      BY <1>5 DEF PassWrites
    <3>2. mark[t] # Nothing
      BY <2>3, <3>1 DEF Staleness, Unchanged, Marked
    <3>3. mark[t] \in Mark
      BY <1>1, <3>2
    <3>4. mark'[t].at = mark[t].at /\ mark'[t].fingerprint = mark[t].fingerprint
      BY <3>1, <3>3 DEF Staleness, Mark
    <3>5. CASE Announced(t)
      <4>1. life'[t] = Lives("announced", work[t] = mark[t].fingerprint)
        BY <1>5, <3>5 DEF PassWrites
      <4>2. mark'[t].emitted
        BY <3>1, <3>5 DEF Announced
      <4>3. QED
        BY <3>2, <3>4, <4>1, <4>2 DEF Lives
    <3>6. CASE ~Announced(t)
      <4>1. life'[t] = life[t]
        BY <1>5, <3>6 DEF PassWrites
      <4>2. ASSUME life[t] = "announced" PROVE mark'[t].emitted
        <5>1. mark[t].emitted
          BY <3>2, <4>2 DEF BreakInv, AgesInv
        <5>2. pass.judged # <<>>
          BY <1>5 DEF PassWrites
        <5>3. pass.judged[t] # Nothing /\ Unchanged(t) => pass.judged[t] # mark[t].fingerprint
          BY <4>2, <5>2 DEF BreakInv, JudgedInv
        <5>4. QED
          BY <3>1, <3>3, <5>1, <5>3 DEF Staleness, Mark
      <4>3. QED
        BY <3>2, <3>4, <4>1, <4>2 DEF BreakInv, AgesInv
    <3>7. QED
      BY <3>5, <3>6
  <2>4. AgesInv'
    BY <2>1, <2>3 DEF BreakInv, AgesInv
  <2>5. QED
    BY <2>2, <2>4 DEF BreakInv
<1>6. QED
  BY <1>2, <1>3, <1>4, <1>5 DEF Pass

LEMMA BreakInvStep == Inv /\ BreakInv /\ [ProjectionNext]_projectionVars => BreakInv'
<1>1. ASSUME BreakInv, UNCHANGED projectionVars PROVE BreakInv'
  BY <1>1 DEF projectionVars, confirmations, projection, BreakInv, AgesInv, SeenInv, JudgedInv,
              Unchanged, Marked
<1>2. QED
  BY <1>1, BreakInvOutside, BreakInvConfirm, BreakInvPass DEF ProjectionNext

\* A break is announced of a mark that was broken since it was set, or since it
\* was last found broken, and once.
THEOREM AlwaysOncePerBreak == ProjectionSpec => OncePerBreak
<1>1. ProjectionInit => BreakInv
  BY DEF ProjectionInit, IdlePass, BreakInv, AgesInv, SeenInv, JudgedInv
<1>2. Inv /\ BreakInv /\ [ProjectionNext]_projectionVars =>
        [\A t \in Target : PassWrites /\ Announced(t) => life[t] = "broken"]_projectionVars
  <2>1. ASSUME Inv, BreakInv, NEW t \in Target, PassWrites, Announced(t)
        PROVE  life[t] = "broken"
    <3>1. mark[t] \in Mark /\ Staleness(t).emitted /\ ~mark[t].emitted
      BY <2>1 DEF Announced, Marked, Inv, MarksInv
    <3>2. pass.judged[t] # Nothing /\ Unchanged(t)
      BY <3>1 DEF Staleness
    <3>3. pass.judged[t] # mark[t].fingerprint
      BY <3>1, <3>2 DEF Staleness, Mark
    <3>4. pass.judged # <<>>
      BY <2>1 DEF PassWrites
    <3>5. QED
      BY <2>1, <3>1, <3>2, <3>3, <3>4 DEF BreakInv, JudgedInv
  <2>2. QED
    BY <2>1
<1>3. QED
  BY <1>1, <1>2, InvHolds, BreakInvStep, PTL DEF ProjectionSpec, OncePerBreak
=============================================================================
