---------------------------- MODULE ProcessStore ----------------------------
(***************************************************************************)
(* The process files of one department, its id ledger and its order.json,  *)
(* and the two programs that write them: the service, one handler at a     *)
(* time, and the pipeline, one `merge` at a time.                          *)
(*                                                                         *)
(* Nothing locks the one out of the other.  Every verb reads files, mints  *)
(* ids, writes whole files one by one from what it read, and at the end    *)
(* brings order.json in line; the other program may run between any two of *)
(* these.  An editor's browser holds a copy of a document meanwhile.       *)
(***************************************************************************)
EXTENDS Order

CONSTANTS
    Existing,       \* processes there are at first, made by `merge new`
    MaxId,          \* bound: the highest process number
    MaxOps,         \* bound: verbs and saves
    MaxDeaths,      \* bound: verbs that stop half way
    NoDoc           \* no such file

ASSUME StoreAssumption ==
    /\ MaxId \in Nat \ {0}
    /\ Existing \in 0..MaxId
    /\ {MaxOps, MaxDeaths} \subseteq Nat

Pid == 1..MaxId
None == 0           \* JSON null where a process is named

\* What the links need of a document: one activity node, and one proposal.
Doc == [tombstoned : BOOLEAN, supersededBy : SUBSET Pid, parent : Pid \cup {None},
        subprocess : Pid \cup {None}, pending : {"none", "open", "settled"}]

ASSUME NoDocAssumption == NoDoc \notin Doc

Program == {"service", "pipeline"}

VARIABLES
    doc,            \* doc[p]: the file of process p
    ledger,         \* .id-seq.json: the number last written to it
    whole,          \* it is whole: no write is under way in it, none was cut short
    order,          \* order.json: a sequence of ids
    job,            \* job[a]: the verb program a is in
    draft,          \* the copy an editor's browser holds
    given,          \* history: given[p]: times p was minted
    raced,          \* history: a mint wrote a number that was no longer the next, or beside another
    torn,           \* history: mints that stopped while they wrote the ledger
    gone,           \* history: processes somebody deleted
    disturbed,      \* history: a verb wrote after what it had read was changed, or stopped
    ops, deaths     \* counters for the bounds

files == <<doc, ledger, whole, order>>
history == <<given, raced, torn, gone, disturbed>>
vars == <<files, job, draft, history, ops, deaths>>

OnDisk == {p \in Pid : doc[p] # NoDoc}

Actives == {p \in OnDisk : ~doc[p].tombstoned}

NothingRead == [p \in Pid |-> NoDoc]

Idle == [verb |-> "idle", phase |-> "idle", subject |-> None, other |-> None,
         supersedes |-> <<>>, id |-> None, read |-> NothingRead, todo |-> <<>>,
         actives |-> {}, order |-> <<>>]

\* A job of `verb` on `subject`, with the documents it has loaded.
Job(verb, phase, subject, loaded) ==
    [Idle EXCEPT !.verb = verb, !.phase = phase, !.subject = subject,
                 !.read = [p \in Pid |-> IF p \in loaded THEN doc[p] ELSE NoDoc]]

Fresh(parent) == [tombstoned |-> FALSE, supersededBy |-> {}, parent |-> parent,
                  subprocess |-> None, pending |-> "none"]

Buries(d, heirs) == [d EXCEPT !.tombstoned = TRUE, !.supersededBy = heirs]

\* What job j has read or written is no longer what is there, or another file
\* stands where it is about to write p.
Overtaken(j, p) ==
    \/ doc[p] # j.read[p]
    \/ \E q \in Pid : j.read[q] # NoDoc /\ doc[q] # j.read[q]

Begins(a, j) ==
    /\ job[a] = Idle
    /\ ops < MaxOps
    /\ job' = [job EXCEPT ![a] = j]
    /\ ops' = ops + 1
    /\ UNCHANGED <<files, draft, history, deaths>>

\* The job's files, ready to be written in this order.
Writing(j, todo) == [j EXCEPT !.phase = "writing", !.todo = todo]

-----------------------------------------------------------------------------
(* allocate-id: the highest of ledger, disk and what is reserved, plus one; *)
(* two files read, one written in place, no lock.                           *)

\* What the ledger reads as; a file cut short reads as zero.
Stored == IF whole THEN ledger ELSE 0

\* A new sub-process of the pipeline may not take its parent's number.
Reserved(j) == IF j.verb = "create" THEN {None} ELSE {j.subject}

\* Mutant: the next number is scanned from the disk.
IsNextOnDisk(j, n) == n - 1 \in OnDisk \cup {0} /\ \A p \in OnDisk : p < n

IsNext(j, n) ==
    LET taken == OnDisk \cup {Stored} \cup Reserved(j) IN
    n - 1 \in taken /\ \A m \in taken : m < n

MintReads(a) ==
    /\ job[a].phase = "allocating"
    /\ \E n \in Pid : IsNext(job[a], n) /\ job' = [job EXCEPT ![a].id = n, ![a].phase = "minting"]
    /\ UNCHANGED <<files, draft, history, ops, deaths>>

\* The ledger is opened, and with that emptied.
MintOpens(a) ==
    /\ job[a].phase = "minting"
    /\ whole' = FALSE
    /\ raced' = (raced \/ ~IsNext(job[a], job[a].id) \/ \E b \in Program : job[b].phase = "storing")
    /\ job' = [job EXCEPT ![a].phase = "storing"]
    /\ UNCHANGED <<doc, ledger, order, draft, given, torn, gone, disturbed, ops, deaths>>

\* What a verb writes that has minted j.id, from the documents it has loaded;
\* the parent of `merge new` is in memory alone.
MintedWrites(j) ==
    LET known == IF j.verb = "new" THEN Fresh(None) ELSE j.read[j.subject]
        child == <<j.id, Fresh(j.subject)>>
        parent == <<j.subject, [known EXCEPT !.subprocess = j.id]>>
    IN  IF j.subject = None THEN <<child>>
        ELSE IF j.verb = "create" THEN <<child, parent>>
        ELSE <<parent, child>>

\* What a verb does next that has minted j.id: a `new` with a sub-process goes
\* on to mint the number of that.
Minted(j) ==
    CASE j.verb = "restructure" -> [j EXCEPT !.phase = "loading"]
      [] j.verb = "nest" -> [j EXCEPT !.verb = "new", !.phase = "allocating", !.subject = j.id]
      [] OTHER -> Writing(j, MintedWrites(j))

MintWrites(a) ==
    LET j == job[a] IN
    /\ j.phase = "storing"
    /\ ledger' = j.id
    /\ whole' = TRUE
    /\ given' = [given EXCEPT ![j.id] = @ + 1]
    /\ job' = [job EXCEPT ![a] = Minted(j)]
    /\ UNCHANGED <<doc, order, draft, raced, torn, gone, disturbed, ops, deaths>>

-----------------------------------------------------------------------------
(* The verbs, up to their first write.                                     *)

\* POST /api/processes: the parent's guards come before the id is minted.
Create(p) ==
    /\ p # None => p \in OnDisk /\ doc[p].subprocess = None
    /\ Begins("service", Job("create", "allocating", p, {p}))

\* merge new, of a candidate without or with a sub-process.
New(verb) == Begins("pipeline", Job(verb, "allocating", None, {}))

\* merge update: a new proposal, or a new sub-process under the free node.
UpdateProposes(p) ==
    /\ p \in OnDisk
    /\ doc[p].pending = "none"
    /\ Begins("pipeline", Writing(Job("update", "writing", p, {p}),
                                  <<<<p, [doc[p] EXCEPT !.pending = "open"]>>>>))

UpdateDecomposes(p) ==
    /\ p \in OnDisk
    /\ doc[p].subprocess = None
    /\ Begins("pipeline", Job("update", "allocating", p, {p}))

\* merge remove
RemoveProcess(p) ==
    /\ p \in OnDisk
    /\ Begins("pipeline", Writing(Job("remove", "writing", p, {p}), <<<<p, Buries(doc[p], {})>>>>))

\* merge accept | reject, by the pipeline or by POST .../pending/{index}.
Settle(a, p) ==
    /\ p \in OnDisk
    /\ doc[p].pending = "open"
    /\ Begins(a, Writing(Job("settle", "writing", p, {p}),
                         <<<<p, [doc[p] EXCEPT !.pending = "settled"]>>>>))

\* The parent of p in the documents d.
ParentIn(d, p) == IF p \in Pid /\ d[p] # NoDoc THEN d[p].parent ELSE None

\* The way up from p, None after its end.
Climb(d, p) ==
    LET met[n \in 1..(MaxId + 1)] == ParentIn(d, IF n = 1 THEN p ELSE met[n - 1])
    IN  [n \in 1..(MaxId + 1) |-> met[n]]

\* Those met on the way up.
Above(d, p) == ToSet(Climb(d, p)) \ {None}

\* Mutant: the cycle guard compares the two alone.
NotItself(d, c, p) == c # p

\* The walk from the new parent p upwards does not meet c.  It starts above p.
NotBeneath(d, c, p) == c \notin Above(d, p)

\* merge attach-subprocess
Attach(p, c) ==
    /\ {p, c} \subseteq OnDisk
    /\ doc[p].subprocess = None
    /\ NotBeneath(doc, c, p)
    /\ Begins("pipeline",
              Writing([Job("attach", "writing", p, {p, c}) EXCEPT !.other = c],
                      <<<<p, [doc[p] EXCEPT !.subprocess = c]>>,
                        <<c, [doc[c] EXCEPT !.parent = p]>>>>))

\* merge restructure: one heir that supersedes the processes of a sequence
\* and may adopt a child.
Restructure(supersedes, c) ==
    Begins("pipeline", [Job("restructure", "allocating", None, {})
                            EXCEPT !.supersedes = supersedes, !.other = c])

\* 3a, for one superseded process s: the node it hung under passes to the heir.
Retarget(d, s, h) ==
    LET q == d[s].parent IN
    IF q # None /\ d[q].subprocess = s
    THEN [d EXCEPT ![q].subprocess = h, ![h].parent = q]
    ELSE d

\* What the plan makes of the documents d: the originals buried, their parents'
\* nodes retargeted, the child adopted.
Restructured(d, j) ==
    LET buried == [p \in Pid |-> IF p = j.id THEN Fresh(None)
                              ELSE IF p \in ToSet(j.supersedes) THEN Buries(d[p], {j.id})
                              ELSE d[p]]
        after[n \in 0..Len(j.supersedes)] ==
            IF n = 0 THEN buried ELSE Retarget(after[n - 1], j.supersedes[n], j.id)
        hung == after[Len(j.supersedes)]
    IN  IF j.other = None THEN hung
        ELSE [hung EXCEPT ![j.id].subprocess = j.other, ![j.other].parent = j.id]

\* The plan without its child's link.
Hung(j) == Restructured(doc, [j EXCEPT !.other = None])

\* What the plan reads from disk besides the originals: their parents, the
\* child, and the heir's ancestors when the child's link is judged.  The heir
\* itself is in memory, whatever another program wrote under its id.
Neighbours(j) ==
    ({doc[s].parent : s \in ToSet(j.supersedes)} \cup {j.other}
        \cup (IF j.other = None THEN {} ELSE Above(Hung(j), j.id)))
    \ ({None, j.id} \cup ToSet(j.supersedes))

\* No original and no neighbour is missing, and the child is not above the heir.
Closed(j) ==
    /\ ToSet(j.supersedes) \subseteq OnDisk
    /\ {doc[s].parent : s \in ToSet(j.supersedes)} \subseteq OnDisk \cup {None, j.id}
    /\ Neighbours(j) \subseteq OnDisk
    /\ j.other # None => j.other # j.id /\ NotBeneath(Hung(j), j.other, j.id)

\* The neighbours as they were first loaded: the originals' parents, the child,
\* the heir's ancestors from below.
LoadOrder(j) ==
    LET parents == [i \in DOMAIN j.supersedes |-> doc[j.supersedes[i]].parent]
    IN  Dedup(Held(parents \o <<j.other>> \o Climb(Hung(j), j.id), Neighbours(j)))

\* Mutant: the originals are written before their heir.
PlanFilesBurialsFirst(j) == j.supersedes \o LoadOrder(j) \o <<j.id>>

\* The heir, the neighbours that were loaded, then the originals.
PlanFiles(j) == <<j.id>> \o LoadOrder(j) \o j.supersedes

RestructureLoads ==
    LET j == job["pipeline"]
        result == Restructured(doc, j)
        plan == PlanFiles(j)
        loaded == [j EXCEPT !.read = [p \in Pid |->
                        IF p \in Neighbours(j) \cup ToSet(j.supersedes) THEN doc[p] ELSE NoDoc]]
    IN  /\ j.phase = "loading"
        /\ Closed(j)
        /\ job' = [job EXCEPT !["pipeline"] =
                        Writing(loaded, [i \in DOMAIN plan |-> <<plan[i], result[plan[i]]>>])]
        /\ UNCHANGED <<files, draft, history, ops, deaths>>

\* A plan that names a missing process or closes a loop is refused by name;
\* the heir's id is spent.
RestructureRefused ==
    /\ job["pipeline"].phase = "loading"
    /\ ~Closed(job["pipeline"])
    /\ job' = [job EXCEPT !["pipeline"] = Idle]
    /\ UNCHANGED <<files, draft, history, ops, deaths>>

\* DELETE /api/processes/{pid}: any process on disk, tombstoned or not.
Delete(p) ==
    /\ p \in OnDisk
    /\ Begins("service", Writing(Job("delete", "writing", p, {p}), <<<<p, NoDoc>>>>))

\* GET, and a PUT of the copy later.  Tombstoned processes are view-only.
ClientLoads(p) ==
    /\ p \in Actives
    /\ draft' = [pid |-> p, doc |-> doc[p]]
    /\ UNCHANGED <<files, job, history, ops, deaths>>

Save ==
    /\ draft.pid # None
    /\ Begins("service", [Writing(Job("save", "writing", draft.pid, {}),
                                  <<<<draft.pid, draft.doc>>>>)
                            EXCEPT !.read = [NothingRead EXCEPT ![draft.pid] = draft.doc]])

-----------------------------------------------------------------------------
(* Writes, the sweep of a delete, the order, and stopping half way.        *)

\* After its last file a delete sweeps, a save is done, the others sync.
AfterWriting(j) ==
    CASE j.verb = "delete" -> [j EXCEPT !.phase = "sweeping", !.todo = <<>>, !.read = NothingRead]
      [] j.verb = "save" -> Idle
      [] OTHER -> [j EXCEPT !.phase = "syncing", !.todo = <<>>, !.read = NothingRead]

Writes(a) ==
    LET j == job[a]
        p == j.todo[1][1]
        new == j.todo[1][2]
    IN  /\ j.phase = "writing"
        /\ doc' = [doc EXCEPT ![p] = new]
        /\ disturbed' = (disturbed \/ Overtaken(j, p))
        /\ job' = [job EXCEPT ![a] = IF Len(j.todo) = 1 THEN AfterWriting(j)
                                     ELSE [j EXCEPT !.todo = Tail(@), !.read[p] = new]]
        /\ gone' = IF new = NoDoc THEN gone \cup {p} ELSE gone
        /\ UNCHANGED <<ledger, whole, order, draft, given, raced, torn, ops, deaths>>

\* A document without its links to p.
Swept(d, p) == [d EXCEPT !.subprocess = IF @ = p THEN None ELSE @,
                         !.parent = IF @ = p THEN None ELSE @]

\* The sweep goes through the files in id order; the file it is about to
\* write waits in todo, the last one seen in `other`.
SweepReads ==
    LET j == job["service"]
        p == j.other + 1
    IN  /\ j.phase = "sweeping"
        /\ j.todo = <<>>
        /\ p \in Pid
        /\ job' = [job EXCEPT !["service"] =
                      IF doc[p] # NoDoc /\ Swept(doc[p], j.subject) # doc[p]
                      THEN [j EXCEPT !.other = p, !.read[p] = doc[p],
                                     !.todo = <<<<p, Swept(doc[p], j.subject)>>>>]
                      ELSE [j EXCEPT !.other = p]]
        /\ UNCHANGED <<files, draft, history, ops, deaths>>

SweepWrites ==
    LET j == job["service"]
        p == j.todo[1][1]
    IN  /\ j.phase = "sweeping"
        /\ j.todo # <<>>
        /\ doc' = [doc EXCEPT ![p] = j.todo[1][2]]
        /\ disturbed' = (disturbed \/ doc[p] # j.read[p])
        /\ job' = [job EXCEPT !["service"].todo = <<>>, !["service"].read[p] = NoDoc]
        /\ UNCHANGED <<ledger, whole, order, draft, given, raced, torn, gone, ops, deaths>>

SweepEnds ==
    /\ job["service"].phase = "sweeping"
    /\ job["service"].todo = <<>>
    /\ job["service"].other = MaxId
    /\ job' = [job EXCEPT !["service"].phase = "syncing"]
    /\ UNCHANGED <<files, draft, history, ops, deaths>>

\* PUT .../order: a sequence the reader of the panel chose.
SetOrder(seq) ==
    /\ ExactlyThe(Actives, seq)
    /\ Begins("service", [Idle EXCEPT !.verb = "set", !.phase = "setting", !.actives = Actives,
                                      !.order = seq])

\* order move: one id of the stored sequence to another place.
MoveInOrder(p, to) ==
    /\ Placed(p, order)
    /\ to \in DOMAIN Dedup(order)
    /\ Begins("pipeline", [Idle EXCEPT !.verb = "move", !.phase = "setting",
                                       !.actives = ToSet(order),
                                       !.order = Moved(Dedup(order), p, to)])

\* What a sequence was made from: the active processes, or the one on disk.
MadeFrom(j) == IF j.verb = "move" THEN ToSet(order) ELSE Actives

OrderSet(a) ==
    LET j == job[a] IN
    /\ j.phase = "setting"
    /\ order' = j.order
    /\ disturbed' = (disturbed \/ MadeFrom(j) # j.actives)
    /\ job' = [job EXCEPT ![a] = Idle]
    /\ UNCHANGED <<doc, ledger, whole, draft, given, raced, torn, gone, ops, deaths>>

SyncReads(a) ==
    /\ job[a].phase = "syncing"
    /\ job' = [job EXCEPT ![a].phase = "ordering", ![a].actives = Actives, ![a].order = order]
    /\ UNCHANGED <<files, draft, history, ops, deaths>>

HeirHints(j) ==
    IF j.verb = "restructure" /\ j.supersedes # <<>>
    THEN [h \in {j.id} |-> ToSet(j.supersedes)] ELSE NoHints

ChildHints(j) ==
    IF j.verb = "update" /\ j.id # None THEN [p \in {j.subject} |-> {j.id}] ELSE NoHints

SyncWrites(a) ==
    LET j == job[a] IN
    /\ j.phase = "ordering"
    /\ order' = Reconciled(j.actives, j.order, HeirHints(j), ChildHints(j))
    /\ disturbed' = (disturbed \/ order # j.order \/ Actives # j.actives)
    /\ job' = [job EXCEPT ![a] = Idle]
    /\ UNCHANGED <<doc, ledger, whole, draft, given, raced, torn, gone, ops, deaths>>

\* Killed, out of disk, an unreadable sibling, a document the schema refuses:
\* a verb stops where it is, and nothing is taken back; a ledger it has emptied
\* stays empty.
Stops(a) ==
    /\ job[a] # Idle
    /\ deaths < MaxDeaths
    /\ deaths' = deaths + 1
    /\ disturbed' = TRUE
    /\ torn' = IF job[a].phase = "storing" THEN torn + 1 ELSE torn
    /\ job' = [job EXCEPT ![a] = Idle]
    /\ UNCHANGED <<files, draft, given, raced, gone, ops>>

-----------------------------------------------------------------------------
NoDraft == [pid |-> None, doc |-> NoDoc]

Init ==
    /\ doc = [p \in Pid |-> IF p <= Existing THEN Fresh(None) ELSE NoDoc]
    /\ ledger = Existing
    /\ whole = TRUE
    /\ order = InIdOrder(1..Existing)
    /\ job = [a \in Program |-> Idle]
    /\ draft = NoDraft
    /\ given = [p \in Pid |-> IF p <= Existing THEN 1 ELSE 0]
    /\ raced = FALSE
    /\ torn = 0
    /\ gone = {}
    /\ disturbed = FALSE
    /\ ops = 0
    /\ deaths = 0

Plan == {<<p>> : p \in Pid} \cup {s \in Pid \X Pid : s[1] # s[2]}

ServiceVerb ==
    \/ \E p \in Pid \cup {None} : Create(p)
    \/ \E p \in Pid : Settle("service", p) \/ Delete(p)
    \/ Save
    \/ \E seq \in SetToSeqs(Actives) : SetOrder(seq)

PipelineVerb ==
    \/ \E verb \in {"new", "nest"} : New(verb)
    \/ \E p \in Pid : UpdateProposes(p) \/ UpdateDecomposes(p) \/ RemoveProcess(p) \/ Settle("pipeline", p)
    \/ \E p, c \in Pid : Attach(p, c) \/ MoveInOrder(p, c)
    \/ \E s \in Plan, c \in Pid \cup {None} : Restructure(s, c)

Next ==
    \/ ServiceVerb
    \/ PipelineVerb
    \/ \E p \in Pid : ClientLoads(p)
    \/ \E a \in Program : MintReads(a) \/ MintOpens(a) \/ MintWrites(a) \/ Writes(a)
                            \/ SyncReads(a) \/ SyncWrites(a) \/ OrderSet(a) \/ Stops(a)
    \/ RestructureLoads
    \/ RestructureRefused
    \/ SweepReads
    \/ SweepWrites
    \/ SweepEnds

Spec == Init /\ [][Next]_vars

-----------------------------------------------------------------------------
(* Properties.                                                             *)

Quiet == \A a \in Program : job[a] = Idle

\* Every file is a document, every job has a phase, and numbers are numbers.
TypeOK ==
    /\ doc \in [Pid -> Doc \cup {NoDoc}]
    /\ ledger \in Nat /\ whole \in BOOLEAN /\ torn \in Nat
    /\ ToSet(order) \subseteq Pid
    /\ DOMAIN job = Program
    /\ draft.pid \in Pid \cup {None}
    /\ gone \subseteq Pid

\* Unless two mints overlap (one writes a number that is no longer the next), an
\* id is given once, and once more for each time a mint stopped between emptying
\* the ledger and writing it, however verbs interleave, stop half way and delete.
IdsGivenOnce == raced \/ \A p \in Pid : given[p] <= 1 + torn

\* Between verbs order.json holds the active processes, each once, unless a
\* verb stopped half way or wrote after what it had read was changed.
OrderIsTheActives == Quiet /\ ~disturbed => ExactlyThe(Actives, order)

\* Between verbs no link names a process that is not there.
LinksResolve ==
    Quiet /\ ~disturbed =>
        \A p \in OnDisk : {doc[p].parent, doc[p].subprocess} \subseteq OnDisk \cup {None}

\* No process is above itself, but one that was attached to itself, unless two
\* mints overlapped or a verb wrote after what it had read was changed.
NoLoops == disturbed \/ raced \/ \A p \in OnDisk : p \in Above(doc, p) => doc[p].parent = p

\* What a department is between verbs: its files are documents, its sequence is
\* of its active processes, and the links of the hierarchy lead up to an end.
DepartmentIsSound == TypeOK /\ OrderIsTheActives /\ LinksResolve /\ NoLoops

\* A process is retired in favour of heirs that are on disk, whatever moment
\* a restructure stops at; they leave only when somebody deletes them.
HeirsBeforeBurial == \A p \in OnDisk : doc[p].supersededBy \subseteq OnDisk \cup gone

Before(seq, p, q) == Placed(p, seq) /\ Placed(q, seq) /\ IndexOf(p, seq) < IndexOf(q, seq)

\* What becomes of the order when program a's sync lands on the sequence it
\* read: what stays keeps its order, and an heir takes the lowest place.
KeepsCuration(a) ==
    LET j == job[a]
        old == ToSet(j.supersedes)
    IN  (j.phase = "ordering" /\ job'[a] = Idle /\ order' # order /\ order = j.order) =>
            \A p \in ToSet(order) \cap ToSet(order') :
                /\ \A q \in ToSet(order) \cap ToSet(order') :
                        Before(order, p, q) <=> Before(order', p, q)
                /\ (Placed(j.id, order') /\ ~Placed(j.id, order) /\ \E s \in old : Placed(s, order)) =>
                        (Before(order', p, j.id) <=> \A s \in old : Placed(s, order) => Before(order, p, s))

\* A sync that lands on the sequence it read keeps the curated order of what
\* stays, and an heir takes the place of the first process it supersedes.
CurationKept == [][\A a \in Program : KeepsCuration(a)]_<<order, job>>

=============================================================================
