------------------------------ MODULE FactsRun ------------------------------
(***************************************************************************)
(* A facts run from the owner's files to the delta that is applied         *)
(* (engine/facts_plan: build.py, cli.py, assemble.py; extract_attachment). *)
(* Nothing but files records where a run is: the cached texts, plan.json,  *)
(* each unit's out.N.json, the review and its stamp, facts-delta.json.     *)
(* The coordinator polls, sends agents to the units that are open, and     *)
(* goes on when none is; agents write documents, or die.                   *)
(*                                                                         *)
(* An estate of FactsPlan also says where its run starts and what may      *)
(* happen in it: work, the files' contents; contents they may get;         *)
(* groupings and reviews that may be written; store, the entries there     *)
(* are; answers, for a unit and an attempt the documents it may get; goes, *)
(* whether the run is followed beyond its plan; limit, how often each      *)
(* accident may happen.                                                    *)
(***************************************************************************)
EXTENDS FactsFold

CONSTANT Estates

-----------------------------------------------------------------------------
(* The estates there may be.  A candidate is minted off a workbook the plan*)
(* groups, or off a script one of them names (plans_here), and 0 is no     *)
(* workbook's name or key.  An entry that is kept is given its key, and a  *)
(* split the key of each part, in a unit's document as in a review         *)
(* (facts-unit.schema.json).                                               *)

Bounds == {"edits", "torn", "crossed", "builds", "deaths", "faults", "losses"}
KeysGiven(d) == d.keys \in Seq(Nat) /\ (d.act \in {"keep", "split"} => d.keys # <<>>)
DecisionFields == {"act", "into", "keys", "refs", "home", "link", "val", "ok", "sound"}
IsDecision(d, fields) ==
    DOMAIN d = fields /\ d.act \in {"keep", "drop", "merge", "split"} /\ d.ok \in BOOLEAN /\ KeysGiven(d)
IsDocument(doc) ==
    /\ doc.torn \in BOOLEAN /\ doc.whole \in BOOLEAN
    /\ \A c \in DOMAIN doc.dec : IsDecision(doc.dec[c], DecisionFields)
    /\ Len(doc.new) \in Nat /\ DOMAIN doc.new = 1..Len(doc.new)
    /\ \A i \in DOMAIN doc.new : IsDecision(doc.new[i], DecisionFields \cup {"kind", "src"}) /\ doc.new[i].act = "keep"
DocumentFields == {"torn", "whole", "dec", "new"}
IsReview(r) ==
    /\ Len(r.of) \in Nat /\ DOMAIN r.of = 1..Len(r.of)
    /\ \A n \in DOMAIN r.of : r.of[n].act \in {"keep", "drop", "merge", "split", "fix"} /\ KeysGiven(r.of[n])
IsCandidate(e, c) ==
    /\ c[2] \in Nat /\ c = <<"S", c[2]>>
    /\ e.cands[c].at \subseteq Nat \X Nat /\ e.cands[c].size \in Nat
    /\ Homes(e, c) = {} => e.cands[c].script \in Shorts(e)
EstateFields == {"books", "cands", "talks", "files", "work", "contents", "groupings", "reviews",
                 "store", "answers", "goes", "limit"}
IsEstate(e) ==
    /\ DOMAIN e = EstateFields
    /\ e.limit \in [Bounds -> Nat]
    /\ e.books \in Seq([short : Nat \ {0}, key : Nat \ {0}, twin : Nat, alone : BOOLEAN])
    /\ IsFiniteSet(DOMAIN e.cands)
    /\ \A c \in DOMAIN e.cands : IsCandidate(e, c)
    /\ e.talks \in Seq(Seq(Nat))
    /\ IsFiniteSet(DOMAIN e.files) /\ DOMAIN e.files \subseteq Nat /\ DOMAIN e.work = DOMAIN e.files
    /\ \A u \in DOMAIN e.answers : \A n \in DOMAIN e.answers[u] : \A doc \in e.answers[u][n] :
           DOMAIN doc = DocumentFields /\ IsDocument(doc)
    /\ \A r \in e.reviews : DOMAIN r = {"torn", "of"} /\ IsReview(r)

ASSUME EstatesAssumption == \A e \in Estates : IsEstate(e)

-----------------------------------------------------------------------------
VARIABLES
    estate,     \* the estate of this run
    work,       \* each file's content, NoText when it is not there
    cache,      \* each cached text and the digest beside it
    groups,     \* the grouping of the photos, {} when none is written
    store,      \* the ids of the store's entries
    plan,       \* plan.json and skeleton.json
    out,        \* each unit's attempts, in order
    asked,      \* the units an agent is at work on
    told,       \* what each transcript unit was told of phase 1
    stamp,      \* the digest the reviewer is given
    review,     \* the review, as last written
    delta,      \* facts-delta.json and assembly.json
    end,        \* how the run ended, "run" while it goes on
    left        \* what is left of each bound
vars == <<estate, work, cache, groups, store, plan, out, asked, told, stamp, review, delta, end, left>>

NoPlan == [made |-> FALSE, units |-> {}, aside |-> {}, over |-> {}, unread |-> {},
           shown |-> <<>>, of |-> <<>>]
NotTold == [is |-> FALSE, of |-> {}]
NoStamp == [is |-> FALSE, of |-> [rows |-> {}, dropped |-> {}]]
NoReview == [is |-> FALSE, torn |-> FALSE, of |-> <<>>, for |-> NoStamp.of]
NoDelta == [is |-> FALSE, entries |-> {}, held |-> {}, dropped |-> {}, losers |-> {},
            reviewHeld |-> {}]

Init ==
    /\ estate \in Estates
    /\ work = estate.work
    /\ cache = [s \in {estate.files[f].side : f \in DOMAIN estate.files} |->
                   [text |-> NoText, digest |-> NoText]]
    /\ groups = {} /\ store = estate.store /\ plan = NoPlan
    /\ out = <<>> /\ asked = {} /\ told = <<>>
    /\ stamp = NoStamp /\ review = NoReview /\ delta = NoDelta
    /\ end = "run" /\ left = estate.limit

Files == <<work, cache, groups>>
Reviewing == <<stamp, review>>
Spends(what) == left[what] > 0 /\ left' = [left EXCEPT ![what] = @ - 1]

-----------------------------------------------------------------------------
(* The files *)

Edit(f, c) ==
    /\ end = "run" /\ work[f] # c /\ Spends("edits")
    /\ work' = [work EXCEPT ![f] = c]
    /\ UNCHANGED <<estate, cache, groups, store, plan, out, asked, told, Reviewing, delta, end>>

\* extract-attachment reads a file for its digest and again for its text, and
\* writes the text and then the digest, file by file; one that fails costs the
\* others nothing.  It may stop between the two writes, and its owner may save
\* the file between the two reads.
Converts(f) ==
    /\ end = "run" /\ f \in Convertible(estate, work)
    /\ NeedsConversion(work, cache, estate.files[f].side, f)
Convert(f) ==
    /\ Converts(f)
    /\ cache' = [cache EXCEPT ![estate.files[f].side] = [text |-> work[f], digest |-> work[f]]]
    /\ UNCHANGED <<estate, work, groups, store, plan, out, asked, told, Reviewing, delta, end, left>>
ConvertTorn(f) ==
    /\ Converts(f) /\ Spends("torn")
    /\ cache' = [cache EXCEPT ![estate.files[f].side] = [@ EXCEPT !.text = work[f]]]
    /\ UNCHANGED <<estate, work, groups, store, plan, out, asked, told, Reviewing, delta, end>>

ConvertCrossed(f, c) ==
    /\ Converts(f) /\ c \notin {NoText, work[f]} /\ Spends("crossed")
    /\ work' = [work EXCEPT ![f] = c]
    /\ cache' = [cache EXCEPT ![estate.files[f].side] = [text |-> c, digest |-> work[f]]]
    /\ UNCHANGED <<estate, groups, store, plan, out, asked, told, Reviewing, delta, end>>

GroupPhotos(g) ==
    /\ end = "run" /\ ~ plan.made /\ groups = {} /\ Photos(estate, work) # {}
    /\ groups' = g
    /\ UNCHANGED <<estate, work, cache, store, plan, out, asked, told, Reviewing, delta, end, left>>

-----------------------------------------------------------------------------
(* Planning *)

Kinds == [c \in DOMAIN estate.cands |-> estate.cands[c].kind]
State(u) == StateOf(Kinds, out[u.id])
Names(units) == {u.id : u \in units}

\* A plan with a unit already done is replaced only when told to.
MayReplan == ~ plan.made \/ \A u \in plan.units : State(u) \notin {"done", "retry"}
Build(anyway) ==
    /\ end = "run" /\ asked = {} /\ ~ delta.is /\ Spends("builds")
    /\ anyway \/ MayReplan
    /\ \E p \in {Plan(estate, work, cache, groups)} :
          IF Refused(estate, work, cache, p)
          THEN /\ end' = "refused"
               /\ UNCHANGED <<plan, out, told>>
          ELSE /\ plan' = With(p, [made |-> TRUE, of |-> work])
               /\ out' = [u \in DOMAIN out \cup Names(p.units) |->
                             IF u \in DOMAIN out THEN out[u] ELSE <<>>]
               /\ told' = [u \in {x.id : x \in {y \in p.units : y.phase = 2}} |-> NotTold]
               /\ end' = end
    /\ UNCHANGED <<estate, Files, store, asked, Reviewing, delta>>

-----------------------------------------------------------------------------
(* Polling and answering *)

Run(only) == RunOf([estate EXCEPT !.store = store], plan, out, only)
InPhase(n) == {u \in plan.units : u.phase = n}
Open(units) == {u \in units : State(u) \in {"pending", "retry"}}
\* Defect: no transcript is read until every form is decided.
OpenOrWaiting == IF \E u \in InPhase(1) : State(u) # "done" THEN Open(InPhase(1)) ELSE Open(InPhase(2))
\* Defect: all open units at once.
OpenAtOnce == Open(plan.units)
OpenNow == IF Open(InPhase(1)) # {} THEN Open(InPhase(1)) ELSE Open(InPhase(2))
Decided == plan.made /\ Open(plan.units) = {}

\* Attempts that cannot be read are removed and cost nothing.  Once phase 1 is
\* over the transcripts are told, one after the other, what it recorded; where
\* that fails the rest is not told, which stops nothing.  Then agents are sent
\* to what is open.
Untold == {u \in DOMAIN told : Open(InPhase(1)) = {} /\ ~ told[u].is}
ToldNow == RecordedSlice(PhaseEntries(Run(Names(InPhase(1)))))
Poll(reached) ==
    /\ end = "run" /\ estate.goes /\ plan.made /\ asked = {} /\ OpenNow # {}
    /\ out' = [u \in DOMAIN out |-> Readable(out[u])]
    /\ asked' = Names(OpenNow)
    /\ reached \subseteq Untold /\ \A u \in reached : \A v \in Untold : Before(v, u) => v \in reached
    /\ IF reached = Untold THEN left' = left ELSE Spends("faults")
    /\ \E slice \in {ToldNow} :
          told' = [u \in DOMAIN told |->
                      IF u \in reached THEN [is |-> TRUE, of |-> slice] ELSE told[u]]
    /\ UNCHANGED <<estate, Files, store, plan, Reviewing, delta, end>>

\* What a unit reads, kept beside each answer: the files do not record it.
InputsOf(u) == LET x == CHOOSE y \in plan.units : y.id = u
               IN [files |-> [f \in x.files |-> plan.shown[f]], lines |-> x.lines, cands |-> x.cands]
Attempt(u) == Len(Readable(out[u])) + 1
Writes(u, doc) ==
    /\ out' = [out EXCEPT ![u] = Append(@, With(doc, [for |-> InputsOf(u)]))]
    /\ asked' = asked \ {u}
Answers(u) ==
    /\ u \in asked
    /\ u \in DOMAIN estate.answers /\ Attempt(u) \in DOMAIN estate.answers[u]
    /\ \E doc \in estate.answers[u][Attempt(u)] : Writes(u, doc)
    /\ UNCHANGED <<estate, Files, store, plan, told, Reviewing, delta, end, left>>
\* An agent dies, having written half a document or none.
Dies(u, half) ==
    /\ u \in asked /\ Spends("deaths")
    /\ IF half THEN Writes(u, Torn) ELSE asked' = asked \ {u} /\ out' = out
    /\ UNCHANGED <<estate, Files, store, plan, told, Reviewing, delta, end>>

-----------------------------------------------------------------------------
(* The review, the delta and its end *)

Ready == end = "run" /\ estate.goes /\ Decided /\ asked = {} /\ ~ delta.is
Shown == Digest(Built(Run(Names(plan.units)), Decisions(Run(Names(plan.units)))))

\* A digest leaves the review there is: it is of this assembly from now on,
\* whatever the reviewer read.
DigestStep ==
    /\ Ready /\ ~ (stamp.is /\ stamp.of = Shown)
    /\ stamp' = [is |-> TRUE, of |-> Shown]
    /\ UNCHANGED <<estate, Files, store, plan, out, asked, told, review, delta, end, left>>

\* A reviewer writes once for the digest it was given; for is that digest, and
\* the file does not record it.
ReviewerWrites(r) ==
    /\ Ready /\ stamp.is /\ (review.is => review.for # stamp.of)
    /\ review' = With(r, [is |-> TRUE, for |-> stamp.of])
    /\ UNCHANGED <<estate, Files, store, plan, out, asked, told, stamp, delta, end, left>>

\* A digest of another assembly stops the verb; a review that cannot be read
\* is held back whole.
Assemble ==
    /\ Ready /\ stamp.is
    /\ review.is /\ ~ review.torn => stamp.of = Shown
    /\ \E a \in {Assembled(Run(Names(plan.units)),
                          IF review.is /\ ~ review.torn THEN review.of ELSE <<>>)} :
          IF a.ok
          THEN /\ delta' = [is |-> TRUE, entries |-> a.entries, held |-> a.held,
                            dropped |-> a.dropped, losers |-> a.losers, reviewHeld |-> a.reviewHeld]
               /\ end' = end
          ELSE /\ end' = "stopped" /\ delta' = delta
    /\ UNCHANGED <<estate, Files, store, plan, out, asked, told, Reviewing, left>>

Apply ==
    /\ end = "run" /\ delta.is
    /\ end' = "applied"
    /\ UNCHANGED <<estate, Files, store, plan, out, asked, told, Reviewing, delta, left>>

\* Another run's apply retires an entry of the store.
StoreLoses(id) ==
    /\ end = "run" /\ id \in store /\ Spends("losses")
    /\ store' = store \ {id}
    /\ UNCHANGED <<estate, Files, plan, out, asked, told, Reviewing, delta, end>>

-----------------------------------------------------------------------------
Next ==
    \/ \E f \in DOMAIN work : Convert(f) \/ ConvertTorn(f) \/ \E c \in estate.contents : Edit(f, c) \/ ConvertCrossed(f, c)
    \/ \E g \in estate.groupings : GroupPhotos(g)
    \/ \E anyway \in BOOLEAN : Build(anyway)
    \/ \E reached \in SUBSET DOMAIN told : Poll(reached)
    \/ \E u \in asked : Answers(u) \/ \E half \in BOOLEAN : Dies(u, half)
    \/ \E r \in estate.reviews : ReviewerWrites(r)
    \/ DigestStep \/ Assemble \/ Apply
    \/ \E id \in store : StoreLoses(id)

Spec == Init /\ [][Next]_vars

\* The coordinator sends agents as long as something is open, and an agent that
\* is sent answers or dies; nobody owes an edit, a rebuild or a review.  Each
\* step is named by what it does to asked, which no other step does.
Sends == /\ end = "run" /\ estate.goes /\ plan.made /\ asked = {} /\ OpenNow # {}
         /\ asked' = Names(OpenNow)
Returns == \E u \in asked : asked' = asked \ {u}
Fairness == WF_asked(Sends) /\ WF_asked(Returns)
FairSpec == Spec /\ Fairness

-----------------------------------------------------------------------------
(* Properties *)

Happened(what) == left[what] < estate.limit[what]

\* A build never refuses its own plan, and a unit it could not fit holds no
\* candidate and nothing that could still be divided (plan_units, _set_aside).
PlanIsWhole ==
    /\ end # "refused"
    /\ \A u \in plan.units : ~ Fits(estate, u) => u.cands = {} /\ Cardinality(u.lines) <= 1

\* Every file of the department is shown to a unit as it stood when the run
\* was planned, or named to the owner as unread (_attachment_state), unless a
\* conversion stopped between a text and its digest, or a file was saved again
\* while it was being converted.
ShownAsItIs ==
    plan.made =>
        \A f \in DOMAIN plan.of :
            \/ plan.of[f] = NoText \/ estate.files[f].kind = "plain"
            \/ f \in plan.unread
            \/ f \in DOMAIN plan.shown /\ plan.shown[f] = plan.of[f]
            \/ Happened("torn") \/ Happened("crossed")

\* A unit is given up only after two documents of its own, each refused whole:
\* an agent's death costs it nothing (unit_states); a plan replaced under the
\* attempts of the one before it is the exception (check_rebuild).
NobodyFailsUnasked ==
    \A u \in plan.units :
        State(u) = "failed" =>
            \/ Cardinality({i \in DOMAIN out[u.id] :
                               LET d == out[u.id][i]
                               IN ~ d.torn /\ d.whole /\ d.for = InputsOf(u.id)}) >= MaxAttempts
            \/ left.builds < estate.limit.builds - 1

\* What a unit's gate has let through is never lost to a later attempt of the
\* same unit: whatever its first attempts came to, all of them come to (_overlay).
Has(u, attempts) ==
    LET a == Answer(Kinds, u, attempts)
    IN (DOMAIN a.dec) \cup {<<a.new[i].kind, a.new[i].keys>> : i \in {j \in DOMAIN a.new : a.new[j].ok}}
AdmittedStands ==
    \A u \in DOMAIN out : \A n \in DOMAIN out[u] : Has(u, SubSeq(out[u], 1, n)) \subseteq Has(u, out[u])

\* No attempt of a unit is charged to it unasked or takes back what an earlier
\* one was granted.
AttemptsAreFair == NobodyFailsUnasked /\ AdmittedStands

\* What a unit was told of these entries is a beginning of them, no longer than
\* its budget, and it ends only where the next would have gone over.
RightlyCut(heard, entries) ==
    /\ heard \subseteq entries /\ Length(heard) <= RecordedBudget
    /\ \A x \in heard : \A y \in entries : ToldBefore(y, x) => y \in heard
    /\ \A x \in entries \ heard :
           \/ Length(heard \cup {x}) > RecordedBudget
           \/ \E y \in entries \ heard : ToldBefore(y, x)
\* A transcript is read only when every form is decided, and by a unit that was
\* told what the forms record to this moment, as far as its budget goes; it
\* knows nothing of them only when telling it failed (_gate_phases, status,
\* recorded_slice).  What another run took out of the store meanwhile is the
\* exception.
FormsBeforeTalk ==
    \A u \in InPhase(2) :
        u.id \in asked =>
            /\ Open(InPhase(1)) = {}
            /\ told[u.id].is \/ Happened("faults")
            /\ told[u.id].is => \/ RightlyCut(told[u.id].of, PhaseEntries(Run(Names(InPhase(1)))))
                               \/ Happened("losses")

\* When the delta is written, every candidate, every entry a unit minted and
\* every one its gate refused is in it, was merged into something that is, was
\* dropped by a decision, or is named to the owner, itself or what took it in.
Everything == DOMAIN estate.cands
              \cup UNION {{<<"N", u.id, i>> : i \in DOMAIN Answer(Kinds, u.id, out[u.id]).new} : u \in plan.units}
NothingIsLostUnsaid ==
    delta.is =>
        Everything \subseteq (UNION {{x.id} \cup x.holds : x \in delta.entries})
                            \cup (UNION {{h.id} \cup h.with : h \in delta.held}) \cup delta.dropped

\* No delta carries a reference to something that is not in it (the test at
\* engine/tests/test_facts_plan_assemble.py:1057 says so of the whole assembly).
LandedNames == {Name(x) : x \in delta.entries}
NoDanglingRef == \A x \in delta.entries : PointsTo(x) \subseteq LandedNames
\* It holds of every reference but those to the losing one of two entries that
\* were written at the same address (_cross_unit).
LinksLand == \A x \in delta.entries : PointsTo(x) \subseteq LandedNames \cup delta.losers

\* What a review that was applied drops is not in the delta, unless two units
\* had written it or the review itself wrote it again (_fold_review).
DroppedByReviewIsGone ==
    delta.is =>
        \A n \in DOMAIN review.of :
            (review.of[n].act = "drop" /\ n \notin delta.reviewHeld /\ ~ review.torn) =>
                \/ \A x \in delta.entries : Address(x) # review.of[n].on
                \/ \E row \in stamp.of.rows : row.at = review.of[n].on /\ row.twins # {}
                \/ \E m \in DOMAIN review.of \ {n} : review.of[m].keys # <<>> \/ review.of[m].on = review.of[n].on

\* A run that is gone on with comes to where every unit is decided or given up:
\* no unit is sent for ever, and none waits for one that failed (_gate_phases).
EveryUnitSettles == plan.made /\ estate.goes ~> Decided
=============================================================================
