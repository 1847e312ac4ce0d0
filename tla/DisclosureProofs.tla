-------------------------- MODULE DisclosureProofs --------------------------
(***************************************************************************)
(* Proofs about Disclosure, Serving and FactsServing, for every set of     *)
(* departments, steps, texts, entries, people and grants, and however many *)
(* requests there are.                                                     *)
(***************************************************************************)
EXTENDS FactsServing, TLAPS

\* A document is its eight parts.
LEMMA DocParts ==
    ASSUME NEW d \in Doc, NEW e \in Doc,
           d.summary = e.summary, d.actor = e.actor, d.parent = e.parent, d.sub = e.sub,
           d.removed = e.removed, d.edges = e.edges, d.pending = e.pending,
           d.tombstoned = e.tombstoned
    PROVE  d = e
BY DEF Doc

\* Redaction and restoration leave documents, and touch nothing but links.
LEMMA LinksOnlyParts ==
    ASSUME NEW d \in Doc, NEW sees \in SUBSET Dept
    PROVE  LET e == LinksOnly(d, sees) IN
           /\ e \in Doc
           /\ e.parent = Told(d.parent, sees)
           /\ \A n \in Node : e.sub[n] = Told(d.sub[n], sees)
           /\ e.summary = d.summary /\ e.actor = d.actor /\ e.removed = d.removed
           /\ e.edges = d.edges /\ e.pending = d.pending /\ e.tombstoned = d.tombstoned
<1>1. ToldSubs(d, sees) \in [Node -> Ref] /\ Told(d.parent, sees) \in Ref
  BY DEF ToldSubs, Told, Ref, Doc
<1>2. \A n \in Node : ToldSubs(d, sees)[n] = Told(d.sub[n], sees)
  BY DEF ToldSubs
<1> QED  BY <1>1, <1>2 DEF LinksOnly, Doc

LEMMA RestoreParts ==
    ASSUME NEW d \in Doc, NEW e \in Doc, NEW sees \in SUBSET Dept
    PROVE  LET r == Restore(d, e, sees) IN
           /\ r \in Doc
           /\ r.parent = PutBack(d.parent, e.parent, sees)
           /\ \A n \in Node : r.sub[n] = PutBack(d.sub[n], e.sub[n], sees)
           /\ r.summary = d.summary /\ r.actor = d.actor /\ r.removed = d.removed
           /\ r.edges = d.edges /\ r.pending = d.pending /\ r.tombstoned = d.tombstoned
<1>1. /\ PutBackSubs(d, e, sees) \in [Node -> Ref]
      /\ PutBack(d.parent, e.parent, sees) \in Ref
  BY DEF PutBackSubs, PutBack, Doc
<1>2. \A n \in Node : PutBackSubs(d, e, sees)[n] = PutBack(d.sub[n], e.sub[n], sees)
  BY DEF PutBackSubs
<1> QED  BY <1>1, <1>2 DEF Restore, Doc

\* What redaction took away restoration puts back, whatever the caller sees.
THEOREM RestoreUndoesRedaction ==
    ASSUME NEW d \in Doc, NEW sees \in SUBSET Dept
    PROVE  Restore(LinksOnly(d, sees), d, sees) = d
<1> DEFINE e == LinksOnly(d, sees)
           r == Restore(e, d, sees)
<1>1. \A ref \in Ref : PutBack(Told(ref, sees), ref, sees) = ref
  BY DEF PutBack, Told, Ref
<1>2. /\ e \in Doc
      /\ e.parent = Told(d.parent, sees)
      /\ \A n \in Node : e.sub[n] = Told(d.sub[n], sees)
      /\ e.summary = d.summary /\ e.actor = d.actor /\ e.removed = d.removed
      /\ e.edges = d.edges /\ e.pending = d.pending /\ e.tombstoned = d.tombstoned
  BY LinksOnlyParts
<1> HIDE DEF e
<1>3. /\ r \in Doc
      /\ r.parent = PutBack(e.parent, d.parent, sees)
      /\ \A n \in Node : r.sub[n] = PutBack(e.sub[n], d.sub[n], sees)
      /\ r.summary = d.summary /\ r.actor = d.actor /\ r.removed = d.removed
      /\ r.edges = d.edges /\ r.pending = d.pending /\ r.tombstoned = d.tombstoned
  BY <1>2, RestoreParts
<1> HIDE DEF r
<1>4. d.parent \in Ref /\ d.sub \in [Node -> Ref] /\ r.sub \in [Node -> Ref]
  BY <1>3 DEF Doc
<1>5. r.parent = d.parent
  BY <1>1, <1>2, <1>3, <1>4
<1>6. r.sub = d.sub
  <2>1. \A n \in Node : r.sub[n] = d.sub[n]
    BY <1>1, <1>2, <1>3, <1>4
  <2> QED  BY <2>1, <1>4
<1>7. r = d
  BY <1>3, <1>5, <1>6, DocParts
<1> QED  BY <1>7 DEF r, e

\* A link the saver was not told of is on the document the save writes.
LEMMA RestoredLinks ==
    ASSUME NEW d \in Doc, NEW e \in Doc, NEW sees \in SUBSET Dept,
           NEW at \in Node \cup {"parent"},
           Links(e)[at] \notin sees \cup {None}
    PROVE  Links(Restore(d, e, sees))[at] = Links(e)[at]
<1> DEFINE r == Restore(d, e, sees)
<1>1. /\ r.parent = PutBack(d.parent, e.parent, sees)
      /\ \A n \in Node : r.sub[n] = PutBack(d.sub[n], e.sub[n], sees)
  BY RestoreParts
<1> HIDE DEF r
<1>2. CASE at = "parent"
  BY <1>1, <1>2 DEF Links, PutBack, r
<1>3. CASE at # "parent"
  BY <1>1, <1>3 DEF Links, PutBack, r
<1> QED  BY <1>2, <1>3

-----------------------------------------------------------------------------
(* What every step keeps.                                                  *)

Loaded == [loaded : {TRUE}, disk : Doc, sees : SUBSET Dept, held : Doc]

ClientOK == client = NoClient \/ client \in Loaded

SaveOK ==
    \/ save = NoSave
    \/ save \in [phase : {"gated"}, sees : SUBSET Dept, from : Loaded]
    \/ save \in [phase : {"read"}, sees : SUBSET Dept, from : Loaded, disk : Doc]

VouchOK ==
    \/ vouch = NoVouch
    \/ vouch \in [phase : {"shown"}, shown : read]
    \/ vouch \in [phase : {"loaded"}, now : read]

RequestOK ==
    \/ request = NoRequest
    \/ request \in [phase : {"loaded"}, doc : Doc]
    \/ request \in [phase : {"judged"}, doc : Doc, policy : SUBSET Switch]
    \/ \E d \in Doc, p \in SUBSET Switch :
           /\ Fingerprint(d) \in read
           /\ request = [phase |-> "answered", doc |-> d, body |-> Filtered(d, p, {Home})]

Inv ==
    /\ doc \in Doc
    /\ policy \in SUBSET Switch
    /\ scope \in SUBSET Dept
    /\ mark \in read \cup {<<>>}
    /\ ClientOK /\ SaveOK /\ VouchOK /\ RequestOK

LEMMA SentIsLoaded ==
    ASSUME NEW d \in Doc, NEW sees \in SUBSET Dept
    PROVE  Sent(d, sees) \in Loaded
BY LinksOnlyParts DEF Sent, Loaded

\* What a person or the pipeline makes of a document is a document.
LEMMA NewLink ==
    ASSUME NEW d \in Doc, NEW n \in Node, NEW r \in Ref
    PROVE  [d EXCEPT !.sub = [@ EXCEPT ![n] = r]] \in Doc
<1>1. [d.sub EXCEPT ![n] = r] \in [Node -> Ref]
  BY DEF Doc
<1> QED  BY <1>1 DEF Doc

LEMMA NewActor ==
    ASSUME NEW d \in Doc, NEW n \in Node, NEW t \in Text
    PROVE  [d EXCEPT !.actor = [@ EXCEPT ![n] = t]] \in Doc
<1>1. [d.actor EXCEPT ![n] = t] \in [Node -> Text]
  BY DEF Doc
<1> QED  BY <1>1 DEF Doc

LEMMA RetouchesDocs ==
    ASSUME NEW d \in Doc, NEW sees \in SUBSET Dept
    PROVE  Retouches(d, sees) \subseteq Doc
<1>1. sees \cup {None} \subseteq Ref
  BY DEF Ref
<1>2. {[d EXCEPT !.sub = [@ EXCEPT ![n] = r]] : n \in Node, r \in sees \cup {None}} \subseteq Doc
  BY <1>1, NewLink
<1>3. {[d EXCEPT !.actor = [@ EXCEPT ![n] = t]] : n \in Node, t \in Text} \subseteq Doc
  BY NewActor
<1>4. {[d EXCEPT !.parent = r] : r \in sees \cup {None}} \subseteq Doc
  BY <1>1 DEF Doc
<1>5. {[d EXCEPT !.removed = @ \cup {n}] : n \in Node} \subseteq Doc
  BY DEF Doc
<1> QED  BY <1>2, <1>3, <1>4, <1>5 DEF Retouches

LEMMA RewritesDocs ==
    ASSUME NEW d \in Doc
    PROVE  Rewrites(d) \subseteq Doc
<1>1. {[d EXCEPT !.sub = [@ EXCEPT ![n] = r]] : n \in Node, r \in Ref} \subseteq Doc
  BY NewLink
<1>2. {[d EXCEPT !.parent = r] : r \in Ref} \cup {[d EXCEPT !.summary = t] : t \in Text} \subseteq Doc
  BY DEF Doc
<1>3. {[d EXCEPT !.tombstoned = ~@], [d EXCEPT !.pending = ~@]} \subseteq Doc
  BY DEF Doc
<1> QED  BY <1>1, <1>2, <1>3 DEF Rewrites

LEMMA InitInv == Init => Inv
<1> SUFFICES ASSUME Init PROVE Inv
  OBVIOUS
<1>1. doc \in Doc
  BY DEF Init
<1>2. policy \in SUBSET Switch /\ scope \in SUBSET Dept /\ mark \in read \cup {<<>>}
  BY ServingAssumption DEF Init, Switch
<1>3. ClientOK /\ SaveOK /\ VouchOK /\ RequestOK
  BY DEF Init, ClientOK, SaveOK, VouchOK, RequestOK
<1> QED  BY <1>1, <1>2, <1>3 DEF Inv

\* Reading more documents takes nothing away.
LEMMA MoreRead ==
    ASSUME VouchOK, RequestOK, read \subseteq read', vouch' = vouch \/ VouchOK',
           request' = request
    PROVE  VouchOK' /\ RequestOK'
BY DEF VouchOK, RequestOK

LEMMA StepInv == Inv /\ [Next]_vars => Inv'
<1> SUFFICES ASSUME Inv, [Next]_vars PROVE Inv'
  OBVIOUS
<1>1. CASE Load
  <2>1. client' \in Loaded
    BY <1>1, SentIsLoaded DEF Load, Inv
  <2> QED  BY <1>1, <2>1 DEF Load, Inv, ClientOK, SaveOK, VouchOK, RequestOK
<1>2. CASE Retouch
  <2>1. client \in Loaded
    BY <1>2 DEF Retouch, Inv, ClientOK, NoClient
  <2>2. client' \in Loaded
    <3>1. client.held \in Doc /\ client.sees \in SUBSET Dept
      BY <2>1 DEF Loaded
    <3>2. Retouches(client.held, client.sees) \subseteq Doc
      BY <3>1, RetouchesDocs
    <3>3. PICK d \in Doc : client' = [client EXCEPT !.held = d]
      BY <1>2, <3>2 DEF Retouch
    <3> QED  BY <2>1, <3>3 DEF Loaded
  <2> QED  BY <1>2, <2>2 DEF Retouch, Inv, ClientOK, SaveOK, VouchOK, RequestOK
<1>3. CASE SaveBegins
  <2>1. client \in Loaded
    BY <1>3 DEF SaveBegins, Inv, ClientOK, NoClient
  <2>2. save' \in [phase : {"gated"}, sees : SUBSET Dept, from : Loaded]
    BY <1>3, <2>1 DEF SaveBegins, Inv
  <2> QED  BY <1>3, <2>2 DEF SaveBegins, Inv, ClientOK, SaveOK, VouchOK, RequestOK
<1>4. CASE SaveReads
  <2>1. save \in [phase : {"gated"}, sees : SUBSET Dept, from : Loaded]
    BY <1>4 DEF SaveReads, Inv, SaveOK, NoSave
  <2>2. save' \in [phase : {"read"}, sees : SUBSET Dept, from : Loaded, disk : Doc]
    BY <1>4, <2>1 DEF SaveReads, Inv
  <2> QED  BY <1>4, <2>2 DEF SaveReads, Inv, ClientOK, SaveOK, VouchOK, RequestOK
<1>5. CASE SaveWrites
  <2>1. save \in [phase : {"read"}, sees : SUBSET Dept, from : Loaded, disk : Doc]
    BY <1>5 DEF SaveWrites, Inv, SaveOK, NoSave
  <2>2. doc' \in Doc
    <3>1. save.from.held \in Doc /\ save.disk \in Doc /\ save.sees \in SUBSET Dept
      BY <2>1 DEF Loaded
    <3> QED  BY <1>5, <3>1, RestoreParts DEF SaveWrites
  <2>3. client' \in Loaded
    BY <1>5, <2>1, <2>2, SentIsLoaded DEF SaveWrites
  <2> QED  BY <1>5, <2>2, <2>3 DEF SaveWrites, Inv, ClientOK, SaveOK, VouchOK, RequestOK
<1>6. CASE Lists
  <2>1. read \subseteq read' /\ vouch' \in [phase : {"shown"}, shown : read']
    BY <1>6 DEF Lists
  <2>2. VouchOK'
    BY <2>1 DEF VouchOK
  <2>3. RequestOK'
    BY <1>6, <2>1, <2>2, MoreRead DEF Lists, Inv
  <2> QED  BY <1>6, <2>1, <2>2, <2>3 DEF Lists, Inv, ClientOK, SaveOK
<1>7. CASE ConfirmLoads
  <2>1. vouch \in [phase : {"shown"}, shown : read]
    BY <1>7 DEF ConfirmLoads, Inv, VouchOK, NoVouch
  <2>2. VouchOK'
    BY <1>7, <2>1 DEF ConfirmLoads, VouchOK
  <2> QED  BY <1>7, <2>2 DEF ConfirmLoads, Inv, ClientOK, SaveOK, RequestOK
<1>8. CASE ConfirmWrites
  <2>1. vouch \in [phase : {"loaded"}, now : read]
    BY <1>8 DEF ConfirmWrites, Inv, VouchOK, NoVouch
  <2>2. mark' \in read
    BY <1>8, <2>1 DEF ConfirmWrites
  <2> QED  BY <1>8, <2>2 DEF ConfirmWrites, Inv, ClientOK, SaveOK, VouchOK, RequestOK
<1>9. CASE Revoke
  BY <1>9 DEF Revoke, Inv, ClientOK, SaveOK, VouchOK, RequestOK
<1>10. CASE ReaderAsks
  <2>1. request' \in [phase : {"loaded"}, doc : Doc]
    BY <1>10 DEF ReaderAsks, Inv
  <2> QED  BY <1>10, <2>1 DEF ReaderAsks, Inv, ClientOK, SaveOK, VouchOK, RequestOK
<1>11. CASE ReaderIsJudgedUnder
  <2>1. request \in [phase : {"loaded"}, doc : Doc]
    BY <1>11 DEF ReaderIsJudgedUnder, Inv, RequestOK, NoRequest
  <2>2. request' \in [phase : {"judged"}, doc : Doc, policy : SUBSET Switch]
    BY <1>11, <2>1 DEF ReaderIsJudgedUnder, Inv
  <2> QED  BY <1>11, <2>2 DEF ReaderIsJudgedUnder, Inv, ClientOK, SaveOK, VouchOK, RequestOK
<1>12. CASE ReaderIsAnswered
  <2>1. request \in [phase : {"judged"}, doc : Doc, policy : SUBSET Switch]
    BY <1>12 DEF ReaderIsAnswered, Inv, RequestOK, NoRequest
  <2>2. MayServe(request.doc, mark) => Fingerprint(request.doc) \in read
    BY DEF MayServe, Fingerprint, Inv
  <2>3. RequestOK'
    BY <1>12, <2>1, <2>2 DEF ReaderIsAnswered, RequestOK
  <2> QED  BY <1>12, <2>3 DEF ReaderIsAnswered, Inv, ClientOK, SaveOK, VouchOK
<1>13. CASE Moves
  <2>1. doc' \in Doc
    BY <1>13, RewritesDocs DEF Moves, PipelineWrites, ScopeMoves, SwitchMoves, Inv
  <2>2. scope' \in SUBSET Dept /\ policy' \in SUBSET Switch /\ mark' = mark
    BY <1>13 DEF Moves, PipelineWrites, ScopeMoves, SwitchMoves, Inv
  <2> QED  BY <1>13, <2>1, <2>2 DEF Moves, Inv, ClientOK, SaveOK, VouchOK, RequestOK
<1>14. CASE UNCHANGED vars
  BY <1>14 DEF vars, Inv, ClientOK, SaveOK, VouchOK, RequestOK
<1> QED
  BY <1>1, <1>2, <1>3, <1>4, <1>5, <1>6, <1>7, <1>8, <1>9, <1>10, <1>11, <1>12, <1>13, <1>14
  DEF Next

\* The copies, requests and marks under way stay what they are.
THEOREM ServingInvariant == Spec => []Inv
BY InitInv, StepInv, PTL DEF Spec

-----------------------------------------------------------------------------
\* A save of an untouched copy changes nothing, in every document the system
\* can come to and whatever the editor may see.
THEOREM UntouchedSaves == Spec => []UntouchedSaveIsNoChange
<1>1. Inv => UntouchedSaveIsNoChange
  BY RestoreUndoesRedaction DEF Inv, UntouchedSaveIsNoChange
<1> QED  BY <1>1, ServingInvariant, PTL

\* What a reader is sent, somebody who may confirm has had on the screen.
THEOREM ReadersGetOnlyTheRead == Spec => []ReadersGetWhatSomebodyRead
<1>1. Inv => ReadersGetWhatSomebodyRead
  BY DEF Inv, RequestOK, ReadersGetWhatSomebodyRead, NoRequest
<1> QED  BY <1>1, ServingInvariant, PTL

\* Every body sent to a reader is a whole diagram that names no department but
\* its own.
LEMMA FilteredIsWhole ==
    ASSUME NEW d \in Doc, NEW p \in SUBSET Switch
    PROVE  LET body == Filtered(d, p, {Home}) IN
           /\ body.edges \subseteq (DOMAIN body.sub) \X (DOMAIN body.sub)
           /\ body.parent \in {Home, None}
           /\ \A n \in DOMAIN body.sub : body.sub[n] \in {Home, None}
<1> USE ServingAssumption
<1> DEFINE e == LinksOnly(d, {Home})
           body == Filtered(d, p, {Home})
<1>1. e.parent \in {Home, None} /\ (\A n \in Node : e.sub[n] \in {Home, None})
      /\ e.edges \subseteq Node \X Node
  BY LinksOnlyParts DEF Told, Doc
<1> HIDE DEF e
<1>2. /\ body.parent = e.parent
      /\ body.sub = [n \in Kept(e) |-> e.sub[n]]
      /\ body.edges = PublicEdges(e)
  BY DEF Filtered, PublicProcess, e
<1>3. Kept(e) \subseteq Node
  BY DEF Kept
<1>4. PublicEdges(e) \subseteq Kept(e) \X Kept(e)
  BY <1>1 DEF PublicEdges
<1> QED  BY <1>1, <1>2, <1>3, <1>4

THEOREM BodiesAreAlwaysWhole == Spec => []BodiesAreWhole
<1>1. Inv => BodiesAreWhole
  <2> SUFFICES ASSUME Inv, request.phase = "answered" PROVE BodiesAreWhole
    BY DEF BodiesAreWhole
  <2>1. PICK d \in Doc, p \in SUBSET Switch :
            request = [phase |-> "answered", doc |-> d, body |-> Filtered(d, p, {Home})]
    <3>1. /\ request # NoRequest
          /\ request \notin [phase : {"loaded"}, doc : Doc]
          /\ request \notin [phase : {"judged"}, doc : Doc, policy : SUBSET Switch]
      BY DEF NoRequest
    <3>2. RequestOK
      BY DEF Inv
    <3> QED  BY <3>1, <3>2, Zenon DEF RequestOK
  <2>2. request.body = Filtered(d, p, {Home})
    BY <2>1
  <2> QED  BY <2>2, FilteredIsWhole DEF BodiesAreWhole
<1> QED  BY <1>1, ServingInvariant, PTL

\* What a reader is sent is whole and was read, whatever moves between the three
\* reads of a request.
THEOREM AnswersAreAlwaysFit == Spec => []AnswersAreFit
BY ReadersGetOnlyTheRead, BodiesAreAlwaysWhole, PTL DEF AnswersAreFit

\* No save erases a link its editor was not looking at, unless somebody else
\* moved between the load and the write.
THEOREM UnseenLinksAlwaysSurvive == Spec => UnseenLinksSurvive
<1>1. Inv /\ [Next]_vars =>
        [SaveWrites => \A at \in Node \cup {"parent"} : ErasedFairly(at)]_vars
  <2> SUFFICES ASSUME Inv, SaveWrites, NEW at \in Node \cup {"parent"}
               PROVE  ErasedFairly(at)
    OBVIOUS
  <2>1. save \in [phase : {"read"}, sees : SUBSET Dept, from : Loaded, disk : Doc]
    BY DEF SaveWrites, Inv, SaveOK, NoSave
  <2>2. save.from.held \in Doc /\ save.disk \in Doc /\ save.sees \in SUBSET Dept
    BY <2>1 DEF Loaded
  <2>3. doc' = Restore(save.from.held, save.disk, save.sees)
    BY DEF SaveWrites
  <2>4. CASE Links(save.disk)[at] \notin save.sees \cup {None}
    <3>1. Links(doc')[at] = Links(save.disk)[at]
      BY <2>2, <2>3, <2>4, RestoredLinks
    <3> QED  BY <3>1 DEF ErasedFairly
  <2>5. CASE Links(save.disk)[at] \in save.sees \cup {None}
    BY <2>5 DEF ErasedFairly
  <2> QED  BY <2>4, <2>5
<1> QED  BY <1>1, ServingInvariant, PTL DEF Spec, UnseenLinksSurvive

-----------------------------------------------------------------------------
(* The facts panel.                                                        *)

\* The panel's moves leave the process document alone, and the document's own
\* are moves of Serving.
LEMMA PanelStepsServe == [PanelNext]_<<vars, panelVars>> => [Next]_vars
<1> SUFFICES ASSUME [PanelNext]_<<vars, panelVars>> PROVE [Next]_vars
  OBVIOUS
<1>1. CASE AtThePanel
  BY <1>1 DEF AtThePanel, Asks, FactAsked, FactJudged, NeighboursRead, MapsRead, FactAnswered,
      ListAsked, ListRead, ListAnswered, SourceAsked, SourceAnswered, TickAsked, TickLoaded,
      TickWritten, RevokeTick, FactsSaved, IndexSaved, PersonMoves, FactSwitchMoves
<1>2. CASE Elsewhere
  BY <1>2 DEF Elsewhere
<1>3. CASE UNCHANGED <<vars, panelVars>>
  BY <1>3
<1> QED  BY <1>1, <1>2, <1>3 DEF PanelNext

\* What holds of the process document holds of it beside the panel.
THEOREM PanelKeepsServing == PanelSpec => Spec
<1>1. PanelInit => Init
  BY DEF PanelInit
<1> QED  BY <1>1, PanelStepsServe, PTL DEF PanelSpec, Spec

Vouched(f, print) == \E p \in Person : <<p, f, print>> \in handed

\* What a version must be for its entry to be told to g.
Judged(g, f, e) ==
    Reaches(g, e) /\ (EditsFact(g, e) \/ Vouched(f, FactPrint(e)))

\* A version looked at is the one in the store, unless the store has moved.
SameAs(f, e) == e = facts[f] \/ f \in moved

StoreOK ==
    /\ DOMAIN facts = Fact
    /\ \A f \in Fact : SameAs(f, index[f])

MarksOK ==
    /\ tick = [f \in Fact |-> tick[f]]
    /\ \A f \in Fact : tick[f] = <<>> \/ Vouched(f, tick[f])
    /\ \A h \in handed : h[1] \in Person /\ h[2] \in Fact /\ h = <<h[1], h[2], h[3]>>
    /\ ticking.phase = "gated" => ticking.id \in Fact /\ Vouched(ticking.id, ticking.shown)
    /\ ticking.phase = "loaded" => ticking.id \in Fact /\ Vouched(ticking.id, ticking.now)

PanelOK ==
    /\ panel.phase # "none" => panel.by \in Person
    /\ panel.phase = "asked" => panel.id \in Fact
    /\ panel.phase \in {"judged", "neighbours"} =>
           panel.id \in Fact /\ Judged(panel.stance, panel.id, panel.entry)
    /\ panel.phase = "neighbours" =>
           /\ \A f \in panel.visible : f \in Fact /\ Judged(panel.stance, f, panel.seen[f])
           /\ \A f \in Fact : SameAs(f, panel.seen[f])
    /\ panel.phase = "maps" =>
           /\ \A r \in panel.rows : RowIsFit(panel.stance, r)
           /\ \A l \in panel.labels :
                  \E r \in panel.rows : r.id = panel.id /\ LabelIsFit(r, l)
           /\ \A l \in panel.labels : l.id \in Fact
           /\ \A x \in panel.prints : x[1] \in Fact
           /\ \A d \in panel.process : d = doc \/ Home \in moved
    /\ panel.phase \in {"listing", "listed"} => \A f \in Fact : SameAs(f, panel.rows[f])
    /\ panel.phase = "listed" => \A f \in Fact : SameAs(f, panel.entries[f])

PanelInv == Inv /\ StoreOK /\ MarksOK /\ PanelOK

\* What is served is judged as it must be.
LEMMA ServedIsJudged ==
    ASSUME MarksOK, NEW f \in Fact, NEW g, NEW e, NEW on, Served(g, e, tick[f], on)
    PROVE  Judged(g, f, e)
<1>1. FactPrint(e) # <<>>
  BY DEF FactPrint
<1> QED  BY <1>1 DEF MarksOK, Served, MayServeFact, Judged

\* A request under way stays as fit as it was while more is handed out and what
\* moves is written down.
LEMMA RequestStaysFit ==
    ASSUME PanelOK, panel' = panel, handed \subseteq handed', moved \subseteq moved',
           \A f \in Fact : facts'[f] = facts[f] \/ f \in moved',
           doc' = doc \/ Home \in moved'
    PROVE  PanelOK'
<1>1. \A f, print : Vouched(f, print) => Vouched(f, print)'
  BY DEF Vouched
<1>2. \A g, f, e : Judged(g, f, e) => Judged(g, f, e)'
  BY <1>1 DEF Judged
<1>3. \A f \in Fact : \A e : SameAs(f, e) => SameAs(f, e)'
  BY DEF SameAs
<1>4. \A g, r : RowIsFit(g, r) => RowIsFit(g, r)'
  BY DEF RowIsFit
<1>5. /\ panel'.phase \in {"judged", "neighbours"} =>
             panel'.id \in Fact /\ Judged(panel.stance, panel.id, panel.entry)'
      /\ panel'.phase = "neighbours" =>
             /\ \A f \in panel'.visible : f \in Fact /\ Judged(panel.stance, f, panel.seen[f])'
             /\ \A f \in Fact : SameAs(f, panel.seen[f])'
  BY <1>2, <1>3 DEF PanelOK
<1>8. \A r, l : l.id \in Fact /\ LabelIsFit(r, l) => LabelIsFit(r, l)'
  BY DEF LabelIsFit
<1>6. panel'.phase = "maps" =>
             /\ \A r \in panel'.rows : RowIsFit(panel.stance, r)'
             /\ \A l \in panel'.labels :
                    \E r \in panel'.rows : r.id = panel'.id /\ LabelIsFit(r, l)'
             /\ \A l \in panel'.labels : l.id \in Fact
             /\ \A x \in panel'.prints : x[1] \in Fact
             /\ \A d \in panel'.process : d = doc' \/ Home \in moved'
  BY <1>4, <1>8 DEF PanelOK
<1>7. /\ panel'.phase \in {"listing", "listed"} => \A f \in Fact : SameAs(f, panel.rows[f])'
      /\ panel'.phase = "listed" => \A f \in Fact : SameAs(f, panel.entries[f])'
  BY <1>3 DEF PanelOK
<1> QED  BY <1>5, <1>6, <1>7 DEF PanelOK

LEMMA MarksStay ==
    ASSUME MarksOK, tick' = tick, ticking' = ticking, handed' = handed
    PROVE  MarksOK'
BY DEF MarksOK, Vouched

LEMMA StoreStays ==
    ASSUME StoreOK, facts' = facts, index' = index, moved \subseteq moved' \/ moved' = Behind
    PROVE  StoreOK'
BY DEF StoreOK, SameAs, Behind

LEMMA PanelInitInv == PanelInit => PanelInv
<1> SUFFICES ASSUME PanelInit PROVE PanelInv
  OBVIOUS
<1>1. Inv
  BY InitInv DEF PanelInit
<1>2. StoreOK
  BY FactsServingAssumption DEF PanelInit, StoreOK, SameAs
<1>3. MarksOK
  <2> PICK vouched \in SUBSET Fact : VouchedBefore(vouched)
    BY DEF PanelInit
  <2>1. /\ tick = [f \in Fact |-> IF f \in vouched THEN FactPrint(facts[f]) ELSE <<>>]
        /\ handed = {<<p, f, FactPrint(facts[f])>> : p \in Person, f \in vouched}
    BY DEF VouchedBefore
  <2>2. \A f \in vouched : Vouched(f, tick[f])
    <3> SUFFICES ASSUME NEW f \in vouched PROVE Vouched(f, tick[f])
      OBVIOUS
    <3>1. PICK p \in Person : TRUE
      BY FactsServingAssumption
    <3> QED  BY <2>1, <3>1 DEF Vouched
  <2>3. \A f \in Fact : tick[f] = <<>> \/ Vouched(f, tick[f])
    BY <2>1, <2>2
  <2>4. \A h \in handed : h[1] \in Person /\ h[2] \in Fact /\ h = <<h[1], h[2], h[3]>>
    BY <2>1
  <2>5. tick = [f \in Fact |-> tick[f]]
    BY <2>1
  <2> QED  BY <2>3, <2>4, <2>5 DEF PanelInit, MarksOK, NoTick
<1>4. PanelOK
  BY DEF PanelInit, PanelOK, NoPanel
<1> QED  BY <1>1, <1>2, <1>3, <1>4 DEF PanelInv

\* An answer hands out fingerprints of entries to whoever asked.
LEMMA HandsOut ==
    ASSUME MarksOK, NEW p \in Person, NEW g, NEW rows, NEW labels, NEW prints, NEW process,
           \A x \in prints : x[1] \in Fact,
           Answer(p, g, rows, labels, prints, process), tick' = tick, ticking' = ticking
    PROVE  MarksOK' /\ PanelOK' /\ handed \subseteq handed'
<1>1. handed' = handed \cup {<<p, x[1], x[2]>> : x \in prints}
  BY DEF Answer
<1>2. \A f, print : Vouched(f, print) => Vouched(f, print)'
  BY <1>1 DEF Vouched
<1>3. \A h \in handed' : h[1] \in Person /\ h[2] \in Fact /\ h = <<h[1], h[2], h[3]>>
  BY <1>1 DEF MarksOK
<1>4. \A f \in Fact : tick[f] = <<>> \/ Vouched(f, tick[f])'
  BY <1>2 DEF MarksOK
<1>5. /\ ticking.phase = "gated" => ticking.id \in Fact /\ Vouched(ticking.id, ticking.shown)'
      /\ ticking.phase = "loaded" => ticking.id \in Fact /\ Vouched(ticking.id, ticking.now)'
  BY <1>2 DEF MarksOK
<1>6. MarksOK'
  BY <1>3, <1>4, <1>5 DEF MarksOK
<1>7. PanelOK'
  BY DEF Answer, PanelOK
<1> QED  BY <1>1, <1>6, <1>7

\* The three answers tell what is fit.
LEMMA FactAnswerIsFit ==
    ASSUME PanelInv, FactAnswered
    PROVE  /\ \A r \in panel'.rows : RowIsFit(panel'.stance, r)
           /\ \A l \in panel'.labels :
                  \E r \in panel'.rows : r.id = panel.id /\ LabelIsFit(r, l)
           /\ \A r \in panel'.process : ProcessIsFit(panel'.stance, r)
<1>1. /\ panel'.stance = panel.stance /\ panel'.rows = panel.rows /\ panel'.labels = panel.labels
      /\ panel'.process = IF NamesProcess(panel.stance)
                          THEN {[said |-> d, judged |-> doc] : d \in panel.process} ELSE {}
  BY DEF FactAnswered, Answer
<1>2. /\ \A r \in panel.rows : RowIsFit(panel.stance, r)
      /\ \A l \in panel.labels : \E r \in panel.rows : r.id = panel.id /\ LabelIsFit(r, l)
  BY DEF FactAnswered, PanelInv, PanelOK
<1>3. ASSUME NEW r \in panel'.process PROVE ProcessIsFit(panel'.stance, r)
  <2>1. NamesProcess(panel.stance)
    BY <1>1, <1>3
  <2>2. PICK d \in panel.process : r = [said |-> d, judged |-> doc]
    BY <1>1, <1>3, <2>1
  <2>3. d = doc \/ Home \in moved
    BY <2>2 DEF FactAnswered, PanelInv, PanelOK
  <2>4. MayServe(doc, mark) => Fingerprint(doc) \in read
    BY DEF PanelInv, Inv, MayServe, Fingerprint
  <2> QED  BY <1>1, <2>1, <2>2, <2>3, <2>4 DEF NamesProcess, ProcessIsFit
<1> QED  BY <1>1, <1>2, <1>3

LEMMA ListAnswerIsFit ==
    ASSUME PanelInv, ListAnswered
    PROVE  /\ \A r \in panel'.rows : RowIsFit(panel'.stance, r)
           /\ panel'.process = {} /\ panel'.labels = {}
<1> DEFINE told == {f \in Fact : Served(panel.stance, panel.entries[f], tick[f], panel.on)}
<1>1. /\ panel'.stance = panel.stance /\ panel'.process = {} /\ panel'.labels = {}
      /\ panel'.rows = {Row(f, panel.rows[f], panel.entries[f]) : f \in told}
  BY DEF ListAnswered, Answer
<1>2. ASSUME NEW r \in panel'.rows PROVE RowIsFit(panel.stance, r)
  <2>1. PICK f \in told : r = Row(f, panel.rows[f], panel.entries[f])
    BY <1>1, <1>2
  <2>2. Judged(panel.stance, f, panel.entries[f])
    BY <2>1, ServedIsJudged DEF PanelInv
  <2>3. SameAs(f, panel.rows[f]) /\ SameAs(f, panel.entries[f])
    BY <2>1 DEF ListAnswered, PanelInv, PanelOK
  <2>4. r.id = f /\ r.said = panel.rows[f] /\ r.judged = panel.entries[f]
    BY <2>1 DEF Row
  <2> QED  BY <2>2, <2>3, <2>4 DEF RowIsFit, Judged, Vouched, SameAs
<1> QED  BY <1>1, <1>2

LEMMA SourceAnswerIsFit ==
    ASSUME PanelInv, SourceAnswered, panel'.phase = "answered"
    PROVE  /\ \A r \in panel'.rows : RowIsFit(panel'.stance, r)
           /\ panel'.process = {} /\ panel'.labels = {}
<1>0. panel' # NoPanel
  BY DEF NoPanel
<1>1. PICK f \in Fact :
          /\ Served(panel.stance, panel.entries[f], tick[f], panel.on)
          /\ Answer(panel.by, panel.stance,
                    {Row(f, panel.entries[f], panel.entries[f])}, {}, {}, {})
  BY <1>0, Zenon DEF SourceAnswered
<1>2. Judged(panel.stance, f, panel.entries[f])
  BY <1>1, ServedIsJudged DEF PanelInv
<1> QED  BY <1>1, <1>2 DEF Answer, Row, RowIsFit, Judged, Vouched

\* The maps are fit: what is named in them was judged by the store as it was
\* looked at before.
LEMMA MapsAreFit ==
    ASSUME PanelInv, MapsRead
    PROVE  /\ \A r \in panel'.rows : RowIsFit(panel.stance, r)
           /\ \A l \in panel'.labels :
                  \E r \in panel'.rows : r.id = panel.id /\ LabelIsFit(r, l)
           /\ \A l \in panel'.labels : l.id \in Fact
           /\ \A x \in panel'.prints : x[1] \in Fact
           /\ panel'.process \subseteq {doc}
<1>1. /\ panel.id \in Fact /\ Judged(panel.stance, panel.id, panel.entry)
      /\ \A f \in panel.visible : f \in Fact /\ Judged(panel.stance, f, panel.seen[f])
      /\ \A f \in Fact : SameAs(f, panel.seen[f]) /\ SameAs(f, index[f])
  BY DEF MapsRead, PanelInv, PanelOK, StoreOK
<1>2. RowIsFit(panel.stance, Row(panel.id, panel.entry, panel.entry))
  BY <1>1 DEF Row, RowIsFit, Judged, Vouched
<1>3. \A f \in panel.visible : /\ RowIsFit(panel.stance, Row(f, facts[f], panel.seen[f]))
                               /\ RowIsFit(panel.stance, Row(f, index[f], panel.seen[f]))
  BY <1>1 DEF Row, RowIsFit, Judged, Vouched, SameAs
<1>4. \A r \in panel'.rows :
          \/ r = Row(panel.id, panel.entry, panel.entry)
          \/ \E f \in panel.visible : r \in {Row(f, facts[f], panel.seen[f]),
                                             Row(f, index[f], panel.seen[f])}
  BY DEF MapsRead
<1>5. \A x \in panel'.prints : x[1] = panel.id \/ x[1] \in panel.visible
  BY DEF MapsRead
<1>6. panel'.process \subseteq {doc}
  BY DEF MapsRead
<1>7. panel'.labels = Labels(panel.entry, facts) /\ Row(panel.id, panel.entry, panel.entry) \in panel'.rows
  BY DEF MapsRead
<1>8. ASSUME NEW l \in panel'.labels
      PROVE  /\ LabelIsFit(Row(panel.id, panel.entry, panel.entry), l)
             /\ l.id \in Fact
  <2>1. PICK f \in Units \cup {b \in Fact : b \in panel.entry.uses} : l = [id |-> f, said |-> facts[f].place]
    BY <1>7, <1>8 DEF Labels
  <2> QED  BY <2>1, FactsServingAssumption DEF LabelIsFit, Row
<1>9. \A l \in panel'.labels : \E r \in panel'.rows : r.id = panel.id /\ LabelIsFit(r, l)
  BY <1>7, <1>8 DEF Row
<1> QED  BY <1>1, <1>2, <1>3, <1>4, <1>5, <1>6, <1>8, <1>9

\* A step of the panel keeps the store's, the marks' and the request's part.
LEMMA PanelStepKeeps ==
    ASSUME PanelInv, AtThePanel PROVE StoreOK' /\ MarksOK' /\ PanelOK'
<1>0. StoreOK /\ MarksOK /\ PanelOK
  BY DEF PanelInv
<1>1. CASE FactAsked
  <2>1. StoreOK' /\ MarksOK'
    BY <1>0, <1>1, StoreStays, MarksStay DEF FactAsked
  <2> QED  BY <1>1, <2>1 DEF FactAsked, PanelOK
<1>2. CASE FactJudged
  <2>1. StoreOK' /\ MarksOK'
    BY <1>0, <1>2, StoreStays, MarksStay DEF FactJudged
  <2>2. panel.by \in Person /\ panel.id \in Fact
    BY <1>0, <1>2 DEF FactJudged, PanelOK
  <2>3. CASE ~ Served(people[panel.by], panel.entry, tick[panel.id], factSwitch)
    BY <1>2, <2>1, <2>3 DEF FactJudged, PanelOK, NoPanel
  <2>4. CASE Served(people[panel.by], panel.entry, tick[panel.id], factSwitch)
    <3>1. Judged(people[panel.by], panel.id, panel.entry)
      BY <1>0, <2>2, <2>4, ServedIsJudged
    <3>2. /\ panel'.phase = "judged" /\ panel'.by = panel.by /\ panel'.id = panel.id
          /\ panel'.stance = people[panel.by] /\ panel'.entry = panel.entry
      BY <1>2, <2>4 DEF FactJudged
    <3>3. Judged(panel.stance, panel.id, panel.entry)'
      BY <1>2, <3>1, <3>2 DEF FactJudged, Judged, Vouched
    <3> QED  BY <2>1, <2>2, <3>2, <3>3 DEF PanelOK
  <2> QED  BY <2>3, <2>4
<1>3. CASE NeighboursRead
  <2>1. StoreOK' /\ MarksOK'
    BY <1>0, <1>3, StoreStays, MarksStay DEF NeighboursRead
  <2>2. panel.by \in Person /\ panel.id \in Fact /\ Judged(panel.stance, panel.id, panel.entry)
    BY <1>0, <1>3 DEF NeighboursRead, PanelOK
  <2>3. /\ panel'.phase = "neighbours" /\ panel'.by = panel.by /\ panel'.id = panel.id
        /\ panel'.stance = panel.stance /\ panel'.entry = panel.entry /\ panel'.seen = facts
        /\ panel'.visible = {f \in Fact : Served(panel.stance, facts[f], tick[f], panel.on)}
    BY <1>3 DEF NeighboursRead
  <2>4. \A f \in panel'.visible : f \in Fact /\ Judged(panel.stance, f, facts[f])
    BY <1>0, <2>3, ServedIsJudged
  <2>5. facts' = facts /\ handed' = handed /\ moved' = moved
    BY <1>3 DEF NeighboursRead
  <2>6. \A f \in panel'.visible : f \in Fact /\ Judged(panel.stance, f, panel.seen[f])'
    BY <2>3, <2>4, <2>5 DEF Judged, Vouched
  <2>7. Judged(panel.stance, panel.id, panel.entry)'
    BY <2>2, <2>3, <2>5 DEF Judged, Vouched
  <2> QED  BY <2>1, <2>2, <2>3, <2>5, <2>6, <2>7 DEF PanelOK, SameAs
<1>4. CASE MapsRead
  <2>1. StoreOK' /\ MarksOK'
    BY <1>0, <1>4, StoreStays, MarksStay DEF MapsRead
  <2>2. panel.by \in Person
    BY <1>0, <1>4 DEF MapsRead, PanelOK
  <2>3. /\ panel'.phase = "maps" /\ panel'.by = panel.by /\ panel'.stance = panel.stance
        /\ panel'.id = panel.id /\ facts' = facts
        /\ handed' = handed /\ moved' = moved /\ doc' = doc
    BY <1>4 DEF MapsRead, vars
  <2>4. /\ \A r \in panel'.rows : RowIsFit(panel.stance, r)
        /\ \A l \in panel'.labels :
               \E r \in panel'.rows : r.id = panel.id /\ LabelIsFit(r, l)
        /\ \A l \in panel'.labels : l.id \in Fact
        /\ \A x \in panel'.prints : x[1] \in Fact
        /\ panel'.process \subseteq {doc}
    BY <1>4, MapsAreFit
  <2>5. \A r \in panel'.rows : RowIsFit(panel.stance, r)'
    BY <2>3, <2>4 DEF RowIsFit
  <2>6. \A r, l : LabelIsFit(r, l) => LabelIsFit(r, l)'
    BY <2>3 DEF LabelIsFit
  <2>7. \A l \in panel'.labels :
            \E r \in panel'.rows : r.id = panel'.id /\ LabelIsFit(r, l)'
    BY <2>3, <2>4, <2>6
  <2> QED  BY <2>1, <2>2, <2>3, <2>4, <2>5, <2>7 DEF PanelOK
<1>5. CASE FactAnswered
  <2>1. /\ panel.by \in Person /\ \A x \in panel.prints : x[1] \in Fact
        /\ panel.phase = "maps"
    BY <1>0, <1>5 DEF FactAnswered, PanelOK
  <2>2. MarksOK' /\ PanelOK'
    BY <1>0, <1>5, <2>1, HandsOut DEF FactAnswered
  <2> QED  BY <1>0, <1>5, <2>2, StoreStays DEF FactAnswered
<1>6. CASE ListAsked
  <2>1. StoreOK' /\ MarksOK'
    BY <1>0, <1>6, StoreStays, MarksStay DEF ListAsked
  <2>2. \A f \in Fact : index[f] = facts[f] \/ f \in moved'
    BY <1>6 DEF ListAsked, Behind
  <2>3. PICK p \in Person :
            panel' = [phase |-> "listing", by |-> p, stance |-> people[p],
                      on |-> factSwitch, rows |-> index]
    BY <1>6 DEF ListAsked
  <2>4. facts' = facts
    BY <1>6 DEF ListAsked
  <2> QED  BY <2>1, <2>2, <2>3, <2>4 DEF PanelOK, SameAs
<1>7. CASE ListRead
  <2>1. StoreOK' /\ MarksOK'
    BY <1>0, <1>7, StoreStays, MarksStay DEF ListRead
  <2>2. panel.by \in Person /\ \A f \in Fact : SameAs(f, panel.rows[f])
    BY <1>0, <1>7 DEF ListRead, PanelOK
  <2> QED  BY <1>7, <2>1, <2>2 DEF ListRead, PanelOK, SameAs
<1>8. CASE ListAnswered
  <2>1. panel.by \in Person
    BY <1>0, <1>8 DEF ListAnswered, PanelOK
  <2>2. PICK told \in SUBSET Fact :
            Answer(panel.by, panel.stance,
                   {Row(f, panel.rows[f], panel.entries[f]) : f \in told}, {},
                   {<<f, FactPrint(panel.entries[f])>> : f \in told}, {})
    BY <1>8 DEF ListAnswered
  <2>3. \A x \in {<<f, FactPrint(panel.entries[f])>> : f \in told} : x[1] \in Fact
    OBVIOUS
  <2>4. MarksOK' /\ PanelOK'
    BY <1>0, <1>8, <2>1, <2>2, <2>3, HandsOut DEF ListAnswered
  <2> QED  BY <1>0, <1>8, <2>4, StoreStays DEF ListAnswered
<1>9. CASE SourceAsked
  <2>1. StoreOK' /\ MarksOK'
    BY <1>0, <1>9, StoreStays, MarksStay DEF SourceAsked
  <2> QED  BY <1>9, <2>1 DEF SourceAsked, PanelOK
<1>10. CASE SourceAnswered
  <2>1. StoreOK'
    BY <1>0, <1>10, StoreStays DEF SourceAnswered
  <2>2. panel.by \in Person
    BY <1>0, <1>10 DEF SourceAnswered, PanelOK
  <2>3. CASE panel' = NoPanel /\ handed' = handed
    BY <1>0, <1>10, <2>1, <2>3, MarksStay DEF SourceAnswered, PanelOK, NoPanel
  <2>4. CASE \E f \in Fact : Answer(panel.by, panel.stance,
                       {Row(f, panel.entries[f], panel.entries[f])}, {}, {}, {})
    <3>1. MarksOK' /\ PanelOK'
      BY <1>0, <1>10, <2>2, <2>4, HandsOut DEF SourceAnswered
    <3> QED  BY <2>1, <3>1
  <2> QED  BY <1>10, <2>3, <2>4 DEF SourceAnswered
<1>11. CASE TickAsked
  <2>1. StoreOK' /\ PanelOK'
    BY <1>0, <1>11, StoreStays, RequestStaysFit DEF TickAsked, Asks, vars
  <2>2. PICK h \in handed : ticking' = [phase |-> "gated", id |-> h[2], shown |-> h[3]]
    BY <1>11 DEF TickAsked
  <2>3. h[1] \in Person /\ h[2] \in Fact /\ <<h[1], h[2], h[3]>> \in handed
    BY <1>0, <2>2 DEF MarksOK
  <2> QED  BY <1>0, <1>11, <2>1, <2>2, <2>3 DEF TickAsked, MarksOK, Vouched
<1>12. CASE TickLoaded
  <2>1. StoreOK' /\ PanelOK'
    BY <1>0, <1>12, StoreStays, RequestStaysFit DEF TickLoaded, vars
  <2> QED  BY <1>0, <1>12, <2>1 DEF TickLoaded, MarksOK, Vouched, NoTick
<1>13. CASE TickWritten
  <2>1. StoreOK' /\ PanelOK'
    BY <1>0, <1>13, StoreStays, RequestStaysFit DEF TickWritten, vars
  <2>2. ticking.id \in Fact /\ Vouched(ticking.id, ticking.now)
    BY <1>0, <1>13 DEF TickWritten, MarksOK
  <2>3. tick' = [tick EXCEPT ![ticking.id] = ticking.now] /\ handed' = handed /\ ticking' = NoTick
    BY <1>13 DEF TickWritten
  <2> QED  BY <1>0, <2>1, <2>2, <2>3 DEF MarksOK, Vouched, NoTick
<1>14. CASE RevokeTick
  <2>1. StoreOK' /\ PanelOK'
    BY <1>0, <1>14, StoreStays, RequestStaysFit DEF RevokeTick, Asks, vars
  <2>2. PICK f \in Fact : tick' = [tick EXCEPT ![f] = <<>>]
    BY <1>14 DEF RevokeTick
  <2>3. handed' = handed /\ ticking' = ticking
    BY <1>14 DEF RevokeTick
  <2> QED  BY <1>0, <2>1, <2>2, <2>3 DEF MarksOK, Vouched
<1>15. CASE FactsSaved
  <2>1. PICK f \in Fact :
            (\E e : facts' = [facts EXCEPT ![f] = e]) /\ moved' = moved \cup {f}
    BY <1>15 DEF FactsSaved
  <2>2. \A g \in Fact : facts'[g] = facts[g] \/ g \in moved'
    BY <1>0, <2>1 DEF StoreOK
  <2>3. StoreOK'
    BY <1>0, <1>15, <2>1, <2>2 DEF StoreOK, SameAs, FactsSaved
  <2>4. PanelOK'
    BY <1>0, <1>15, <2>1, <2>2, RequestStaysFit DEF FactsSaved, Asks, vars
  <2> QED  BY <1>0, <1>15, <2>3, <2>4, MarksStay DEF FactsSaved
<1>16. CASE IndexSaved
  <2>1. StoreOK'
    BY <1>0, <1>16 DEF IndexSaved, StoreOK, SameAs
  <2>2. PanelOK'
    BY <1>0, <1>16, RequestStaysFit DEF IndexSaved, vars
  <2> QED  BY <1>0, <1>16, <2>1, <2>2, MarksStay DEF IndexSaved
<1>17. CASE PersonMoves
  BY <1>0, <1>17, StoreStays, MarksStay, RequestStaysFit DEF PersonMoves, Asks, vars
<1>18. CASE FactSwitchMoves
  BY <1>0, <1>18, StoreStays, MarksStay, RequestStaysFit DEF FactSwitchMoves, Asks, vars
<1> QED
  BY <1>1, <1>2, <1>3, <1>4, <1>5, <1>6, <1>7, <1>8, <1>9, <1>10, <1>11, <1>12, <1>13, <1>14,
     <1>15, <1>16, <1>17, <1>18 DEF AtThePanel

LEMMA PanelStepInv == PanelInv /\ [PanelNext]_<<vars, panelVars>> => PanelInv'
<1> SUFFICES ASSUME PanelInv, [PanelNext]_<<vars, panelVars>> PROVE PanelInv'
  OBVIOUS
<1>1. Inv'
  BY PanelStepsServe, StepInv DEF PanelInv
<1>2. CASE AtThePanel
  BY <1>1, <1>2, PanelStepKeeps DEF PanelInv
<1>3. CASE Elsewhere \/ UNCHANGED <<vars, panelVars>>
  <2>1. /\ facts' = facts /\ index' = index /\ tick' = tick /\ ticking' = ticking
        /\ handed' = handed /\ panel' = panel
        /\ moved \subseteq moved' /\ (doc' = doc \/ Home \in moved')
    BY <1>3 DEF Elsewhere, vars, panelVars
  <2> QED  BY <1>1, <2>1, StoreStays, MarksStay, RequestStaysFit DEF PanelInv
<1> QED  BY <1>2, <1>3 DEF PanelNext

\* Requests at the panel, marks and what they vouch for stay what they are.
THEOREM PanelInvariant == PanelSpec => []PanelInv
BY PanelInitInv, PanelStepInv, PTL DEF PanelSpec

\* Whatever the panel answers, to whomever and however much moves meanwhile.
THEOREM PanelAlwaysTellsOnlyTheFit == PanelSpec => PanelTellsOnlyTheFit
<1>1. PanelInv /\ [PanelNext]_<<vars, panelVars>> =>
        [panel' # panel /\ panel'.phase = "answered" =>
           /\ \A r \in panel'.rows : RowIsFit(panel'.stance, r)
           /\ \A l \in panel'.labels :
                  \E r \in panel'.rows : r.id = panel.id /\ LabelIsFit(r, l)
           /\ \A r \in panel'.process : ProcessIsFit(panel'.stance, r)]_<<vars, panelVars>>
  <2> SUFFICES ASSUME PanelInv, PanelNext, panel' # panel, panel'.phase = "answered"
               PROVE  /\ \A r \in panel'.rows : RowIsFit(panel'.stance, r)
                      /\ \A l \in panel'.labels :
                             \E r \in panel'.rows : r.id = panel.id /\ LabelIsFit(r, l)
                      /\ \A r \in panel'.process : ProcessIsFit(panel'.stance, r)
    OBVIOUS
  <2>1. FactAnswered \/ ListAnswered \/ SourceAnswered
    <3>1. AtThePanel
      BY DEF PanelNext, Elsewhere
    <3> QED  BY <3>1 DEF AtThePanel, FactAsked, FactJudged, NeighboursRead, MapsRead, ListAsked,
             ListRead, SourceAsked, TickAsked, TickLoaded, TickWritten, RevokeTick, FactsSaved,
             IndexSaved, PersonMoves, FactSwitchMoves, NoPanel
  <2> QED  BY <2>1, FactAnswerIsFit, ListAnswerIsFit, SourceAnswerIsFit
<1> QED  BY <1>1, PanelInvariant, PTL DEF PanelSpec, PanelTellsOnlyTheFit
=============================================================================
