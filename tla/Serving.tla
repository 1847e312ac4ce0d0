------------------------------ MODULE Serving -------------------------------
(***************************************************************************)
(* One process document between those who write it and those who read it:  *)
(* an editor's browser holding a copy with the links it was not told of    *)
(* gone, the pipeline writing under it, an editor vouching for what the    *)
(* panel showed, a reader's request, and an administrator moving switches  *)
(* and scopes.  Every request in the moments at which it reads and writes. *)
(***************************************************************************)
EXTENDS Disclosure

CONSTANTS
    Home,           \* the department of the document
    MaxBegun      \* bound: requests, edits, writes and moves, of everybody together

ASSUME ServingAssumption == Home \in Dept /\ MaxBegun \in Nat

VARIABLES
    doc,            \* the file
    mark,           \* the confirmation of it: a fingerprint, or <<>>
    policy,         \* the switches that are on
    scope,          \* the departments the editor reaches
    client,         \* the editor's browser: what it loaded and what it holds now
    save,           \* the save under way
    vouch,          \* the confirmation under way
    request,        \* a reader's request for the document
    read,           \* history: the fingerprints a confirming editor was shown
    begun         \* counter for the bound

vars == <<doc, mark, policy, scope, client, save, vouch, request, read, begun>>

NoClient == [loaded |-> FALSE]
NoSave == [phase |-> "none"]
NoVouch == [phase |-> "none"]
NoRequest == [phase |-> "none"]

\* The copy a browser is sent, and under which scope.
Sent(d, sees) == [loaded |-> TRUE, disk |-> d, sees |-> sees, held |-> LinksOnly(d, sees)]

Begins ==
    /\ begun < MaxBegun
    /\ begun' = begun + 1

-----------------------------------------------------------------------------
(* The editor's browser and its save.                                      *)

Load ==
    /\ Begins
    /\ Home \in scope
    /\ client' = Sent(doc, scope)
    /\ UNCHANGED <<doc, mark, policy, scope, save, vouch, request, read>>

\* A link is chosen among what the editor is shown, a step deleted or its
\* actor named.
Retouches(d, sees) ==
    {[d EXCEPT !.sub = [@ EXCEPT ![n] = r]] : n \in Node, r \in sees \cup {None}}
    \cup {[d EXCEPT !.parent = r] : r \in sees \cup {None}}
    \cup {[d EXCEPT !.removed = @ \cup {n}] : n \in Node}
    \cup {[d EXCEPT !.actor = [@ EXCEPT ![n] = t]] : n \in Node, t \in Text}

Retouch ==
    /\ Begins
    /\ client.loaded
    /\ \E d \in Retouches(client.held, client.sees) : client' = [client EXCEPT !.held = d]
    /\ UNCHANGED <<doc, mark, policy, scope, save, vouch, request, read>>

\* The gate, and the scopes the whole request goes by.
SaveBegins ==
    /\ Begins
    /\ client.loaded /\ save = NoSave
    /\ Home \in scope
    /\ save' = [phase |-> "gated", sees |-> scope, from |-> client]
    /\ UNCHANGED <<doc, mark, policy, scope, client, vouch, request, read>>

SaveReads ==
    /\ save.phase = "gated"
    /\ save' = [phase |-> "read", sees |-> save.sees, from |-> save.from, disk |-> doc]
    /\ UNCHANGED <<doc, mark, policy, scope, client, vouch, request, read, begun>>

\* The answer is redacted as every other, and becomes what the browser holds.
SaveWrites ==
    /\ save.phase = "read"
    /\ doc' = Restore(save.from.held, save.disk, save.sees)
    /\ client' = Sent(doc', save.sees)
    /\ save' = NoSave
    /\ UNCHANGED <<mark, policy, scope, vouch, request, read, begun>>

-----------------------------------------------------------------------------
(* Vouching: the panel lists a fingerprint, the request echoes it.         *)

Lists ==
    /\ Begins
    /\ vouch = NoVouch
    /\ ~doc.tombstoned
    /\ vouch' = [phase |-> "shown", shown |-> Fingerprint(doc)]
    /\ read' = read \cup {Fingerprint(doc)}
    /\ UNCHANGED <<doc, mark, policy, scope, client, save, request>>

\* Defect: whatever is there now is what the editor vouches for.
ConfirmLoadsAnything ==
    /\ vouch.phase = "shown"
    /\ vouch' = IF doc.tombstoned THEN NoVouch
                ELSE [phase |-> "loaded", now |-> Fingerprint(doc)]
    /\ UNCHANGED <<doc, mark, policy, scope, client, save, request, read, begun>>

\* 403 for a tombstone, 409 when the document is no longer the one shown.
ConfirmLoads ==
    /\ vouch.phase = "shown"
    /\ vouch' = IF doc.tombstoned \/ Fingerprint(doc) # vouch.shown THEN NoVouch
                ELSE [phase |-> "loaded", now |-> Fingerprint(doc)]
    /\ UNCHANGED <<doc, mark, policy, scope, client, save, request, read, begun>>

ConfirmWrites ==
    /\ vouch.phase = "loaded"
    /\ mark' = vouch.now
    /\ vouch' = NoVouch
    /\ UNCHANGED <<doc, policy, scope, client, save, request, read, begun>>

Revoke ==
    /\ Begins
    /\ mark # <<>>
    /\ mark' = <<>>
    /\ UNCHANGED <<doc, policy, scope, client, save, vouch, request, read>>

-----------------------------------------------------------------------------
(* A reader scoped to Home who may not edit it.                            *)

ReaderAsks ==
    /\ Begins
    /\ request.phase \in {"none", "answered"}
    /\ request' = [phase |-> "loaded", doc |-> doc]
    /\ UNCHANGED <<doc, mark, policy, scope, client, save, vouch, read>>

ReaderIsJudgedUnder ==
    /\ request.phase = "loaded"
    /\ request' = [phase |-> "judged", doc |-> request.doc, policy |-> policy]
    /\ UNCHANGED <<doc, mark, policy, scope, client, save, vouch, read, begun>>

\* The uniform 404, or the filtered document.
ReaderIsAnswered ==
    /\ request.phase = "judged"
    /\ request' = IF MayServe(request.doc, mark)
                  THEN [phase |-> "answered", doc |-> request.doc,
                        body |-> Filtered(request.doc, request.policy, {Home})]
                  ELSE NoRequest
    /\ UNCHANGED <<doc, mark, policy, scope, client, save, vouch, read, begun>>

-----------------------------------------------------------------------------
(* What else moves.                                                        *)

\* One `merge` verb: it links, retires, proposes or draws, knowing nothing of
\* scopes.
Rewrites(d) ==
    {[d EXCEPT !.sub = [@ EXCEPT ![n] = r]] : n \in Node, r \in Ref}
    \cup {[d EXCEPT !.parent = r] : r \in Ref}
    \cup {[d EXCEPT !.summary = t] : t \in Text}
    \cup {[d EXCEPT !.tombstoned = ~@], [d EXCEPT !.pending = ~@]}

PipelineWrites ==
    /\ doc' \in Rewrites(doc)
    /\ UNCHANGED <<mark, policy, scope>>

ScopeMoves ==
    /\ \E s \in SUBSET Dept : scope' = s
    /\ UNCHANGED <<doc, mark, policy>>

SwitchMoves ==
    /\ \E p \in SUBSET Switch : policy' = p
    /\ UNCHANGED <<doc, mark, scope>>

Moves ==
    /\ Begins
    /\ PipelineWrites \/ ScopeMoves \/ SwitchMoves
    /\ UNCHANGED <<client, save, vouch, request, read>>

Init ==
    /\ doc \in {d \in Doc : /\ d.removed = {} /\ ~d.pending /\ ~d.tombstoned
                            /\ d.edges = {e \in Node \X Node : e[1] # e[2]}
                            /\ \A n \in Node : d.sub[n] = d.parent /\ d.actor[n] = d.summary}
    /\ mark = <<>>
    /\ policy = {"node_actor"}
    /\ scope \in {{Home}, Dept}
    /\ client = NoClient /\ save = NoSave /\ vouch = NoVouch /\ request = NoRequest
    /\ read = {}
    /\ begun = 0

Next ==
    \/ Load \/ Retouch \/ SaveBegins \/ SaveReads \/ SaveWrites
    \/ Lists \/ ConfirmLoads \/ ConfirmWrites \/ Revoke
    \/ ReaderAsks \/ ReaderIsJudgedUnder \/ ReaderIsAnswered
    \/ Moves

Spec == Init /\ [][Next]_vars

-----------------------------------------------------------------------------
(* Properties.                                                             *)

\* The links of a document, by where they stand.
Links(d) == [at \in Node \cup {"parent"} |-> IF at = "parent" THEN d.parent ELSE d.sub[at]]

\* A link a save erases is one the editor was looking at.  Every exception is
\* another's move between the load and the write: the link was made after the
\* load, or after the save read the file, or the editor's scope was widened
\* in between and it counts as shown although it never was.
ErasedFairly(at) ==
    LET was == Links(doc)[at] IN
    \/ was \in {None, Links(doc')[at]}
    \/ was \in save.from.sees
    \/ Links(save.from.disk)[at] # was
    \/ Links(save.disk)[at] # was
    \/ was \in save.sees \ save.from.sees

UnseenLinksSurvive ==
    [][SaveWrites => \A at \in Node \cup {"parent"} : ErasedFairly(at)]_vars

\* What a reader is sent, somebody who may confirm has had on the screen.
ReadersGetWhatSomebodyRead ==
    request.phase = "answered" => Fingerprint(request.doc) \in read

\* The diagram a reader is sent is whole: its arrows join steps that are in it,
\* and nothing in it names a department other than its own.
BodiesAreWhole ==
    request.phase = "answered" =>
        LET body == request.body IN
        /\ body.edges \subseteq (DOMAIN body.sub) \X (DOMAIN body.sub)
        /\ body.parent \in {Home, None}
        /\ \A n \in DOMAIN body.sub : body.sub[n] \in {Home, None}

\* What a reader is sent is whole, and somebody who may confirm has had it on
\* the screen.
AnswersAreFit == ReadersGetWhatSomebodyRead /\ BodiesAreWhole

\* A save of an untouched copy changes nothing, whatever the editor may see.
UntouchedSaveIsNoChange ==
    \A sees \in SUBSET Dept : Restore(LinksOnly(doc, sees), doc, sees) = doc
=============================================================================
