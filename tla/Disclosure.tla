----------------------------- MODULE Disclosure -----------------------------
(***************************************************************************)
(* What of a process document a caller is sent, and what a save puts back. *)
(*                                                                         *)
(* A link is the department of the process it names: whether it is told is *)
(* decided from the id alone.  Of the six switches one stands for those of *)
(* a process (its summary) and one for those of a step (its actor).        *)
(***************************************************************************)
EXTENDS Naturals

CONSTANTS
    Dept,           \* departments
    Node,           \* the steps of the document
    Text,           \* what may be written in a field
    Blank,          \* the empty field
    None            \* no link

ASSUME DisclosureAssumption == None \notin Dept /\ Blank \notin Text

Ref == Dept \cup {None}

Switch == {"process_summary", "node_actor"}

Doc == [summary : Text, actor : [Node -> Text], parent : Ref, sub : [Node -> Ref],
        removed : SUBSET Node, edges : SUBSET (Node \X Node),
        pending : BOOLEAN, tombstoned : BOOLEAN]

\* Everything but the proposals and the tombstone (and the provenance, which no
\* document here carries).
Fingerprint(d) ==
    <<d.summary, d.actor, d.parent, d.sub, d.removed, d.edges>>

Told(ref, sees) == IF ref \in sees THEN ref ELSE None

ToldSubs(d, sees) == [n \in Node |-> Told(d.sub[n], sees)]

LinksOnly(d, sees) == [d EXCEPT !.parent = Told(d.parent, sees), !.sub = ToldSubs(d, sees)]

\* A deleted step goes, and the arrows at it with it.
Kept(d) == Node \ d.removed

PublicNode(d, n, policy) == IF "node_actor" \in policy THEN d.actor[n] ELSE Blank

PublicEdges(d) == {e \in d.edges : e[1] \in Kept(d) /\ e[2] \in Kept(d)}

PublicProcess(d, policy) ==
    [summary |-> IF "process_summary" \in policy THEN d.summary ELSE Blank,
     parent |-> d.parent,
     actor |-> [n \in Kept(d) |-> PublicNode(d, n, policy)],
     sub |-> [n \in Kept(d) |-> d.sub[n]],
     edges |-> PublicEdges(d)]

\* What somebody who may not edit the department is sent.
Filtered(d, policy, sees) == PublicProcess(LinksOnly(d, sees), policy)

\* Defect: a mark, whatever it vouches for, lets a document be read.
MayServeMarked(d, mark) == ~d.tombstoned /\ mark # <<>>

\* May somebody who does not edit the department be told of it at all?
MayServe(d, mark) == ~d.tombstoned /\ mark = Fingerprint(d)

\* Every link the caller was not told of is put back.
PutBack(now, was, sees) == IF was \notin sees \cup {None} THEN was ELSE now

PutBackSubs(incoming, onDisk, sees) ==
    [n \in Node |-> PutBack(incoming.sub[n], onDisk.sub[n], sees)]

\* Defect: only the steps' links are put back.
RestoreSteps(incoming, onDisk, sees) ==
    [incoming EXCEPT !.sub = PutBackSubs(incoming, onDisk, sees)]

Restore(incoming, onDisk, sees) ==
    [incoming EXCEPT !.parent = PutBack(incoming.parent, onDisk.parent, sees),
                     !.sub = PutBackSubs(incoming, onDisk, sees)]
=============================================================================
