---------------------------- MODULE MCProjection ----------------------------
(* Instances of Projection for TLC.                                        *)
EXTENDS Projection

CONSTANT v1

\* The contents are interchangeable: the first commit may hold any of them.
FirstContent == \A t \in Target : Tree(1)[t] = v1
=============================================================================
