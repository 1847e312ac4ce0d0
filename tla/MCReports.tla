----------------------------- MODULE MCReports ------------------------------
(* Instances of Reports for TLC.                                           *)
EXTENDS Reports, TLC

Symmetry == Permutations(Proc) \cup Permutations(Builder)

\* Bound: one build at a time is between its look at the cache and its name, the
\* other may be anywhere after.
OneReads ==
    Cardinality({b \in Builder : job[b].stage \in {"looked", "marked", "rendered", "documents",
                                                   "marks", "introduction"}}) <= 1
=============================================================================
