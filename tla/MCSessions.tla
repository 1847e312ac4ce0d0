----------------------------- MODULE MCSessions -----------------------------
(* Instances of Sessions for TLC.                                          *)
EXTENDS Sessions, TLC

StarOnly == {{Everything}}
EditorsOnly == {"editor"}

Interchangeable == UNION {Permutations(User), Permutations(Number),
                          Permutations(Session), Permutations(Change)}

\* Bound: no session depends on the org chart, so it stays empty.
FlatOrgChart ==
    \A u \in Users : Supervisor(u) = NoUser /\ ~account[u].canSupervise
=============================================================================
