----------------------------- MODULE MCAccounts -----------------------------
(* Instances of Accounts for TLC.                                          *)
EXTENDS Accounts, TLC

CONSTANTS d1, k1

DeptScope(d) == [dept |-> d, report |-> Wild]

StarOrDept == {{Everything}, {DeptScope(d1)}}

TwoRoles == {"editor", "reader"}

Interchangeable == Permutations(User) \cup Permutations(Number)
=============================================================================
