----------------------------- MODULE MCComments -----------------------------
(* Instances of Comments for TLC.                                          *)
EXTENDS Comments

CONSTANTS u1, u2, u3

\* Bound: at first u1 and u2 are Readers in a chain below u3, of any role.  Every
\* name could stand for another: this fixes which is which.
ChainFirst ==
    changes = 0 =>
        /\ person[u1].supervisor = u2 /\ person[u2].supervisor = u3
        /\ person[u1].kind = "reader" /\ person[u2].kind = "reader"
=============================================================================
