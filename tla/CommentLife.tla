---------------------------- MODULE CommentLife -----------------------------
(***************************************************************************)
(* What a comment promises the people who read it, whoever it waits for    *)
(* and wherever it is decided: which decisions there are, which of them    *)
(* stand, and that the outside resolve is told to the activity record      *)
(* once.  Module Comments is shown to keep it.                             *)
(***************************************************************************)
EXTENDS Naturals

CONSTANT User

VARIABLES
    stage,          \* "unwritten", "awaiting", "approved", "addressed",
                    \* "rejected" or "withdrawn"
    approvals,      \* who has approved the text that stands
    owed,           \* it was resolved outside, which is owed to the record
    copies          \* rows of the record that tell of it

vars == <<stage, approvals, owed, copies>>

Open == {"awaiting", "approved"}

\* Nobody has spoken of the text: it is the author's, to send in or to change.
Write ==
    /\ stage \in Open \cup {"unwritten", "withdrawn"}
    /\ approvals = {}
    /\ stage' \in Open
    /\ UNCHANGED <<approvals, owed, copies>>

Withdraw ==
    /\ stage \in Open
    /\ approvals = {}
    /\ stage' = "withdrawn"
    /\ UNCHANGED <<approvals, owed, copies>>

\* It waits for somebody else, or for nobody any more.
Reroute ==
    /\ stage = "awaiting"
    /\ stage' \in Open
    /\ UNCHANGED <<approvals, owed, copies>>

Approve(u) ==
    /\ stage = "awaiting"
    /\ stage' \in Open
    /\ approvals' = approvals \cup {u}
    /\ UNCHANGED <<owed, copies>>

Reject ==
    /\ stage = "awaiting"
    /\ stage' = "rejected"
    /\ UNCHANGED <<approvals, owed, copies>>

\* By an Editor, who is in the record already, or outside.
Address ==
    /\ stage = "approved"
    /\ stage' = "addressed"
    /\ owed' \in {owed, TRUE}
    /\ UNCHANGED <<approvals, copies>>

Copy ==
    /\ owed /\ copies = 0
    /\ copies' = 1
    /\ UNCHANGED <<stage, approvals, owed>>

Init ==
    /\ stage = "unwritten"
    /\ approvals = {}
    /\ owed = FALSE
    /\ copies = 0

Next ==
    \/ Write \/ Withdraw \/ Reroute \/ Reject \/ Address \/ Copy
    \/ \E u \in User : Approve(u)

Spec == Init /\ [][Next]_vars

-----------------------------------------------------------------------------
(* What follows for every comment.                                         *)

\* An approval stands, and nothing leaves rejected or addressed.
Stands ==
    /\ approvals \subseteq approvals'
    /\ stage \in {"rejected", "addressed"} => stage' = stage

DecisionsStand == [][Stands]_vars
=============================================================================
