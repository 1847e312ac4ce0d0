------------------------------- MODULE Intake -------------------------------
(***************************************************************************)
(* What the upload bot promises about a file somebody sent it, whatever    *)
(* conversation, name or transcription it went through: it is held, then   *)
(* kept or dropped; what is kept stays; and the line that starts the       *)
(* processing of a recording is said once, of a recording that is kept,    *)
(* when nothing is transcribing it any more.                               *)
(***************************************************************************)
CONSTANTS File

VARIABLES
    place,      \* place[f]: "away", "held", "kept" or "dropped"
    word        \* word[f]: "none", "busy" while it is transcribed, "start"

Init ==
    /\ place = [f \in File |-> "away"]
    /\ word = [f \in File |-> "none"]

Moved(F, from, to) ==
    /\ \A f \in F : place[f] = from
    /\ place' = [f \in File |-> IF f \in F THEN to ELSE place[f]]

Said(f, from, to) ==
    /\ word[f] \in from
    /\ place[f] = "kept"
    /\ word' = [word EXCEPT ![f] = to]
    /\ UNCHANGED place

Hold(f) == Moved({f}, "away", "held") /\ UNCHANGED word

Keep(F) == Moved(F, "held", "kept") /\ UNCHANGED word

Drop(F) == Moved(F, "held", "dropped") /\ UNCHANGED word

Transcribing(f) == Said(f, {"none"}, "busy")

SayStart(f) == Said(f, {"none", "busy"}, "start")

GiveUp(f) == Said(f, {"busy"}, "none")

\* The bot starts again: every transcription stops; a machine set up anew has
\* lost the files that are not committed with the rest.
Restart ==
    /\ word' = [f \in File |-> IF word[f] = "busy" THEN "none" ELSE word[f]]
    /\ \E F \in SUBSET {f \in File : place[f] \in {"held", "kept"}} :
            place' = [f \in File |-> IF f \in F THEN "dropped" ELSE place[f]]

Next ==
    \/ \E f \in File : Hold(f) \/ Transcribing(f) \/ SayStart(f) \/ GiveUp(f)
    \/ \E F \in SUBSET File : Keep(F) \/ Drop(F)
    \/ Restart

Spec == Init /\ [][Next]_<<place, word>>
=============================================================================
