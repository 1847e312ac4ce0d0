----------------------------- MODULE Transcribe -----------------------------
(***************************************************************************)
(* One call of the transcribe command: a recording is cut into chunks that *)
(* overlap, each chunk is asked of the model on its own, and the text is   *)
(* handed on only when every chunk has answered.                           *)
(*                                                                         *)
(* Time is in whole seconds.  What the model answered a chunk with is text *)
(* or nothing; the temperature of a retry, the bit rate and the way the    *)
(* audio reaches the model are parameters of the request and left out.     *)
(***************************************************************************)
EXTENDS Integers, Sequences

CONSTANTS
    Chunk,          \* CHUNK_SECONDS
    Overlap,        \* CHUNK_OVERLAP
    TailSeconds,    \* TAIL_SECONDS
    MinTail,        \* MIN_TAIL_SECONDS
    Retries,        \* RETRIES
    Unknown         \* a duration ffprobe does not report

ASSUME TranscribeAssumption ==
    /\ {Chunk, Retries} \subseteq Nat \ {0}
    /\ {Overlap, TailSeconds, MinTail} \subseteq Nat
    /\ Unknown \notin Nat

VARIABLES
    sound,          \* the recording: what its header and its stream report
    at,             \* the chunk being transcribed
    attempt,        \* the attempts at it, this one included
    heard,          \* the chunks that came back with text
    ended           \* "idle", "calling", "text" or "error"

call == <<sound, at, attempt, heard, ended>>

Length == Nat \cup {Unknown}

Sound == [header : Length, stream : Length]

\* Defect: the header is believed whatever the stream says.
HeaderFirst(s) == IF s.header # Unknown THEN s.header ELSE s.stream

\* The longer of the two answers; Unknown when there is neither.
Duration(s) ==
    IF s.header = Unknown \/ (s.stream # Unknown /\ s.stream > s.header)
    THEN s.stream ELSE s.header

-----------------------------------------------------------------------------
(* The arithmetic of the chunks.                                           *)

\* Where chunk i would end if the recording went on for ever: it advances by
\* Chunk and ends Overlap late.
Reach(i) == i * Chunk + Overlap

\* The loop of chunk_bounds stops at the first chunk that reaches the end.
LastOf(d) == IF d <= Overlap THEN 1 ELSE (d - Overlap + Chunk - 1) \div Chunk

ChunkBounds(d) ==
    [i \in 1..(IF d = 0 THEN 0 ELSE LastOf(d)) |->
        [start |-> (i - 1) * Chunk, end |-> IF Reach(i) < d THEN Reach(i) ELSE d]]

\* assert_coverage: the bounds start at 0, reach the end and leave no gap.
Covered(b, d) ==
    /\ b # <<>>
    /\ b[1].start = 0
    /\ b[Len(b)].end >= d
    /\ \A i \in 1..(Len(b) - 1) : b[i + 1].start <= b[i].end

\* One chunk more for the ending of anything longer than the tail.
Bounds(d) ==
    LET b == ChunkBounds(d)
    IN IF d > TailSeconds THEN Append(b, [start |-> d - TailSeconds, end |-> d]) ELSE b

\* Defect: any chunk that reaches the end may come back empty.
SilentToTheEnd(b, d) == b.end >= d

\* silence_ok: short, and touching the end of the recording.
SilenceOk(b, d) == b.end >= d /\ b.end - b.start <= MinTail

-----------------------------------------------------------------------------
(* The call.                                                               *)

Calling == ended = "calling"

Cuts == Bounds(Duration(sound))

\* probe_duration, chunk_bounds and assert_coverage, before the first request.
Probe(s) ==
    /\ sound' = s
    /\ at' = 1
    /\ attempt' = 1
    /\ heard' = {}
    /\ ended' = IF Duration(s) # Unknown /\ Covered(ChunkBounds(Duration(s)), Duration(s))
                THEN "calling" ELSE "error"

\* On to the next chunk; after the last one, text if any chunk had any.
Onward(h) ==
    /\ heard' = h
    /\ at' = at + 1
    /\ attempt' = 1
    /\ ended' = IF at < Len(Cuts) THEN "calling"
                ELSE IF h = {} THEN "error" ELSE "text"
    /\ UNCHANGED sound

AnswersText == Calling /\ Onward(heard \cup {at})

\* check_response forgives an empty answer only where silence_ok.
AnswersNothing ==
    /\ Calling
    /\ SilenceOk(Cuts[at], Duration(sound))
    /\ Onward(heard)

\* Any failure that is not transient: ffmpeg, a blocked or cut response, an
\* empty one in the middle; or a transient one on the last attempt.
Fails ==
    /\ Calling
    /\ ended' = "error"
    /\ UNCHANGED <<sound, at, attempt, heard>>

\* Defect: the chunk that used up its attempts is passed over.
PassedOver ==
    /\ Calling
    /\ IF attempt < Retries
       THEN /\ attempt' = attempt + 1
            /\ UNCHANGED <<sound, at, heard, ended>>
       ELSE Onward(heard)

\* with_retry: a transient failure, or a runaway answer, is asked again.
TriesAgain ==
    /\ Calling
    /\ attempt < Retries
    /\ attempt' = attempt + 1
    /\ UNCHANGED <<sound, at, heard, ended>>

CallInit ==
    /\ sound = [header |-> Unknown, stream |-> Unknown]
    /\ at = 1
    /\ attempt = 1
    /\ heard = {}
    /\ ended = "idle"

\* The process is gone, and what it held in memory with it.
CallGone ==
    /\ sound' = [header |-> Unknown, stream |-> Unknown]
    /\ at' = 1
    /\ attempt' = 1
    /\ heard' = {}
    /\ ended' = "idle"

Answers == AnswersText \/ AnswersNothing \/ Fails \/ TriesAgain

CallNext == (\E s \in Sound : ended = "idle" /\ Probe(s)) \/ Answers \/ CallGone

CallSpec == CallInit /\ [][CallNext]_call

-----------------------------------------------------------------------------
(* Properties.                                                             *)

\* Where the call is, and how often it asked.
CallTypeOK ==
    /\ sound \in Sound
    /\ at \in Nat \ {0}
    /\ attempt \in 1..Retries
    /\ heard \in SUBSET (1..(at - 1))
    /\ ended \in {"idle", "calling", "text", "error"}

Seconds(s) == UNION {0..(d - 1) : d \in {s.header, s.stream} \ {Unknown}}

Ending(s, t) == \A d \in {s.header, s.stream} \ {Unknown} : t >= d - MinTail

\* All or nothing: when a call returns a transcript, every second that either
\* the header or the stream says there is was in a chunk that came back with
\* text, except that the last MIN_TAIL_SECONDS may have been silence.  However
\* the duration falls against the chunks, and whatever was retried.
NothingDropped ==
    ended = "text" =>
        \A t \in Seconds(sound) :
            \/ \E i \in heard : Cuts[i].start <= t /\ t < Cuts[i].end
            \/ Ending(sound, t)
=============================================================================
