------------------------------ MODULE Uploads -------------------------------
(***************************************************************************)
(* The upload bot: the conversations in which recordings and files are     *)
(* sent, the staging folder, the names files are kept under, and the queue *)
(* of transcriptions that runs behind the conversations, one call of the   *)
(* transcribe command (module Transcribe) at a time.                       *)
(*                                                                         *)
(* A conversation is one user in one chat and has a state of its own; what *)
(* is being collected is kept per user.  Handlers run one at a time, the   *)
(* transcription runs between their steps.  All of it is in memory but for *)
(* the files.  Only the users on the allowlist are modelled: every handler *)
(* ends at once for anybody else.                                          *)
(***************************************************************************)
EXTENDS Transcribe, FiniteSets

CONSTANTS
    User,
    Conv,           \* conversations: a user in a chat
    Owner,          \* Owner[c]: whose conversation c is
    Dept,           \* the codes in the registry
    Date,           \* meeting dates
    Name,           \* names files arrive with, once sanitised
    Recording,      \* the recordings that can be sent
    Nothing,
    MaxStarts,      \* bound: conversations begun
    MaxSent,        \* bound: files and recordings sent
    MaxFaults,      \* bound: messages, downloads and moves that fail
    MaxRestarts     \* bound: restarts of the bot

\* What a recording is named: departments, a date if there is one, a number.
Base == (SUBSET Dept) \X (Date \cup {Nothing}) \X (Nat \ {0})

ASSUME UploadsAssumption ==
    /\ Owner \in [Conv -> User]
    /\ Recording \subseteq Sound
    /\ {MaxStarts, MaxSent, MaxFaults, MaxRestarts} \subseteq Nat
    /\ Nothing \notin Base

VARIABLES
    state,          \* state[c]: the ConversationHandler's
    voice,          \* voice[u]: user_data["voice"]
    batch,          \* batch[u]: user_data["batch"]
    staging,        \* the files in .staging
    audio,          \* meetings/audio: what is under a base name
    attachments,    \* departments/*/attachments: what is under a name
    raw, approved,  \* transcripts/raw and transcripts: whose text it is
    handling,       \* v_file between two of its steps
    queue,          \* transcriptions waiting for the lock; the head holds it
    cli,            \* the process of the head: "none", "started", "calling",
                    \* "succeeded" or "failed"
    word,           \* word[f]: the last word said of a recording
    vertex,         \* VERTEX_PROJECT is set
    cloned,         \* history: a restart began from a fresh clone
    starts, sent, faults, restarts

files == <<staging, audio, attachments>>
conversation == <<state, voice, batch>>
transcripts == <<raw, approved>>
running == <<queue, cli, word>>
bounds == <<starts, sent, faults, restarts>>
vars == <<conversation, files, transcripts, running, call, handling, vertex, cloned, bounds>>

File == 1..MaxSent

States == {"END", "CHOOSE_KIND", "V_DATE", "V_DEPTS", "V_FILE", "F_DEPT", "F_COLLECT"}

Free == handling = Nothing

EmptyVoice == [date |-> Nothing, depts |-> {}]

EmptyBatch == [dept |-> Nothing, files |-> <<>>]

Put(f, k, v) == [x \in DOMAIN f \cup {k} |-> IF x = k THEN v ELSE f[x]]

Content(f) == {f[k] : k \in DOMAIN f}

Fault == faults < MaxFaults /\ faults' = faults + 1

\* The handler's last message: without it the conversation stays where it was,
\* because a handler that raises has not moved it.
Replied(c, s) ==
    \/ state' = [state EXCEPT ![c] = s] /\ UNCHANGED faults
    \/ Fault /\ UNCHANGED state

-----------------------------------------------------------------------------
(* Names and staging.                                                      *)

\* The lowest number no name of this stem has yet.
FirstFree(taken) ==
    CHOOSE n \in 1..(Cardinality(taken) + 1) : n \notin taken /\ 1..(n - 1) \subseteq taken

\* The numbers of the names that begin like this.
NumbersOf(x, y, names) == {name[3] : name \in {n \in names : n[1] = x /\ n[2] = y}}

\* Defect: the second recording of a day is given the name of the first.
FirstName(v) == <<v.depts, v.date, 1>>

\* voice_basename: departments, date and a number if the name is taken.
VoiceBasename(v) ==
    <<v.depts, v.date, FirstFree(NumbersOf(v.depts, v.date, DOMAIN audio))>>

\* attachment_dest, in a folder that already holds these names.
AttachmentDest(d, name, held) == <<d, name, FirstFree(NumbersOf(d, name, held))>>

\* Defect: every file of the batch is named before the first is moved.
NamedAtOnce(d, fs, n) ==
    LET dest == [i \in 1..n |-> AttachmentDest(d, fs[i].name, DOMAIN attachments)]
    IN [x \in DOMAIN attachments \cup {dest[i] : i \in 1..n} |->
            IF \E i \in 1..n : dest[i] = x
            THEN fs[CHOOSE i \in 1..n : dest[i] = x].file ELSE attachments[x]]

\* The folder after the first n files were moved into it one by one.
AfterMoves(d, fs, n) ==
    LET moved[i \in 0..n] ==
            IF i = 0 THEN attachments
            ELSE Put(moved[i - 1], AttachmentDest(d, fs[i].name, DOMAIN moved[i - 1]), fs[i].file)
    IN moved[n]

InBatch(u) ==
    IF batch[u] = Nothing THEN {}
    ELSE {batch[u].files[i].file : i \in DOMAIN batch[u].files}

\* _discard_staged, and the same loop in cancel.
DiscardStaged(u) ==
    /\ voice' = [voice EXCEPT ![u] = Nothing]
    /\ batch' = [batch EXCEPT ![u] = Nothing]
    /\ staging' = staging \ InBatch(u)

-----------------------------------------------------------------------------
(* Conversations.                                                          *)

\* /start is taken in any state, and in any chat of the user.
Start(c) ==
    /\ Free
    /\ starts < MaxStarts
    /\ starts' = starts + 1
    /\ DiscardStaged(Owner[c])
    /\ Replied(c, "CHOOSE_KIND")
    /\ UNCHANGED <<audio, attachments, transcripts, running, call, handling, vertex, cloned, sent, restarts>>

ChooseKind(c) ==
    /\ Free /\ state[c] = "CHOOSE_KIND"
    /\ \/ /\ voice' = [voice EXCEPT ![Owner[c]] = EmptyVoice]
          /\ Replied(c, "V_DATE")
          /\ UNCHANGED batch
       \/ /\ batch' = [batch EXCEPT ![Owner[c]] = EmptyBatch]
          /\ Replied(c, "F_DEPT")
          /\ UNCHANGED voice
    /\ UNCHANGED <<files, transcripts, running, call, handling, vertex, cloned, starts, sent, restarts>>

\* A date that does not parse, or a voice another chat has popped, changes
\* nothing.
VDate(c) ==
    /\ Free /\ state[c] = "V_DATE" /\ voice[Owner[c]] # Nothing
    /\ \E t \in Date : voice' = [voice EXCEPT ![Owner[c]].date = t]
    /\ Replied(c, "V_DEPTS")
    /\ UNCHANGED <<batch, files, transcripts, running, call, handling, vertex, cloned, starts, sent, restarts>>

VDepts(c, d) ==
    /\ Free /\ state[c] = "V_DEPTS" /\ voice[Owner[c]] # Nothing
    /\ voice' = [voice EXCEPT ![Owner[c]].depts = (@ \ {d}) \cup ({d} \ @)]
    /\ UNCHANGED <<state, batch, files, transcripts, running, call, handling, vertex, cloned, bounds>>

VDeptsDone(c) ==
    /\ Free /\ state[c] = "V_DEPTS" /\ voice[Owner[c]] # Nothing
    /\ voice[Owner[c]].date # Nothing /\ voice[Owner[c]].depts # {}
    /\ Replied(c, "V_FILE")
    /\ UNCHANGED <<voice, batch, files, transcripts, running, call, handling, vertex, cloned, starts, sent, restarts>>

FDept(c, d) ==
    /\ Free /\ state[c] = "F_DEPT" /\ batch[Owner[c]] # Nothing
    /\ batch' = [batch EXCEPT ![Owner[c]].dept = d]
    /\ Replied(c, "F_COLLECT")
    /\ UNCHANGED <<voice, files, transcripts, running, call, handling, vertex, cloned, starts, sent, restarts>>

\* The state is F_COLLECT whether or not the receipt was delivered.
FCollect(c, name) ==
    /\ Free /\ state[c] = "F_COLLECT" /\ batch[Owner[c]] # Nothing
    /\ sent < MaxSent
    /\ sent' = sent + 1
    /\ staging' = staging \cup {sent'}
    /\ batch' = [batch EXCEPT ![Owner[c]].files = Append(@, [name |-> name, file |-> sent'])]
    /\ UNCHANGED <<state, voice, audio, attachments, transcripts, running, call, handling,
                   vertex, cloned, starts, faults, restarts>>

\* /done moves the files one after the other.  It stops at the first that
\* cannot be moved, or after the last if its message cannot be sent, and then
\* the batch lists files that are no longer in staging.
FDone(c) ==
    LET u == Owner[c]
        b == batch[u]
        here == {i \in DOMAIN b.files : b.files[i].file \in staging}
    IN  /\ Free /\ state[c] = "F_COLLECT" /\ b # Nothing
        /\ b.dept # Nothing /\ b.files # <<>>
        /\ \E n \in 0..Len(b.files) :
            /\ 1..n \subseteq here
            /\ attachments' = AfterMoves(b.dept, b.files, n)
            /\ staging' = staging \ {b.files[i].file : i \in 1..n}
            /\ \/ /\ n = Len(b.files)
                  /\ state' = [state EXCEPT ![c] = "END"]
                  /\ batch' = [batch EXCEPT ![u] = Nothing]
                  /\ UNCHANGED faults
               \/ /\ n > 0
                  /\ Fault
                  /\ UNCHANGED <<state, batch>>
    /\ UNCHANGED <<voice, audio, transcripts, running, call, handling, vertex, cloned, starts, sent, restarts>>

Cancel(c) ==
    /\ Free /\ state[c] # "END"
    /\ DiscardStaged(Owner[c])
    /\ Replied(c, "END")
    /\ UNCHANGED <<audio, attachments, transcripts, running, call, handling, vertex, cloned, starts, sent, restarts>>

-----------------------------------------------------------------------------
(* A recording arrives: v_file, in the three steps a crash can separate.   *)

\* Acknowledged (or not), downloaded, staged.  The voice is the user's, from
\* whichever chat it was filled in.
VFile(c) ==
    /\ Free /\ state[c] = "V_FILE" /\ voice[Owner[c]] # Nothing
    /\ sent < MaxSent
    /\ sent' = sent + 1
    /\ staging' = staging \cup {sent'}
    /\ \E s \in Recording, acked \in BOOLEAN :
        handling' = [conv |-> c, file |-> sent', sound |-> s, acked |-> acked, base |-> Nothing]
    /\ UNCHANGED <<conversation, audio, attachments, transcripts, running, call, vertex, cloned,
                   starts, faults, restarts>>

\* Named and moved; discarded if it cannot be moved, and then the handler ends.
VFileKeep ==
    /\ ~Free /\ handling.base = Nothing
    /\ LET base == VoiceBasename(voice[Owner[handling.conv]])
       IN \/ /\ audio' = Put(audio, base, [file |-> handling.file, sound |-> handling.sound])
             /\ handling' = [handling EXCEPT !.base = base]
             /\ UNCHANGED faults
          \/ /\ Fault
             /\ handling' = Nothing
             /\ UNCHANGED audio
    /\ staging' = staging \ {handling.file}
    /\ UNCHANGED <<conversation, attachments, transcripts, running, call, vertex, cloned, starts, sent, restarts>>

\* Defect: the Start line rides on the message that says it is saved.
VFileEagerly ==
    /\ ~Free /\ handling.base # Nothing
    /\ queue' = Append(queue, [file |-> handling.file, base |-> handling.base])
    /\ word' = [word EXCEPT ![handling.file] = "start"]
    /\ state' = [state EXCEPT ![handling.conv] = "END"]
    /\ voice' = [voice EXCEPT ![Owner[handling.conv]] = Nothing]
    /\ handling' = Nothing
    /\ UNCHANGED <<batch, files, transcripts, cli, call, vertex, cloned, bounds>>

\* The saved message, the transcription scheduled or the Start line said here.
\* A message that fails there is only logged; one that fails in place of the
\* acknowledgement raises, with the recording kept and the voice still filled.
VFileTell ==
    /\ ~Free /\ handling.base # Nothing
    /\ \/ /\ \/ /\ vertex
                /\ queue' = Append(queue, [file |-> handling.file, base |-> handling.base])
                /\ UNCHANGED <<word, faults>>
             \/ /\ ~vertex
                /\ word' = [word EXCEPT ![handling.file] = "start"]
                /\ UNCHANGED <<queue, faults>>
             \/ Fault /\ UNCHANGED <<queue, word>>
          /\ state' = [state EXCEPT ![handling.conv] = "END"]
          /\ voice' = [voice EXCEPT ![Owner[handling.conv]] = Nothing]
       \/ /\ ~handling.acked
          /\ Fault
          /\ UNCHANGED <<state, voice, queue, word>>
    /\ handling' = Nothing
    /\ UNCHANGED <<batch, files, transcripts, cli, call, vertex, cloned, starts, sent, restarts>>

-----------------------------------------------------------------------------
(* The transcription behind it.                                            *)

Job == Head(queue)

\* The process is spawned, or cannot be.
CliStarts ==
    /\ queue # <<>> /\ cli = "none"
    /\ cli' \in {"started", "failed"}
    /\ UNCHANGED <<conversation, files, transcripts, queue, word, call, handling, vertex, cloned, bounds>>

\* Text that is there already is the answer: of the raw transcript first, then
\* of the approved one.
CliReads ==
    /\ cli = "started"
    /\ Job.base \in DOMAIN raw \cup DOMAIN approved
    /\ raw' = IF Job.base \in DOMAIN raw THEN raw ELSE Put(raw, Job.base, approved[Job.base])
    /\ cli' = "succeeded"
    /\ UNCHANGED <<conversation, files, approved, queue, word, call, handling, vertex, cloned, bounds>>

CliProbes ==
    /\ cli = "started"
    /\ Job.base \notin DOMAIN raw \cup DOMAIN approved
    /\ Probe(audio[Job.base].sound)
    /\ cli' = "calling"
    /\ UNCHANGED <<conversation, files, transcripts, queue, word, handling, vertex, cloned, bounds>>

CliCalls ==
    /\ cli = "calling"
    /\ Answers
    /\ UNCHANGED <<conversation, files, transcripts, running, handling, vertex, cloned, bounds>>

\* Written at once and whole, or not at all.
CliEnds ==
    /\ cli = "calling" /\ ~Calling
    /\ \/ /\ ended = "text"
          /\ raw' = Put(raw, Job.base, audio[Job.base].file)
          /\ cli' = "succeeded"
       \/ cli' = "failed" /\ UNCHANGED raw
    /\ CallGone
    /\ UNCHANGED <<conversation, files, approved, queue, word, handling, vertex, cloned, bounds>>

\* Defect: the end of the process is waited for without a limit.
WaitForEver ==
    /\ cli \in {"started", "calling"} /\ ended = "error"
    /\ cli' = "failed"
    /\ UNCHANGED <<conversation, files, transcripts, queue, word, call, handling, vertex, cloned, bounds>>

\* TIMEOUT: the process is killed wherever it is, and counts as failed.
Watchdog ==
    /\ cli \in {"started", "calling", "succeeded"}
    /\ cli' = "failed"
    /\ CallGone
    /\ UNCHANGED <<conversation, files, transcripts, queue, word, handling, vertex, cloned, bounds>>

\* DONE or FAILED, both with the Start line, and the lock is free.  An edit
\* Telegram refuses is swallowed.
LastWord ==
    /\ cli \in {"succeeded", "failed"}
    /\ \/ word' = [word EXCEPT ![Job.file] = "start"] /\ UNCHANGED faults
       \/ Fault /\ UNCHANGED word
    /\ queue' = Tail(queue)
    /\ cli' = "none"
    /\ UNCHANGED <<conversation, files, transcripts, call, handling, vertex, cloned, starts, sent, restarts>>

-----------------------------------------------------------------------------
(* Around it.                                                              *)

\* The pipeline, once somebody sends it the Start line: it approves the raw
\* transcript, or makes its own if there is none.
Approve(b) ==
    /\ b \in DOMAIN audio
    /\ word[audio[b].file] = "start"
    /\ b \notin DOMAIN approved
    /\ approved' = Put(approved, b, IF b \in DOMAIN raw THEN raw[b] ELSE audio[b].file)
    /\ UNCHANGED <<conversation, files, raw, running, call, handling, vertex, cloned, bounds>>

\* What a process that stops takes with it.
Stopped ==
    /\ restarts < MaxRestarts
    /\ restarts' = restarts + 1
    /\ state' = [c \in Conv |-> "END"]
    /\ voice' = [u \in User |-> Nothing]
    /\ batch' = [u \in User |-> Nothing]
    /\ handling' = Nothing
    /\ queue' = <<>>
    /\ cli' = "none"
    /\ CallGone
    /\ UNCHANGED <<attachments, transcripts, word, vertex, starts, sent, faults>>

Restart == Stopped /\ UNCHANGED <<staging, audio, cloned>>

\* Deployed from a fresh clone: recordings and .staging are not in git, the
\* transcripts and the attachments are.
FreshClone ==
    /\ Stopped
    /\ cloned' = TRUE
    /\ audio' = <<>>
    /\ staging' = {}

Init ==
    /\ state = [c \in Conv |-> "END"]
    /\ voice = [u \in User |-> Nothing]
    /\ batch = [u \in User |-> Nothing]
    /\ staging = {}
    /\ audio = <<>> /\ attachments = <<>>
    /\ raw = <<>> /\ approved = <<>>
    /\ handling = Nothing
    /\ queue = <<>>
    /\ cli = "none"
    /\ word = [f \in File |-> "none"]
    /\ vertex \in BOOLEAN
    /\ sent = 0 /\ faults = 0 /\ restarts = 0 /\ starts = 0
    /\ cloned = FALSE
    /\ CallInit

Handlers ==
    \/ \E c \in Conv :
        \/ Start(c) \/ ChooseKind(c) \/ VDate(c) \/ VDeptsDone(c) \/ FDone(c) \/ Cancel(c)
        \/ VFile(c)
        \/ \E d \in Dept : VDepts(c, d) \/ FDept(c, d)
        \/ \E n \in Name : FCollect(c, n)
    \/ VFileKeep \/ VFileTell

Transcription == CliStarts \/ CliReads \/ CliProbes \/ CliCalls \/ CliEnds \/ Watchdog \/ LastWord

Around == Restart \/ FreshClone \/ \E b \in DOMAIN audio : Approve(b)

Next == Handlers \/ Transcription \/ Around

Spec == Init /\ [][Next]_vars

\* The event loop goes on: a handler that began ends, the lock is taken, the
\* watchdog fires and the end of a process is told.  Nothing is assumed of the
\* command itself, which may hang, nor of the users.
FairSpec ==
    /\ Spec
    /\ WF_vars(VFileKeep) /\ WF_vars(VFileTell)
    /\ WF_vars(CliStarts) /\ WF_vars(Watchdog) /\ WF_vars(LastWord)

-----------------------------------------------------------------------------
(* Properties.                                                             *)

Transcribed(f) == \E i \in DOMAIN queue : queue[i].file = f

Kept == {audio[b].file : b \in DOMAIN audio} \cup Content(attachments)

\* Where a file is and what was said of it, as the promises see it.
place ==
    [f \in File |-> IF f \in staging THEN "held"
                    ELSE IF f \in Kept THEN "kept"
                    ELSE IF f <= sent THEN "dropped" ELSE "away"]

said ==
    [f \in File |-> IF Transcribed(f) THEN "busy" ELSE word[f]]

Promised == INSTANCE Intake WITH word <- said

\* The bot implements Intake, whatever chats, names, retries, faults and
\* restarts cross: what was moved under a name is never lost or overwritten by
\* a later file, what is dropped was given up by its user or by a failed move,
\* and the Start line is said of a kept recording no transcription of which
\* is waiting or running, never to be taken back.
Promises == Promised!Spec

\* Every recording that waits for its transcription gets a last word: whatever
\* hangs in front of it, unless Telegram failed or the bot was restarted.
LastWordComes ==
    \A f \in File : Transcribed(f) ~> (word[f] = "start" \/ faults + restarts > 0)

\* A transcript is of the recording that has its name, never of another of the
\* same departments and day, unless the recordings were lost under it.
TranscriptIsItsOwn ==
    \A b \in DOMAIN audio \cap DOMAIN raw : raw[b] = audio[b].file \/ cloned
=============================================================================
