-------------------------- MODULE UploadsProofs --------------------------
(***************************************************************************)
(* A transcript that is returned has every second of the recording in it,  *)
(* for any length of the chunks, of their overlap and of the tail, and for *)
(* any recording; and the bot around the calls loses and overwrites        *)
(* nothing that was sent, for any users, chats, names and recordings.      *)
(***************************************************************************)
EXTENDS Uploads, Induction

LEMMA DivBounds ==
    ASSUME NEW a \in Nat, NEW b \in Nat \ {0}
    PROVE  /\ a \div b \in Nat
           /\ (a \div b) * b <= a
           /\ a < (a \div b) * b + b
<1>1. a \div b \in Nat
  BY SMTT(20)
<1>2. (a \div b) * b <= a
  BY <1>1, SMTT(20)
<1>3. a < (a \div b) * b + b
  BY <1>1, SMTT(20)
<1> QED  BY <1>1, <1>2, <1>3

LEMMA TimesGrows ==
    ASSUME NEW m \in Nat, NEW n \in Nat, m <= n, NEW b \in Nat
    PROVE  m * b <= n * b
BY SMTT(20)

\* There is a last chunk, and it reaches the end.
LEMMA LastReaches ==
    ASSUME NEW d \in Nat \ {0}
    PROVE  LastOf(d) \in Nat \ {0} /\ Reach(LastOf(d)) >= d
<1>1. CASE d <= Overlap
  <2>1. LastOf(d) = 1 /\ Reach(1) = Chunk + Overlap
    BY <1>1, TranscribeAssumption DEF LastOf, Reach
  <2> QED  BY <1>1, <2>1, TranscribeAssumption
<1>2. CASE d > Overlap
  <2> DEFINE a == d - Overlap + Chunk - 1
             n == a \div Chunk
  <2>1. a \in Nat /\ a >= Chunk /\ Chunk \in Nat \ {0} /\ Overlap \in Nat
    BY <1>2, TranscribeAssumption
  <2>2. n \in Nat /\ n * Chunk <= a /\ a < n * Chunk + Chunk
    BY <2>1, DivBounds
  <2>3. n # 0
    BY <2>1, <2>2
  <2>4. n * Chunk \in Nat
    BY <2>1, <2>2
  <2>5. LastOf(d) = n /\ Reach(n) = n * Chunk + Overlap
    BY <1>2, <2>1 DEF LastOf, Reach
  <2> HIDE DEF n
  <2>6. n * Chunk + Overlap >= d
    BY <2>1, <2>2, <2>4
  <2> QED  BY <2>2, <2>3, <2>5, <2>6
<1>3. d <= Overlap \/ d > Overlap
  BY TranscribeAssumption
<1> QED  BY <1>1, <1>2, <1>3

\* The primary chunks tile the recording: every second is in one of them.
THEOREM ChunksTile ==
    ASSUME NEW d \in Nat \ {0}, NEW t \in 0..(d - 1)
    PROVE  \E i \in 1..LastOf(d) :
                ChunkBounds(d)[i].start <= t /\ t < ChunkBounds(d)[i].end
<1> DEFINE n == LastOf(d)
           q == t \div Chunk
<1>0. Chunk \in Nat \ {0} /\ Overlap \in Nat
  BY TranscribeAssumption
<1>1. n \in Nat \ {0} /\ Reach(n) >= d
  BY LastReaches
<1>2. q \in Nat /\ q * Chunk <= t /\ t < q * Chunk + Chunk
  BY <1>0, DivBounds
<1>3. \A i \in 1..n :
        /\ ChunkBounds(d)[i].start = (i - 1) * Chunk
        /\ ChunkBounds(d)[i].end = (IF Reach(i) < d THEN Reach(i) ELSE d)
  BY DEF ChunkBounds
<1> HIDE DEF n, q
<1>4. CASE q + 1 <= n
  <2>1. q + 1 \in 1..n /\ (q + 1) - 1 = q
    BY <1>1, <1>2, <1>4
  <2>2. (q + 1) * Chunk = q * Chunk + Chunk
    BY <1>0, <1>2, SMTT(20)
  <2>3. Reach(q + 1) > t
    BY <1>0, <1>2, <2>2 DEF Reach
  <2>4. ChunkBounds(d)[q + 1].start = q * Chunk
    BY <1>3, <2>1
  <2>5. ChunkBounds(d)[q + 1].end = (IF Reach(q + 1) < d THEN Reach(q + 1) ELSE d)
    BY <1>3, <2>1
  <2> QED  BY <1>2, <2>1, <2>3, <2>4, <2>5 DEF n
<1>5. CASE q + 1 > n
  <2>1. n \in 1..n /\ n - 1 \in Nat /\ n - 1 <= q
    BY <1>1, <1>2, <1>5
  <2>2. (n - 1) * Chunk <= q * Chunk
    BY <1>0, <1>2, <2>1, TimesGrows
  <2>3. (n - 1) * Chunk \in Nat /\ q * Chunk \in Nat
    BY <1>0, <1>2, <2>1
  <2>4. ChunkBounds(d)[n].start = (n - 1) * Chunk
    BY <1>3, <2>1
  <2>5. ~(Reach(n) < d)
    <3>1. Reach(n) \in Nat
      BY <1>0, <1>1 DEF Reach
    <3> QED  BY <1>1, <3>1
  <2>6. ChunkBounds(d)[n].end = d
    BY <1>3, <2>1, <2>5
  <2> QED  BY <1>2, <2>1, <2>2, <2>3, <2>4, <2>6 DEF n
<1>6. q + 1 <= n \/ q + 1 > n
  BY <1>1, <1>2
<1> QED  BY <1>4, <1>5, <1>6

\* The cuts are the primary chunks, in their places, and perhaps a tail.
LEMMA CutsHoldChunks ==
    ASSUME NEW d \in Nat \ {0}
    PROVE  /\ Len(Bounds(d)) \in Nat /\ Len(Bounds(d)) >= LastOf(d)
           /\ \A i \in 1..LastOf(d) : Bounds(d)[i] = ChunkBounds(d)[i]
<1>1. LastOf(d) \in Nat \ {0}
  BY LastReaches
<1> DEFINE R == [start : Int, end : Int]
<1>2. ChunkBounds(d) \in Seq(R) /\ Len(ChunkBounds(d)) = LastOf(d)
  <2>1. \A i \in 1..LastOf(d) : (i - 1) * Chunk \in Int /\ Reach(i) \in Int
    BY <1>1, TranscribeAssumption DEF Reach
  <2>2. ChunkBounds(d) \in [1..LastOf(d) -> R]
    BY <2>1 DEF ChunkBounds
  <2> HIDE DEF R
  <2>3. ChunkBounds(d) \in Seq(R)
    BY <1>1, <2>2
  <2>4. DOMAIN ChunkBounds(d) = 1..LastOf(d)
    BY <2>2
  <2> QED  BY <1>1, <2>3, <2>4
<1>3. CASE d > TailSeconds
  <2> DEFINE r == [start |-> d - TailSeconds, end |-> d]
  <2>1. r \in R
    BY TranscribeAssumption
  <2>2. Bounds(d) = Append(ChunkBounds(d), r)
    BY <1>3 DEF Bounds
  <2> HIDE DEF r, R
  <2> QED  BY <1>1, <1>2, <2>1, <2>2
<1>4. CASE ~(d > TailSeconds)
  <2>1. Bounds(d) = ChunkBounds(d)
    BY <1>4 DEF Bounds
  <2> QED  BY <1>1, <1>2, <2>1
<1> QED  BY <1>3, <1>4

-----------------------------------------------------------------------------
(* The call.                                                               *)

\* Every chunk behind the call came back with text or was forgiven.
Behind ==
    \A i \in 1..(at - 1) : i \in heard \/ SilenceOk(Cuts[i], Duration(sound))

\* A call that goes on has a length and a chunk to ask for; one that returns
\* text has none left.
InPlace ==
    /\ ended \in {"calling", "text"} => Duration(sound) \in Nat \ {0}
    /\ ended = "calling" => at <= Len(Cuts)
    /\ ended = "text" => at = Len(Cuts) + 1

CallInv == CallTypeOK /\ InPlace /\ Behind

LEMMA LongestIsLength ==
    ASSUME NEW s \in Sound
    PROVE  /\ Duration(s) \in Length
           /\ \A e \in {s.header, s.stream} \ {Unknown} : Duration(s) \in Nat /\ e <= Duration(s)
<1>1. s.header \in Length /\ s.stream \in Length
  BY DEF Sound
<1> QED  BY <1>1, TranscribeAssumption DEF Duration, Length

LEMMA InitCallInv == CallInit => CallInv
<1> SUFFICES ASSUME CallInit PROVE CallInv
  OBVIOUS
<1>1. CallTypeOK
  BY TranscribeAssumption DEF CallInit, CallTypeOK, Sound, Length
<1>2. InPlace
  BY DEF CallInit, InPlace
<1>3. Behind
  BY DEF CallInit, Behind
<1> QED  BY <1>1, <1>2, <1>3 DEF CallInv

\* A call that went back to its beginning, or did not get past it.
LEMMA FromTheStart ==
    ASSUME sound' \in Sound, at' = 1, attempt' = 1, heard' = {},
           ended' \in {"idle", "error"}
    PROVE  CallInv'
<1>1. CallTypeOK'
  BY TranscribeAssumption DEF CallTypeOK
<1>2. InPlace'
  BY DEF InPlace
<1>3. Behind'
  BY DEF Behind
<1> QED  BY <1>1, <1>2, <1>3 DEF CallInv

LEMMA ProbeKeeps ==
    ASSUME NEW s \in Sound, Probe(s)
    PROVE  CallInv'
<1>1. CASE ended' = "error"
  BY <1>1, FromTheStart DEF Probe
<1>2. CASE ended' = "calling"
  <2> DEFINE d == Duration(s)
  <2>1. sound' = s /\ at' = 1 /\ attempt' = 1 /\ heard' = {}
    BY DEF Probe
  <2>2. d # Unknown /\ ChunkBounds(d) # <<>>
    BY <1>2 DEF Probe, Covered
  <2>3. d \in Nat
    BY <2>2, LongestIsLength DEF Length
  <2>4. d # 0
    <3>1. ASSUME d = 0 PROVE FALSE
      <4>1. ChunkBounds(d) = <<>>
        BY <3>1 DEF ChunkBounds
      <4> QED  BY <2>2, <4>1
    <3> QED  BY <3>1
  <2>5. Len(Bounds(d)) \in Nat /\ Len(Bounds(d)) >= 1
    BY <2>3, <2>4, CutsHoldChunks, LastReaches
  <2> HIDE DEF d
  <2>6. Duration(s) = d
    BY DEF d
  <2>7. CallTypeOK'
    BY <1>2, <2>1, TranscribeAssumption DEF CallTypeOK
  <2>8. InPlace'
    BY <1>2, <2>1, <2>3, <2>4, <2>5, <2>6 DEF InPlace, Cuts
  <2>9. Behind'
    BY <2>1 DEF Behind
  <2> QED  BY <2>7, <2>8, <2>9 DEF CallInv
<1> QED  BY <1>1, <1>2 DEF Probe

\* One chunk further, with its text or forgiven.
LEMMA OnwardKeeps ==
    ASSUME CallInv, Calling, NEW h, h \in {heard, heard \cup {at}},
           at \in h \/ SilenceOk(Cuts[at], Duration(sound)),
           Onward(h)
    PROVE  CallInv'
<1>1. /\ sound' = sound /\ at' = at + 1 /\ attempt' = 1 /\ heard' = h
      /\ ended' = (IF at < Len(Cuts) THEN "calling" ELSE IF h = {} THEN "error" ELSE "text")
  BY DEF Onward
<1>2. at \in Nat \ {0} /\ heard \subseteq 1..(at - 1) /\ sound \in Sound
  BY DEF CallInv, CallTypeOK
<1>3. Duration(sound) \in Nat \ {0} /\ at <= Len(Cuts)
  BY DEF CallInv, InPlace, Calling
<1>4. Len(Cuts) \in Nat
  BY <1>3, CutsHoldChunks DEF Cuts
<1>5. Cuts' = Cuts /\ Duration(sound)' = Duration(sound)
  BY <1>1 DEF Cuts, Bounds, ChunkBounds, Duration
<1>6. CallTypeOK'
  <2>1. heard' \subseteq 1..(at' - 1)
    BY <1>1, <1>2
  <2>2. ended' \in {"calling", "error", "text"}
    BY <1>1
  <2> QED  BY <1>1, <1>2, <2>1, <2>2, TranscribeAssumption DEF CallTypeOK
<1>7. InPlace'
  <2>1. ended' = "calling" => at + 1 <= Len(Cuts)
    BY <1>1, <1>2, <1>4
  <2>2. ended' = "text" => at = Len(Cuts)
    BY <1>1, <1>2, <1>3, <1>4
  <2> QED  BY <1>1, <1>3, <1>5, <2>1, <2>2 DEF InPlace
<1>8. Behind'
  <2>1. SUFFICES ASSUME NEW i \in 1..at
                 PROVE  i \in h \/ SilenceOk(Cuts[i], Duration(sound))
    <3>1. (at + 1) - 1 = at
      BY <1>2
    <3> QED  BY <1>1, <1>5, <2>1, <3>1 DEF Behind
  <2>2. CASE i = at
    BY <2>2
  <2>3. CASE i # at
    <3>1. i \in 1..(at - 1)
      BY <1>2, <2>3
    <3> QED  BY <3>1 DEF CallInv, Behind
  <2> QED  BY <2>2, <2>3
<1> QED  BY <1>6, <1>7, <1>8 DEF CallInv

LEMMA StepCallInv == CallInv /\ [CallNext]_call => CallInv'
<1> SUFFICES ASSUME CallInv, [CallNext]_call PROVE CallInv'
  OBVIOUS
<1>1. ASSUME NEW s \in Sound, Probe(s) PROVE CallInv'
  BY <1>1, ProbeKeeps
<1>2. CASE AnswersText
  <2>1. Calling /\ Onward(heard \cup {at})
    BY <1>2 DEF AnswersText
  <2> QED  BY <2>1, OnwardKeeps
<1>3. CASE AnswersNothing
  <2>1. Calling /\ Onward(heard) /\ SilenceOk(Cuts[at], Duration(sound))
    BY <1>3 DEF AnswersNothing
  <2> QED  BY <2>1, OnwardKeeps
<1>4. CASE Fails \/ TriesAgain
  <2>1. /\ sound' = sound /\ at' = at /\ heard' = heard
        /\ ended' = ended \/ ended' = "error"
        /\ ended = "calling"
    BY <1>4 DEF Fails, TriesAgain, Calling
  <2>2. attempt' \in 1..Retries
    BY <1>4, TranscribeAssumption DEF Fails, TriesAgain, CallInv, CallTypeOK
  <2>3. Cuts' = Cuts /\ Duration(sound)' = Duration(sound)
    BY <2>1 DEF Cuts, Bounds, ChunkBounds, Duration
  <2>4. CallTypeOK'
    BY <2>1, <2>2 DEF CallInv, CallTypeOK
  <2>5. InPlace'
    BY <2>1, <2>3 DEF CallInv, InPlace
  <2>6. Behind'
    BY <2>1, <2>3 DEF CallInv, Behind
  <2> QED  BY <2>4, <2>5, <2>6 DEF CallInv
<1>5. CASE CallGone
  <2>1. [header |-> Unknown, stream |-> Unknown] \in Sound
    BY DEF Sound, Length
  <2> QED  BY <1>5, <2>1, FromTheStart DEF CallGone
<1>6. CASE UNCHANGED call
  <2>1. Cuts' = Cuts /\ Duration(sound)' = Duration(sound)
    BY <1>6 DEF call, Cuts, Bounds, ChunkBounds, Duration
  <2> QED  BY <1>6, <2>1 DEF call, CallInv, CallTypeOK, InPlace, Behind
<1> QED  BY <1>1, <1>2, <1>3, <1>4, <1>5, <1>6 DEF CallNext, Answers

\* What is behind a call that returns text is the whole recording.
LEMMA CallInvDropsNothing == CallInv => NothingDropped
<1> SUFFICES ASSUME CallInv, ended = "text", NEW t \in Seconds(sound), ~Ending(sound, t)
             PROVE  \E i \in heard : Cuts[i].start <= t /\ t < Cuts[i].end
  BY DEF NothingDropped
<1> DEFINE d == Duration(sound)
<1>1. d \in Nat \ {0} /\ at = Len(Cuts) + 1 /\ sound \in Sound
  BY DEF CallInv, InPlace, CallTypeOK
<1>2. PICK e \in {sound.header, sound.stream} \ {Unknown} : t \in 0..(e - 1)
  BY DEF Seconds
<1>3. t \in 0..(d - 1)
  <2>1. e \in Nat /\ e <= d
    BY <1>1, <1>2, LongestIsLength, TranscribeAssumption DEF Sound, Length
  <2> QED  BY <1>1, <1>2, <2>1
<1>4. PICK i \in 1..LastOf(d) : ChunkBounds(d)[i].start <= t /\ t < ChunkBounds(d)[i].end
  BY <1>1, <1>3, ChunksTile
<1>5. Cuts[i] = ChunkBounds(d)[i] /\ i \in 1..(at - 1)
  <2>1. Cuts = Bounds(d)
    BY DEF Cuts
  <2> HIDE DEF d
  <2>2. LastOf(d) \in Nat
    BY <1>1, LastReaches
  <2>3. Len(Cuts) \in Nat /\ Len(Cuts) >= LastOf(d) /\ Cuts[i] = ChunkBounds(d)[i]
    BY <1>1, <1>4, <2>1, CutsHoldChunks
  <2> QED  BY <1>1, <1>4, <2>2, <2>3
<1>6. ~SilenceOk(Cuts[i], d)
  <2>1. PICK l \in {sound.header, sound.stream} \ {Unknown} : ~(t >= l - MinTail)
    BY DEF Ending
  <2>2. l \in Nat /\ l <= d /\ MinTail \in Nat /\ t \in Nat
    BY <1>1, <1>3, <2>1, LongestIsLength, TranscribeAssumption DEF Sound, Length
  <2>3. t < d - MinTail
    BY <1>1, <2>1, <2>2
  <2>4. Cuts[i].start \in Int /\ Cuts[i].end \in Int /\ Cuts[i].start <= t
    <3>1. /\ ChunkBounds(d)[i].start = (i - 1) * Chunk
          /\ ChunkBounds(d)[i].end = (IF Reach(i) < d THEN Reach(i) ELSE d)
      BY <1>1, <1>4 DEF ChunkBounds
    <3>2. (i - 1) * Chunk \in Int /\ Reach(i) \in Int
      <4>1. LastOf(d) \in Nat
        BY <1>1, LastReaches
      <4>2. i \in Nat /\ Chunk \in Nat /\ Overlap \in Nat
        BY <1>4, <4>1, TranscribeAssumption
      <4> QED  BY <4>2 DEF Reach
    <3> QED  BY <1>1, <1>4, <1>5, <3>1, <3>2
  <2> HIDE DEF d
  <2> QED  BY <1>1, <2>2, <2>3, <2>4 DEF SilenceOk
<1>7. i \in heard
  BY <1>5, <1>6 DEF CallInv, Behind
<1> QED  BY <1>4, <1>5, <1>7

\* All or nothing: a transcript the command returns is of every second of the
\* recording, but for silence at its very end.
THEOREM WholeOrNothing == CallSpec => []NothingDropped
<1>1. CallInv /\ [CallNext]_call => CallInv'
  BY StepCallInv
<1> QED  BY <1>1, InitCallInv, CallInvDropsNothing, PTL DEF CallSpec

\* A call is always at a chunk there is, and asks for it RETRIES times at most.
THEOREM CallTypeCorrect == CallSpec => []CallTypeOK
<1>1. CallInv => CallTypeOK
  BY DEF CallInv
<1> QED  BY <1>1, InitCallInv, StepCallInv, PTL DEF CallSpec

-----------------------------------------------------------------------------
(* The bot.                                                                *)

Voice == [date : Date \cup {Nothing}, depts : SUBSET Dept]
Sent == [name : Name, file : Nat]
Batch == [dept : Dept \cup {Nothing}, files : Seq(Sent)]
Attachment == Dept \X Name \X (Nat \ {0})
Handling == [conv : Conv, file : File, sound : Recording, acked : BOOLEAN,
             base : Base \cup {Nothing}]
Waiting == [file : File, base : Base]

Talking ==
    /\ voice \in [User -> Voice \cup {Nothing}]
    /\ batch \in [User -> Batch \cup {Nothing}]

Sending ==
    /\ sent \in 0..MaxSent
    /\ staging \subseteq 1..sent
    /\ word \in [File -> {"none", "start"}]
    /\ \A f \in File : f > sent => word[f] = "none"

\* What is kept, and that nothing staged is.
Keeping ==
    /\ IsFiniteSet(DOMAIN audio) /\ DOMAIN audio \subseteq Base
    /\ \A b \in DOMAIN audio : audio[b].file \in 1..sent /\ audio[b].sound \in Recording
    /\ \A b \in DOMAIN audio : audio[b].file \notin staging
    /\ IsFiniteSet(DOMAIN attachments) /\ DOMAIN attachments \subseteq Attachment
    /\ \A x \in DOMAIN attachments : attachments[x] \in 1..sent
    /\ \A x \in DOMAIN attachments : attachments[x] \notin staging

Under(b, f) == b \in DOMAIN audio /\ audio[b].file = f

\* The recording at hand is staged until it has a name, and then has it.
AtHand ==
    handling # Nothing =>
        /\ handling \in Handling
        /\ voice[Owner[handling.conv]] \in Voice
        /\ word[handling.file] = "none"
        /\ IF handling.base = Nothing THEN handling.file \in staging
                                      ELSE Under(handling.base, handling.file)

\* Every recording waits once, under its name, and nothing was said of it yet.
InLine ==
    /\ queue \in Seq(Waiting)
    /\ \A i \in DOMAIN queue :
        /\ Under(queue[i].base, queue[i].file)
        /\ word[queue[i].file] = "none"
        /\ handling # Nothing => queue[i].file # handling.file
    /\ \A i, k \in DOMAIN queue : queue[i].file = queue[k].file => i = k

\* The process is of the recording at the head; between calls there is none.
AtWork ==
    /\ cli \in {"none", "started", "calling", "succeeded", "failed"}
    /\ cli # "none" => queue # <<>>
    /\ cli # "calling" => ended = "idle"

\* No text is there without its recording, unless the recordings were lost.
TextsOwn ==
    cloned \/ /\ \A b \in DOMAIN raw : Under(b, raw[b])
              /\ \A b \in DOMAIN approved : Under(b, approved[b])

BotInv == Talking /\ Sending /\ Keeping /\ AtHand /\ InLine /\ AtWork /\ TextsOwn

-----------------------------------------------------------------------------
(* Names.                                                                  *)

\* Finitely many names have finitely many numbers.
LEMMA NumbersAreFinite ==
    ASSUME NEW names, IsFiniteSet(names), NEW x, NEW y,
           \A name \in names : name[3] \in Nat
    PROVE  IsFiniteSet(NumbersOf(x, y, names)) /\ NumbersOf(x, y, names) \in SUBSET Nat
<1> DEFINE these == {n \in names : n[1] = x /\ n[2] = y}
           number == [name \in these |-> name[3]]
<1>1. IsFiniteSet(these)
  BY FS_Subset
<1>2. NumbersOf(x, y, names) = {name[3] : name \in these}
  BY DEF NumbersOf
<1>3. number \in Surjection(these, NumbersOf(x, y, names))
  BY <1>2 DEF Surjection
<1> HIDE DEF number
<1>4. IsFiniteSet(NumbersOf(x, y, names))
  BY <1>1, <1>3, FS_Surjection
<1> QED  BY <1>2, <1>4

\* A name with the first free number is a name nothing has.
LEMMA FirstFreeIsFree ==
    ASSUME NEW names, IsFiniteSet(names), NEW x, NEW y,
           \A name \in names : \E a, b : \E n \in Nat \ {0} : name = <<a, b, n>>
    PROVE  LET n == FirstFree(NumbersOf(x, y, names))
           IN  n \in Nat \ {0} /\ <<x, y, n>> \notin names
<1> DEFINE taken == NumbersOf(x, y, names)
           n == FirstFree(taken)
<1>1. IsFiniteSet(taken) /\ taken \in SUBSET Nat
  BY NumbersAreFinite
<1>2. \A m \in Nat : <<x, y, m>> \in names => m \in taken
  <2> SUFFICES ASSUME NEW m \in Nat, <<x, y, m>> \in names PROVE m \in taken
    OBVIOUS
  <2>1. <<x, y, m>> \in {k \in names : k[1] = x /\ k[2] = y} /\ <<x, y, m>>[3] = m
    OBVIOUS
  <2> QED  BY <2>1 DEF NumbersOf
<1> HIDE DEF taken
<1>3. Cardinality(taken) \in Nat
  BY <1>1, FS_CardinalityType
<1>4. n \in 1..(Cardinality(taken) + 1) /\ n \notin taken
  BY <1>1, FirstFreeExists DEF FirstFree
<1> QED  BY <1>2, <1>3, <1>4 DEF taken

\* What a new recording is named is a name no recording has.
LEMMA NewBase ==
    ASSUME Keeping, NEW v \in Voice
    PROVE  VoiceBasename(v) \in Base \ DOMAIN audio
<1> DEFINE n == FirstFree(NumbersOf(v.depts, v.date, DOMAIN audio))
<1>1. n \in Nat \ {0} /\ <<v.depts, v.date, n>> \notin DOMAIN audio
  BY FirstFreeIsFree DEF Keeping, Base
<1> HIDE DEF n
<1>2. VoiceBasename(v) = <<v.depts, v.date, n>>
  BY DEF VoiceBasename, n
<1> QED  BY <1>1, <1>2 DEF Voice, Base

\* Under its new name a thing is there beside all that was there.
LEMMA PutParts ==
    ASSUME NEW f, NEW k, NEW v
    PROVE  /\ DOMAIN Put(f, k, v) = DOMAIN f \cup {k}
           /\ Put(f, k, v)[k] = v
           /\ \A x \in DOMAIN f : x # k => Put(f, k, v)[x] = f[x]
BY DEF Put

\* The folder, move by move.
IsMoves(moved, d, fs, n) ==
    moved = [i \in 0..n |->
                IF i = 0 THEN attachments
                ELSE Put(moved[i - 1], AttachmentDest(d, fs[i].name, DOMAIN moved[i - 1]),
                         fs[i].file)]

LEMMA MovesExist ==
    ASSUME NEW d, NEW fs, NEW n \in Nat
    PROVE  \E moved : IsMoves(moved, d, fs, n)
<1> DEFINE S == {k \in Nat : \E moved : IsMoves(moved, d, fs, k)}
<1>1. 0 \in S
  <2> DEFINE moved == [i \in 0..0 |-> attachments]
  <2>1. IsMoves(moved, d, fs, 0)
    BY DEF IsMoves
  <2> QED  BY <2>1
<1>2. ASSUME NEW k \in S PROVE k + 1 \in S
  <2>1. PICK f : IsMoves(f, d, fs, k)
    BY <1>2
  <2> DEFINE last == Put(f[k], AttachmentDest(d, fs[k + 1].name, DOMAIN f[k]), fs[k + 1].file)
             g == [i \in 0..(k + 1) |-> IF i = k + 1 THEN last ELSE f[i]]
  <2>2. k \in Nat /\ (k + 1) - 1 = k
    BY <1>2
  <2>3. \A i \in 0..k : g[i] = f[i]
    BY <2>2
  <2>4. g[k + 1] = last
    BY <2>2
  <2> HIDE DEF last
  <2>5. \A i \in 0..k : f[i] = IF i = 0 THEN attachments
                ELSE Put(f[i - 1], AttachmentDest(d, fs[i].name, DOMAIN f[i - 1]), fs[i].file)
    BY <2>1 DEF IsMoves
  <2>6. ASSUME NEW i \in 0..(k + 1)
        PROVE  g[i] = IF i = 0 THEN attachments
                ELSE Put(g[i - 1], AttachmentDest(d, fs[i].name, DOMAIN g[i - 1]), fs[i].file)
    <3>1. CASE i = k + 1
      <4>1. g[i] = last /\ i # 0 /\ i - 1 = k /\ g[i - 1] = f[k]
        BY <2>2, <2>3, <2>4, <3>1
      <4> HIDE DEF g
      <4> QED  BY <3>1, <4>1 DEF last
    <3>2. CASE i # k + 1
      <4>1. i \in 0..k /\ g[i] = f[i] /\ (i # 0 => i - 1 \in 0..k /\ g[i - 1] = f[i - 1])
        BY <2>2, <2>3, <3>2
      <4> HIDE DEF g
      <4> QED  BY <2>5, <4>1
    <3> QED  BY <3>1, <3>2
  <2>7. g = [i \in 0..(k + 1) |-> g[i]]
    OBVIOUS
  <2> HIDE DEF g
  <2>8. IsMoves(g, d, fs, k + 1)
    BY <2>6, <2>7, Zenon DEF IsMoves
  <2> QED  BY <2>2, <2>8
<1> HIDE DEF S
<1>3. S = Nat
  <2>1. S \in SUBSET Nat
    BY DEF S
  <2> QED  BY <1>1, <1>2, <2>1, NatInductionSet
<1> QED  BY <1>3 DEF S

LEMMA MovesAre ==
    ASSUME NEW d, NEW fs, NEW n \in Nat
    PROVE  \E moved : IsMoves(moved, d, fs, n) /\ AfterMoves(d, fs, n) = moved[n]
<1> DEFINE moved == CHOOSE f : IsMoves(f, d, fs, n)
<1>1. IsMoves(moved, d, fs, n)
  BY MovesExist
<1>2. AfterMoves(d, fs, n) = moved[n]
  BY DEF AfterMoves, IsMoves
<1> QED  BY <1>1, <1>2

Folder(f) == IsFiniteSet(DOMAIN f) /\ DOMAIN f \subseteq Attachment

\* A file that is moved in gets a name of its own.
LEMMA MovedIn ==
    ASSUME NEW f, Folder(f), NEW d \in Dept, NEW name \in Name, NEW file
    PROVE  LET g == Put(f, AttachmentDest(d, name, DOMAIN f), file)
           IN  /\ Folder(g)
               /\ DOMAIN f \subseteq DOMAIN g
               /\ \A x \in DOMAIN f : g[x] = f[x]
               /\ \E x \in DOMAIN g : g[x] = file
               /\ \A x \in DOMAIN g : x \in DOMAIN f \/ g[x] = file
<1> DEFINE k == AttachmentDest(d, name, DOMAIN f)
           number == FirstFree(NumbersOf(d, name, DOMAIN f))
           g == Put(f, k, file)
<1>1. number \in Nat \ {0} /\ <<d, name, number>> \notin DOMAIN f
  BY FirstFreeIsFree DEF Folder, Attachment
<1> HIDE DEF number
<1>2. k \in Attachment /\ k \notin DOMAIN f
  BY <1>1 DEF AttachmentDest, number, Attachment
<1> HIDE DEF k
<1>3. /\ DOMAIN g = DOMAIN f \cup {k} /\ g[k] = file
      /\ \A x \in DOMAIN f : x # k => g[x] = f[x]
  BY DEF Put
<1>4. IsFiniteSet(DOMAIN f \cup {k})
  BY FS_AddElement DEF Folder
<1> HIDE DEF g
<1>5. Folder(g)
  BY <1>2, <1>3, <1>4 DEF Folder
<1> QED  BY <1>2, <1>3, <1>5 DEF g, k

\* Whatever is moved into the folder, what was there stays as it was, and what
\* is new are the files that were moved.
LEMMA MovesKeep ==
    ASSUME Folder(attachments), NEW d \in Dept, NEW fs \in Seq(Sent),
           NEW n \in 0..Len(fs)
    PROVE  LET f == AfterMoves(d, fs, n)
           IN  /\ Folder(f)
               /\ DOMAIN attachments \subseteq DOMAIN f
               /\ \A x \in DOMAIN attachments : f[x] = attachments[x]
               /\ \A i \in 1..n : \E x \in DOMAIN f : f[x] = fs[i].file
               /\ \A x \in DOMAIN f : x \in DOMAIN attachments \/ \E i \in 1..n : f[x] = fs[i].file
<1>0. n \in Nat /\ Len(fs) \in Nat /\ \A i \in 1..Len(fs) : fs[i] \in Sent
  OBVIOUS
<1>1. PICK moved : IsMoves(moved, d, fs, n) /\ AfterMoves(d, fs, n) = moved[n]
  BY <1>0, MovesAre
<1>2. \A i \in 0..n : moved[i] = IF i = 0 THEN attachments
          ELSE Put(moved[i - 1], AttachmentDest(d, fs[i].name, DOMAIN moved[i - 1]), fs[i].file)
  BY <1>1 DEF IsMoves
<1> DEFINE Good(i) ==
             /\ Folder(moved[i])
             /\ DOMAIN attachments \subseteq DOMAIN moved[i]
             /\ \A x \in DOMAIN attachments : moved[i][x] = attachments[x]
             /\ \A k \in 1..i : \E x \in DOMAIN moved[i] : moved[i][x] = fs[k].file
             /\ \A x \in DOMAIN moved[i] :
                    x \in DOMAIN attachments \/ \E k \in 1..i : moved[i][x] = fs[k].file
           S == {i \in Nat : i <= n => Good(i)}
<1>3. 0 \in S
  <2>1. moved[0] = attachments
    BY <1>0, <1>2
  <2>2. Good(0)
    BY <2>1
  <2> QED  BY <2>2
<1>4. ASSUME NEW i \in S PROVE i + 1 \in S
  <2> SUFFICES ASSUME i + 1 <= n PROVE Good(i + 1)
    BY <1>4
  <2>1. i \in Nat /\ i <= n /\ i + 1 \in 0..n /\ (i + 1) - 1 = i /\ i + 1 # 0 /\ i + 1 \in 1..Len(fs)
    BY <1>0, <1>4
  <2>2. Good(i)
    BY <1>4, <2>1
  <2> DEFINE one == fs[i + 1]
             f == moved[i]
             g == moved[i + 1]
  <2>3. one \in Sent
    BY <1>0, <2>1
  <2>4. g = Put(f, AttachmentDest(d, one.name, DOMAIN f), one.file)
    BY <1>2, <2>1
  <2>5. Folder(f) /\ one.name \in Name
    BY <2>2, <2>3 DEF Sent
  <2> HIDE DEF g, f
  <2>6. /\ Folder(g)
        /\ DOMAIN f \subseteq DOMAIN g
        /\ \A x \in DOMAIN f : g[x] = f[x]
        /\ \E x \in DOMAIN g : g[x] = one.file
        /\ \A x \in DOMAIN g : x \in DOMAIN f \/ g[x] = one.file
    BY <2>4, <2>5, MovedIn
  <2>7. /\ DOMAIN attachments \subseteq DOMAIN f
        /\ \A x \in DOMAIN attachments : f[x] = attachments[x]
        /\ \A k \in 1..i : \E x \in DOMAIN f : f[x] = fs[k].file
        /\ \A x \in DOMAIN f : x \in DOMAIN attachments \/ \E k \in 1..i : f[x] = fs[k].file
    BY <2>2 DEF f
  <2>8. 1..(i + 1) = 1..i \cup {i + 1}
    BY <2>1
  <2>9. \A k \in 1..(i + 1) : \E x \in DOMAIN g : g[x] = fs[k].file
    BY <2>6, <2>7, <2>8
  <2>10. \A x \in DOMAIN g : x \in DOMAIN attachments \/ \E k \in 1..(i + 1) : g[x] = fs[k].file
    BY <2>6, <2>7, <2>8
  <2>11. \A x \in DOMAIN attachments : g[x] = attachments[x]
    BY <2>6, <2>7
  <2> QED  BY <2>6, <2>7, <2>9, <2>10, <2>11 DEF g
<1>5. n \in S
  <2> HIDE DEF S
  <2>1. S \in SUBSET Nat
    BY DEF S
  <2>2. S = Nat
    BY <1>3, <1>4, <2>1, NatInductionSet
  <2> QED  BY <1>0, <2>2
<1>6. Good(n)
  BY <1>0, <1>5
<1> QED  BY <1>1, <1>6

-----------------------------------------------------------------------------
(* What every step keeps.                                                  *)

LEMMA InitBotInv == Init => BotInv
<1> SUFFICES ASSUME Init PROVE BotInv
  OBVIOUS
<1>1. Talking
  BY DEF Init, Talking
<1>2. Sending
  BY UploadsAssumption DEF Init, Sending, File
<1>3. Keeping
  <2>1. DOMAIN <<>> = {}
    OBVIOUS
  <2> QED  BY <2>1, FS_EmptySet DEF Init, Keeping
<1>4. AtHand
  BY DEF Init, AtHand
<1>5. InLine
  BY DEF Init, InLine
<1>6. AtWork
  BY DEF Init, AtWork, CallInit
<1>7. TextsOwn
  <2>1. DOMAIN <<>> = {}
    OBVIOUS
  <2> QED  BY <2>1 DEF Init, TextsOwn
<1> QED  BY <1>1, <1>2, <1>3, <1>4, <1>5, <1>6, <1>7 DEF BotInv

\* Talk between two recordings changes what the users hold and may discard
\* what they staged.
LEMMA TalkKeeps ==
    ASSUME BotInv, Free, Talking', staging' \subseteq staging,
           UNCHANGED <<audio, attachments, transcripts, running, call, handling, cloned, sent>>
    PROVE  BotInv'
<1> USE DEF BotInv, transcripts, running, call
<1>1. Sending'
  BY DEF Sending
<1>2. Keeping'
  BY DEF Keeping
<1>3. AtHand'
  BY DEF AtHand, Free
<1>4. InLine'
  BY DEF InLine, Under, Free
<1>5. AtWork' /\ TextsOwn'
  BY DEF AtWork, TextsOwn, Under
<1> QED  BY <1>1, <1>2, <1>3, <1>4, <1>5

LEMMA DiscardTalks ==
    ASSUME Talking, NEW u \in User, DiscardStaged(u)
    PROVE  Talking' /\ staging' \subseteq staging
BY DEF Talking, DiscardStaged

LEMMA TalkTalks ==
    ASSUME Talking, NEW c \in Conv,
           \/ Start(c) \/ ChooseKind(c) \/ VDate(c) \/ VDeptsDone(c) \/ Cancel(c)
           \/ \E d \in Dept : VDepts(c, d) \/ FDept(c, d)
    PROVE  Talking' /\ staging' \subseteq staging /\ sent' = sent
<1>0. Owner[c] \in User
  BY UploadsAssumption
<1>1. CASE Start(c) \/ Cancel(c)
  BY <1>0, <1>1, DiscardTalks DEF Start, Cancel, bounds
<1>2. CASE ChooseKind(c)
  <2>1. EmptyVoice \in Voice /\ EmptyBatch \in Batch
    BY DEF EmptyVoice, EmptyBatch, Voice, Batch
  <2> QED  BY <1>0, <1>2, <2>1 DEF ChooseKind, Talking, files
<1>3. CASE VDate(c)
  <2>1. voice[Owner[c]] \in Voice
    BY <1>0, <1>3 DEF VDate, Talking
  <2>2. PICK t \in Date : voice' = [voice EXCEPT ![Owner[c]].date = t]
    BY <1>3 DEF VDate
  <2>3. [voice[Owner[c]] EXCEPT !.date = t] \in Voice
    BY <2>1 DEF Voice
  <2> QED  BY <1>0, <1>3, <2>2, <2>3 DEF VDate, Talking, files
<1>4. CASE VDeptsDone(c)
  BY <1>4 DEF VDeptsDone, Talking, files
<1>5. ASSUME NEW d \in Dept, VDepts(c, d) PROVE Talking' /\ staging' \subseteq staging /\ sent' = sent
  <2>1. voice[Owner[c]] \in Voice
    BY <1>0, <1>5 DEF VDepts, Talking
  <2>2. [voice[Owner[c]] EXCEPT !.depts = (@ \ {d}) \cup ({d} \ @)] \in Voice
    BY <2>1 DEF Voice
  <2> QED  BY <1>0, <1>5, <2>2 DEF VDepts, Talking, files, bounds
<1>6. ASSUME NEW d \in Dept, FDept(c, d) PROVE Talking' /\ staging' \subseteq staging /\ sent' = sent
  <2>1. batch[Owner[c]] \in Batch
    BY <1>0, <1>6 DEF FDept, Talking
  <2>2. [batch[Owner[c]] EXCEPT !.dept = d] \in Batch
    BY <2>1 DEF Batch
  <2> QED  BY <1>0, <1>6, <2>2 DEF FDept, Talking, files
<1> QED  BY <1>1, <1>2, <1>3, <1>4, <1>5, <1>6

LEMMA TalkStepKeeps ==
    ASSUME BotInv, NEW c \in Conv,
           \/ Start(c) \/ ChooseKind(c) \/ VDate(c) \/ VDeptsDone(c) \/ Cancel(c)
           \/ \E d \in Dept : VDepts(c, d) \/ FDept(c, d)
    PROVE  BotInv'
<1>1. Talking' /\ staging' \subseteq staging /\ sent' = sent
  BY TalkTalks, Zenon DEF BotInv
<1>2. Free /\ UNCHANGED <<audio, attachments, transcripts, running, call, handling, cloned>>
  BY DEF Start, ChooseKind, VDate, VDeptsDone, Cancel, VDepts, FDept, files
<1> QED  BY <1>1, <1>2, TalkKeeps

\* A file arrives in staging.
LEMMA ArrivalKeeps ==
    ASSUME BotInv, sent < MaxSent, sent' = sent + 1, staging' = staging \cup {sent'},
           Talking', UNCHANGED <<audio, attachments, running>>
    PROVE  /\ Sending' /\ Keeping' /\ word[sent'] = "none" /\ sent' \in File
           /\ \A i \in DOMAIN queue : queue[i].file # sent'
<1> USE DEF BotInv, running
<1>1. /\ sent \in Nat /\ MaxSent \in Nat /\ sent' \in File /\ 1..sent \subseteq 1..sent'
      /\ sent' \notin 1..sent
  BY UploadsAssumption DEF Sending, File
<1>2. Sending'
  BY <1>1, UploadsAssumption DEF Sending, File
<1>3. Keeping'
  BY <1>1 DEF Keeping
<1>4. word[sent'] = "none"
  BY <1>1 DEF Sending
<1>5. \A i \in DOMAIN queue : queue[i].file # sent'
  BY <1>1 DEF InLine, Under, Keeping
<1> QED  BY <1>1, <1>2, <1>3, <1>4, <1>5

LEMMA FCollectKeeps ==
    ASSUME BotInv, NEW c \in Conv, NEW name \in Name, FCollect(c, name)
    PROVE  BotInv'
<1> USE DEF BotInv
<1>0. Owner[c] \in User
  BY UploadsAssumption
<1>1. Talking'
  <2> DEFINE b == batch[Owner[c]]
             new == [name |-> name, file |-> sent']
  <2>1. b \in Batch
    BY <1>0 DEF FCollect, Talking
  <2>2. new \in Sent
    BY DEF FCollect, Sending, Sent
  <2>3. Append(b.files, new) \in Seq(Sent)
    <3> HIDE DEF new
    <3>1. b.files \in Seq(Sent)
      BY <2>1 DEF Batch
    <3> QED  BY <2>2, <3>1
  <2>4. batch' = [batch EXCEPT ![Owner[c]] = [b EXCEPT !.files = Append(b.files, new)]]
    BY DEF FCollect
  <2>5. [b EXCEPT !.files = Append(b.files, new)] \in Batch
    <3> HIDE DEF new
    <3> QED  BY <2>1, <2>3 DEF Batch
  <2> QED  BY <1>0, <2>4, <2>5 DEF Talking, FCollect
<1>2. /\ Free /\ sent < MaxSent /\ sent' = sent + 1 /\ staging' = staging \cup {sent'}
      /\ UNCHANGED <<audio, attachments, running, transcripts, call, handling, cloned>>
  BY DEF FCollect
<1>3. Sending' /\ Keeping'
  BY <1>1, <1>2, ArrivalKeeps
<1>4. AtHand' /\ InLine' /\ AtWork' /\ TextsOwn'
  BY <1>2 DEF AtHand, InLine, AtWork, TextsOwn, Under, Free, running, call, transcripts
<1> QED  BY <1>1, <1>3, <1>4

LEMMA VFileKeeps ==
    ASSUME BotInv, NEW c \in Conv, VFile(c)
    PROVE  BotInv'
<1> USE DEF BotInv
<1>0. Owner[c] \in User
  BY UploadsAssumption
<1>1. /\ Free /\ sent < MaxSent /\ sent' = sent + 1 /\ staging' = staging \cup {sent'}
      /\ voice[Owner[c]] # Nothing
      /\ UNCHANGED <<voice, batch, audio, attachments, running, transcripts, call, cloned>>
  BY DEF VFile, conversation
<1>2. Talking'
  BY <1>1 DEF Talking
<1>3. /\ Sending' /\ Keeping' /\ word[sent'] = "none" /\ sent' \in File
      /\ \A i \in DOMAIN queue : queue[i].file # sent'
  BY <1>1, <1>2, ArrivalKeeps
<1>4. PICK s \in Recording, acked \in BOOLEAN :
        handling' = [conv |-> c, file |-> sent', sound |-> s, acked |-> acked, base |-> Nothing]
  BY DEF VFile
<1>5. AtHand'
  <2>1. handling' \in Handling
    BY <1>3, <1>4 DEF Handling
  <2>2. voice[Owner[c]] \in Voice
    BY <1>0, <1>1 DEF Talking
  <2> QED  BY <1>1, <1>3, <1>4, <2>1, <2>2 DEF AtHand, running
<1>6. InLine'
  BY <1>1, <1>3, <1>4 DEF InLine, Under, running
<1>7. AtWork' /\ TextsOwn'
  BY <1>1 DEF AtWork, TextsOwn, Under, running, call, transcripts
<1> QED  BY <1>2, <1>3, <1>5, <1>6, <1>7

LEMMA VFileKeepKeeps == ASSUME BotInv, VFileKeep PROVE BotInv'
<1> USE DEF BotInv
<1> DEFINE h == handling
           base == VoiceBasename(voice[Owner[h.conv]])
<1>1. /\ h # Nothing /\ h.base = Nothing /\ staging' = staging \ {h.file}
      /\ UNCHANGED <<voice, batch, attachments, running, transcripts, call, cloned, sent>>
  BY DEF VFileKeep, Free, conversation
<1>2. /\ h \in Handling /\ voice[Owner[h.conv]] \in Voice /\ word[h.file] = "none"
      /\ h.file \in staging /\ h.file \in 1..sent
  BY <1>1 DEF AtHand, Sending
<1>3. base \in Base \ DOMAIN audio /\ base # Nothing
  BY <1>2, NewBase, UploadsAssumption
<1> HIDE DEF base
<1>4. CASE audio' = Put(audio, base, [file |-> h.file, sound |-> h.sound])
             /\ handling' = [handling EXCEPT !.base = base]
  <2>1. /\ DOMAIN audio' = DOMAIN audio \cup {base}
        /\ audio'[base] = [file |-> h.file, sound |-> h.sound]
        /\ \A b \in DOMAIN audio : audio'[b] = audio[b]
    BY <1>3, <1>4 DEF Put
  <2>2. Talking' /\ Sending'
    BY <1>1 DEF Talking, Sending, running
  <2>3. Keeping'
    <3>1. IsFiniteSet(DOMAIN audio')
      BY <2>1, FS_AddElement DEF Keeping
    <3>2. audio'[base].file = h.file /\ audio'[base].sound \in Recording
      BY <1>2, <2>1 DEF Handling
    <3>3. /\ IsFiniteSet(DOMAIN attachments') /\ DOMAIN attachments' \subseteq Attachment
          /\ \A x \in DOMAIN attachments' : attachments'[x] \in 1..sent' /\ attachments'[x] \notin staging'
      BY <1>1 DEF Keeping
    <3>4. \A b \in DOMAIN audio' : /\ audio'[b].file \in 1..sent' /\ audio'[b].sound \in Recording
                                   /\ audio'[b].file \notin staging'
      BY <1>1, <1>2, <2>1, <3>2 DEF Keeping
    <3> QED  BY <1>3, <2>1, <3>1, <3>3, <3>4 DEF Keeping
  <2>4. \A b, f : Under(b, f) => b \in DOMAIN audio' /\ audio'[b].file = f
    BY <2>1 DEF Under
  <2>5. handling'.file = h.file /\ handling'.conv = h.conv /\ handling'.base = base /\ handling' \in Handling
    BY <1>2, <1>3, <1>4 DEF Handling
  <2>6. AtHand'
    BY <1>1, <1>2, <1>3, <2>1, <2>5 DEF AtHand, Under, running
  <2>7. InLine'
    BY <1>1, <2>4, <2>5 DEF InLine, Under, running
  <2>8. AtWork' /\ TextsOwn'
    BY <1>1, <2>4 DEF AtWork, TextsOwn, Under, running, transcripts, call
  <2> QED  BY <2>2, <2>3, <2>6, <2>7, <2>8
<1>5. CASE handling' = Nothing /\ UNCHANGED audio
  <2>1. Talking' /\ Sending' /\ Keeping'
    BY <1>1, <1>5 DEF Talking, Sending, Keeping, running
  <2>2. AtHand' /\ InLine' /\ AtWork' /\ TextsOwn'
    BY <1>1, <1>5 DEF AtHand, InLine, AtWork, TextsOwn, Under, running, transcripts, call
  <2> QED  BY <2>1, <2>2
<1> QED  BY <1>4, <1>5 DEF VFileKeep, base

\* What waits is a recording and its name.
LEMMA AllWait ==
    ASSUME InLine
    PROVE  \A i \in DOMAIN queue : queue[i].file \in File /\ queue[i].base \in Base
<1>1. \A i \in DOMAIN queue : queue[i] \in Waiting
  BY DEF InLine
<1> QED  BY <1>1 DEF Waiting

LEMMA VFileTellKeeps == ASSUME BotInv, VFileTell PROVE BotInv'
<1> USE DEF BotInv
<1> DEFINE h == handling
           new == [file |-> h.file, base |-> h.base]
<1>1. /\ h # Nothing /\ h.base # Nothing /\ handling' = Nothing
      /\ UNCHANGED <<batch, files, transcripts, cli, call, cloned, sent>>
  BY DEF VFileTell, Free
<1>2. h \in Handling /\ word[h.file] = "none" /\ Under(h.base, h.file)
  BY <1>1 DEF AtHand
<1>3. h.file \in File /\ h.file \in 1..sent /\ h.conv \in Conv /\ h.base \in Base
  BY <1>1, <1>2 DEF Handling, Under, Keeping
<1>4. Talking'
  <2>1. Owner[h.conv] \in User
    BY <1>3, UploadsAssumption
  <2>2. voice' = voice \/ voice' = [voice EXCEPT ![Owner[h.conv]] = Nothing]
    BY DEF VFileTell
  <2> QED  BY <1>1, <2>1, <2>2 DEF Talking
<1>5. Keeping' /\ AtHand' /\ TextsOwn'
  BY <1>1 DEF Keeping, AtHand, TextsOwn, Under, files, transcripts
<1>6. CASE queue' = Append(queue, new) /\ word' = word
  <2>1. new \in Waiting
    BY <1>3 DEF Waiting
  <2>2. new.file = h.file /\ new.base = h.base
    OBVIOUS
  <2> HIDE DEF new
  <2>3. /\ queue' \in Seq(Waiting) /\ DOMAIN queue = 1..Len(queue) /\ Len(queue) \in Nat
        /\ DOMAIN queue' = 1..(Len(queue) + 1) /\ queue'[Len(queue) + 1] = new
        /\ \A i \in DOMAIN queue : queue'[i] = queue[i]
    BY <1>6, <2>1 DEF InLine
  <2>4. InLine'
    <3>1. \A i \in DOMAIN queue' : i \in DOMAIN queue \/ i = Len(queue) + 1
      BY <2>3
    <3>2. \A i \in DOMAIN queue' : Under(queue'[i].base, queue'[i].file) /\ word[queue'[i].file] = "none"
      BY <1>2, <2>2, <2>3, <3>1 DEF InLine
    <3>3. \A i \in DOMAIN queue : queue[i].file # h.file
      BY <1>1 DEF InLine
    <3>4. \A i, k \in DOMAIN queue' : queue'[i].file = queue'[k].file => i = k
      BY <2>2, <2>3, <3>1, <3>3 DEF InLine
    <3> QED  BY <1>1, <1>6, <2>3, <3>2, <3>4 DEF InLine, Under, files
  <2>5. Sending' /\ AtWork'
    <3>1. queue' # <<>>
      BY <2>3
    <3> QED  BY <1>1, <1>6, <3>1 DEF Sending, AtWork, files, call
  <2> QED  BY <1>4, <1>5, <2>4, <2>5
<1>7. CASE queue' = queue /\ word' \in {word, [word EXCEPT ![h.file] = "start"]}
  <2>1. Sending'
    BY <1>1, <1>3, <1>7 DEF Sending, files
  <2>2. InLine'
    <3>1. \A i \in DOMAIN queue : word'[queue[i].file] = "none"
      <4>1. SUFFICES ASSUME NEW i \in DOMAIN queue PROVE word'[queue[i].file] = "none"
        OBVIOUS
      <4>2. queue[i].file # h.file /\ word[queue[i].file] = "none"
        BY <1>1 DEF InLine
      <4>3. queue[i].file \in File
        BY AllWait
      <4>4. \A f \in File : f # h.file => word'[f] = word[f]
        BY <1>7 DEF Sending
      <4> QED  BY <4>2, <4>3, <4>4
    <3> QED  BY <1>1, <1>7, <3>1 DEF InLine, Under, files
  <2>3. AtWork'
    BY <1>1, <1>7 DEF AtWork, call
  <2> QED  BY <1>4, <1>5, <2>1, <2>2, <2>3
<1> QED  BY <1>6, <1>7 DEF VFileTell

LEMMA FDoneKeeps ==
    ASSUME BotInv, NEW c \in Conv, FDone(c)
    PROVE  BotInv'
<1> USE DEF BotInv
<1> DEFINE u == Owner[c]
           fs == batch[u].files
<1>0. u \in User
  BY UploadsAssumption
<1>1. /\ Free /\ batch[u] # Nothing /\ batch[u].dept # Nothing
      /\ UNCHANGED <<voice, audio, transcripts, running, call, handling, cloned, sent>>
  BY DEF FDone
<1>2. batch[u] \in Batch /\ batch[u].dept \in Dept /\ fs \in Seq(Sent)
  BY <1>0, <1>1 DEF Talking, Batch
<1>3. PICK n \in 0..Len(fs) :
        /\ 1..n \subseteq {i \in DOMAIN fs : fs[i].file \in staging}
        /\ attachments' = AfterMoves(batch[u].dept, fs, n)
        /\ staging' = staging \ {fs[i].file : i \in 1..n}
        /\ batch' = [batch EXCEPT ![u] = Nothing] \/ batch' = batch
  BY DEF FDone
<1> DEFINE d == batch[u].dept
<1> HIDE DEF fs, d
<1>4. /\ Folder(attachments')
      /\ \A x \in DOMAIN attachments : attachments'[x] = attachments[x]
      /\ \A x \in DOMAIN attachments' : x \in DOMAIN attachments \/ \E i \in 1..n : attachments'[x] = fs[i].file
  <2>1. Folder(attachments)
    BY DEF Folder, Keeping
  <2>2. attachments' = AfterMoves(d, fs, n) /\ d \in Dept /\ fs \in Seq(Sent)
    BY <1>2, <1>3 DEF d, fs
  <2> QED  BY <2>1, <2>2, MovesKeep
<1>5. Talking' /\ Sending'
  BY <1>0, <1>1, <1>3 DEF Talking, Sending, running
<1>6. Keeping'
  <2>1. \A x \in DOMAIN attachments' : attachments'[x] \in 1..sent /\ attachments'[x] \notin staging'
    BY <1>3, <1>4 DEF Keeping, Sending
  <2> QED  BY <1>1, <1>3, <1>4, <2>1 DEF Keeping, Folder
<1>7. AtHand' /\ InLine' /\ AtWork' /\ TextsOwn'
  BY <1>1 DEF AtHand, InLine, AtWork, TextsOwn, Under, Free, running, call, transcripts
<1> QED  BY <1>5, <1>6, <1>7

\* The command and the pipeline touch neither what is kept nor the line.
LEMMA RunKeeps ==
    ASSUME BotInv, AtWork', TextsOwn',
           UNCHANGED <<voice, batch, files, queue, word, handling, sent>>
    PROVE  BotInv'
<1> USE DEF BotInv, files
<1>1. Talking' /\ Sending' /\ Keeping'
  BY DEF Talking, Sending, Keeping
<1>2. AtHand' /\ InLine'
  BY DEF AtHand, InLine, Under
<1> QED  BY <1>1, <1>2

\* A recording that waits is under its name.
LEMMA JobIsUnder ==
    ASSUME InLine, queue # <<>>
    PROVE  /\ 1 \in DOMAIN queue /\ Job = queue[1]
           /\ Job.file \in File /\ Job.base \in Base /\ Under(Job.base, Job.file)
           /\ word[Job.file] = "none"
<1>1. queue \in Seq(Waiting) /\ 1 \in DOMAIN queue /\ Job = queue[1]
  BY DEF InLine, Job
<1>2. queue[1] \in Waiting
  BY <1>1
<1> QED  BY <1>1, <1>2 DEF InLine, Waiting

\* A text put under its recording's name.
LEMMA TextKeeps ==
    ASSUME TextsOwn, NEW b, NEW f, Under(b, f) \/ cloned,
           \/ raw' = Put(raw, b, f) /\ UNCHANGED approved
           \/ approved' = Put(approved, b, f) /\ UNCHANGED raw,
           UNCHANGED <<audio, cloned>>
    PROVE  TextsOwn'
BY DEF TextsOwn, Under, Put

LEMMA TranscriptionKeeps ==
    ASSUME BotInv, CliStarts \/ CliReads \/ CliProbes \/ CliCalls \/ CliEnds \/ Watchdog
    PROVE  BotInv'
<1> USE DEF BotInv, conversation, transcripts, running, bounds
<1>1. CASE CliStarts
  <2>1. AtWork'
    BY <1>1 DEF CliStarts, AtWork, call
  <2>2. TextsOwn'
    BY <1>1 DEF CliStarts, TextsOwn, Under, files
  <2> QED  BY <1>1, <2>1, <2>2, RunKeeps DEF CliStarts
<1>2. CASE CliReads
  <2>1. queue # <<>> /\ ended = "idle"
    BY <1>2 DEF CliReads, AtWork
  <2>2. AtWork'
    BY <1>2, <2>1 DEF CliReads, AtWork, call
  <2>3. TextsOwn'
    <3>1. CASE Job.base \in DOMAIN raw
      BY <1>2, <3>1 DEF CliReads, TextsOwn, Under, files
    <3>2. CASE Job.base \notin DOMAIN raw
      <4>1. /\ raw' = Put(raw, Job.base, approved[Job.base]) /\ Job.base \in DOMAIN approved
            /\ UNCHANGED <<audio, approved, cloned>>
        BY <1>2, <3>2 DEF CliReads, files
      <4>2. Under(Job.base, approved[Job.base]) \/ cloned
        BY <4>1 DEF TextsOwn
      <4> QED  BY <4>1, <4>2, TextKeeps
    <3> QED  BY <3>1, <3>2
  <2> QED  BY <1>2, <2>2, <2>3, RunKeeps DEF CliReads
<1>3. CASE CliProbes
  <2>1. AtWork'
    BY <1>3 DEF CliProbes, AtWork
  <2>2. TextsOwn'
    BY <1>3 DEF CliProbes, TextsOwn, Under, files
  <2> QED  BY <1>3, <2>1, <2>2, RunKeeps DEF CliProbes
<1>4. CASE CliCalls
  <2>1. AtWork'
    BY <1>4 DEF CliCalls, AtWork
  <2>2. TextsOwn'
    BY <1>4 DEF CliCalls, TextsOwn, Under, files
  <2> QED  BY <1>4, <2>1, <2>2, RunKeeps DEF CliCalls
<1>5. CASE CliEnds
  <2>1. queue # <<>>
    BY <1>5 DEF CliEnds, AtWork
  <2>2. AtWork'
    BY <1>5, <2>1 DEF CliEnds, AtWork, CallGone
  <2>3. TextsOwn'
    <3>1. CASE raw' = Put(raw, Job.base, audio[Job.base].file)
      <4>1. Under(Job.base, audio[Job.base].file)
        BY <2>1, JobIsUnder DEF Under
      <4>2. UNCHANGED <<audio, approved, cloned>>
        BY <1>5 DEF CliEnds, files
      <4> QED  BY <3>1, <4>1, <4>2, TextKeeps
    <3>2. CASE UNCHANGED raw
      BY <1>5, <3>2 DEF CliEnds, TextsOwn, Under, files
    <3> QED  BY <1>5, <3>1, <3>2 DEF CliEnds
  <2> QED  BY <1>5, <2>2, <2>3, RunKeeps DEF CliEnds
<1>6. CASE Watchdog
  <2>1. AtWork'
    BY <1>6 DEF Watchdog, AtWork, CallGone
  <2>2. TextsOwn'
    BY <1>6 DEF Watchdog, TextsOwn, Under, files
  <2> QED  BY <1>6, <2>1, <2>2, RunKeeps DEF Watchdog
<1> QED  BY <1>1, <1>2, <1>3, <1>4, <1>5, <1>6

LEMMA LastWordKeeps == ASSUME BotInv, LastWord PROVE BotInv'
<1> USE DEF BotInv, conversation, transcripts, files
<1>1. /\ cli \in {"succeeded", "failed"} /\ queue # <<>> /\ queue' = Tail(queue) /\ cli' = "none"
      /\ UNCHANGED <<voice, batch, staging, audio, attachments, raw, approved, call, handling, cloned, sent>>
  BY DEF LastWord, AtWork
<1>2. /\ 1 \in DOMAIN queue /\ Job = queue[1] /\ Job.file \in File
      /\ Under(Job.base, Job.file)
  BY <1>1, JobIsUnder
<1>3. word' \in {word, [word EXCEPT ![Job.file] = "start"]}
  BY DEF LastWord
<1>4. /\ queue' \in Seq(Waiting)
      /\ \A i \in DOMAIN queue' : i + 1 \in DOMAIN queue /\ i + 1 # 1 /\ queue'[i] = queue[i + 1] /\ i \in Nat
  BY <1>1 DEF InLine
<1>5. Talking' /\ Keeping' /\ TextsOwn'
  BY <1>1 DEF Talking, Keeping, TextsOwn, Under
<1>6. Sending'
  <2>1. Job.file \in 1..sent
    BY <1>2 DEF Under, Keeping
  <2> QED  BY <1>1, <1>2, <1>3, <2>1 DEF Sending
<1>7. AtHand'
  <2>1. handling # Nothing => handling.file # Job.file
    BY <1>2 DEF InLine
  <2>2. handling # Nothing => word'[handling.file] = "none"
    BY <1>2, <1>3, <2>1 DEF AtHand, Sending, Handling
  <2> QED  BY <1>1, <2>2 DEF AtHand, Under
<1>8. InLine'
  <2>1. \A i \in DOMAIN queue' : queue'[i].file # Job.file /\ queue'[i].file \in File
    BY <1>2, <1>4, AllWait DEF InLine
  <2>2. \A i \in DOMAIN queue' : word'[queue'[i].file] = "none"
    BY <1>2, <1>3, <1>4, <2>1 DEF InLine, Sending
  <2> QED  BY <1>1, <1>4, <2>2 DEF InLine, Under
<1>9. AtWork'
  BY <1>1 DEF AtWork, call
<1> QED  BY <1>5, <1>6, <1>7, <1>8, <1>9

LEMMA ApproveKeeps ==
    ASSUME BotInv, NEW b \in DOMAIN audio, Approve(b)
    PROVE  BotInv'
<1> USE DEF BotInv, running, conversation, bounds
<1>1. AtWork'
  BY DEF Approve, AtWork, call
<1>2. TextsOwn'
  <2> DEFINE f == IF b \in DOMAIN raw THEN raw[b] ELSE audio[b].file
  <2>1. Under(b, f) \/ cloned
    BY DEF TextsOwn, Under
  <2>2. approved' = Put(approved, b, f) /\ UNCHANGED <<raw, audio, cloned>>
    BY DEF Approve, files
  <2> HIDE DEF f
  <2> QED  BY <2>1, <2>2, TextKeeps
<1> QED  BY <1>1, <1>2, RunKeeps DEF Approve

\* A stop takes what is in memory with it, and a fresh clone the recordings.
LEMMA StopKeeps == ASSUME BotInv, Restart \/ FreshClone PROVE BotInv'
<1> USE DEF BotInv, transcripts
<1>1. /\ voice' = [u \in User |-> Nothing] /\ batch' = [u \in User |-> Nothing]
      /\ handling' = Nothing /\ queue' = <<>> /\ cli' = "none" /\ ended' = "idle"
      /\ UNCHANGED <<attachments, raw, approved, word, sent>>
  BY DEF Restart, FreshClone, Stopped, CallGone
<1>2. \/ UNCHANGED <<staging, audio, cloned>>
      \/ cloned' = TRUE /\ audio' = <<>> /\ staging' = {}
  BY DEF Restart, FreshClone
<1>3. Talking' /\ AtHand' /\ InLine' /\ AtWork'
  BY <1>1 DEF Talking, AtHand, InLine, AtWork
<1>4. Sending'
  BY <1>1, <1>2 DEF Sending
<1>5. Keeping'
  <2>1. CASE UNCHANGED <<staging, audio, cloned>>
    BY <1>1, <2>1 DEF Keeping
  <2>2. CASE audio' = <<>> /\ staging' = {}
    <3>1. DOMAIN audio' = {}
      BY <2>2
    <3> QED  BY <1>1, <2>2, <3>1, FS_EmptySet DEF Keeping
  <2> QED  BY <1>2, <2>1, <2>2
<1>6. TextsOwn'
  BY <1>1, <1>2 DEF TextsOwn, Under
<1> QED  BY <1>3, <1>4, <1>5, <1>6

LEMMA StepBotInv == BotInv /\ [Next]_vars => BotInv'
<1> SUFFICES ASSUME BotInv, [Next]_vars PROVE BotInv'
  OBVIOUS
<1>1. CASE Handlers
  BY <1>1, TalkStepKeeps, FDoneKeeps, VFileKeeps, FCollectKeeps, VFileKeepKeeps, VFileTellKeeps,
     Zenon DEF Handlers
<1>2. CASE Transcription
  BY <1>2, TranscriptionKeeps, LastWordKeeps DEF Transcription
<1>3. CASE Around
  BY <1>3, ApproveKeeps, StopKeeps DEF Around
<1>4. CASE UNCHANGED vars
  <2>1. AtWork' /\ TextsOwn'
    BY <1>4 DEF vars, BotInv, AtWork, TextsOwn, Under, running, transcripts, call, files
  <2> QED  BY <1>4, <2>1, RunKeeps DEF vars, conversation, running, bounds
<1> QED  BY <1>1, <1>2, <1>3, <1>4 DEF Next

\* What is staged, kept, waiting and written belongs together, always.
THEOREM BotInvariant == Spec => []BotInv
BY InitBotInv, StepBotInv, PTL DEF Spec

\* A transcript is of the recording that has its name, whatever names were
\* taken, texts found and recordings approved in between, unless the recordings
\* were lost under it.
THEOREM TranscriptIsAlwaysItsOwn == Spec => []TranscriptIsItsOwn
<1>1. BotInv => TranscriptIsItsOwn
  BY DEF BotInv, TextsOwn, Under, TranscriptIsItsOwn
<1> QED  BY <1>1, BotInvariant, PTL

-----------------------------------------------------------------------------
(* The calls the bot makes are calls of the command.                       *)

LEMMA StepsCall == BotInv /\ [Next]_vars => [CallNext]_call
<1> SUFFICES ASSUME BotInv, [Next]_vars PROVE [CallNext]_call
  BY Zenon
<1>1. CASE Handlers
  BY <1>1 DEF Handlers, Start, ChooseKind, VDate, VDepts, VDeptsDone, FDept, FCollect, FDone,
              Cancel, VFile, VFileKeep, VFileTell
<1>2. CASE CliProbes
  <2>1. queue # <<>> /\ ended = "idle"
    BY <1>2 DEF BotInv, AtWork, CliProbes
  <2>2. Job.base \in DOMAIN audio
    BY <2>1, JobIsUnder DEF BotInv, Under
  <2>3. audio[Job.base].sound \in Sound
    BY <2>2, UploadsAssumption DEF BotInv, Keeping
  <2> QED  BY <1>2, <2>1, <2>3 DEF CliProbes, CallNext
<1>3. CASE CliStarts \/ CliReads \/ LastWord
  BY <1>3 DEF CliStarts, CliReads, LastWord
<1>4. CASE CliCalls \/ CliEnds \/ Watchdog
  BY <1>4 DEF CliCalls, CliEnds, Watchdog, CallNext
<1>5. CASE Around
  BY <1>5 DEF Around, Restart, FreshClone, Stopped, Approve, CallNext
<1>6. CASE UNCHANGED vars
  BY <1>6 DEF vars
<1> QED  BY <1>1, <1>2, <1>3, <1>4, <1>5, <1>6 DEF Next, Transcription

\* All or nothing, of every call the bot makes: whatever the watchdog kills and
\* a restart takes along, a transcript it is handed is of the whole recording.
THEOREM BotWholeOrNothing == Spec => []NothingDropped
<1>1. Init => CallInv
  BY InitCallInv DEF Init
<1>2. BotInv /\ [Next]_vars /\ CallInv => CallInv'
  BY StepsCall, StepCallInv
<1> QED  BY <1>1, <1>2, BotInvariant, CallInvDropsNothing, PTL DEF Spec

-----------------------------------------------------------------------------
(* The bot implements Intake.                                              *)

\* What is kept is not staged, and was sent.
LEMMA KeptApart ==
    ASSUME BotInv
    PROVE  Kept \subseteq 1..sent /\ Kept \cap staging = {} /\ staging \subseteq 1..sent
           /\ sent \in Nat /\ MaxSent \in Nat /\ 1..sent \subseteq File
BY UploadsAssumption DEF BotInv, Keeping, Sending, Kept, Content, File

LEMMA InitPromised == Init => Promised!Init
<1> SUFFICES ASSUME Init PROVE Promised!Init
  OBVIOUS
<1>1. ~ \E i \in DOMAIN queue : TRUE
  BY DEF Init
<1>2. said = [f \in File |-> "none"]
  BY <1>1 DEF Init, said, Transcribed
<1>3. Kept = {} /\ staging = {} /\ sent = 0
  <2>1. DOMAIN <<>> = {}
    OBVIOUS
  <2> QED  BY <2>1 DEF Init, Kept, Content
<1>4. \A f \in File : ~(f <= 0)
  BY UploadsAssumption DEF File
<1>5. place = [f \in File |-> "away"]
  BY <1>3, <1>4 DEF place
<1> QED  BY <1>2, <1>5 DEF Promised!Init

\* Files leave staging for a name, or for good, or enter it.
LEMMA PlaceKeeps ==
    ASSUME BotInv, NEW F \in SUBSET staging, staging' = staging \ F, sent' = sent,
           Kept' = Kept \cup F
    PROVE  Promised!Moved(F, "held", "kept")
<1>1. \A f \in F : place[f] = "held"
  BY KeptApart DEF place
<1>2. place' = [f \in File |-> IF f \in F THEN "kept" ELSE place[f]]
  <2>1. \A f \in File : place'[f] = IF f \in F THEN "kept" ELSE place[f]
    BY KeptApart DEF place
  <2> QED  BY <2>1 DEF place
<1> QED  BY <1>1, <1>2 DEF Promised!Moved

LEMMA PlaceDrops ==
    ASSUME BotInv, NEW F \in SUBSET staging, staging' = staging \ F, sent' = sent,
           Kept' = Kept
    PROVE  Promised!Moved(F, "held", "dropped")
<1>1. \A f \in F : place[f] = "held"
  BY KeptApart DEF place
<1>2. place' = [f \in File |-> IF f \in F THEN "dropped" ELSE place[f]]
  <2>1. \A f \in File : place'[f] = IF f \in F THEN "dropped" ELSE place[f]
    BY KeptApart DEF place
  <2> QED  BY <2>1 DEF place
<1> QED  BY <1>1, <1>2 DEF Promised!Moved

LEMMA PlaceHolds ==
    ASSUME BotInv, sent < MaxSent, sent' = sent + 1, staging' = staging \cup {sent'},
           Kept' = Kept
    PROVE  sent' \in File /\ Promised!Moved({sent'}, "away", "held")
<1>0. sent' \in File /\ sent' \notin staging /\ sent' \notin Kept /\ ~(sent' <= sent)
  BY KeptApart DEF File
<1>1. place[sent'] = "away"
  BY <1>0 DEF place
<1>2. place' = [f \in File |-> IF f \in {sent'} THEN "held" ELSE place[f]]
  <2>1. \A f \in File : place'[f] = IF f \in {sent'} THEN "held" ELSE place[f]
    <3> SUFFICES ASSUME NEW f \in File PROVE place'[f] = IF f \in {sent'} THEN "held" ELSE place[f]
      OBVIOUS
    <3>1. f # sent' => (f <= sent' <=> f <= sent)
      BY KeptApart DEF File
    <3> QED  BY <1>0, <3>1 DEF place
  <2> QED  BY <2>1 DEF place
<1> QED  BY <1>0, <1>1, <1>2 DEF Promised!Moved

LEMMA PlaceStays ==
    ASSUME UNCHANGED <<staging, sent>>, Kept' = Kept
    PROVE  place' = place
BY DEF place

LEMMA SaidStays ==
    ASSUME UNCHANGED <<queue, word>>
    PROVE  said' = said
BY DEF said, Transcribed

\* What is said of one file, and of no other.
LEMMA SaidOfOne ==
    ASSUME NEW f \in File, NEW w,
           \A g \in File : said'[g] = IF g = f THEN w ELSE said[g]
    PROVE  said' = [said EXCEPT ![f] = w]
BY DEF said

LEMMA TalkPromised ==
    ASSUME BotInv, NEW c \in Conv,
           \/ Start(c) \/ ChooseKind(c) \/ VDate(c) \/ VDeptsDone(c) \/ Cancel(c)
           \/ \E d \in Dept : VDepts(c, d) \/ FDept(c, d)
    PROVE  Promised!Next
<1>1. Talking' /\ staging' \subseteq staging /\ sent' = sent
  BY TalkTalks, Zenon DEF BotInv
<1>2. UNCHANGED <<audio, attachments, queue, word>>
  BY DEF Start, ChooseKind, VDate, VDeptsDone, Cancel, VDepts, FDept, files, running
<1>3. said' = said /\ Kept' = Kept
  BY <1>2, SaidStays DEF Kept, Content
<1> DEFINE F == staging \ staging'
<1>4. F \in SUBSET staging /\ staging' = staging \ F /\ F \in SUBSET File
  BY <1>1, KeptApart
<1> HIDE DEF F
<1>5. Promised!Drop(F)
  BY <1>1, <1>3, <1>4, PlaceDrops DEF Promised!Drop
<1> QED  BY <1>4, <1>5 DEF Promised!Next

LEMMA ArrivalPromised ==
    ASSUME BotInv, NEW c \in Conv, VFile(c) \/ \E name \in Name : FCollect(c, name)
    PROVE  Promised!Next
<1>1. /\ sent < MaxSent /\ sent' = sent + 1 /\ staging' = staging \cup {sent'}
      /\ UNCHANGED <<audio, attachments, queue, word>>
  BY DEF VFile, FCollect, running
<1>2. said' = said /\ Kept' = Kept
  BY <1>1, SaidStays DEF Kept, Content
<1>3. sent' \in File /\ Promised!Hold(sent')
  BY <1>1, <1>2, PlaceHolds DEF Promised!Hold
<1> QED  BY <1>3 DEF Promised!Next

LEMMA FDonePromised ==
    ASSUME BotInv, NEW c \in Conv, FDone(c)
    PROVE  Promised!Next
<1> USE DEF BotInv
<1> DEFINE u == Owner[c]
           fs == batch[u].files
           d == batch[u].dept
<1>0. u \in User
  BY UploadsAssumption
<1>1. /\ batch[u] # Nothing /\ d # Nothing /\ sent' = sent
      /\ UNCHANGED <<audio, queue, word>>
  BY DEF FDone, running
<1>2. d \in Dept /\ fs \in Seq(Sent)
  BY <1>0, <1>1 DEF Talking, Batch
<1>3. PICK n \in 0..Len(fs) :
        /\ 1..n \subseteq {i \in DOMAIN fs : fs[i].file \in staging}
        /\ attachments' = AfterMoves(d, fs, n)
        /\ staging' = staging \ {fs[i].file : i \in 1..n}
  BY DEF FDone
<1> HIDE DEF fs, d
<1> DEFINE F == {fs[i].file : i \in 1..n}
<1>4. F \in SUBSET staging /\ F \in SUBSET File
  BY <1>3, KeptApart
<1>5. Folder(attachments)
  BY DEF Folder, Keeping
<1>6. /\ DOMAIN attachments \subseteq DOMAIN attachments'
      /\ \A x \in DOMAIN attachments : attachments'[x] = attachments[x]
      /\ \A i \in 1..n : \E x \in DOMAIN attachments' : attachments'[x] = fs[i].file
      /\ \A x \in DOMAIN attachments' : x \in DOMAIN attachments \/ \E i \in 1..n : attachments'[x] = fs[i].file
  BY <1>2, <1>3, <1>5, MovesKeep
<1>7. Content(attachments') = Content(attachments) \cup F
  BY <1>6 DEF Content
<1>8. Kept' = Kept \cup F
  <2>1. Kept' = {audio[b].file : b \in DOMAIN audio} \cup Content(attachments')
    BY <1>1 DEF Kept, Content
  <2> HIDE DEF F
  <2> QED  BY <1>7, <2>1 DEF Kept
<1>9. said' = said
  BY <1>1, SaidStays
<1>10. staging' = staging \ F
  BY <1>3
<1> HIDE DEF F
<1>11. Promised!Keep(F)
  BY <1>1, <1>4, <1>8, <1>9, <1>10, PlaceKeeps DEF Promised!Keep
<1> QED  BY <1>4, <1>11 DEF Promised!Next

LEMMA VFileKeepPromised == ASSUME BotInv, VFileKeep PROVE Promised!Next
<1> USE DEF BotInv
<1> DEFINE h == handling
           base == VoiceBasename(voice[Owner[h.conv]])
           F == {h.file}
<1>1. /\ h # Nothing /\ h.base = Nothing /\ staging' = staging \ F
      /\ UNCHANGED <<attachments, queue, word, sent>>
  BY DEF VFileKeep, Free, running
<1>2. voice[Owner[h.conv]] \in Voice /\ h.file \in staging
  BY <1>1 DEF AtHand
<1>3. base \in Base \ DOMAIN audio
  BY <1>2, NewBase
<1> HIDE DEF base
<1>4. said' = said
  BY <1>1, SaidStays
<1>5. F \in SUBSET staging /\ F \in SUBSET File
  BY <1>2, KeptApart
<1>6. CASE audio' = Put(audio, base, [file |-> h.file, sound |-> h.sound])
  <2>1. /\ DOMAIN audio' = DOMAIN audio \cup {base}
        /\ audio'[base].file = h.file
        /\ \A b \in DOMAIN audio : audio'[b] = audio[b]
    BY <1>3, <1>6 DEF Put
  <2>2. Kept' = {audio'[b].file : b \in DOMAIN audio'} \cup Content(attachments)
    BY <1>1 DEF Kept, Content
  <2>3. {audio'[b].file : b \in DOMAIN audio'} = {audio[b].file : b \in DOMAIN audio} \cup F
    BY <2>1
  <2>4. Kept' = Kept \cup F
    BY <2>2, <2>3 DEF Kept
  <2> HIDE DEF F
  <2>5. Promised!Keep(F)
    BY <1>1, <1>4, <1>5, <2>4, PlaceKeeps DEF Promised!Keep
  <2> QED  BY <1>5, <2>5 DEF Promised!Next
<1>7. CASE audio' = audio
  <2>1. Kept' = Kept
    BY <1>1, <1>7 DEF Kept, Content
  <2> HIDE DEF F
  <2>2. Promised!Drop(F)
    BY <1>1, <1>4, <1>5, <2>1, PlaceDrops DEF Promised!Drop
  <2> QED  BY <1>5, <2>2 DEF Promised!Next
<1> QED  BY <1>6, <1>7 DEF VFileKeep, base

\* What is under a name is kept.
LEMMA UnderIsKept ==
    ASSUME BotInv, NEW b, NEW f \in File, Under(b, f)
    PROVE  place[f] = "kept"
<1>1. f \in Kept
  BY DEF Kept, Under
<1> QED  BY <1>1, KeptApart DEF place

LEMMA VFileTellPromised == ASSUME BotInv, VFileTell PROVE [Promised!Next]_<<place, said>>
<1> USE DEF BotInv
<1> DEFINE h == handling
           f == h.file
           new == [file |-> f, base |-> h.base]
<1>1. h # Nothing /\ h.base # Nothing /\ UNCHANGED <<staging, audio, attachments, sent>>
  BY DEF VFileTell, Free, files
<1>2. h \in Handling /\ word[f] = "none" /\ Under(h.base, f)
  BY <1>1 DEF AtHand
<1>3. f \in File
  BY <1>2 DEF Handling
<1>4. place' = place /\ place[f] = "kept"
  <2>1. Kept' = Kept
    BY <1>1 DEF Kept, Content
  <2> HIDE DEF f
  <2> QED  BY <1>1, <1>2, <1>3, <2>1, PlaceStays, UnderIsKept
<1>5. \A i \in DOMAIN queue : queue[i].file # f
  BY <1>1 DEF InLine
<1>6. said[f] = "none"
  BY <1>2, <1>3, <1>5 DEF said, Transcribed
<1>7. CASE queue' = Append(queue, new) /\ word' = word
  <2>1. new \in Waiting /\ new.file = f
    BY <1>1, <1>2 DEF Waiting, Handling
  <2> HIDE DEF new
  <2>2. /\ DOMAIN queue = 1..Len(queue) /\ Len(queue) \in Nat
        /\ DOMAIN queue' = 1..(Len(queue) + 1) /\ queue'[Len(queue) + 1] = new
        /\ \A i \in DOMAIN queue : queue'[i] = queue[i]
    BY <1>7, <2>1 DEF InLine
  <2>3. \A g \in File : Transcribed(g)' <=> Transcribed(g) \/ g = f
    BY <2>1, <2>2 DEF Transcribed
  <2>4. \A g \in File : said'[g] = IF g = f THEN "busy" ELSE said[g]
    BY <1>7, <2>3 DEF said
  <2> HIDE DEF f
  <2>5. said' = [said EXCEPT ![f] = "busy"]
    BY <1>3, <2>4, SaidOfOne
  <2>6. Promised!Transcribing(f)
    BY <1>4, <1>6, <2>5 DEF Promised!Transcribing, Promised!Said
  <2> QED  BY <1>3, <2>6 DEF Promised!Next
<1>8. CASE queue' = queue /\ word' = [word EXCEPT ![f] = "start"]
  <2>1. \A g \in File : Transcribed(g)' <=> Transcribed(g)
    BY <1>8 DEF Transcribed
  <2>2. ~Transcribed(f)
    BY <1>5 DEF Transcribed
  <2>3. \A g \in File : word'[g] = IF g = f THEN "start" ELSE word[g]
    BY <1>8 DEF Sending
  <2>4. \A g \in File : said'[g] = IF g = f THEN "start" ELSE said[g]
    BY <2>1, <2>2, <2>3 DEF said
  <2> HIDE DEF f
  <2>5. said' = [said EXCEPT ![f] = "start"]
    BY <1>3, <2>4, SaidOfOne
  <2>6. Promised!SayStart(f)
    BY <1>4, <1>6, <2>5 DEF Promised!SayStart, Promised!Said
  <2> QED  BY <1>3, <2>6 DEF Promised!Next
<1>9. CASE UNCHANGED <<queue, word>>
  BY <1>4, <1>9, SaidStays
<1> QED  BY <1>7, <1>8, <1>9 DEF VFileTell

LEMMA LastWordPromised == ASSUME BotInv, LastWord PROVE Promised!Next
<1> USE DEF BotInv
<1> DEFINE f == Job.file
<1>1. queue # <<>> /\ queue' = Tail(queue) /\ UNCHANGED <<staging, audio, attachments, sent>>
  BY DEF LastWord, AtWork, files
<1>2. /\ 1 \in DOMAIN queue /\ Job = queue[1] /\ f \in File
      /\ Under(Job.base, f) /\ word[f] = "none"
  BY <1>1, JobIsUnder
<1>3. place' = place /\ place[f] = "kept"
  <2>1. Kept' = Kept
    BY <1>1 DEF Kept, Content
  <2> HIDE DEF f
  <2> QED  BY <1>1, <1>2, <2>1, PlaceStays, UnderIsKept
<1>4. Transcribed(f) /\ said[f] = "busy"
  BY <1>2 DEF Transcribed, said
<1>5. /\ Len(queue) \in Nat /\ DOMAIN queue = 1..Len(queue)
      /\ DOMAIN queue' = 1..(Len(queue) - 1)
      /\ \A i \in DOMAIN queue' : queue'[i] = queue[i + 1]
  BY <1>1 DEF InLine
<1>6. \A g \in File : Transcribed(g)' <=> Transcribed(g) /\ g # f
  <2> SUFFICES ASSUME NEW g \in File PROVE Transcribed(g)' <=> Transcribed(g) /\ g # f
    OBVIOUS
  <2>1. ASSUME NEW i \in DOMAIN queue', queue'[i].file = g PROVE Transcribed(g) /\ g # f
    <3>1. i + 1 \in DOMAIN queue /\ i + 1 # 1 /\ queue[i + 1].file = g
      BY <1>5, <2>1
    <3> QED  BY <1>2, <3>1 DEF Transcribed, InLine
  <2>2. ASSUME NEW i \in DOMAIN queue, queue[i].file = g, g # f PROVE Transcribed(g)'
    <3>1. i # 1
      BY <1>2, <2>2
    <3>2. i - 1 \in DOMAIN queue' /\ queue'[i - 1].file = g
      BY <1>5, <2>2, <3>1
    <3> QED  BY <3>2 DEF Transcribed
  <2> QED  BY <2>1, <2>2 DEF Transcribed
<1>7. CASE word' = [word EXCEPT ![f] = "start"]
  <2>1. \A g \in File : word'[g] = IF g = f THEN "start" ELSE word[g]
    BY <1>7 DEF Sending
  <2>2. \A g \in File : said'[g] = IF g = f THEN "start" ELSE said[g]
    BY <1>6, <2>1 DEF said
  <2> HIDE DEF f
  <2>3. said' = [said EXCEPT ![f] = "start"]
    BY <1>2, <2>2, SaidOfOne
  <2>4. Promised!SayStart(f)
    BY <1>3, <1>4, <2>3 DEF Promised!SayStart, Promised!Said
  <2> QED  BY <1>2, <2>4 DEF Promised!Next
<1>8. CASE word' = word
  <2>1. \A g \in File : said'[g] = IF g = f THEN "none" ELSE said[g]
    BY <1>2, <1>6, <1>8 DEF said
  <2> HIDE DEF f
  <2>2. said' = [said EXCEPT ![f] = "none"]
    BY <1>2, <2>1, SaidOfOne
  <2>3. Promised!GiveUp(f)
    BY <1>3, <1>4, <2>2 DEF Promised!GiveUp, Promised!Said
  <2> QED  BY <1>2, <2>3 DEF Promised!Next
<1> QED  BY <1>7, <1>8 DEF LastWord

LEMMA StopPromised == ASSUME BotInv, Restart \/ FreshClone PROVE Promised!Next
<1> USE DEF BotInv
<1>1. queue' = <<>> /\ UNCHANGED <<attachments, word, sent>>
  BY DEF Restart, FreshClone, Stopped
<1>2. said' = [f \in File |-> IF said[f] = "busy" THEN "none" ELSE said[f]]
  <2>1. \A f \in File : ~Transcribed(f)'
    BY <1>1 DEF Transcribed
  <2>2. \A f \in File : Transcribed(f) => word[f] = "none"
    BY DEF Transcribed, InLine
  <2>3. \A f \in File : said'[f] = IF said[f] = "busy" THEN "none" ELSE said[f]
    BY <1>1, <2>1, <2>2 DEF said, Sending
  <2> QED  BY <2>3 DEF said
<1> DEFINE F == {f \in File : place[f] \in {"held", "kept"} /\ f \notin staging' /\ f \notin Kept'}
<1>3. place' = [f \in File |-> IF f \in F THEN "dropped" ELSE place[f]]
  <2>1. /\ staging' \subseteq staging /\ Kept' \subseteq Kept
        /\ (staging' = staging /\ Kept' = Kept) \/ (staging' = {} /\ Kept' = Content(attachments))
    <3>1. CASE Restart
      BY <1>1, <3>1 DEF Restart, Kept, Content
    <3>2. CASE FreshClone
      <4>1. DOMAIN audio' = {} /\ staging' = {}
        BY <3>2 DEF FreshClone
      <4> QED  BY <1>1, <4>1 DEF Kept, Content
    <3> QED  BY <3>1, <3>2
  <2>2. \A f \in File : place'[f] = IF f \in F THEN "dropped" ELSE place[f]
    BY <1>1, <2>1, KeptApart DEF place
  <2> QED  BY <2>2 DEF place
<1> HIDE DEF F
<1>4. F \in SUBSET {f \in File : place[f] \in {"held", "kept"}}
  BY DEF F
<1>5. Promised!Restart
  BY <1>2, <1>3, <1>4 DEF Promised!Restart
<1> QED  BY <1>5 DEF Promised!Next

LEMMA StepPromised == BotInv /\ [Next]_vars => [Promised!Next]_<<place, said>>
<1> SUFFICES ASSUME BotInv, [Next]_vars PROVE [Promised!Next]_<<place, said>>
  OBVIOUS
<1>1. CASE Handlers
  BY <1>1, TalkPromised, ArrivalPromised, FDonePromised, VFileKeepPromised, VFileTellPromised,
     Zenon DEF Handlers
<1>2. CASE LastWord
  BY <1>2, LastWordPromised
<1>3. CASE Restart \/ FreshClone
  BY <1>3, StopPromised
<1>4. CASE \/ CliStarts \/ CliReads \/ CliProbes \/ CliCalls \/ CliEnds \/ Watchdog
           \/ (\E b \in DOMAIN audio : Approve(b)) \/ UNCHANGED vars
  <2>1. UNCHANGED <<staging, audio, attachments, queue, word, sent>>
    BY <1>4 DEF CliStarts, CliReads, CliProbes, CliCalls, CliEnds, Watchdog, Approve, vars,
                files, running, bounds
  <2>2. Kept' = Kept
    BY <2>1 DEF Kept, Content
  <2> QED  BY <2>1, <2>2, PlaceStays, SaidStays
<1> QED  BY <1>1, <1>2, <1>3, <1>4, Zenon DEF Next, Transcription, Around

\* The bot implements Intake, for any users and chats, and whatever crosses:
\* nothing that has a name is lost or overwritten, and the Start line is said
\* of a kept recording that nothing is transcribing any more, once.
THEOREM BotKeepsPromises == Spec => Promises
<1>1. BotInv /\ [Next]_vars => [Promised!Next]_<<place, said>>
  BY StepPromised
<1> QED  BY InitPromised, <1>1, BotInvariant, PTL DEF Spec, Promises, Promised!Spec
=============================================================================
