----------------------------- MODULE Projection -----------------------------
(***************************************************************************)
(* The git projection: what the activity record says of changes to the     *)
(* data repository, and of the confirmations those changes break.          *)
(*                                                                         *)
(* Three write at once: the service saves a document and commits it, other *)
(* containers write, stage, commit and rewrite history, and an Editor      *)
(* confirms what is on disk.  A pass of the projection reads all of that   *)
(* at four different moments and writes once.  The service's own commit    *)
(* and a pass exclude each other; nothing excludes the other containers.   *)
(***************************************************************************)
EXTENDS Naturals, Sequences

CONSTANTS
    Target,         \* confirmable documents
    Content,        \* what a document may hold, up to its fingerprint
    Nothing,        \* no row, no request
    MaxCommits,     \* bound: commits in the repository
    MaxEvents       \* bound: resets of HEAD, confirmations, and passes and
                    \* saves that die half way, all taken together

ASSUME ProjectionAssumption ==
    /\ MaxCommits \in Nat \ {0}
    /\ MaxEvents \in Nat
    /\ Nothing \notin Content

VARIABLES
    commits,        \* every commit ever made, HEAD's history or not
    head,           \* HEAD
    work,           \* the working tree
    index,          \* what is staged; all of it goes into the next commit
    save,           \* the save on the event loop, one at a time
    named,          \* named[i]: the sha recorded in ui_commits for our commit i
    told,           \* our commits whose endpoint wrote its edit event
    mark,           \* mark[t]: the row of t in confirmations
    confirming,     \* a confirmation between its read and its write
    marker,         \* projection_state: the last commit projected
    projected,      \* projected[i]: times the rows of commit i were written,
                    \* counted from the last seeding
    pass,           \* the pass under way
    seeded,         \* history: HEAD at the last seeding
    life,           \* history: life[t] of the mark of t: "whole" until its
                    \* target is something else on disk, then "broken";
                    \* once that is announced "announced", until it is whole
    events          \* counts towards MaxEvents

repo == <<commits, head>>
saving == <<save, named, told>>
confirmations == <<mark, confirming>>
projection == <<marker, projected, pass, seeded>>
projectionVars == <<repo, work, index, saving, confirmations, projection, life, events>>

Commit == 1..Len(commits)

Tree(i) == commits[i].tree

\* i is n or was there before n: it is in every set that holds n and with a
\* commit its parent.
Ancestors(n) ==
    {i \in Commit : \A S \in SUBSET Commit :
        (n \in S /\ \A j \in S : commits[j].parent \in S \cup {0}) => i \in S}

UiCommits == {named[i] : i \in Commit} \ {0}

IdleSave == [phase |-> "idle", target |-> Nothing, commit |-> 0]

IdlePass == [phase |-> "idle", head |-> 0, rows |-> {}, seen |-> <<>>, judged |-> <<>>]

\* What becomes of a mark in the life l when its target matches it, or not.
Lives(l, matches) ==
    CASE l = "whole" /\ ~matches -> "broken"
      [] l = "announced" /\ matches -> "whole"
      [] OTHER -> l

TreeBecomes(w) ==
    /\ work' = w
    /\ life' = [t \in Target |-> IF mark[t] = Nothing THEN life[t]
                                 ELSE Lives(life[t], w[t] = mark[t].fingerprint)]

Happens == events < MaxEvents /\ events' = events + 1

\* git commit: the whole index, on top of HEAD, unless that changes nothing.
Commits(by) ==
    /\ index # Tree(head)
    /\ Len(commits) < MaxCommits
    /\ commits' = Append(commits, [parent |-> head, by |-> by, tree |-> index])
    /\ head' = Len(commits) + 1
    /\ named' = Append(named, 0)
    /\ projected' = Append(projected, 0)

-----------------------------------------------------------------------------
(* The other containers: a chat edit, a pipeline run, a person at a shell. *)

OutsideWrites(t, c) ==
    /\ work[t] # c
    /\ TreeBecomes([work EXCEPT ![t] = c])
    /\ UNCHANGED <<repo, index, saving, confirmations, projection, events>>

\* `git add departments runs`: whatever lies there, the service's files too.
OutsideStages ==
    /\ index # work
    /\ index' = work
    /\ UNCHANGED <<repo, work, saving, confirmations, projection, life, events>>

OutsideCommits ==
    /\ Commits("other")
    /\ UNCHANGED <<work, index, save, told, confirmations, marker, pass, seeded,
                   life, events>>

\* git reset --hard: back, or forth again.
OutsideResets(i) ==
    /\ i # head
    /\ Happens
    /\ head' = i
    /\ index' = Tree(i)
    /\ TreeBecomes(Tree(i))
    /\ UNCHANGED <<commits, saving, confirmations, projection>>

-----------------------------------------------------------------------------
(* A save: write, add, commit, record the commit, record the edit.         *)

SaveWrites(t, c) ==
    /\ save.phase = "idle"
    /\ TreeBecomes([work EXCEPT ![t] = c])
    /\ save' = [phase |-> "written", target |-> t, commit |-> 0]
    /\ UNCHANGED <<repo, index, named, told, confirmations, projection, events>>

\* git add, then git diff --cached: nothing staged means nobody decided
\* anything, and no event is written.
SaveStages ==
    /\ save.phase = "written"
    /\ index' = [index EXCEPT ![save.target] = work[save.target]]
    /\ save' = IF index' = Tree(head) THEN IdleSave ELSE [save EXCEPT !.phase = "staged"]
    /\ UNCHANGED <<repo, work, named, told, confirmations, projection, life, events>>

\* Mutant: the lock is held for git alone, and released before the commit is
\* recorded.
NotWhileCommitting == save.phase # "staged"

\* gitcommit.LOCK is free: no commit of ours is waiting to be recorded.
LockFreeForPass == save.phase # "committed"

SaveCommits ==
    /\ save.phase = "staged"
    /\ pass.phase = "idle"
    /\ Commits("app")
    /\ save' = [save EXCEPT !.phase = "committed", !.commit = Len(commits) + 1]
    /\ UNCHANGED <<work, index, told, confirmations, marker, pass, seeded,
                   life, events>>

\* Somebody else committed what was staged: git commit fails, and the save.
SaveFindsItCommitted ==
    /\ save.phase = "staged"
    /\ pass.phase = "idle"
    /\ index = Tree(head)
    /\ save' = IdleSave
    /\ UNCHANGED <<repo, work, index, named, told, confirmations, projection,
                   life, events>>

\* HEAD is read after the commit.  A sha recorded already fails the insert.
SaveNames ==
    /\ save.phase = "committed"
    /\ IF head \in UiCommits
       THEN save' = IdleSave /\ UNCHANGED named
       ELSE /\ named' = [named EXCEPT ![save.commit] = head]
            /\ save' = [save EXCEPT !.phase = "named"]
    /\ UNCHANGED <<repo, work, index, told, confirmations, projection, life, events>>

SaveTells ==
    /\ save.phase = "named"
    /\ told' = told \cup {save.commit}
    /\ save' = IdleSave
    /\ UNCHANGED <<repo, work, index, named, confirmations, projection, life, events>>

SaveDies ==
    /\ save.phase # "idle"
    /\ Happens
    /\ save' = IdleSave
    /\ UNCHANGED <<repo, work, index, named, told, confirmations, projection, life>>

-----------------------------------------------------------------------------
(* Confirmations.                                                          *)

\* The fingerprint the Editor was shown is the one on disk; otherwise 409.
ConfirmReads(t) ==
    /\ confirming = Nothing
    /\ Happens
    /\ confirming' = [target |-> t, fingerprint |-> work[t]]
    /\ UNCHANGED <<repo, work, index, saving, mark, projection, life>>

\* The upsert: a new mark has announced nothing yet.  Its place in the order
\* of confirmations stands for confirmed_at.
ConfirmSets ==
    /\ confirming # Nothing
    /\ LET t == confirming.target
           f == confirming.fingerprint
       IN  /\ mark' = [mark EXCEPT ![t] =
                            [fingerprint |-> f, at |-> events, emitted |-> FALSE]]
           /\ life' = [life EXCEPT ![t] = Lives("whole", work[t] = f)]
    /\ confirming' = Nothing
    /\ UNCHANGED <<repo, work, index, saving, projection, events>>

Revoke(t) ==
    /\ mark[t] # Nothing
    /\ mark' = [mark EXCEPT ![t] = Nothing]
    /\ life' = [life EXCEPT ![t] = "whole"]
    /\ UNCHANGED <<repo, work, index, saving, confirming, projection, events>>

-----------------------------------------------------------------------------
(* A pass of the projection.                                               *)

PassBegins ==
    /\ pass.phase = "idle"
    /\ LockFreeForPass
    /\ marker # head
    /\ pass' = [IdlePass EXCEPT !.phase = "begun", !.head = head]
    /\ UNCHANGED <<repo, work, index, saving, confirmations, marker, projected,
                   seeded, life, events>>

\* Mutant: git log runs up to the live HEAD.
LogToLiveHead(since, upto) == Ancestors(head) \ Ancestors(since)

\* git log since..upto.
Log(since, upto) == Ancestors(upto) \ Ancestors(since)

Recorded(i) == commits[i].by = "app" /\ i \in UiCommits

\* Mutant: a rewritten history is left for somebody to look into.
PassReadsLogOrGivesUp ==
    /\ pass.phase = "begun"
    /\ pass' = IF marker # 0 /\ marker \notin Ancestors(pass.head) THEN IdlePass
               ELSE IF marker = 0 THEN [pass EXCEPT !.phase = "seeding"]
               ELSE [pass EXCEPT !.phase = "projecting",
                        !.rows = {i \in Log(marker, pass.head) : ~Recorded(i)}]
    /\ UNCHANGED <<repo, work, index, saving, confirmations, marker, projected,
                   seeded, life, events>>

\* No marker: seed.  A marker that is not behind HEAD: say so (the event is
\* left out), and seed.  Otherwise the commits since the marker, each
\* recorded unless we made it.
PassReadsLog ==
    /\ pass.phase = "begun"
    /\ IF marker = 0 \/ marker \notin Ancestors(pass.head)
       THEN pass' = [pass EXCEPT !.phase = "seeding"]
       ELSE pass' = [pass EXCEPT !.phase = "projecting",
                        !.rows = {i \in Log(marker, pass.head) : ~Recorded(i)}]
    /\ UNCHANGED <<repo, work, index, saving, confirmations, marker, projected,
                   seeded, life, events>>

Marked == {t \in Target : mark[t] # Nothing}

PassReadsMarks ==
    /\ pass.phase \in {"seeding", "projecting"}
    /\ pass.seen = <<>>
    /\ pass' = [pass EXCEPT !.seen = [t \in Target |->
                    IF t \in Marked THEN <<mark[t].fingerprint, mark[t].at>> ELSE <<>>]]
    /\ UNCHANGED <<repo, work, index, saving, confirmations, marker, projected,
                   seeded, life, events>>

\* Marked targets of which the working tree agrees with the commit h.
Judgeable(h) == {t \in Target : pass.seen[t] # <<>> /\ work[t] = Tree(h)[t]}

PassJudges ==
    /\ pass.seen # <<>>
    /\ pass.judged = <<>>
    /\ pass' = [pass EXCEPT !.judged = [t \in Target |->
                    IF t \in Judgeable(pass.head) THEN Tree(pass.head)[t] ELSE Nothing]]
    /\ UNCHANGED <<repo, work, index, saving, confirmations, marker, projected,
                   seeded, life, events>>

\* Mutant: a mark that was replaced since it was read is judged all the same.
SameTarget(t) == t \in Marked /\ pass.seen[t] # <<>>

\* The mark of t is the one that was read.
Unchanged(t) == t \in Marked /\ pass.seen[t] = <<mark[t].fingerprint, mark[t].at>>

\* emitted_for_sha after the pass: set on a mismatch, cleared on a match.
Staleness(t) ==
    IF pass.judged[t] # Nothing /\ Unchanged(t)
    THEN [mark[t] EXCEPT !.emitted = pass.judged[t] # mark[t].fingerprint]
    ELSE mark[t]

\* The mark of t is newly found broken.
Announced(t) == t \in Marked /\ Staleness(t).emitted /\ ~mark[t].emitted

NewMarker == pass.head

\* One transaction: the rows, the marks, the marker.
PassWrites ==
    /\ pass.judged # <<>>
    /\ IF pass.phase = "seeding"
       THEN /\ projected' = [i \in Commit |-> 0]
            /\ seeded' = NewMarker
       ELSE /\ projected' = [i \in Commit |->
                    IF i \in pass.rows THEN projected[i] + 1 ELSE projected[i]]
            /\ UNCHANGED seeded
    /\ mark' = [t \in Target |-> Staleness(t)]
    /\ life' = [t \in Target |->
                  IF Announced(t) THEN Lives("announced", work[t] = mark[t].fingerprint)
                                  ELSE life[t]]
    /\ marker' = NewMarker
    /\ pass' = IdlePass
    /\ UNCHANGED <<repo, work, index, saving, confirming, events>>

\* git, a lock of sqlite or the process gives up; the next pass is in 30 seconds.
PassDies ==
    /\ pass.phase # "idle"
    /\ Happens
    /\ pass' = IdlePass
    /\ UNCHANGED <<repo, work, index, saving, confirmations, marker, projected,
                   seeded, life>>

-----------------------------------------------------------------------------

ProjectionInit ==
    /\ \E tree \in [Target -> Content] :
        /\ commits = <<[parent |-> 0, by |-> "other", tree |-> tree]>>
        /\ work = tree
        /\ index = tree
    /\ head = 1
    /\ save = IdleSave
    /\ named = <<0>>
    /\ told = {}
    /\ mark = [t \in Target |-> Nothing]
    /\ confirming = Nothing
    /\ marker = 0
    /\ projected = <<0>>
    /\ pass = IdlePass
    /\ seeded = 0
    /\ life = [t \in Target |-> "whole"]
    /\ events = 0

Outside ==
    \/ \E t \in Target, c \in Content : OutsideWrites(t, c)
    \/ OutsideStages
    \/ OutsideCommits
    \/ \E i \in Commit : OutsideResets(i)

Saving ==
    \/ \E t \in Target, c \in Content : SaveWrites(t, c)
    \/ SaveStages \/ SaveCommits \/ SaveFindsItCommitted \/ SaveNames \/ SaveTells
    \/ SaveDies

Confirming == \E t \in Target : ConfirmReads(t) \/ Revoke(t)

Pass == PassBegins \/ PassReadsLog \/ PassReadsMarks \/ PassJudges \/ PassWrites

ProjectionNext == Outside \/ Saving \/ Confirming \/ ConfirmSets \/ Pass \/ PassDies

ProjectionSpec == ProjectionInit /\ [][ProjectionNext]_projectionVars

\* A pass that began ends, another begins 30 seconds later, and a save that
\* holds the lock gives it back.
ProjectionFairSpec == ProjectionSpec /\ WF_projectionVars(Pass) /\ WF_projectionVars(SaveNames)

-----------------------------------------------------------------------------
(* Properties.                                                             *)

\* What the repository, the tables and those at work hold.
ProjectionTypeOK ==
    /\ commits \in Seq([parent : Nat, by : {"app", "other"}, tree : [Target -> Content]])
    /\ head \in Commit
    /\ work \in [Target -> Content] /\ index \in [Target -> Content]
    /\ save \in [phase : {"idle", "written", "staged", "committed", "named"},
                 target : Target \cup {Nothing}, commit : Commit \cup {0}]
    /\ named \in [Commit -> Commit \cup {0}]
    /\ told \subseteq Commit
    /\ mark \in [Target -> [fingerprint : Content, at : Nat, emitted : BOOLEAN] \cup {Nothing}]
    /\ marker \in Commit \cup {0} /\ seeded \in Commit \cup {0}
    /\ projected \in [Commit -> Nat]
    /\ life \in [Target -> {"whole", "broken", "announced"}]

\* Whatever other containers commit while a pass runs, a commit is projected
\* once between two seedings.
ProjectedOnce == \A i \in Commit : projected[i] <= 1

\* Nor is any passed over: what lies between the seeding and the marker was
\* projected, or is a commit of ours whose endpoint speaks for it.
NothingPassedOver ==
    \A i \in Commit :
        marker # 0 /\ i \in Log(seeded, marker) => projected[i] = 1 \/ Recorded(i)

\* An edit made in the service is not told a second time as a stranger's,
\* unless HEAD had moved on when our commit was recorded (the window that
\* gitcommit.commit admits).
NotToldTwice == \A i \in told : projected[i] > 0 => named[i] # i

\* The record of changes is append-only, so a row too many or too few stays:
\* each commit is told of exactly once, by the projection or, if it is ours, by
\* the endpoint that made it.
ExactlyOnce == ProjectionTypeOK /\ ProjectedOnce /\ NothingPassedOver /\ NotToldTwice

\* confirmation.invalidated says of an Editor's mark that what they vouched
\* for is no longer there.  It is written only of a mark that was broken since
\* it was set and since it was last found broken: not for content that was
\* confirmed before it was committed, not for a mark renewed while a pass was
\* running, and not again for a break that was announced.
OncePerBreak == [][\A t \in Target : PassWrites /\ Announced(t) => life[t] = "broken"]_projectionVars

\* However commits, saves, rewrites and failing passes interleave, the
\* projection arrives at HEAD.
CatchesUp == []<>(marker = head)
=============================================================================
