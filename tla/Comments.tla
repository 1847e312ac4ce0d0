------------------------------ MODULE Comments ------------------------------
(***************************************************************************)
(* One comment of comments.db on its way to the Editors, and the copy of   *)
(* what the Telegram runtime did to it into the activity record.           *)
(*                                                                         *)
(* A Reader's comment climbs Reader supervisors one hop at a time, waits   *)
(* in the Admin pool, then reaches the Editors.  Every action runs under   *)
(* the write lock of comments.db, but accounts live in another file: they  *)
(* change at any time, and the caller's own row was read when the session  *)
(* resolved.  Comments do not touch one another, so one is enough.         *)
(*                                                                         *)
(* Accounts are reduced to what the rules read; how they may change is the *)
(* subject of module Accounts.                                             *)
(***************************************************************************)
EXTENDS Naturals, FiniteSets

CONSTANTS
    User,
    NoUser,         \* SQL NULL where a user is named
    NoOne,          \* no request is under way
    Request,        \* requests that can be under way at once
    MaxChanges,     \* bound: changes to accounts
    MaxCrashes      \* bound: crashes of the drain

ASSUME CommentsAssumption ==
    /\ IsFiniteSet(User) /\ NoUser \notin User
    /\ MaxChanges \in Nat /\ MaxCrashes \in Nat

VARIABLES
    person,         \* person[u]: what the rules read of u's account
    comment,        \* the comment and the part of its trail the rules read
    acting,         \* acting[r]: the caller and their row when it was read
    outbox,         \* the row the CLI leaves when it resolves the comment
    draining,       \* the drain has recorded the row and not marked it yet
    recorded,       \* rows of the activity record made from the outbox row
    changes,        \* counts towards MaxChanges
    crashes         \* counts towards MaxCrashes

peopleVars == <<person, changes>>
copyVars == <<outbox, draining, recorded, crashes>>
vars == <<person, comment, acting, outbox, draining, recorded, changes, crashes>>

Kind == {"editor", "admin", "reader"}

\* covers: some scope reaches the comment's department.
Person == [kind : Kind, disabled : BOOLEAN, supervisor : User \cup {NoUser},
           covers : BOOLEAN]

\* passAs: the author's kind at the latest submit; approvedBy: who approved
\* since then; received: whom it was ever assigned to.
Comment == [author : User,
            state : {"awaiting", "approved", "addressed", "rejected", "withdrawn"},
            stage : {"reader", "pool", "none"}, approver : User \cup {NoUser},
            passAs : Kind, approvedBy : SUBSET User, received : SUBSET User]

\* No row yet.
NoComment == [author |-> NoUser, state |-> "unwritten", stage |-> "none",
              approver |-> NoUser, passAs |-> "reader", approvedBy |-> {}, received |-> {}]

Written == comment.state # "unwritten"

Caller == [who : User, kind : Kind]

\* A disabled account has no capabilities, so it reads as a reader.
KindOf(u) == IF person[u].disabled THEN "reader" ELSE person[u].kind

AdminsCovering == {u \in User : KindOf(u) = "admin" /\ person[u].covers}

\* What Accounts guarantees, as far as it holds among some of the people: no
\* loop of supervisors, only somebody who reaches everything has none, and not
\* everybody is disabled.
Sound(p) ==
    /\ \E u \in User : ~p[u].disabled
    /\ \A u \in User : p[u].supervisor = NoUser => p[u].covers
    /\ \A S \in SUBSET User : S # {} => \E u \in S : p[u].supervisor \notin S

-----------------------------------------------------------------------------
(* Routing.                                                                *)

In(c, state, stage, approver) ==
    [c EXCEPT !.state = state, !.stage = stage, !.approver = approver]

\* Nobody to wait for in the pool: straight to the Editors.
Pooled(c) == IF AdminsCovering = {} THEN In(c, "approved", "none", NoUser)
                                    ELSE In(c, "awaiting", "pool", NoUser)

\* The next Reader above u who has not been visited, disabled people being
\* passed over; NoUser when the climb ends in the pool.
NextReader(u, visited) ==
    LET climb[at \in User \X SUBSET User] ==
            LET sup == person[at[1]].supervisor
            IN  IF sup = NoUser \/ sup \in at[2] THEN NoUser
                ELSE IF person[sup].disabled THEN climb[<<sup, at[2] \cup {sup}>>]
                ELSE IF KindOf(sup) = "reader" THEN sup ELSE NoUser
    IN  climb[<<u, visited>>]

\* Mutant: only the author is not asked again.
AdvancedPastTheAuthor(c, u) ==
    LET next == NextReader(u, {c.author})
    IN  IF next = NoUser THEN Pooled(c)
        ELSE [In(c, "awaiting", "reader", next) EXCEPT !.received = @ \cup {next}]

Advanced(c, u) ==
    LET next == NextReader(u, {c.author} \cup c.approvedBy)
    IN  IF next = NoUser THEN Pooled(c)
        ELSE [In(c, "awaiting", "reader", next) EXCEPT !.received = @ \cup {next}]

\* A new pass: the author's kind, read once, is recorded and decides the way.
Submitted(c) ==
    LET pass == [c EXCEPT !.passAs = KindOf(c.author), !.approvedBy = {}]
    IN  IF pass.passAs = "reader" THEN Advanced(pass, c.author)
                                  ELSE In(pass, "approved", "none", NoUser)

\* Mutant: what waits in the pool is left there.
ReconciledReadersOnly(c) ==
    IF c.stage = "pool" THEN c
    ELSE IF person[c.approver].disabled THEN Advanced(c, c.approver) ELSE Pooled(c)

\* A disabled supervisor is passed over; one who is no Reader any more ends
\* the climb.
Reconciled(c) ==
    IF c.stage = "reader" /\ person[c.approver].disabled
    THEN Advanced(c, c.approver) ELSE Pooled(c)

\* What reconcile moves: nobody can decide it where it waits.
Stuck ==
    /\ Written /\ comment.state = "awaiting"
    /\ IF comment.stage = "reader"
       THEN person[comment.approver].disabled \/ KindOf(comment.approver) # "reader"
       ELSE AdminsCovering = {}

-----------------------------------------------------------------------------
(* Who may see it and do what: k is the viewer's kind as the caller's row  *)
(* has it, everything else is read now.                                    *)

\* Mutant: who the author is now decides, not the pass.
WrittenByAnEditor == KindOf(comment.author) = "editor"

WrittenAsEditor == comment.passAs = "editor"

CanSee(u, k) ==
    \/ k = "editor" \/ comment.author = u
    \/ k = "admin" /\ person[u].covers /\ ~WrittenAsEditor
    \/ k = "reader" /\ u \in comment.received

MayDecide(u, k) ==
    /\ comment.state = "awaiting"
    /\ \/ comment.stage = "reader" /\ k = "reader" /\ comment.approver = u
       \/ comment.stage = "pool" /\ k = "admin" /\ person[u].covers

\* Mutant: what others have said meanwhile does not count.
OwnOpen(u) == comment.author = u /\ comment.state \in {"awaiting", "approved"}

\* The author's until someone else acts on it.
OwnUntouched(u) ==
    /\ comment.author = u
    /\ comment.state \in {"awaiting", "approved"}
    /\ comment.approvedBy = {}

-----------------------------------------------------------------------------
(* The requests.                                                           *)

Arrive(r, u) ==
    /\ acting[r] = NoOne
    /\ ~person[u].disabled
    /\ acting' = [acting EXCEPT ![r] = [who |-> u, kind |-> person[u].kind]]
    /\ UNCHANGED <<peopleVars, copyVars, comment>>

Done(r) ==
    /\ acting[r] # NoOne
    /\ acting' = [acting EXCEPT ![r] = NoOne]
    /\ UNCHANGED <<peopleVars, copyVars>>

\* 404, 403, a bad body, or an anchor that no longer stands.
Refuse(r) == Done(r) /\ UNCHANGED comment

Create(r) ==
    /\ Done(r)
    /\ ~Written
    /\ person[acting[r].who].covers
    /\ comment' = Submitted([comment EXCEPT !.author = acting[r].who])

\* _act: visible, and then allowed on the state read under the lock.
Acts(r) == Done(r) /\ Written /\ CanSee(acting[r].who, acting[r].kind)

Approve(r) ==
    /\ Acts(r)
    /\ MayDecide(acting[r].who, acting[r].kind)
    /\ LET c == [comment EXCEPT !.approvedBy = @ \cup {acting[r].who}]
       IN  comment' = IF c.stage = "pool" THEN In(c, "approved", "none", NoUser)
                                          ELSE Advanced(c, acting[r].who)

Reject(r) ==
    /\ Acts(r)
    /\ MayDecide(acting[r].who, acting[r].kind)
    /\ comment' = In(comment, "rejected", "none", NoUser)

Edit(r) ==
    /\ Acts(r)
    /\ OwnUntouched(acting[r].who)
    /\ person[acting[r].who].covers
    /\ comment' = Submitted(comment)

Withdraw(r) ==
    /\ Acts(r)
    /\ OwnUntouched(acting[r].who)
    /\ comment' = In(comment, "withdrawn", "none", NoUser)

Restore(r) ==
    /\ Acts(r)
    /\ comment.author = acting[r].who /\ comment.state = "withdrawn"
    /\ person[acting[r].who].covers
    /\ comment' = Submitted(comment)

Address(r) ==
    /\ Acts(r)
    /\ acting[r].kind = "editor" /\ comment.state = "approved"
    /\ comment' = In(comment, "addressed", "none", NoUser)

-----------------------------------------------------------------------------
(* What happens by itself, and in other containers.                        *)

\* The Telegram runtime: comment, event and outbox row in one transaction.
Resolve ==
    /\ Written /\ comment.state = "approved"
    /\ comment' = [comment EXCEPT !.state = "addressed"]
    /\ outbox' = "waiting"
    /\ UNCHANGED <<peopleVars, acting, draining, recorded, crashes>>

\* Mutant: the replay is not recognised.
RecordAgain ==
    /\ outbox = "waiting" /\ ~draining
    /\ recorded' = recorded + 1
    /\ draining' = TRUE
    /\ UNCHANGED <<peopleVars, comment, acting, outbox, crashes>>

\* One transaction of app.db looks for the outbox id and inserts.
Record ==
    /\ outbox = "waiting" /\ ~draining
    /\ recorded' = IF recorded = 0 THEN 1 ELSE recorded
    /\ draining' = TRUE
    /\ UNCHANGED <<peopleVars, comment, acting, outbox, crashes>>

\* Mutant: the row stays undrained.
ForgetToMark ==
    /\ draining
    /\ draining' = FALSE
    /\ UNCHANGED <<peopleVars, comment, acting, outbox, recorded, crashes>>

\* Another file, so another transaction.
Mark ==
    /\ draining
    /\ outbox' = "drained"
    /\ draining' = FALSE
    /\ UNCHANGED <<peopleVars, comment, acting, recorded, crashes>>

DrainLost ==
    /\ draining
    /\ crashes < MaxCrashes
    /\ crashes' = crashes + 1
    /\ draining' = FALSE
    /\ UNCHANGED <<peopleVars, comment, acting, outbox, recorded>>

\* The second half of the 30-second tick; also tried after each change to an
\* account, whose failure is swallowed.
Reconcile ==
    /\ Stuck
    /\ comment' = Reconciled(comment)
    /\ UNCHANGED <<peopleVars, copyVars, acting>>

\* Either the role, the scopes and the supervisor (one form), or the switch.
AccountChanges(u) ==
    /\ changes < MaxChanges
    /\ changes' = changes + 1
    /\ \/ \E k \in Kind, s \in User \cup {NoUser}, c \in BOOLEAN :
            person' = [person EXCEPT ![u] =
                        [@ EXCEPT !.kind = k, !.supervisor = s, !.covers = c]]
       \/ person' = [person EXCEPT ![u].disabled = ~@]
    /\ person' # person /\ Sound(person')
    /\ UNCHANGED <<comment, acting, copyVars>>

Init ==
    /\ person \in {p \in [User -> [kind : Kind, disabled : {FALSE},
                                   supervisor : User \cup {NoUser}, covers : {TRUE}]] :
                        Sound(p)}
    /\ comment = NoComment
    /\ acting = [r \in Request |-> NoOne]
    /\ outbox = "none"
    /\ draining = FALSE
    /\ recorded = 0
    /\ changes = 0
    /\ crashes = 0

Asked ==
    \E r \in Request :
        \/ \E u \in User : Arrive(r, u)
        \/ Refuse(r) \/ Create(r) \/ Approve(r) \/ Reject(r)
        \/ Edit(r) \/ Withdraw(r) \/ Restore(r) \/ Address(r)

Next ==
    \/ Asked
    \/ Resolve \/ Record \/ Mark \/ DrainLost \/ Reconcile
    \/ \E u \in User : AccountChanges(u)

Spec == Init /\ [][Next]_vars

\* The background loop runs every 30 seconds whatever fails in it.
FairSpec == Spec /\ WF_vars(Record) /\ WF_vars(Mark) /\ WF_vars(Reconcile)

-----------------------------------------------------------------------------
(* Properties.                                                             *)

\* What the comment, the accounts around it and the requests under way hold.
TypeOK ==
    /\ person \in [User -> Person]
    /\ comment \in Comment \cup {NoComment}
    /\ Written => /\ comment.stage = "none" <=> comment.state # "awaiting"
                  /\ comment.approver # NoUser <=> comment.stage = "reader"
    /\ acting \in [Request -> Caller \cup {NoOne}]
    /\ outbox \in {"none", "waiting", "drained"}
    /\ draining \in BOOLEAN
    /\ recorded \in Nat

\* The climb never turns back: a comment never waits with its author or with
\* somebody who has approved it in this pass.
NeverBackToAnApprover ==
    Written /\ comment.stage = "reader" =>
        comment.approver \notin {comment.author} \cup comment.approvedBy

\* Whoever the comment waits for is shown it: the rule for deciding and the
\* rule for seeing are written apart.
WhoeverDecidesCanSee ==
    Written => \A u \in User : MayDecide(u, KindOf(u)) => CanSee(u, KindOf(u))

\* Wherever roles, scopes and supervisors have been moved while the comment
\* climbs, it waits with somebody who is shown it and who has not spoken yet.
RoutingIsRight == TypeOK /\ NeverBackToAnApprover /\ WhoeverDecidesCanSee

\* What a comment promises, wherever it waits: from the state the code keeps.
Life == INSTANCE CommentLife WITH
            stage <- comment.state, approvals <- comment.approvedBy,
            owed <- (outbox # "none"), copies <- recorded

\* The workflow keeps the promise, however the requests cross and from either
\* container: once somebody has approved the text of a pass, no edit, withdrawal
\* or re-send puts another text under the approval or drops it, nothing leaves
\* rejected (D73) or addressed, and only a comment the Editors have is addressed.
KeepsThePromise == Life!Spec

\* A resolve by the Telegram runtime is recorded once (D59): never twice,
\* though the drain may stop between recording and marking, and it is
\* recorded by the time it is marked.
RecordedOnce == recorded <= 1 /\ (outbox = "drained" => recorded = 1)

\* No comment is stranded: one that nobody can decide where it waits is moved
\* (D63.6, D63.7).
NeverStranded == Stuck ~> ~Stuck

\* Every resolve reaches the activity record and leaves the outbox.
ResolveIsRecorded == outbox = "waiting" ~> outbox = "drained"
=============================================================================
