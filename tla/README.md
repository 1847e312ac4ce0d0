# A verification project for the InjaProcess repository

TLA+ models of the system that keeps the process documentation of a company: who may do
what to whom, how people sign in, how a comment reaches the Editors, how process files,
facts and reports are written by a service and a pipeline that no lock keeps apart, and how
recordings come in. TLC checks the models on small instances; TLAPS proves the main results
for every value of the constants.

All paths below are relative to `src/`. `ub/` stands for
`ui-backend/inja_ui_backend/`.

## 1. The system

Three programs share one data directory.

* **ui-backend** (`ub/`), a FastAPI service with one worker. Plain `def`
  handlers run side by side on a thread pool, `async` ones on the event loop
  (atomic between two `await`s), and the handlers that use argon2 hand it to
  another thread, two at a time. It owns `app.db` (accounts, sessions,
  confirmations, the activity record) and `comments.db`. A background thread
  runs every 30 seconds: comment tick, git projection, backup check.
* **the Telegram runtime** (`control-bot/`, a patched agent), in another
  container: it runs the tools of `engine/` on the same data repository (the *pipeline*
  below) and resolves comments directly in `comments.db`. Nothing locks the two programs
  out of each other but sqlite's own write locks and git's.
* **upload-bot** (`upload-bot/`), one asyncio process: conversations in which recordings and
  files are sent, and a queue of transcriptions, each a run of `engine/transcribe`.

### Inventory

| component | state it keeps | operations | what is hard | what makes it correct |
|---|---|---|---|---|
| roles and scopes (`ub/scopes.py`, `ub/seed.py`, `ub/access.py`) | role table, never written after the seed | containment, gates | three nested shapes | containment is a partial order; a gate answers the same for "absent" and "not yours" |
| accounts and delegation (`ub/routers/users.py`, `ub/delegation.py`) | `users`, `user_scopes` | create, modify, disable, seed | gate and write are two moments; several administrators | somebody can always undo; no loop of supervisors; nobody acts beyond their reach |
| sign-in and sessions (`ub/auth.py`, `ub/routers/auth.py`, `ub/store/sessions.py`) | password hashes, `sessions` | sign in and out, change, reset, disable | argon2 between read and write; two writes with no transaction | a changed password ends the sessions it should |
| sign-in throttle (`ub/auth.py`, `ub/store/audit.py`) | failures in the record | count, refuse | the count does not see attempts under way | bounded excess, never a permanent lock-out |
| comments (`ub/comment_rules.py`, `ub/routers/comments.py`, `engine/comments/`) | `comments`, `comment_events` | write, approve, reject, edit, withdraw, restore, address, resolve, reconcile | the org chart moves under the climb; two containers | never stranded, never turning back, approvals stand |
| outbox and drain (`ub/comment_jobs.py`) | `outbox`, rows of the record | append, record, mark | two database files, a crash in between | recorded exactly once |
| process store, order, ids (`ub/routers/processes.py`, `ub/save.py`, `ub/storage.py`, `engine/merge`, `engine/order`, `engine/allocate_id`) | process files, `order.json`, id ledger | create, save, delete, resolve, restructure, order | service and pipeline with no common lock; several files per operation | ids are never reused; links agree at both ends; the order lists the active processes |
| confirmations and disclosure (`ub/routers/confirmations.py`, `ub/fingerprint.py`, `ub/disclosure.py`, `ub/visibility.py`) | `confirmations`, switches | confirm, revoke, serve, redact, restore | content moves under the mark; an editor saves a copy with links missing | a reader sees only what somebody vouched for; a save erases no link its editor was not shown |
| git projection (`ub/gitcommit.py`, `ub/projection.py`) | marker, `ui_commits`, stale marks | commit, project, announce | HEAD moves from outside; crash in a pass | every commit projected once, to whom it belongs; each staleness announced once |
| facts store (`ub/facts_store.py`, `ub/routers/facts.py`, `engine/merge_facts`, `engine/allocate_id`) | four aggregate files, ledger, run directories | apply, resolve, retire, promote, edit, revert | a verb is many steps; two programs; a gate that holds parts back | an id and a key stand for one live entry; decisions and readings survive |
| facts planning (`engine/facts_plan`, `engine/extract_attachment`) | cached texts, `plan.json`, attempts, review, delta | convert, plan, poll, answer, fold, review, apply | budgets; agents that die; answers that cross each other | everything is planned once or set aside by name; nothing chosen is lost unsaid |
| activity record (`ub/store/activity.py`, `ub/store/audit.py`) | `audit_events`, intervals | append, report | order of intervals | append-only; reports agree with it |
| backups, migrations (`ub/backups.py`, `ub/db.py`) | copies, schema version | copy, prune, migrate | crash half way | a finished set is complete |
| reports, exports (`ub/routers/reports.py`, `ub/exports.py`, `ub/pdf.py`) | export folders | build, print, download, sweep | a key derived twice; builds that overlap | what is handed out is what would be built now; the PDF is of the page beside it |
| transcription (`engine/transcribe`) | none | one call | chunks, overlap, tail; refusals, silence | all of the recording or nothing |
| upload-bot (`upload-bot/upload_bot/`) | staged files, batches, queue | conversations, naming, transcription | state per user and per chat; failures between moves; restarts | what is kept stays under its own name; each recording's processing is started once |
| layout, workbook dump (`engine/`) | none | convert | formats | content only |
| git-push, web client, schemas | none | — | — | not modelled: input and output |

## 2. What is modelled

| module | models | main correspondence |
|---|---|---|
| `Roles` | `ub/scopes.py`, the table of `ub/seed.py` | a scope is a record with `Wild` at the open level; `Contains` is `contains` |
| `Accounts` | `ub/routers/users.py`, `ub/delegation.py`, `ub/seed.py`, `ub/store/users.py` | `account` is the two tables; `Gate(r, u)` is the session gate with `requires("manage_users", "*")`; every other action is one `BEGIN IMMEDIATE` transaction of request `r` |
| `Sessions` | `ub/auth.py`, `ub/routers/auth.py`, `ub/store/sessions.py` | EXTENDS `Accounts` and extends its actions; a password is a version number |
| `Throttle` | `login_retry_after`, `recent_failures` and their use in `login` | `failures[n]` are the rows inside the sliding window, `trying` the attempts it cannot see |
| `CommentLife` | what a comment promises its readers | abstract: no routing, no programs, no crash; `Comments` is shown to implement it |
| `Comments` | `ub/comment_rules.py`, `ub/routers/comments.py`, `ub/comment_jobs.py`, `engine/comments/cli.py` | one comment, its trail reduced to what the rules read, one outbox row |
| `Projection` | `ub/gitcommit.py`, `ub/projection.py`, `ub/routers/confirmations.py` | `commits`, `head`, `work`, `index` are the data repository; a save and a pass are requests with phases, one phase per moment at which the code reads or writes shared state |
| `Order` | `engine/order`, the hints of `engine/merge` | pure operators on sequences of ids |
| `ProcessStore` | `ub/routers/processes.py`, `ub/save.py`, `ub/engine.py`, `ub/storage.py`, `engine/merge`, `engine/allocate_id` | `doc` are the files of one department, `job[a]` the verb of program `a` (service, pipeline) between two of its reads and writes |
| `Disclosure` | `ub/disclosure.py`, `ub/visibility.py`, `ub/fingerprint.py` | pure: what a caller is sent, what a save puts back |
| `Serving` | the handlers of `ub/routers/processes.py`, `confirmations.py` that use it | one document; an editor's copy, a confirmation and a reader's request in the moments at which each reads |
| `FactsServing` | `ub/routers/facts.py`, the reads of `ub/facts_store.py`, the facts half of `disclosure.py`, `visibility.py`, `fingerprint.py`, `confirmations.py` | one request of the panel in the moments at which it reads the store, the index, the marks and the process document |
| `Reports` | `ub/routers/reports.py`, `ub/exports.py`, `ub/pdf.py` | a page is its payload, a key the digest of a payload; `store` maps a key to the files in its folder |
| `Listing` | `sorted()` and comprehensions over lists | pure, written so that proofs can open it; `ProcessStore`, `FactsStore` and `FactsPlan` use it |
| `FactLadder` | `engine/merge_facts/content.py`, `ub/facts_store.py` | pure: the write ladder of one entry with one scalar leaf |
| `FactsStore` | `engine/merge_facts` (`apply.py`, `cli.py`, `revert.py`, `preconditions.py`), `ub/routers/facts.py` | a verb is a job with phases: read, snapshot, write, record |
| `FactsPlan` | `engine/facts_plan/build.py` | pure: an estate to a plan |
| `FactsFold` | `engine/facts_plan/assemble.py`, `audit.py` | pure: documents, review and plan to a delta |
| `FactsRun` | `engine/facts_plan/cli.py`, `engine/extract_attachment` | the files of a run, the coordinator that polls and the agents that answer |
| `Transcribe` | `engine/transcribe` | one call: chunks, requests, retries, result |
| `Intake` | what the bot promises of a file it was sent | abstract; `Uploads` is shown to implement it |
| `Uploads` | `upload-bot/upload_bot/` | conversations per user and chat, batches per user, the staging folder, the queue; contains `Transcribe` |
| `MC*` | — | estates, deltas, constraints and symmetries of the instances |
| `Induction` | — | induction over the numbers and over finite sets, about a set instead of an operator; facts about `Listing` |
| `AccountsProofs` | — | theorems about `Accounts`, `Sessions` and `Throttle` |
| `ReadersProofs` | — | about `Comments` and `Reports` |
| `ProcessStoreProofs` | — | about `ProcessStore` and `Projection` |
| `DisclosureProofs` | — | about `Disclosure`, `Serving` and `FactsServing` |
| `UploadsProofs` | — | about `Transcribe` and `Uploads` |
| `FactsStoreProofs`, `FactsRunProofs` | — | about the module they are named for |

What composes what: `Sessions` is `Accounts` with sessions; `Comments` takes from `Accounts` only
what that guarantees; `ProcessStore` uses `Order`; `Serving` uses `Disclosure` and `FactsServing` puts the panel beside it; `FactsStore` uses
`FactLadder`; `FactsRun` is `FactsPlan` and `FactsFold` in time; `Uploads` runs calls of
`Transcribe`. `Projection` and `Reports` see documents as versions.

**Accounts.** Each request has two moments because the code has: the row the
gate read is stale when the write begins, and `_actor` reads it again inside the
transaction. Everything between `BEGIN IMMEDIATE` and `COMMIT` is one action.
Refusals (`Refused`) change nothing, as the rollback ensures. A field that a
form leaves out keeps its value, so `Modify` picks every column from its set;
the condition under which the supervisor is judged again is the code's.
The loop of `supervisor_error` is
stated by what it answers, without counting its steps. `Seed` is one
step: two seeds run by hand at the same moment on an empty table could both
insert, which the model leaves out. Role and scope texts that do not parse are
refused before they are stored and have no value here.

**Sessions.** `LoginVerified` and `LoginIssued` are the two sides of argon2;
`ChangeAsked`, `ChangeSwept` and `ChangeSet` the row read, the revocation and the
write of a self-service change, which run in that order with no transaction.
`ResetPassword` and `Disable` are one transaction each. Expired and revoked
rows are the same as no row: neither ever resolves again. `raced` is history, read
by no action: it marks a sign-in that was overtaken by a change, a reset or a
disabling, the window `apply_password_change` documents for itself.

**Throttle.** One window per number. `TurnedAway` changes nothing here: it is
recorded under an action the count does not read.

**Comments.** Comments do not touch one another and every handler holds the write
lock of `comments.db`, so one comment is enough. The accounts it reads are
another file: `AccountChanges` may happen at any moment, within what `Accounts`
guarantees of them (`Sound`). The caller's role is read when the request arrives and
scopes when they are used, as `kind_of` and `scopes_of` do. The climb is one
step of the model although it reads `app.db` several times. A handler also asks
`can_see` before it takes the lock; the model asks it once, under the lock, where
what the author or an approver may do implies it.

**Projection.** A pass reads HEAD, then the log up to it, then the marks, then the
working tree, and writes in one transaction; a save writes, stages, commits, records the
commit in `ui_commits` and then its edit event. `gitcommit.LOCK` is held from the
commit to its record and through a whole pass (`LockFreeForPass`, and `pass` idle in
`SaveCommits`). Saves do not overlap: their handlers are `async` and never yield between
write and event. The other containers are outside `src/`: they may write a document,
stage the whole directory, commit what is staged and move HEAD at any moment. A commit takes the whole index, as git
does, so either side may take what the other staged. What a document holds is its
fingerprint; a deleted document is one more content. `emitted_for_sha` is kept as
whether it is NULL, the one thing the code asks of it. `confirmed_at` is the place
of the confirmation in their order, so two confirmations of one target in the same
second, which the code cannot tell apart, do not happen. `seeded` and `life` are history that no action
reads. Left out: merge commits, a repository without commits, and whom an event
names (the subject's kind, `ui_commits`, the fallback).

**ProcessStore.** One department. Every verb of either program reads, mints, writes file by
file and at the end syncs `order.json`; each of these is an action, and the other program may run
between any two. The service runs one handler at a time (its handlers are `async` and do not yield).
A document is its links, its retirement and one pending proposal. A `new` may bring
a sub-process, which has its own mint. The ledger is emptied and then written, and one that is not whole reads
as zero, so a stop between leaves the highest number on disk to count from; `torn` counts those stops. A restructure
writes the heir, its neighbours in the order it loaded them, and what it buries last. A job may stop at any moment
(`MaxDeaths`). `disturbed`, `raced` and `torn` are history: they mark that a verb wrote
over a change it had not read, that two mints overlapped, or a torn ledger, each the exception of a property.

**Disclosure and Serving.** A link is the department it leads to, because whether it is
told is decided from the id alone. A load, a save, a confirmation and a reader's
request each read the document, the mark, the scope and the policy at moments of their own. Two
switches stand for six: one of a process, one of a step.

**FactsServing.** The panel beside that document. Every request is split where the code reads again: an entry loaded by the
index; the caller's stance, the switches and the mark; the whole store and all marks, by which neighbours are judged;
the store, the index and the process document once more, for the maps; and the process document and its mark again as
each of its rows is masked. A listing reads index, entries and marks in that order, and a cited file is found through an entry that is
served. A save writes the files first and the index last, and may stop between. A tick echoes a fingerprint the
panel handed out. `handed` and `moved` are history; `moved` names the one exception of the property: a row
of an entry rewritten during the request, or behind in the index, is judged on one version and says another. The masked rows
(an id and nothing else) are not told, so they are not in an answer. Some maps go with an entry that nobody judges:
where the tables it binds sit (`binding_labels`) and what the units are called (`unit_titles`). They are `Labels`, beside the rows, and
the property says how far they may go: to the tables the entry binds and to the units, and to nothing of them but that. Two
more of the kind are left out, because they are of no other entry: the workbooks' titles, which are the manifest's,
and the entry's own original text. The bundle a resolve answers with is the same as the
entry's.

**Reports.** A build derives its key, reads the payload, derives the key of the payload again and
writes page and PDF under it; a render may fail or the service restart in between. Deriving a key is four reads, of the documents,
the marks, the overview and the policy, and the world may move between any two of them (`Standing`); so a name can mix moments.
The look into the cache and the download derive theirs in one. Documents,
marks, order and policy move at any moment, `MaxMoves` times in all.

**FactsStore.** Every verb reads the whole store, snapshots it, writes it back and leaves its
record, in that order; `apply` runs its gate and mints ids in between. A reading is matched by the tabs it sits on and otherwise
by its key, and before that the gate gives it a key (`Keyed`): the derived one, or that of whoever holds its tab. `revert` does not: it
matches the delta as the file has it against the snapshot (`Matched`), so what a delta matched then may not be what
is found now; `renamed` is the history of the entries concerned. A reading supersedes by a later date or by declaring it. The service's lock
keeps its own requests apart only. A verb may stop between any two steps, which may also tear the
ledger. An entry has one scalar leaf: lists, prose and unions go through the same dispatch.

**FactsRun.** An estate (in `MCFactsRun`) fixes the owner's files and what may happen to them. Files
are converted, text and digest one after the other, and a file may be saved between the read for its digest and the read for its
text (`ConvertCrossed`); the plan is made of what is on disk; a poll
judges documents, asks again or gives up, and when the forms are decided it tells each transcript not yet told what they record: a
beginning of it, cut by whole entries at a budget (`RecordedSlice`), and possibly to some transcripts only, when telling fails between two; an agent answers or dies, perhaps half way through a
document; the fold works off merges, references, severed links and refusals in rounds; the review is
folded in under a digest. A digest made again leaves the review where it is, and the review then passes as one of the new
assembly. An attempt is laid over the
accepted part of the one before it.

**Uploads.** A conversation's state is per user and chat, what is being collected per user: both are
in the model as they are in the code. Each message sent, file moved and process spawned may fail
(`MaxFaults`), the bot may restart (`MaxRestarts`, with the option of a fresh clone of the
repository, `cloned`), and the transcribe command may hang.

## 3. What is checked

| run | instance | shows |
|---|---|---|
| `accounts_interleaved` | 3 people, 2 requests, Editor and Reader, `*` and one department | `StarEditorSurvives`, `ChainsEndAtStar`, `ActsWithinReach`: every interleaving of two administrators, from the gate of one to the write of the other |
| `sessions` | 2 people, 2 sessions, 1 sign-in, 2 changes | `SessionsAreCurrent`: who may keep a session after a change, a reset or a disabling |
| `throttle` | 2 numbers, 3 attempts, ceiling 3 | `Ceiling`, and `LetBackIn` under fairness |
| `comments` | 3 people, 1 request, 2 changes to accounts, 1 crash of the drain | `RoutingIsRight`, `RecordedOnce`; `KeepsThePromise` (implements `CommentLife`); `NeverStranded`, `ResolveIsRecorded` under fairness |
| `projection` | 1 target, 2 contents, 3 commits, 2 events (rewrite, failure, confirmation) | `ExactlyOnce`: each commit is told once or is ours; `OncePerBreak`: a mark is announced broken once for each break; `CatchesUp` under fairness |
| `store` | 2 processes and two to come, 2 verbs, 1 stop, also in the middle of writing the ledger | `IdsGivenOnce`, `DepartmentIsSound`, `HeirsBeforeBurial`, `CurationKept` |
| `facts` | 4 keys, 1 tab, 2 values, 3 numbers, 3 runs of seven deltas, 1 revert, 1 stop | `OneOfEach`, `SettledStands`, `ReadingsKept`, `RevertTakesOnlyItsOwn`, `LinksResolve` |
| `serving` | 2 departments, 2 steps, 4 requests or moves begun; a table, a rule and the units, 2 people of 4 grants, 3 requests or moves at the panel | `AnswersAreFit` to a reader, `UnseenLinksSurvive` an editor, `PanelTellsOnlyTheFit` of the facts |
| `reports` | 2 processes, 2 builds at once, 2 versions, 2 moves | `ServedIsCurrent`, `PdfMatchesPage` |
| `facts_run` | four estates, budgets of 4 and 5 | `PlanIsWhole`, `ShownAsItIs`, `AttemptsAreFair`, `FormsBeforeTalk`, `NothingIsLostUnsaid`, `LinksLand`, `DroppedByReviewIsGone`; `EveryUnitSettles` under fairness |
| `facts_twin` | the estate with twins | **violation** of `NoDanglingRef` |
| `uploads` | 1 user in 2 chats, 2 recordings, 3 messages, 1 fault, 1 restart | `Promises` (implements `Intake`), `NothingDropped`, `TranscriptIsItsOwn`; `LastWordComes` under fairness |

Every property of a passing run is listed in PROJECT.json with a mutated form of
one definition that breaks it; the mutants stand beside the originals in the
modules and no specification uses them.

Where the code does not prevent something, a property says so by an exception that names it
(`raced`, `disturbed`, `torn`, `overtaken`, `cloned`, `strayed`, `renamed`, `Displaced`, and the counted mishaps of a facts run: `torn`,
`crossed`, `faults`, `losses`), as narrow as the model
can tell it. The properties then hold of everything else.

### Bounds, and why they are enough

* Three people are an actor, a target and somebody above both, the least in
  which one administrator overtakes another and a loop of three can close. Two
  requests are the least that interleave. Roles and scopes that are not comparable are not run:
  `NobodyReachesUp` is proved for every role table and every scope list.
* `sessions` keeps to Editors over everything and to an empty org chart
  (`FlatOrgChart`): nothing in `Sessions` reads either, and what they do is the
  subject of the run above. `MaxVersion = 3` gives each password two changes, enough
  for a reset inside a change and for two changes that cross.
* `Throttle` needs no bound: the ceiling itself keeps the window finite.
* `comments`: `MaxChanges = 2`, because turning back needs two edges of the org
  chart to move (one change cannot close a circle through an approver). At
  first everybody is above one person at most and the head of the chain is an Editor or an Admin
  (`ChainFirst`); whoever is between them has any role, so that a comment can come back to somebody it
  has passed. Three people are an author and two hops. The drain after a crash is the
  drain, so one crash is enough.
* `projection`: three commits are a seed, one commit to project and one that overtakes it;
  a rewrite needs two. One target is enough: nothing in a pass relates two targets, and
  HEAD moves past a marked target that is being written while its working copy differs. Two
  events (rewrites, confirmations, failures) are a mark and its renewal, or a failure and a rewrite, in every
  phase of a save and of a pass.
* `store`: two processes are a parent and a child, or an heir and what it supersedes; two
  verbs are the least that overlap, and three meet only through what two leave on disk. Two more
  numbers are a process with its sub-process, or the ones both programs may mint.
* `facts`: three entries are a chain of references, and a fourth key is the one a table's tab may come under; three runs are one to fill, one to dispute and one
  that is reverted with a later run after it. The deltas (`MCFacts`) are a value that declares
  what it supersedes, one under another key on the same tab, a later one,
  a sheet that quotes two, one
  that quotes a value, gives none and whose key the gate derives anew, a reference, and a chain whose head the gate refuses.
* `serving`: a link told and a link not told need two departments; two steps, one of which
  is removed. Four are a load, the write or the move that crosses it, a save or a confirmation, and a read.
  At the panel three are a rewrite and a tick and then a request, or a request with
  two moves inside it. A table, a rule that lives in it, uses it and cites the file, and the units of the house, which are never vouched for, are every way in which one
  entry is named from another. The panel starts on an editor and a head of the department; a process document that is
  being listed, confirmed or rewritten beside it counts against the three (`PanelFirst`).
* `reports`: two builds are the least that overlap; two moves put a third content between them.
* `facts_run`: an estate is small and hard on purpose. `Planning` has a table over budget, a group of
  workbooks that share one, twins by name, a book of reference, two photos of one name and a
  transcript that is cut and halved, and a file saved between the two reads of its conversion; `Lives` has agents that die in up to two attempts, a poll that
  cannot render, two transcripts of which the first may be told and the second not, forms that record more than the budget
  tells, and a plan made again; `Crossing` every pair of decisions of three candidates of two
  workbooks; `Reviewed1` two units that write one entry, one that points at it, and a
  review that keeps, drops, merges, splits and settles, with an entry of the store that may be gone before the digest is made again.
* `uploads`: two chats of one user are what can meet in a batch. One recording ends within a
  chunk and is shorter than the tail; the other takes two chunks and a tail although its header gives the
  length of one. Two starts and three messages let a second recording come while the first is queued.

Deadlock is not checked where the instance really comes to rest: verbs, requests, runs and
messages are bounded in number (`store`, `facts`, `serving`, `reports`, `facts_run`, `uploads`).

### Fairness

* `Throttle`: each failure leaves the window in the end. Time passes, whatever the
  service does. Nothing is assumed of those who sign in.
* `Comments`: `Record`, `Mark` and `Reconcile` are weakly fair. They are
  the tick, which a thread of the service runs every 30 seconds; its drain and its
  reconcile are guarded apart, and a failure of either is logged and retried.
  Nothing is assumed of people, of other containers, or of the reconcile after a
  change to an account, whose failure `_reconcile_comments` swallows.
* `Projection`: the steps of a pass are weakly fair (the same thread, and each activity
  report), and so is `SaveNames`, which holds the lock while it reads HEAD and
  inserts. Nothing is assumed of saves before their commit or of other containers, whose commits are
  bounded.
* `FactsRun`: as long as a unit is open the coordinator sends an agent, and an agent that is sent
  answers or dies (`Sends`, `Returns`). Both are stated by what they do to `asked`. Nobody owes an edit, a
  rebuild or a review.
* `Uploads`: what the event loop owes once a message has come or the queue has one
  (`VFileKeep`, `VFileTell`, `CliStarts`, `LastWord`), and the timeout (`Watchdog`). The
  command itself owes nothing: it may hang, and then the watchdog ends it.

### What the violation means

`facts_twin`. Two units write the same entry; `_cross_unit` keeps one and drops the others, and
what refers to a dropped one by its T- id is left pointing at nothing in the delta
(`engine/facts_plan/assemble.py:2511`). A test of the assembly says "No delta may carry a ref that resolves
to nothing" (`engine/tests/test_facts_plan_assemble.py:1057`). The apply that follows severs such a
reference, or refuses a note that has no other: the link is lost, not stored.

### Divergences met and modelled, without a run of their own

Three are against a sentence the repository states flatly:

* A process id can be used again. `next_process_id` empties `.id-seq.json` before it writes it
  (`engine/allocate_id/__init__.py:77`) and a file that does not parse counts as zero (`:40-46`); after a stop there, with the process of the
  highest number deleted, the next mint gives that number again, and no two mints need overlap. `PRD.md:286` has "An id, once used, is **never
  reused** — not even after the process it belonged to is permanently deleted". `IdsGivenOnce` allows one more use for each such stop.
* `revert` may undo a later run's change it does not see. The gate gives an entry of a delta another key before it is matched
  (`engine/merge_facts/preconditions.py:591-613`, `apply.py:364-376`); `facts-delta.json` keeps the key it came with, and `_touched` matches
  by that one (`revert.py:97-103`). `revert.py:11-15` says an entry "is resolved to a store id exactly the way `apply`'s own `_plan` resolved
  it the first time". `RevertTakesOnlyItsOwn` makes an exception of such entries (`renamed`).
* A stale review may be folded. `digest` stamps the new assembly and leaves `review/out.json` as it is
  (`engine/facts_plan/assemble.py:2740`), which does not say which digest it answers; the check compares the assembly with the stamp alone, so it
  stops a review only until the digest is made again. `assemble.py:1397-1399` says a stale digest "is the one thing that stops the run". That the
  review is written again by then rests on the reviewer.

Each is in the model as the code does it, and a property makes an exception of it or is silent.

*Service.* A sign-in that was verified and then overtaken by a reset still gets its session, although `_set_password`
promises to end "every session" (`ub/routers/users.py:811`). `Retry-After` names the oldest failure, but more
failures than the ceiling can stand in the window (`ub/auth.py:209`). A pass that fails in `_seed`
writes its discontinuity again each time (`ub/projection.py:417`). Another container's `git add` may take a
document a save has written and not committed, and the edit is told as the other's; a process that stops between
recording its commit and its event leaves an edit nobody tells. An author who becomes an Admin may
approve their own comment from the pool. A scope widened between an editor's load and save lets the save erase
a link its editor was not shown (`ub/disclosure.py:283`). A mark survives a tombstone and counts again after a
restore (`ub/routers/confirmations.py:252`). A report may be stored under the key of other content
(`ub/routers/reports.py:402`); two builds of one key may leave the PDF of one beside the page of the
other (`ub/exports.py:312`), and a render that fails removes the PDF of the other build (`ub/routers/reports.py:113`).

*Process store.* Besides the id used again: two mints that overlap give one id twice. A restructure leaves the children of what it retires
hanging under it (`engine/merge/__init__.py:323`, against `ARD.md:510`). The guard of attach does not see a process attached to
itself. A process need not be retired to be deleted, deletion sweeps no `superseded_by`, and a save of an old copy
brings a retired process back.

*Facts store.* Besides the revert: the ledger is written in place, and one that is torn is read as none, so numbers begin
again (`engine/allocate_id/__init__.py`). A reading for a tab that live entries of two keys hold may open a second era of a key (`loose`). A stop after the store is saved and before `id-map.json`
leaves a run that revert does not know. A run's snapshot is taken when it writes, not when
it matched, so it is not always "what `_plan` actually matched against" (`engine/merge_facts/revert.py:14`), and a revert by it
may take what another run did (`strayed`). A run's place in time is its directory's name (`engine/merge_facts/revert.py:137`). A
resolve by the service may save over a run of the pipeline (`ub/routers/facts.py:1044`). A settled account may be
disputed by itself read again (`engine/merge_facts/ladder.py:210`). A resolve replaces a value that no account of
the dispute holds, and nothing keeps it (`Displaced`).

*Facts run.* Besides the finding and the stale review: what the losing twin was bound to is lost with it; a review that drops
a merged twin drops only the keeper's part; `_hold_back` counts `home`, which the docstring of `_place`
leaves out; attempts refused under an old plan are charged to a unit that was planned again; a keep on one part of
a split erases the other part; a candidate absorbed into a target that is held back is named nowhere; of two units
that decide one candidate the later id wins; an entry that cites a candidate merged away waits for ever; two files may share one
cached text, and a stop between the text and its digest, or a save between the two reads of a conversion, leaves a pair that does not belong
together. A fault between two transcripts leaves the later ones asked and untold (`engine/facts_plan/cli.py:247`).

*Upload bot.* After a move that failed, `/done` fails again each time, although the message says to try again
(`upload-bot/upload_bot/handlers.py:170`). A second chat of the same user takes over what the first is collecting. A
fresh clone has transcripts and no recordings, so a new recording may get an old one's name and
transcript. A restart forgets the queue and the last words it owed.

## 4. What is proved

All for every value of the constants, from the assumptions the modules name:

* `NoUser`, `NoAccount`, `NoDoc`, `None` and the like are none of what they stand beside; bounds are numbers; the ceiling is
  at least one; a chunk lasts a second or more and is tried once or more; `Wild` is neither a department nor a report; scope
  lists are sets of scopes.
* There are finitely many people (`Comments`), and one role of the table confers the three Editor
  capabilities, the one the seed mints (`OneEditorRole`).
* A delta that is applied has one reading for each key and each tab (`fold_twins` has made one of two); a note has no tab and, as its schema
  says, is about something (`FactsStore.StoreAssumption`). Budgets and the lengths of printed entries are numbers.
* An estate is one (`IsEstate`): finitely many files, what each holds at first, finitely many candidates, and the answers and the review that may come have the fields
  their schemas require, a keep or a split its keys among them. Every candidate sits on a tab of a workbook the plan groups or on a script
  one of them names, because one predicate says which workbooks mint candidates and which are grouped (`plans_here`,
  `engine/facts_plan/build.py:373`), and 0, the model's "no workbook", is no workbook's name or key.

`Spec => []P` by an invariant is always the same three steps: `Init`, every action of `Next`, and that it implies `P`. What follows
names the invariant and what carries it.

**Accounts, sessions, throttle** (`AccountsProofs`).

* `StarEditorAlways`. The invariant alone is not inductive: who acts must have a
  row, supervisors must exist, the numbers must be unique for `TypeOK` to carry
  through. `IInv` is the conjunction of those named parts. The argument is one lemma: whoever
  may act on an active Editor over everything is one as well
  (`ActorIsStarEditor`), and nobody acts on themselves, so one is left. It
  also shows that `TakesTheLastEditorAway` is never what refuses a request whose
  actor was read afresh, which the code's own comment says.
* `NoSupervisorLoop`, `NoOrphan`, `ClimbEndsAtTop`. A group closed under
  supervisors after a write, cut down to the people above the new supervisor,
  was closed before it.
* `OneAccountPerNumber`, `SeedOnlyOnce`, `NobodyReachesUp` (an action property:
  containment of scopes composes).
* `SessionsImplementAccounts`: every step of the system with sessions is a step of
  the accounts or leaves them alone, so all of the above holds with sessions. `SessionsStayCurrent` needs a
  strengthening: a sign-in being verified is as current as the session it
  becomes, and while a change is half done the account has no session but
  the one that asked and those known to be raced (`SInv`).
* `CeilingHolds`. `Ceiling` is inductive once the counts are
  numbers: an attempt is let through only below the ceiling, and at that
  moment at most every attempt is under way; one that ends adds a failure or
  none and leaves the attempts under way.

**Comments and reports** (`ReadersProofs`).

* `PromiseIsKept`: `Spec => KeepsThePromise`, the refinement of `CommentLife`, and with it
  `DecisionsAlwaysStand`. Whom a comment climbs to does not matter there, only that
  every way a climb ends leaves the comment open (`LifeInv`: nothing withdrawn was approved). `AlwaysRecordedOnce`
  needs `DrainInv`: between recording and marking, the row is recorded and what the drain holds is that row.
* `RoutingIsAlwaysRight`. Here the climb is opened. It is a recursive function of who is asked and who has been, and
  it exists because people are finitely many: each hop adds one to those who have been asked, so
  induction over how many are left defines it (`ClimbExists`) and shows that it ends at somebody
  new or at the pool (`NextReaderIsNew`). `RouteInv` then says who a comment waits for: somebody who was sent it and has
  neither written nor approved it.
* `ServedIsAlwaysCurrent`, `PdfAlwaysMatchesPage`. A page and the order are never opened: a key is the page seen from
  outside. `Reading` (what a build has read is what is there until something moves), `Carrying` (it puts under a name the page
  the name stands for, unless it was overtaken) and `Alone` (a name that no two builds had at once) are inductive together.

**Process store and projection** (`ProcessStoreProofs`).

* `IdsAlwaysGivenOnce`: unless two mints overlapped, no number above a whole ledger was given oftener than the ledger was torn
  (`NewFrom`), and while it is being written one mint alone holds a number, which is new in that sense. Each stop there raises the bound by one.
* `HeirsAlwaysBeforeBurial`: whatever a document on disk names as its heir has been on disk. Not inductive without what the
  jobs hold: the copy a verb has read, the files it is still to write, each of which may name what was written
  before it in the same sequence (`HonestFiles`), and the editor's copy.
* `CurationIsAlwaysKept`. Nothing holds an id twice, neither order.json nor what a verb has in hand (`CurInv`), so a place is where an id
  stands. Each of the three passes embeds the sequence it was given in the one it returns: places move, none
  crosses another (`InsertEmbeds`, `HeldEmbeds`, `Joined`). The heir stands before the lowest of what it supersedes when it goes in
  (`LowestIsBefore`), and the later passes keep that.
* `DepartmentIsAlwaysSound`. Between verbs says nothing of the moments during one, so `SoundInv` says what holds then. `SaneInv` is what a
  verb has in hand: each link it is about to write was there when it read, leads to what it read, or to a file it writes as well. With it, a link
  to what is missing is about to resolve or about to be swept (`LinksInv`), and the sequence is the active processes or a verb that will sync it
  is under way (`OrderInv`). The parents are the hard part. A parent about to be written is the one that was read, is the
  new file's, or is one the child was not above when its guard looked (`ParentKept`), and this must survive what the other program writes
  meanwhile (`OthersKept`). It does because of the numbers: one that was minted and whose file is not there yet is named by
  no parent on disk, in no draft and in no other verb's hands (`NamesInv`, `Apart`), so a new file closes no loop (`NobodysParent`). Under these
  lie facts about the walk upwards, whose length is a constant of the model: it exists, it ends, and a parent that goes,
  turns to itself or changes elsewhere adds nobody to it (`AboveIsTheWay`, `StayAbove`, `ElsewhereAbove`, `HungLoopless`). What a
  restructure makes of the documents is read off its recursion by induction over what it supersedes (`PlanLinks`).
* `AlwaysExactlyOnce`. Three facts carry it: commits are only added, on top of older
  ones; what was projected came before the marker, and a pass that projects goes from the marker to a
  descendant; the lock keeps commits of ours from being recorded during a pass, so what the pass read still stands when it
  writes. `AlwaysOncePerBreak` adds that what a pass has judged was true of the marks it read, and that a mark renewed
  since has a later place.

**Disclosure** (`DisclosureProofs`).

* `RestoreUndoesRedaction`: restoring a redacted document over the one it was made of gives that document back, for every set of
  departments seen. `UntouchedSaves`, `UnseenLinksAlwaysSurvive`, `AnswersAreAlwaysFit` and
  `BodiesAreAlwaysWhole` follow for `Serving`, with every request at every moment.
* `PanelAlwaysTellsOnlyTheFit`: a version in the store, or looked at, is the same unless it has moved; a mark is a fingerprint that was handed
  out; what a request in each of its phases holds was served by a mark of then, and what was handed out stays so. The labels are of what the
  entry asked for binds, as the store said when they were read.
  `PanelKeepsServing`: a step of the panel is a stutter of `Serving`, so its theorems hold beside the panel.

**The bot and its calls** (`UploadsProofs`).

* `ChunksTile`: the chunks of a recording of any length cover it without a gap. `WholeOrNothing` and `CallTypeCorrect`: a call that
  returns a text had an answer or a confirmed silence for every chunk; `BotWholeOrNothing`: so does every call
  the bot makes, whatever the watchdog kills.
* `TranscriptIsAlwaysItsOwn`, and `BotKeepsPromises`: `Spec => Promises`, the refinement of `Intake`. `BotInv` says what is
  staged is not kept, what is being handled is staged until it has a name and has it from then on, each recording waits once, and the
  process is of the head of the queue. That a name is free when it is given needs the numbers of the names of a day to be
  finitely many.

**Facts store** (`FactsStoreProofs`). One invariant, `IInv`, for all five properties:

* `TypeInv`, `DirInv`: a run directory belongs to one verb, and its contents say how far that got.
* `IdInv`, `EraInv`: ids up to the ledger, each given once, in the store and in every snapshot a revert may bring back;
  two live eras of a key only where an edit, a revert or a save over another's made them. With these, `OneOfEachAlways`.
* `KeepInv`: what was chosen stands and what was read is said, in the store. It is inductive only with
  `HandInv`: the copy a verb is about to save keeps, entry by entry, what its reading of the store had (`CarriedOver`), and says
  what its delta tells. `SettledStandsAlways`, `ReadingsKeptAlways`.
* `LinkInv`: links name entries that somebody owns, counting those that the copy in hand is about to write. `LinksAlwaysResolve`.
* `TouchInv`: what a verb changes, its record will say; an entry owned by a recorded run is one it has touched, unless its
  snapshot strayed or its delta has another key for the entry (`renamed`). A reading that is not renamed is matched in the snapshot as it was in
  the store. `RevertTakesOnlyItsOwnAlways`.

All but the last two are under `torn \/`: after a torn ledger numbers begin again. `LiveSettles` is a fact about the gate by
itself: as many passes as the delta has entries are enough, by induction over the passes (each that changes something removes an entry).

**Facts run** (`FactsRunProofs`).

* `FormsAlwaysBeforeTalk`. `BaseInv` is what the variables hold. `TalkInv` says a transcript that is asked is asked after the
  last form was settled and, if it was told, was told a slice of what the forms record. That the slice is a
  beginning which ends only where the budget does is a fact about `RecordedSlice` (`SliceIsRightlyCut`): the order is one
  (`ToldBeforeIsAnOrder`), and a longer beginning is no shorter in lines (`LengthGrows`). It is stable because nothing that may still happen to a form's attempts
  changes what they say: a torn document that is taken away was never read (`ReadableTwice`).
* `AttemptsAreAlwaysFair`. Its first half, nobody is given up unasked, needs that every document answers the plan that is there as long as
  there was one (`AnswersToIt`). Its second half is about `_overlay`: an answer is a recursion over the attempts,
  shown to exist by induction over the naturals; the usable documents of the first attempts are the
  first of the usable documents, and laying one more over them keeps every candidate that was decided and every entry that
  was granted (`OverlayKeeps`, `GrantedGrows`).
* `NothingIsEverLostUnsaid` and `LinksAlwaysLand` follow one candidate through the whole of the assembly. Whatever the
  units answered and the review laid over it is a set of choices (`DecisionsAreChoices`, `LaidAreChoices`). What
  they come to accounts for every candidate: an entry, the entry it was merged into, or a named reason
  (`KeptParts`); rounds that hold an entry back name it (`RoundsFollow`); of two entries at one address the one that is
  kept holds what the other held, and it is well chosen because `KeptBefore` is an order
  (`KeptBeforeIsAnOrder`, `CrossUnitCovers`); what waits is closed under who points at it (`HoldBackParts`). `BuiltParts` and
  `WrittenParts` put these together. In time, `FoldInv` says the plan has few units, each under its name, and
  `DeltaTells` that a delta is there only while nothing is open or asked, so no answer moves under it.
* `DroppedIsAlwaysGone` compares two assemblies, the one the reviewer was shown and the one written after the review. A review that
  writes nothing only takes decisions away (`LaidThins`), so what is kept after it is like something that was kept before
  (`KeptThins`). The rounds are monotone in what they start from: they end where nothing is missing
  (`RoundsEnd`), and whatever is like an entry of a set in which nothing is missing is never held back (`RoundsKeep`). So an
  entry that lands at the address of what was dropped had been drafted there as well, beside it, and the reviewer's row shows
  the twin (`BuiltThins`, `WrittenWithoutDropped`). `DropInv` adds that a review that is not there says nothing.
* `ShownAlwaysAsItIs`. `ReadsAsItIs`: a text and the digest beside it agree unless a conversion stopped between them or a file was saved between its two reads, and the plan shows what the
  files held when it was made. That every file with a text gets a unit is a fact about groups that share nothing: their
  least members tell them apart (`GroupsInOrder`, `AttachmentsAreWhole`).
* `PlanIsAlwaysWhole`: the check with which `plan_units` refuses its own plan never fires. Per kind of unit, a lemma
  says what it shares out. A workbook group's tabs share out its candidates, and one too large ends with what fits or with none,
  because the order by size lists every candidate (`EveryMemberIsListed`, `SetAsideParts`, `BooksAreWhole`). Chunks cut a
  transcript up: each begins where the one before it ended. Halving keeps that, and every round brings what may still be
  divided one line nearer to a single line, so as many rounds as there are lines are enough (`ChunksCutUp`, `HalvesParts`,
  `SpansCutUp`). That a text is read as often as it was chosen is a sum over the units, a fold over a set: the number of files under one name in
  the union satisfies the fold's recursion, and by induction on the cardinality nothing else does (`TextsAreCounted`).

**What the proofs share.** `Induction` states induction over the numbers about a set (an operator as parameter
is out of the provers' reach), from well-foundedness; with it come `InOrderLists` (`sorted()` lists each element once, ascending), finiteness
of images, and the last element of a finite order.

**What trying to prove them found.** `ReadingsKept` and `RevertTakesOnlyItsOwn` were false beyond the bounds they were checked
at, and are now stated with the two exceptions `Displaced` and `strayed`, each a divergence of section 3. The keys of a delta must be distinct
when it is applied; the model had allowed two. Arms of two `CASE`s overlapped (`Restructured`, `MintedWrites`). `NoLoops` was false
beyond its bounds as well: of two mints that overlap the later may store the lower number, so an id is given again while the sweep of its
deleted owner still takes links to it away; it has `raced` for an exception now. `Neighbours` took the heir from disk, where the code has
it in memory (`heir_by_id`, `engine/merge/__init__.py:293`). The instance of
`comments` never let a comment come back to somebody it had passed. `KeptEntries` had two parts of a split at most. What
a kept twin holds (`CrossUnit`) was written `UNION A \ B`, which TLC and tlapm read in different ways; it has its parentheses now.

**Only model-checked.** Liveness (`LetBackIn`, `NeverStranded`, `ResolveIsRecorded`, `CatchesUp`, `EveryUnitSettles`, `LastWordComes`), which
the provers do not reach. Every invariant and every action property of a passing run is proved. `NoDanglingRef` is refuted by its run. Under `renamed` and `torn` the
theorems say nothing of what the code loses there: those are the divergences of section 3.

## 5. Not modelled, and the plan

PROJECT.json lists every component with its status, and the hazards with
the properties that cover them.

Left out of modelled parts:

* `Projection`: merge commits, a repository without commits, whom an event credits.
* `ProcessStore`: boxes and junctions, several departments, a restructure with several heirs, a `new` with several sub-processes.
* `FactsStore`: stubs and their adoption (nothing in `src/` writes `data.stub`), prose and keyed lists, issues, repair and export, the four
  files one by one, and how `fold_twins` makes one reading of two: deltas of which two readings would get one key are not applied (`Unfolded`). How a key is
  derived is a field of the reading (`derived`), and a key stands for key and scope. Accounts stand on a leaf the ladder may judge.
* `FactsRun`: duplicate decisions about one entry, the locators of imports, a review by skeleton id,
  `refresh_inputs`, drift answered by "account", the list of contradictions, the wording of prompts. The one leaf of an entry is a judgeable
  one; an entry's first source is a field of the document; temporary ids compare as numbers, where the code compares strings. How long an entry
  prints depends on its kind (`TableLines`, `EntryLines`); the rows of the store that fill what is left of a transcript's budget are not told.
* `Serving` and `FactsServing`: the workbooks' titles and the original text beside an entry; the reads that one map makes of the store one after
  the other; department overviews; the 404/403 partition; the paths of cited files and their containment; an entry
  that disappears from the store while it is being shown.
* The activity record: reports over it and activity intervals. Refusals of the gate, which only log.
* Hazards of a kind the code meets only when operated by hand or in one moment: two seeds at once on an empty table
  (`ub/seed.py:67`), the climb reading `app.db` without its lock (`ub/comment_rules.py:116`; the model's climb is one
  step), a backup that stops half way (`ub/backups.py:55`).

Not modelled: layout and the workbook dump convert between formats and keep no shared state; the web client, git push,
the control bot's patches, schema migrations and backups are input and output, third-party or one sequential job.

In order, what is worth adding next:

1. Whom an event credits, in `Projection`; the activity intervals.
2. `Backups`, with a stop at every step.
3. A restructure with several heirs, and boxes and junctions, in `ProcessStore`.

## 6. Running

`tlc -config X.cfg M` with the pairs of PROJECT.json; `tlapm` on `Induction`, `AccountsProofs`, `ReadersProofs`,
`ProcessStoreProofs`, `DisclosureProofs`, `UploadsProofs`, `FactsStoreProofs` and `FactsRunProofs`. The longest runs (`facts_run`,
`reports`, `store`) take two to three minutes, the longest proof (`ProcessStoreProofs`) some ten.
