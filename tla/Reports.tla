------------------------------- MODULE Reports ------------------------------
(***************************************************************************)
(* A department's report: built from what an Editor vouched for, kept in a *)
(* folder under a name derived from that content, and handed out only      *)
(* under the name the content has at that moment.                          *)
(*                                                                         *)
(* A page is what a reader gets: the introduction, the confirmed processes *)
(* in curated order, and the switches it was filtered under.  A key is the *)
(* digest of the same three things.  A document is its version.            *)
(***************************************************************************)
EXTENDS Naturals, Sequences, FiniteSets, SequencesExt

CONSTANTS
    Proc,           \* the processes of the department
    Overview,       \* its introduction
    Builder,        \* requests that build the report, and may overlap
    Nothing,        \* no key, no file, no mark
    MaxVersion,     \* bound: versions of a document
    MaxMoves        \* bound: changes to content, marks, order and policy

ASSUME ReportsAssumption ==
    /\ Overview \notin Proc
    /\ {MaxVersion, MaxMoves} \subseteq Nat

Target == Proc \cup {Overview}

VARIABLES
    version,        \* version[t]: what document t says, by number
    buried,         \* the processes that are tombstoned
    mark,           \* mark[t]: the version vouched for
    order,          \* the curated order of the processes
    shown,          \* the policy: is the switch on?
    html, pdf,      \* the folder: functions from keys to the page inside
    job,            \* job[b]: the build of request b
    printing,       \* the one render at a time: who has the browser
    moved,          \* history: moved[b]: something changed since b took its reading
    mistaken,       \* history: the keys a build used although something had moved
    crossed,        \* history: the keys two builds were writing under at once
    moves           \* counter for the bound

content == <<version, buried, mark, order, shown>>
folder == <<html, pdf>>
reportVars == <<content, folder, job, printing, moved, mistaken, crossed, moves>>

-----------------------------------------------------------------------------
(* Pages and keys.                                                         *)

\* The documents that are not tombstoned, in the curated order.
Standing(v, seq, gone) ==
    SelectSeq([i \in DOMAIN seq |-> <<seq[i], v[seq[i]]>>], LAMBDA d : d[1] \notin gone)

Active == Standing(version, order, buried)

\* Of those, the ones vouched for as they are.
Confirmed(docs, m) == SelectSeq(docs, LAMBDA d : m[d[1]] = d[2])

Page(docs, m, introduction, on) ==
    [overview |-> introduction, processes |-> Confirmed(docs, m), shown |-> on]

\* What the report says if it is built from what is there now.
CurrentPage == Page(Active, mark, version[Overview], shown)

\* Defect: the policy is no part of the key.
KeyWithoutPolicy(page) == <<page.overview, page.processes>>

KeyOf(page) == <<page.overview, page.processes, page.shown>>

Vouched == mark[Overview] = version[Overview]

\* The look at the cache and the download derive it at one moment here: a key
\* out of two moments finds the page it names, or none.
CurrentKey == IF Vouched THEN KeyOf(CurrentPage) ELSE Nothing

File(store, k) == IF k \in DOMAIN store THEN store[k] ELSE Nothing

With(store, k, page) == [x \in DOMAIN store \cup {k} |-> IF x = k THEN page ELSE store[x]]

Without(store, K) == [x \in DOMAIN store \ K |-> store[x]]

\* The download: whatever lies under the current key.
Served(store) == IF CurrentKey = Nothing THEN Nothing ELSE File(store, CurrentKey)

-----------------------------------------------------------------------------
(* A build.                                                                *)

Idle == [stage |-> "idle"]

Goes(b, j) == job' = [job EXCEPT ![b] = j]

\* The cache: both files under the current key answer the request.
Looks(b) ==
    /\ job[b].stage \in {"idle", "done"}
    /\ Goes(b, [stage |-> IF File(html, CurrentKey) # Nothing /\ File(pdf, CurrentKey) # Nothing
                          THEN "done" ELSE "looked"])
    /\ moved' = [moved EXCEPT ![b] = FALSE]
    /\ UNCHANGED <<content, folder, printing, mistaken, crossed, moves>>

\* The marks and the policy, for the whole build.
ReadsMarks(b) ==
    /\ job[b].stage = "looked"
    /\ Goes(b, [stage |-> "marked", mark |-> mark, shown |-> shown])
    /\ UNCHANGED <<content, folder, printing, moved, mistaken, crossed, moves>>

\* The documents themselves, read again; 409 when the introduction is not vouched for.
ReadsPayload(b) ==
    /\ job[b].stage = "marked"
    /\ Goes(b, IF job[b].mark[Overview] # version[Overview] THEN Idle
               ELSE [stage |-> "rendered",
                     page |-> Page(Active, job[b].mark, version[Overview], job[b].shown)])
    /\ UNCHANGED <<content, folder, printing, moved, mistaken, crossed, moves>>

\* A build that has taken k for its name and is not done with it.
Holds(b, k) == "key" \in DOMAIN job[b] /\ job[b].key = k

\* The name is derived anew, from what is there by now: the documents, then the
\* marks, then the introduction, and last the policy.
NamesDocuments(b) ==
    /\ job[b].stage = "rendered"
    /\ Goes(b, [stage |-> "documents", page |-> job[b].page, docs |-> Active])
    /\ UNCHANGED <<content, folder, printing, moved, mistaken, crossed, moves>>

NamesMarks(b) ==
    /\ job[b].stage = "documents"
    /\ Goes(b, [stage |-> "marks", page |-> job[b].page, overview |-> mark[Overview],
                docs |-> Confirmed(job[b].docs, mark)])
    /\ UNCHANGED <<content, folder, printing, moved, mistaken, crossed, moves>>

NamesIntroduction(b) ==
    /\ job[b].stage = "marks"
    /\ Goes(b, IF job[b].overview = version[Overview]
               THEN [job[b] EXCEPT !.stage = "introduction"] ELSE Idle)
    /\ UNCHANGED <<content, folder, printing, moved, mistaken, crossed, moves>>

Names(b) ==
    /\ job[b].stage = "introduction"
    /\ LET key == KeyOf([overview |-> job[b].overview, processes |-> job[b].docs, shown |-> shown]) IN
       /\ Goes(b, [stage |-> "named", page |-> job[b].page, key |-> key])
       /\ mistaken' = IF moved[b] THEN mistaken \cup {key} ELSE mistaken
       /\ crossed' = IF \E c \in Builder \ {b} : Holds(c, key) THEN crossed \cup {key} ELSE crossed
    /\ UNCHANGED <<content, folder, printing, moved, moves>>

\* Defect: the PDF printed from the page about to be replaced stays.
LeavesPdf(b) ==
    /\ job[b].stage = "named"
    /\ Goes(b, [job[b] EXCEPT !.stage = "cleared"])
    /\ UNCHANGED <<content, folder, printing, moved, mistaken, crossed, moves>>

\* write_export, first: the PDF of the page about to be replaced goes.
DropsPdf(b) ==
    /\ job[b].stage = "named"
    /\ pdf' = Without(pdf, {job[b].key})
    /\ Goes(b, [job[b] EXCEPT !.stage = "cleared"])
    /\ UNCHANGED <<content, html, printing, moved, mistaken, crossed, moves>>

Writes(b) ==
    /\ job[b].stage = "cleared"
    /\ html' = With(html, job[b].key, job[b].page)
    /\ Goes(b, [job[b] EXCEPT !.stage = "written"])
    /\ UNCHANGED <<content, pdf, printing, moved, mistaken, crossed, moves>>

\* Every other page of this report goes, and every PDF.
Prunes(b) ==
    /\ job[b].stage = "written"
    /\ html' = Without(html, DOMAIN html \ {job[b].key})
    /\ pdf' = Without(pdf, DOMAIN pdf)
    /\ Goes(b, [job[b] EXCEPT !.stage = "pruned"])
    /\ UNCHANGED <<content, printing, moved, mistaken, crossed, moves>>

\* The browser opens the page that lies under the name by now; without one the
\* render fails.
Prints(b) ==
    /\ job[b].stage = "pruned"
    /\ printing = Nothing
    /\ IF File(html, job[b].key) = Nothing
       THEN /\ Goes(b, [job[b] EXCEPT !.stage = "failed"])
            /\ UNCHANGED printing
       ELSE /\ Goes(b, [stage |-> "printing", key |-> job[b].key, page |-> html[job[b].key]])
            /\ printing' = b
    /\ UNCHANGED <<content, folder, moved, mistaken, crossed, moves>>

\* The bytes land while the browser is still held.
Lands(b) ==
    /\ job[b].stage = "printing"
    /\ pdf' = With(pdf, job[b].key, job[b].page)
    /\ printing' = Nothing
    /\ Goes(b, [stage |-> "done"])
    /\ UNCHANGED <<content, html, moved, mistaken, crossed, moves>>

\* No browser, a crash, a timeout.
Fails(b) ==
    /\ job[b].stage = "printing"
    /\ printing' = Nothing
    /\ Goes(b, [job[b] EXCEPT !.stage = "failed"])
    /\ UNCHANGED <<content, folder, moved, mistaken, crossed, moves>>

\* _drop_stale_pdf, after the browser was given back.
GivesUp(b) ==
    /\ job[b].stage = "failed"
    /\ pdf' = Without(pdf, {job[b].key})
    /\ Goes(b, [stage |-> "done"])
    /\ UNCHANGED <<content, html, printing, moved, mistaken, crossed, moves>>

\* The container stops: what is in the folder stays as it is.
Restart ==
    /\ \E b \in Builder : job[b].stage \notin {"idle", "done"}
    /\ moves < MaxMoves
    /\ moves' = moves + 1
    /\ job' = [b \in Builder |-> Idle]
    /\ printing' = Nothing
    /\ UNCHANGED <<content, folder, moved, mistaken, crossed>>

-----------------------------------------------------------------------------
(* What moves meanwhile.                                                   *)

Moves ==
    /\ moves < MaxMoves
    /\ moves' = moves + 1
    /\ moved' = [b \in Builder |-> TRUE]
    /\ UNCHANGED <<folder, job, printing, mistaken, crossed>>

Rewrite(t) ==
    /\ \E v \in 1..MaxVersion : v # version[t] /\ version' = [version EXCEPT ![t] = v]
    /\ UNCHANGED <<buried, mark, order, shown>>

Confirm(t) ==
    /\ t \notin buried
    /\ mark[t] # version[t]
    /\ mark' = [mark EXCEPT ![t] = version[t]]
    /\ UNCHANGED <<version, buried, order, shown>>

Revoke(t) ==
    /\ mark[t] # Nothing
    /\ mark' = [mark EXCEPT ![t] = Nothing]
    /\ UNCHANGED <<version, buried, order, shown>>

\* A tombstone moves no fingerprint: the mark survives under it.
Bury(p) ==
    /\ p \notin buried
    /\ buried' = buried \cup {p}
    /\ UNCHANGED <<version, mark, order, shown>>

Reorder ==
    /\ \E i, j \in DOMAIN order :
           i < j /\ order' = [order EXCEPT ![i] = order[j], ![j] = order[i]]
    /\ UNCHANGED <<version, buried, mark, shown>>

Switch ==
    /\ shown' = ~shown
    /\ UNCHANGED <<version, buried, mark, order>>

-----------------------------------------------------------------------------
ReportsInit ==
    /\ version = [t \in Target |-> 1]
    /\ buried = {}
    /\ mark = version
    /\ order \in {s \in [1..Cardinality(Proc) -> Proc] : ToSet(s) = Proc}
    /\ shown = TRUE
    /\ html = [k \in {} |-> Nothing]
    /\ pdf = [k \in {} |-> Nothing]
    /\ job = [b \in Builder |-> Idle]
    /\ printing = Nothing
    /\ moved = [b \in Builder |-> FALSE]
    /\ mistaken = {}
    /\ crossed = {}
    /\ moves = 0

Build(b) ==
    \/ Looks(b) \/ ReadsMarks(b) \/ ReadsPayload(b)
    \/ NamesDocuments(b) \/ NamesMarks(b) \/ NamesIntroduction(b) \/ Names(b)
    \/ DropsPdf(b) \/ Writes(b) \/ Prunes(b)
    \/ Prints(b) \/ Lands(b) \/ Fails(b) \/ GivesUp(b)

World ==
    /\ Moves
    /\ \/ \E t \in Target : Rewrite(t) \/ Confirm(t) \/ Revoke(t)
       \/ \E p \in Proc : Bury(p)
       \/ Reorder
       \/ Switch

ReportsNext == (\E b \in Builder : Build(b)) \/ World \/ Restart

ReportsSpec == ReportsInit /\ [][ReportsNext]_reportVars

-----------------------------------------------------------------------------
(* Properties.                                                             *)

\* "A report is always current": the page handed out is the one that would be
\* built now, whatever was edited, confirmed, withdrawn, retired, reordered or
\* switched since, unless the build that named it was overtaken.
ServedIsCurrent ==
    CurrentKey \notin mistaken => Served(html) \in {Nothing, CurrentPage}

\* The PDF handed out was printed from the page beside it, at every moment and
\* also after a stop half way.  It takes two builds writing under one name, and
\* that name mistaken by one of them, to hand out two different documents.
PdfMatchesPage ==
    \A k \in DOMAIN pdf \cap DOMAIN html : k \notin mistaken \cap crossed => pdf[k] = html[k]

=============================================================================
