---------------------------- MODULE FactsServing ----------------------------
(***************************************************************************)
(* The facts panel: who is told what of the facts store, beside the        *)
(* process document the facts point at.  A request looks at the store and  *)
(* at the marks several times over, while the pipeline rewrites the store, *)
(* people vouch, and the administrator moves roles, scopes and switches.   *)
(*                                                                         *)
(* An entry is reduced to what decides who is told of it, where it is      *)
(* named from and two texts: its title, and `place`, where its sheets are  *)
(* or what its units are called; `cites` is its pointing at the one file   *)
(* that is ever asked for.  Two kinds of the four: tables, and what lives in    *)
(* them.                                                                   *)
(***************************************************************************)
EXTENDS Serving

CONSTANTS
    Fact,           \* ids of entries
    Units,          \* of them the record of the units of measure
    Person,         \* who asks
    Grant,          \* what the administrator may make somebody
    Wild,           \* the scope of everything
    FileDept,       \* the department whose folder holds the file, or None
    Estate,         \* the stores the panel may start on
    MaxAsked        \* bound: requests and moves, the document's included, while the panel is at work

Panel == {"edit", "confirm", "set_visibility", "manage_users", "view_audit"}

FactSwitch == {"record", "rule", "sources"}

Entry == [kind : {"record", "rule"}, depts : SUBSET Dept, title : Text, uses : SUBSET Fact,
          home : Fact \cup {None}, link : BOOLEAN, cites : BOOLEAN, place : Text]

ASSUME FactsServingAssumption ==
    /\ Wild \notin Dept /\ FileDept \in Ref /\ Home \notin Fact
    /\ Units \subseteq Fact /\ Person # {} /\ MaxAsked \in Nat
    /\ Estate \subseteq [Fact -> Entry]

VARIABLES
    facts,          \* the four files
    index,          \* the version of each entry its row in the index was built from
    tick,           \* the mark of each entry
    people,         \* the grant of each person
    factSwitch,     \* the kinds told to those who do not edit them, and the sources
    panel,          \* the request under way at the panel, or its answer
    ticking,        \* the confirmation under way
    handed,         \* history: <<person, entry, fingerprint>> the panel has answered
    moved,          \* history: what was rewritten, or behind in the index, since a request began
    asked           \* counter for the bound

panelVars == <<facts, index, tick, people, factSwitch, panel, ticking, handed,
               moved, asked>>

NoPanel == [phase |-> "none"]
NoTick == [phase |-> "none"]

Permits(g, cap, t) == cap \in g.caps /\ g.reach \cap {t, Wild} # {}

\* An entry of no department binds the whole house.
Targets(e) == IF e.depts = {} THEN {Wild} ELSE e.depts

\* One capability for all of it, never two for half of it each.
Reaches(g, e) == \E cap \in Panel : \A t \in Targets(e) : Permits(g, cap, t)

EditsFact(g, e) == \A t \in Targets(e) : Permits(g, "edit", t)

\* Where an entry is filed is no part of what is vouched for.
FactPrint(e) == <<e.kind, e.depts, e.title, e.uses, e.link, e.cites, e.place>>

\* Defect: any mark will do.
MayServeTicked(g, e, m) == EditsFact(g, e) \/ m # <<>>

MayServeFact(g, e, m) == EditsFact(g, e) \/ m = FactPrint(e)

\* The kind switch, and what is left of an entry's provenance.
KindOn(g, e, on) == EditsFact(g, e) \/ e.kind \in on

CitesTo(g, e, on) == e.cites /\ (EditsFact(g, e) \/ "sources" \in on)

Served(g, e, m, on) == Reaches(g, e) /\ MayServeFact(g, e, m) /\ KindOn(g, e, on)

\* The panel's first gate, for every route of it.
InPanel(p) == people[p].caps \cap Panel # {}

\* Whose row in the index is of another version.
Behind == {f \in Fact : index[f] # facts[f]}

Asks ==
    /\ begun + asked < MaxAsked
    /\ asked' = asked + 1
    /\ UNCHANGED vars

-----------------------------------------------------------------------------
(* One entry, with the maps that name its neighbours.                      *)

FactAsked ==
    /\ Asks
    /\ panel.phase \in {"none", "answered"}
    /\ \E p \in Person, f \in Fact :
           /\ InPanel(p)
           /\ panel' = [phase |-> "asked", by |-> p, id |-> f, entry |-> facts[f]]
    /\ moved' = Behind
    /\ UNCHANGED <<facts, index, tick, people, factSwitch, ticking, handed>>

\* The caller's stance and the switches are read once, for the whole request.
FactJudged ==
    /\ panel.phase = "asked"
    /\ panel' = IF Served(people[panel.by], panel.entry, tick[panel.id], factSwitch)
                THEN [phase |-> "judged", by |-> panel.by, id |-> panel.id,
                      entry |-> panel.entry, stance |-> people[panel.by], on |-> factSwitch]
                ELSE NoPanel
    /\ UNCHANGED <<facts, index, tick, people, factSwitch, ticking, handed, moved, asked, vars>>

\* The whole store and its marks, to judge every neighbour by.
NeighboursRead ==
    /\ panel.phase = "judged"
    /\ panel' = [phase |-> "neighbours", by |-> panel.by, id |-> panel.id,
                 entry |-> panel.entry, stance |-> panel.stance,
                 visible |-> {f \in Fact : Served(panel.stance, facts[f], tick[f], panel.on)},
                 seen |-> facts]
    /\ UNCHANGED <<facts, index, tick, people, factSwitch, ticking, handed, moved, asked, vars>>

\* Who the entry points at, its table among them, who uses it, by the store read
\* again ...
PointsAt(entry) == entry.uses \cup ({entry.home} \cap Fact)
UsedBy(id, store) == {c \in Fact : id \in store[c].uses}

\* ... and what lives in a table, by the index, titles and all.
LivesIn(entry, id, rows) ==
    IF entry.kind = "record"
    THEN {f \in Fact \ {id} : rows[f].kind # "record" /\ rows[f].home = id}
    ELSE {}

\* What a row says, and the version it was judged on.
Row(f, said, judged) == [id |-> f, said |-> said, judged |-> judged]

\* Defect: where every table is, bound by the entry or not.
LabelsOfAll(entry, store) ==
    {[id |-> f, said |-> store[f].place] : f \in {b \in Fact : store[b].kind = "record"}}

\* Where the tables are that the entry binds, and what the units are called:
\* told of whoever's tables they are, with no look at who asks.
Labels(entry, store) ==
    {[id |-> f, said |-> store[f].place] :
        f \in Units \cup {b \in Fact : b \in entry.uses /\ store[b].kind = "record"}}

MapsRead ==
    /\ panel.phase = "neighbours"
    /\ panel' =
           [phase |-> "maps", by |-> panel.by, id |-> panel.id, stance |-> panel.stance,
            labels |-> Labels(panel.entry, facts),
            rows |-> {Row(panel.id, panel.entry, panel.entry)}
                     \cup {Row(f, facts[f], panel.seen[f])
                           : f \in (PointsAt(panel.entry) \cup UsedBy(panel.id, facts)) \cap panel.visible}
                     \cup {Row(f, index[f], panel.seen[f])
                           : f \in LivesIn(panel.entry, panel.id, index) \cap panel.visible},
            prints |-> {<<panel.id, FactPrint(panel.entry)>>}
                       \cup {<<f, FactPrint(facts[f])>>
                             : f \in LivesIn(panel.entry, panel.id, index) \cap panel.visible},
            process |-> IF panel.entry.link THEN {doc} ELSE {}]
    /\ UNCHANGED <<facts, index, tick, people, factSwitch, ticking, handed, moved, asked, vars>>

\* Defect: a process in scope is named, whatever its own route would answer.
InScope(g) == Permits(g, "view", Home)

\* A process is named when its own route would answer for it.
NamesProcess(g) ==
    /\ Permits(g, "view", Home)
    /\ Permits(g, "edit", Home) \/ MayServe(doc, mark)

Answer(p, g, rows, labels, prints, process) ==
    /\ panel' = [phase |-> "answered", by |-> p, stance |-> g, rows |-> rows,
                 labels |-> labels, process |-> process]
    /\ handed' = handed \cup {<<p, x[1], x[2]>> : x \in prints}

\* The process is judged last, by the file and the mark as they are by now.
FactAnswered ==
    /\ panel.phase = "maps"
    /\ Answer(panel.by, panel.stance, panel.rows, panel.labels, panel.prints,
              IF NamesProcess(panel.stance)
              THEN {[said |-> d, judged |-> doc] : d \in panel.process} ELSE {})
    /\ UNCHANGED <<facts, index, tick, people, factSwitch, ticking, moved, asked, vars>>

-----------------------------------------------------------------------------
(* The listing: the rows of the index, judged by the entries.              *)

ListAsked ==
    /\ Asks
    /\ panel.phase \in {"none", "answered"}
    /\ \E p \in Person :
           /\ InPanel(p)
           /\ panel' = [phase |-> "listing", by |-> p, stance |-> people[p],
                        on |-> factSwitch, rows |-> index]
    /\ moved' = Behind
    /\ UNCHANGED <<facts, index, tick, people, factSwitch, ticking, handed>>

ListRead ==
    /\ panel.phase = "listing"
    /\ panel' = [phase |-> "listed", by |-> panel.by, stance |-> panel.stance,
                 on |-> panel.on, rows |-> panel.rows, entries |-> facts]
    /\ UNCHANGED <<facts, index, tick, people, factSwitch, ticking, handed, moved, asked, vars>>

ListAnswered ==
    /\ panel.phase = "listed"
    /\ LET told == {f \in Fact : Served(panel.stance, panel.entries[f], tick[f], panel.on)} IN
       Answer(panel.by, panel.stance,
              {Row(f, panel.rows[f], panel.entries[f]) : f \in told}, {},
              {<<f, FactPrint(panel.entries[f])>> : f \in told}, {})
    /\ UNCHANGED <<facts, index, tick, people, factSwitch, ticking, moved, asked, vars>>

-----------------------------------------------------------------------------
(* The cited file: reached through an entry that cites it, by no other     *)
(* road.                                                                   *)

SourceAsked ==
    /\ Asks
    /\ panel.phase \in {"none", "answered"}
    /\ \E p \in Person :
           /\ InPanel(p)
           /\ FileDept = None \/ people[p].reach \cap {FileDept, Wild} # {}
           /\ panel' = [phase |-> "fetching", by |-> p, stance |-> people[p],
                        on |-> factSwitch, entries |-> facts]
    /\ moved' = Behind
    /\ UNCHANGED <<facts, index, tick, people, factSwitch, ticking, handed>>

\* The 404 of a file nothing the caller is served cites, and after it the 403.
SourceAnswered ==
    /\ panel.phase = "fetching"
    /\ LET citing == {f \in Fact :
                          /\ Served(panel.stance, panel.entries[f], tick[f], panel.on)
                          /\ CitesTo(panel.stance, panel.entries[f], panel.on)} IN
       IF citing = {} \/ "export_pdf" \notin people[panel.by].caps
       THEN panel' = NoPanel /\ UNCHANGED handed
       ELSE \E f \in citing :
                Answer(panel.by, panel.stance,
                       {Row(f, panel.entries[f], panel.entries[f])}, {}, {}, {})
    /\ UNCHANGED <<facts, index, tick, people, factSwitch, ticking, moved, asked, vars>>

-----------------------------------------------------------------------------
(* Vouching for an entry, with a fingerprint the panel handed out.         *)

\* Every department the entry names, then the capability: the scope is the
\* entry's as the gate loads it.
TickAsked ==
    /\ Asks
    /\ ticking = NoTick
    /\ \E h \in handed :
           /\ \A t \in Targets(facts[h[2]]) : Permits(people[h[1]], "confirm", t)
           /\ ticking' = [phase |-> "gated", id |-> h[2], shown |-> h[3]]
    /\ UNCHANGED <<facts, index, tick, people, factSwitch, panel, handed, moved>>

\* Defect: whatever is there now is what is vouched for.
TickLoadsAnything ==
    /\ ticking.phase = "gated"
    /\ ticking' = [phase |-> "loaded", id |-> ticking.id, now |-> FactPrint(facts[ticking.id])]
    /\ UNCHANGED <<facts, index, tick, people, factSwitch, panel, handed, moved, asked, vars>>

\* Loaded again: 409 when it is no longer what was shown.
TickLoaded ==
    /\ ticking.phase = "gated"
    /\ ticking' = IF FactPrint(facts[ticking.id]) = ticking.shown
                  THEN [phase |-> "loaded", id |-> ticking.id, now |-> FactPrint(facts[ticking.id])]
                  ELSE NoTick
    /\ UNCHANGED <<facts, index, tick, people, factSwitch, panel, handed, moved, asked, vars>>

TickWritten ==
    /\ ticking.phase = "loaded"
    /\ tick' = [tick EXCEPT ![ticking.id] = ticking.now]
    /\ ticking' = NoTick
    /\ UNCHANGED <<facts, index, people, factSwitch, panel, handed, moved, asked, vars>>

RevokeTick ==
    /\ Asks
    /\ \E p \in Person, f \in Fact :
           /\ \A t \in Targets(facts[f]) : Permits(people[p], "confirm", t)
           /\ tick[f] # <<>>
           /\ tick' = [tick EXCEPT ![f] = <<>>]
    /\ UNCHANGED <<facts, index, people, factSwitch, panel, ticking, handed, moved>>

-----------------------------------------------------------------------------
(* What else moves.                                                        *)

\* A verb of the pipeline saves an entry said otherwise, bound otherwise or
\* filed otherwise.
FactRewrites(e) ==
    {[e EXCEPT !.title = t] : t \in Text} \cup {[e EXCEPT !.place = t] : t \in Text}
    \cup {[e EXCEPT !.depts = s] : s \in SUBSET Dept}
    \cup {[e EXCEPT !.home = h] : h \in Fact \cup {None}}

FactsSaved ==
    /\ Asks
    /\ \E f \in Fact : \E e \in FactRewrites(facts[f]) \ {facts[f]} :
           facts' = [facts EXCEPT ![f] = e] /\ moved' = moved \cup {f}
    /\ UNCHANGED <<index, tick, people, factSwitch, panel, ticking, handed>>

\* The index is the last file of a save, and a save may stop before it.
IndexSaved ==
    /\ index # facts
    /\ index' = facts
    /\ UNCHANGED <<facts, tick, people, factSwitch, panel, ticking, handed, moved, asked, vars>>

PersonMoves ==
    /\ Asks
    /\ \E p \in Person, g \in Grant : people' = [people EXCEPT ![p] = g]
    /\ UNCHANGED <<facts, index, tick, factSwitch, panel, ticking, handed, moved>>

FactSwitchMoves ==
    /\ Asks
    /\ \E s \in FactSwitch : factSwitch' = (factSwitch \cup {s}) \ (factSwitch \cap {s})
    /\ UNCHANGED <<facts, index, tick, people, panel, ticking, handed, moved>>

\* Some entries have been handed out and vouched for.
VouchedBefore(vouched) ==
    /\ tick = [f \in Fact |-> IF f \in vouched THEN FactPrint(facts[f]) ELSE <<>>]
    /\ handed = {<<p, f, FactPrint(facts[f])>> : p \in Person, f \in vouched}

PanelInit ==
    /\ Init
    /\ facts \in Estate
    /\ index = facts
    /\ \E vouched \in SUBSET Fact : VouchedBefore(vouched)
    /\ people \in [Person -> Grant]
    /\ factSwitch \in SUBSET FactSwitch
    /\ panel = NoPanel /\ ticking = NoTick
    /\ moved = {} /\ asked = 0

AtThePanel ==
    \/ FactAsked \/ FactJudged \/ NeighboursRead \/ MapsRead \/ FactAnswered
    \/ ListAsked \/ ListRead \/ ListAnswered
    \/ SourceAsked \/ SourceAnswered
    \/ TickAsked \/ TickLoaded \/ TickWritten \/ RevokeTick
    \/ FactsSaved \/ IndexSaved \/ PersonMoves \/ FactSwitchMoves

\* The process document goes its own way.  Bound: once the panel is at work what
\* begins there counts with what begins here, and what is under way goes on.
Elsewhere ==
    /\ \/ asked = 0 \/ begun + asked < MaxAsked
       \/ save # NoSave \/ vouch # NoVouch \/ request.phase \in {"loaded", "judged"}
    /\ Next
    /\ moved' = IF doc' = doc THEN moved ELSE moved \cup {Home}
    /\ UNCHANGED <<facts, index, tick, people, factSwitch, panel, ticking, handed, asked>>

PanelNext ==
    \/ AtThePanel
    \/ Elsewhere

PanelSpec == PanelInit /\ [][PanelNext]_<<vars, panelVars>>

-----------------------------------------------------------------------------
(* Properties.                                                             *)

\* A row is judged on a version within the caller's reach and, to somebody who
\* does not edit it, on one the panel had handed to somebody before, who vouched
\* for it.  It says what it was judged on, unless the entry was rewritten while
\* the request was under way or its row in the index was behind.
RowIsFit(g, r) ==
    /\ Reaches(g, r.judged)
    /\ EditsFact(g, r.judged) \/ \E p \in Person : <<p, r.id, FactPrint(r.judged)>> \in handed
    /\ r.said = r.judged \/ r.id \in moved

\* Of a process no more is named than its own route would tell.
ProcessIsFit(g, r) ==
    /\ Permits(g, "view", Home)
    /\ Permits(g, "edit", Home) \/ Fingerprint(r.judged) \in read
    /\ r.said = r.judged \/ Home \in moved

\* A label is of a table the entry asked for binds, or of the units, whoever
\* may read those, and says no more of it than its place.
LabelIsFit(r, l) ==
    /\ l.id \in Units \cup r.judged.uses
    /\ l.said = facts[l.id].place \/ l.id \in moved

\* Whatever the panel answers, in an entry, its maps, the listing or a file:
\* every row was judged, and what is sent unjudged is the labels of the entry
\* that was asked for.
PanelTellsOnlyTheFit ==
    [][panel' # panel /\ panel'.phase = "answered" =>
           /\ \A r \in panel'.rows : RowIsFit(panel'.stance, r)
           /\ \A l \in panel'.labels :
                  \E r \in panel'.rows : r.id = panel.id /\ LabelIsFit(r, l)
           /\ \A r \in panel'.process : ProcessIsFit(panel'.stance, r)]_<<vars, panelVars>>
=============================================================================
