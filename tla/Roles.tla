------------------------------- MODULE Roles -------------------------------
(***************************************************************************)
(* The access model every gate of ui-backend reads: capabilities come from *)
(* a role and nothing else, and reach comes from scopes.                   *)
(*                                                                         *)
(* A scope is one of three nested shapes: "*", dept:d and dept:d/report:k. *)
(* It is a record here, with Wild standing for the level left open; a text  *)
(* that does not parse is refused where it would be stored and so has no   *)
(* value in this model.                                                    *)
(***************************************************************************)

CONSTANTS
    Dept,      \* department codes
    Report     \* report kinds

Wild == "*"

ASSUME ScopeAssumption == Wild \notin Dept /\ Wild \notin Report

Everything == [dept |-> Wild, report |-> Wild]

Scope == {Everything} \cup [dept : Dept, report : Report \cup {Wild}]

\* Does the holder of s reach t?  Segment-wise: only Everything reaches
\* Everything, a department reaches its own reports.
Contains(s, t) == s.dept \in {Wild, t.dept} /\ s.report \in {Wild, t.report}

\* Every scope of want lies inside some scope of held (a person's scopes are
\* a union).
CoveredBy(want, held) == \A t \in want : \E s \in held : Contains(s, t)

-----------------------------------------------------------------------------
\* The seeded roles.  The role table is a constant of every module that uses
\* it, because no operation writes one; this is the value it has.

NonDelegable == {"edit", "confirm", "set_visibility"}

ReaderNoDownload == {"view", "comment"}
Reader == ReaderNoDownload \cup {"export_pdf"}
Admin == Reader \cup {"manage_users", "manage_peers", "view_audit"}
Editor == Admin \cup NonDelegable

SeededRole == {"reader", "reader_no_download", "admin", "editor"}

SeededCapabilities ==
    [r \in SeededRole |-> CASE r = "reader" -> Reader
                            [] r = "reader_no_download" -> ReaderNoDownload
                            [] r = "admin" -> Admin
                            [] r = "editor" -> Editor]
=============================================================================
