--------------------------- MODULE MCFactsServing ---------------------------
(* Instances of FactsServing for TLC.                                      *)
EXTENDS FactsServing, TLC

Editor == [caps |-> {"view", "edit", "confirm", "export_pdf"}, reach |-> {"dining"}]
Head == [caps |-> {"view", "comment", "view_audit"}, reach |-> {"dining"}]
Admin == [caps |-> {"view", "manage_users", "export_pdf"}, reach |-> {"all"}]
Reader == [caps |-> {"view", "comment", "export_pdf"}, reach |-> {"all"}]

MCGrant == {Editor, Head, Admin, Reader}

\* A table, a rule that lives in it, uses it and cites a file, and the units of
\* the whole house.
Table == [kind |-> "record", depts |-> {"dining"}, title |-> "t1", uses |-> {},
          home |-> None, link |-> TRUE, cites |-> FALSE, place |-> "t1"]
Rule == [kind |-> "rule", depts |-> {"dining"}, title |-> "t1", uses |-> {"table"},
         home |-> "table", link |-> FALSE, cites |-> TRUE, place |-> "t1"]

UnitList == [kind |-> "record", depts |-> {}, title |-> "t1", uses |-> {},
          home |-> None, link |-> FALSE, cites |-> FALSE, place |-> "t1"]

MCEstate == {"table" :> Table @@ "rule" :> Rule @@ "units" :> UnitList}

\* Bound: the panel opens on an editor and a head of the department with
\* everything told, nothing or all of it vouched for, and never the units, which
\* are only called otherwise; a document confirmed or rewritten beside the panel
\* stands alone, and costs it a request; what moves beside a busy one is not
\* vouched for.
PanelFirst ==
    LET vouched == {f \in Fact : tick[f] # <<>>} IN
    /\ asked = 0 => /\ factSwitch = FactSwitch /\ vouched \cap Units = {}
                    /\ people["ed"] = Editor /\ people["hd"] = Head
    /\ begun > 0 /\ asked = 0 => vouched \in {{}, Fact \ Units}
    /\ begun > 1 => vouched = {}
    /\ \A f \in Units : facts[f] = [UnitList EXCEPT !.place = facts[f].place]
    /\ asked > 0 => /\ begun + asked <= MaxAsked
                    /\ ~client.loaded /\ request = NoRequest
                    /\ scope = {Home} /\ policy = {"node_actor"}
                    /\ Links(doc) = [at \in Node \cup {"parent"} |-> None]
=============================================================================
