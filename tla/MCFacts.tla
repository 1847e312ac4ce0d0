------------------------------ MODULE MCFacts -------------------------------
EXTENDS FactsStore

R(key, value, from, source) ==
    [key |-> key, derived |-> key, tabs |-> {}, value |-> value, from |-> from, source |-> source,
     declares |-> {}, home |-> None, about |-> None, succeeds |-> NoId, sound |-> TRUE]

Table == [R("table", "v1", 0, "a") EXCEPT !.tabs = {1}]

\* The table's tab under another key.
Other == [R("chart", "v2", 0, "b") EXCEPT !.tabs = {1}]
Later == R("table", "v2", 1, "b")

\* A sheet that gives two values, quoted in full.
Quoting == [Table EXCEPT !.declares = {[value |-> "v1", source |-> "a"],
                                       [value |-> "v2", source |-> "b"]}]
\* A sheet that gives no value of its own and quotes one, under a key the gate
\* makes another of.
Quoted == [R("chart", None, 0, "b") EXCEPT !.derived = "table", !.declares = {[value |-> "v2", source |-> "b"]}]

\* A value that contradicts, and says by itself that it supersedes.
Declared == [R("table", "v2", 0, "b") EXCEPT !.succeeds = 1]
Unsound == [Table EXCEPT !.sound = FALSE]
Remark == [R("remark", "v1", 0, "a") EXCEPT !.about = "table", !.home = "table"]
Note == [R("note", "v1", 0, "a") EXCEPT !.about = "remark"]

MCDeltas == {<<Declared>>, <<Other>>, <<Later>>, <<Quoting>>, <<Quoted>>, <<Table, Remark>>, <<Unsound, Remark, Note>>}
=============================================================================
