------------------------------ MODULE MCSoulStore ------------------------------
(* The instances of SoulStore that TLC checks.                              *)
EXTENDS SoulStore

Text(source, endorsed) ==
    [op |-> "upsert", blank |-> FALSE, source |-> source, endorsed |-> endorsed]
Heading(source) ==
    [op |-> "upsert", blank |-> TRUE, source |-> source, endorsed |-> FALSE]
Erasure(source) ==
    [op |-> "remove", blank |-> TRUE, source |-> source, endorsed |-> FALSE]

\* A text, endorsed or not; a heading of a human or of a machine; a removal.
SomeDrafts ==
    {Text("agent", FALSE), Text("agent", TRUE), Heading("human"),
     Heading("dreamer"), Erasure("agent")}
================================================================================
