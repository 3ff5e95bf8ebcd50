----------------------------- MODULE MCCommander -----------------------------
(* Commander with the three sources of this firmware (the radio's CRTP      *)
(* packets, an external receiver and the application), their priorities and *)
(* the priorities of their tasks as in commander.h and config.h.            *)
EXTENDS Commander

MCPriority == [s \in Source |-> CASE s = "crtp" -> 1 [] s = "extrx" -> 2 [] s = "app" -> 3]
MCTaskPriority == [s \in Source |-> IF s = "app" THEN 0 ELSE 2]
=============================================================================
