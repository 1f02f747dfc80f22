----------------------------- MODULE MCMachines -----------------------------
(* Four parts of the machines above the services, which share nothing: a    *)
(* behaviour explores the network of a GNEX32 title, the outbox of handset  *)
(* actions that every host reads, the threads of an SKVM title, or the task *)
(* table of a KTF title.                                                    *)
EXTENDS Transport, Outbox, Threads, KTFTasks

VARIABLE part

\* Cards and timers together reach the most states: one call fewer.
MCMaxCalls == [U \in Titles |-> IF U = {"cards", "timers"} THEN 3 ELSE 4]

MCInit ==
  /\ TransportInit /\ OutboxInit /\ ThreadsInit /\ TasksInit
  /\ \/ part \in {"network", "actions", "threads"} /\ uses = CHOOSE U \in Titles : TRUE
     \/ part = "tasks"

MCNext ==
  /\ UNCHANGED part
  /\ \/ part = "network" /\ TransportNext /\ UNCHANGED <<outboxVars, threadVars, taskVars>>
     \/ part = "actions" /\ OutboxNext /\ UNCHANGED <<transportVars, threadVars, taskVars>>
     \/ part = "threads" /\ ThreadsNext /\ UNCHANGED <<transportVars, outboxVars, taskVars>>
     \/ part = "tasks" /\ TasksNext /\ UNCHANGED <<transportVars, outboxVars, threadVars>>

MCSpec == MCInit /\ [][MCNext]_<<transportVars, outboxVars, threadVars, taskVars, part>>
=============================================================================
