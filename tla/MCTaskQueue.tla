---------------------------- MODULE MCTaskQueue -----------------------------
(* An instance of TaskQueue: a task (m1) and a message (m2) whose task name *)
(* no handler is registered for.                                           *)
EXTENDS TaskQueue

CONSTANTS m1, m2, k1, k2

MCKeyOf == [m \in Messages |-> IF m = m1 THEN k1 ELSE k2]
=============================================================================
