---------------------------- MODULE TaskDelivery ----------------------------
(***************************************************************************)
(* What the task queue and its workers promise to the code that enqueues:  *)
(* every task that was submitted is settled, and a task is retired         *)
(* (taken off the queue for good) only when its handler has completed      *)
(* under the task's idempotency key.  A task that never got that far is    *)
(* buried in the dead-letter queue, where it can still be inspected.       *)
(* Nothing is said of how often a handler runs: delivery is at least once. *)
(*                                                                         *)
(* TaskQueue implements this specification.                                *)
(***************************************************************************)
CONSTANTS Messages,  \* the task messages that may ever be submitted
          Keys,      \* idempotency keys
          KeyOf      \* the idempotency key each message carries

VARIABLES state,     \* what became of each message
          done       \* keys under which a handler has completed

vars == <<state, done>>

Settled == {"retired", "buried"}

TypeOK == /\ state \in [Messages -> {"unsent", "queued"} \cup Settled]
          /\ done \subseteq Keys

Init == /\ state = [m \in Messages |-> "unsent"]
        /\ done = {}

(* Queue.enqueue: the caller hands the message over. *)
Submit(m) == /\ state[m] = "unsent"
             /\ state' = [state EXCEPT ![m] = "queued"]
             /\ UNCHANGED done

(* A handler completes.  Its message may already have been buried, or       *)
(* retired by another delivery: a delivery that started goes on running.    *)
Complete(m) == /\ state[m] # "unsent"
               /\ done' = done \cup {KeyOf[m]}
               /\ UNCHANGED state

(* The messages of S leave the queue: each of their tasks has been done.    *)
Retire(S) == /\ \A m \in S : state[m] = "queued" /\ KeyOf[m] \in done
             /\ state' = [m \in Messages |-> IF m \in S THEN "retired" ELSE state[m]]
             /\ UNCHANGED done

(* The queue gives up on a message. *)
Bury(m) == /\ state[m] = "queued"
           /\ state' = [state EXCEPT ![m] = "buried"]
           /\ UNCHANGED done

Next == \/ \E m \in Messages : Submit(m) \/ Complete(m) \/ Bury(m)
        \/ \E S \in SUBSET Messages : Retire(S)

Settle(m) == \/ Bury(m)
             \/ \E S \in SUBSET Messages : m \in S /\ Retire(S)

SafetySpec == Init /\ [][Next]_vars

Spec == SafetySpec /\ \A m \in Messages : WF_vars(Settle(m))
=============================================================================
