----------------------------- MODULE TaskQueue ------------------------------
(***************************************************************************)
(* The task queue of career-copilot: one SQS queue with its dead-letter    *)
(* queue (queue/bootstrap.py), the DynamoDB table of processed idempotency *)
(* keys (workers/idempotency.py), and the processes that work the queue:   *)
(* poll loops (workers/runner.py) and Lambda invocations                   *)
(* (workers/lambda_handler.py), both through dispatch (workers/dispatch.py)*)
(*                                                                         *)
(* Every await of the code is a step boundary: other workers, the          *)
(* visibility timeout and crashes may come between two steps of a worker.  *)
(* What a handler does is left open here; ResumeProcessing and             *)
(* JobSourceFetch put the two real handlers inside the "handle" state.     *)
(***************************************************************************)
EXTENDS Naturals, FiniteSets

CONSTANTS
    Messages,    \* SQS messages
    Keys,        \* idempotency keys
    KeyOf,       \* the key in each message's body; SQS may hold two copies of a body
    Known,       \* messages that parse and whose task name has a registered handler
    Pollers,     \* processes that run runner.run
    Lambdas,     \* concurrent invocations of lambda_handler
    MaxReceive,  \* maxReceiveCount of the redrive policy (_MAX_RECEIVE = 3)
    BatchSize,   \* settings.worker_batch_size / the event source's batch size
    NoMsg,       \* "no message in hand"
    NoOwner      \* "never received"

Workers == Pollers \cup Lambdas

ASSUME QueueAssumption ==
    /\ KeyOf \in [Messages -> Keys]
    /\ Known \subseteq Messages
    /\ Pollers \cap Lambdas = {}
    /\ MaxReceive \in Nat \ {0}
    /\ BatchSize \in Nat \ {0}
    /\ NoMsg \notin Messages
    /\ NoOwner \notin Workers

VARIABLES
    queue,      \* where each message is
    receives,   \* ApproximateReceiveCount of each message
    owner,      \* who holds the latest receipt handle of each message
    processed,  \* the keys in the processed-tasks table
    lagging,    \* the keys in a copy of it that reads may still be served from
    pc,         \* what each worker does next
    cur,        \* the message it is dispatching
    batch,      \* the messages of its batch it has not looked at yet
    acked,      \* Lambda only: the messages not reported in batchItemFailures
    \* history of what happened, read by no action's guard
    ran,        \* keys whose handler has completed
    reran,      \* keys whose handler has completed at least twice
    gap         \* keys the idempotency guard had a hole for: see RerunOnlyThroughGap

sqsVars  == <<queue, receives, owner>>
keyVars  == <<processed, lagging>>
wrkVars  == <<pc, cur, batch, acked>>
histVars == <<ran, reran, gap>>
vars     == <<queue, receives, owner, processed, lagging, pc, cur, batch, acked, ran, reran, gap>>

Running == {"handle", "mark"}

TypeOK ==
    /\ queue \in [Messages -> {"unsent", "visible", "inflight", "dlq", "deleted"}]
    /\ receives \in [Messages -> 0..MaxReceive]
    /\ owner \in [Messages -> Workers \cup {NoOwner}]
    /\ processed \subseteq Keys /\ lagging \subseteq Keys
    /\ pc \in [Workers -> {"idle", "loop", "check", "ack"} \cup Running]
    /\ cur \in [Workers -> Messages \cup {NoMsg}]
    /\ batch \in [Workers -> SUBSET Messages]
    /\ acked \in [Workers -> SUBSET Messages]
    /\ ran \subseteq Keys /\ reran \subseteq Keys /\ gap \subseteq Keys
    /\ \A w \in Workers : pc[w] \in {"check", "ack"} \cup Running <=> cur[w] \in Messages

Init ==
    /\ queue = [m \in Messages |-> "unsent"]
    /\ receives = [m \in Messages |-> 0]
    /\ owner = [m \in Messages |-> NoOwner]
    /\ processed = {} /\ lagging = {}
    /\ pc = [w \in Workers |-> "idle"]
    /\ cur = [w \in Workers |-> NoMsg]
    /\ batch = [w \in Workers |-> {}]
    /\ acked = [w \in Workers |-> {}]
    /\ ran = {} /\ reran = {} /\ gap = {}

Key(w) == KeyOf[cur[w]]

-----------------------------------------------------------------------------
(* The queue. *)

(* SqsQueue.enqueue: send_message makes the body visible to the workers. *)
Enqueue(m) ==
    /\ queue[m] = "unsent"
    /\ queue' = [queue EXCEPT ![m] = "visible"]
    /\ UNCHANGED <<receives, owner, keyVars, wrkVars, histVars>>

(* receive_message by an idle worker (for Lambda, by the event source): a   *)
(* batch of visible messages, in no particular order.  Receiving hides a    *)
(* message, counts the delivery and makes earlier receipt handles stale.    *)
Receive_NoRedrivePolicy(w, S) ==
    /\ pc[w] = "idle"
    /\ S # {} /\ Cardinality(S) <= BatchSize
    /\ \A m \in S : queue[m] = "visible"
    /\ queue' = [m \in Messages |-> IF m \in S THEN "inflight" ELSE queue[m]]
    /\ receives' = [m \in Messages |-> IF m \in S THEN receives[m] + 1 ELSE receives[m]]
    /\ owner' = [m \in Messages |-> IF m \in S THEN w ELSE owner[m]]
    /\ batch' = [batch EXCEPT ![w] = S]
    /\ pc' = [pc EXCEPT ![w] = "loop"]
    /\ UNCHANGED <<keyVars, cur, acked, histVars>>

Receive(w, S) ==
    /\ pc[w] = "idle"
    /\ S # {} /\ Cardinality(S) <= BatchSize
    /\ \A m \in S : queue[m] = "visible" /\ receives[m] < MaxReceive
    /\ queue' = [m \in Messages |-> IF m \in S THEN "inflight" ELSE queue[m]]
    /\ receives' = [m \in Messages |-> IF m \in S THEN receives[m] + 1 ELSE receives[m]]
    /\ owner' = [m \in Messages |-> IF m \in S THEN w ELSE owner[m]]
    /\ batch' = [batch EXCEPT ![w] = S]
    /\ pc' = [pc EXCEPT ![w] = "loop"]
    /\ UNCHANGED <<keyVars, cur, acked, histVars>>

(* The visibility timeout of a message in flight runs out, whether or not   *)
(* a worker still has it: a batch is processed one message after another,   *)
(* and its last message waits for all the handlers before it.               *)
VisibilityExpires(m) ==
    /\ queue[m] = "inflight"
    /\ queue' = [queue EXCEPT ![m] = "visible"]
    /\ UNCHANGED <<receives, owner, keyVars, wrkVars, histVars>>

(* The redrive policy: instead of one delivery more than maxReceiveCount.   *)
Redrive_OffByOne(m) ==
    /\ queue[m] = "visible" /\ receives[m] > MaxReceive
    /\ queue' = [queue EXCEPT ![m] = "dlq"]
    /\ UNCHANGED <<receives, owner, keyVars, wrkVars, histVars>>

Redrive(m) ==
    /\ queue[m] = "visible" /\ receives[m] = MaxReceive
    /\ queue' = [queue EXCEPT ![m] = "dlq"]
    /\ UNCHANGED <<receives, owner, keyVars, wrkVars, histVars>>

(* DynamoDB's TTL drops a processed key after a day. *)
KeyExpires(k) ==
    /\ k \in processed
    /\ processed' = processed \ {k}
    /\ gap' = gap \cup {k}
    /\ UNCHANGED <<sqsVars, lagging, wrkVars, ran, reran>>

(* The copy that eventually consistent reads may be served from catches up. *)
CatchUp(k) ==
    /\ \/ k \in processed \ lagging /\ lagging' = lagging \cup {k}
       \/ k \in lagging \ processed /\ lagging' = lagging \ {k}
    /\ UNCHANGED <<sqsVars, processed, wrkVars, histVars>>

(* w deletes the messages of S.  A delete with the latest receipt handle    *)
(* always works, one with a stale handle SQS may ignore; a message in the   *)
(* dead-letter queue is out of reach of either.                             *)
Delete(w, S) ==
    \E D \in SUBSET S :
        /\ \A m \in S : owner[m] = w => m \in D
        /\ queue' = [m \in Messages |-> IF m \in D /\ queue[m] \in {"visible", "inflight"}
                                        THEN "deleted" ELSE queue[m]]

-----------------------------------------------------------------------------
(* A worker goes through its batch: for each message, dispatch.             *)

To(w, state) == pc' = [pc EXCEPT ![w] = state]
Drop(w)      == cur' = [cur EXCEPT ![w] = NoMsg]

(* Take the next message of the batch; its handler exists. *)
Take(w, m) ==
    /\ pc[w] = "loop" /\ m \in batch[w] /\ m \in Known
    /\ batch' = [batch EXCEPT ![w] = @ \ {m}]
    /\ cur' = [cur EXCEPT ![w] = m]
    /\ To(w, "check")
    /\ UNCHANGED <<sqsVars, keyVars, acked, histVars>>

(* from_body or get_handler fails: dispatch raises before it looks at the   *)
(* idempotency store, and the message is left to its visibility timeout.    *)
Reject(w, m) ==
    /\ pc[w] = "loop" /\ m \in batch[w] /\ m \notin Known
    /\ batch' = [batch EXCEPT ![w] = @ \ {m}]
    /\ UNCHANGED <<sqsVars, keyVars, pc, cur, acked, histVars>>

(* store.seen finds the key, in the table or in a copy that lags behind it  *)
(* (get_item does not ask for a consistent read): dispatch returns, the     *)
(* message counts as handled.                                               *)
Skip(w) ==
    /\ pc[w] = "check" /\ Key(w) \in processed \cup lagging
    /\ To(w, "ack")
    /\ UNCHANGED <<sqsVars, keyVars, cur, batch, acked, histVars>>

(* Running w's handler now leaves the guard open: another worker is between *)
(* its own seen and mark for the same key, or the key is marked and the     *)
(* copy does not show it yet.                                               *)
Unguarded(w) ==
    \/ \E v \in Workers \ {w} : pc[v] \in Running /\ Key(v) = Key(w)
    \/ Key(w) \in processed \ lagging

(* store.seen does not find the key in what it reads: run the handler.      *)
Start_NoSeen(w) ==
    /\ pc[w] = "check"
    /\ gap' = IF Unguarded(w) THEN gap \cup {Key(w)} ELSE gap
    /\ To(w, "handle")
    /\ UNCHANGED <<sqsVars, keyVars, cur, batch, acked, ran, reran>>

Start(w) ==
    /\ pc[w] = "check" /\ Key(w) \notin processed \cap lagging
    /\ gap' = IF Unguarded(w) THEN gap \cup {Key(w)} ELSE gap
    /\ To(w, "handle")
    /\ UNCHANGED <<sqsVars, keyVars, cur, batch, acked, ran, reran>>

(* The handler returns. *)
HandlerReturns(w) ==
    /\ pc[w] = "handle"
    /\ ran' = ran \cup {Key(w)}
    /\ reran' = reran \cup (ran \cap {Key(w)})
    /\ To(w, "mark")
    /\ UNCHANGED <<sqsVars, keyVars, cur, batch, acked, gap>>

(* The handler raises: the message is left, or goes to batchItemFailures.   *)
HandlerRaises_Acked(w) ==
    /\ pc[w] = "handle"
    /\ To(w, "ack")
    /\ UNCHANGED <<sqsVars, keyVars, cur, batch, acked, histVars>>

HandlerRaises(w) ==
    /\ pc[w] = "handle"
    /\ To(w, "loop") /\ Drop(w)
    /\ UNCHANGED <<sqsVars, keyVars, batch, acked, histVars>>

(* store.mark writes the key. *)
Mark(w) ==
    /\ pc[w] = "mark"
    /\ processed' = processed \cup {Key(w)}
    /\ To(w, "ack")
    /\ UNCHANGED <<sqsVars, lagging, cur, batch, acked, histVars>>

(* The DynamoDB call of seen or mark raises.  A put_item that times out may *)
(* have been applied all the same.                                          *)
StoreRaises(w) ==
    /\ \/ pc[w] = "check" /\ UNCHANGED <<processed, gap>>
       \/ /\ pc[w] = "mark"
          /\ processed' \in {processed, processed \cup {Key(w)}}
          /\ gap' = gap \cup {Key(w)}
    /\ To(w, "loop") /\ Drop(w)
    /\ UNCHANGED <<sqsVars, lagging, batch, acked, ran, reran>>

(* dispatch returned: the poll loop deletes the message, Lambda leaves it   *)
(* out of the failures it will report.                                      *)
Ack(w) ==
    /\ pc[w] = "ack"
    /\ \/ /\ w \in Pollers
          /\ Delete(w, {cur[w]})
          /\ UNCHANGED acked
       \/ /\ w \in Lambdas
          /\ acked' = [acked EXCEPT ![w] = @ \cup {cur[w]}]
          /\ UNCHANGED queue
    /\ To(w, "loop") /\ Drop(w)
    /\ UNCHANGED <<receives, owner, keyVars, batch, histVars>>

(* The batch is done.  After a Lambda invocation the event source deletes   *)
(* every message the response does not name as failed.                      *)
EndBatch_NoFailuresReported(w) ==
    /\ pc[w] = "loop" /\ batch[w] = {}
    /\ queue' = [m \in Messages |-> IF owner[m] = w /\ queue[m] = "inflight"
                                    THEN "deleted" ELSE queue[m]]
    /\ To(w, "idle")
    /\ acked' = [acked EXCEPT ![w] = {}]
    /\ UNCHANGED <<receives, owner, keyVars, cur, batch, histVars>>

EndBatch(w) ==
    /\ pc[w] = "loop" /\ batch[w] = {}
    /\ Delete(w, acked[w])
    /\ To(w, "idle")
    /\ acked' = [acked EXCEPT ![w] = {}]
    /\ UNCHANGED <<receives, owner, keyVars, cur, batch, histVars>>

(* The process dies: killed, out of time, or brought down by an exception   *)
(* that _poll_once does not catch (delete_message is outside its try).  It  *)
(* comes back with nothing in hand.                                         *)
Crash(w) ==
    /\ pc[w] # "idle"
    /\ gap' = IF pc[w] = "mark" THEN gap \cup {Key(w)} ELSE gap
    /\ To(w, "idle") /\ Drop(w)
    /\ batch' = [batch EXCEPT ![w] = {}]
    /\ acked' = [acked EXCEPT ![w] = {}]
    /\ UNCHANGED <<sqsVars, keyVars, ran, reran>>

-----------------------------------------------------------------------------
(* One step of worker w that its own code takes; a crash is not one.        *)
WorkerStep(w) ==
    \/ \E S \in SUBSET Messages : Receive(w, S)
    \/ \E m \in Messages : Take(w, m) \/ Reject(w, m)
    \/ Skip(w) \/ Start(w)
    \/ HandlerReturns(w) \/ HandlerRaises(w)
    \/ Mark(w) \/ StoreRaises(w)
    \/ Ack(w) \/ EndBatch(w)

Next ==
    \/ \E m \in Messages : Enqueue(m) \/ VisibilityExpires(m) \/ Redrive(m)
    \/ \E k \in Keys : KeyExpires(k) \/ CatchUp(k)
    \/ \E w \in Workers : WorkerStep(w) \/ Crash(w)

(* Workers keep polling and their handlers end (every call a handler makes  *)
(* has a timeout); SQS keeps its clocks.  Nobody has to enqueue.            *)
Fairness ==
    /\ \A w \in Workers : WF_vars(WorkerStep(w))
    /\ \A m \in Messages : WF_vars(VisibilityExpires(m)) /\ WF_vars(Redrive(m))

SafetySpec == Init /\ [][Next]_vars
Spec == SafetySpec /\ Fairness

-----------------------------------------------------------------------------
(* A message leaves the queue for good only after its handler has completed *)
(* for its idempotency key: whatever crashes, times out or is delivered     *)
(* twice, the worker never deletes a task that was not done.                *)
RetiredOnlyAfterRun ==
    \A m \in Messages : queue[m] = "deleted" => KeyOf[m] \in ran

(* idempotency.py: "records a key after a handler succeeds and skips keys   *)
(* it has already seen.  Two concurrent first-deliveries can still both     *)
(* run".  A handler completes twice for a key only if the guard had one of  *)
(* four holes: two runs overlapped, the mark was lost to a crash or a store *)
(* error after the handler returned, the key outlived its TTL, or a read    *)
(* was answered before it had caught up with the mark.  A redelivery after  *)
(* a mark that reads show is always skipped.                                *)
RerunOnlyThroughGap == reran \subseteq gap

(* Every message that was enqueued is deleted or dead-lettered: no schedule *)
(* of crashes and lapsed timeouts lets one circulate for ever, and a poison *)
(* message cannot hold up the others of its batch.                          *)
EverySubmissionSettles ==
    \A m \in Messages :
        queue[m] \in {"visible", "inflight"} ~> queue[m] \in {"deleted", "dlq"}

(* The queue and its workers keep the promise of TaskDelivery: a deleted    *)
(* message is a retired task, one in the dead-letter queue a buried task.   *)
DeliveryState(m) == CASE queue[m] = "unsent"  -> "unsent"
                      [] queue[m] = "deleted" -> "retired"
                      [] queue[m] = "dlq"     -> "buried"
                      [] OTHER                -> "queued"

Delivery == INSTANCE TaskDelivery WITH
    state <- [m \in Messages |-> DeliveryState(m)], done <- ran

ImplementsTaskDelivery == Delivery!Spec
=============================================================================
