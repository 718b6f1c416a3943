-------------------------- MODULE TaskQueueProofs ---------------------------
(***************************************************************************)
(* Proofs about TaskQueue, for any set of messages, keys and workers and   *)
(* any maxReceiveCount and batch size.                                     *)
(***************************************************************************)
EXTENDS TaskQueue, TLAPS

(* What a worker has in hand was enqueued.                                  *)
HeldWasSent ==
    \A w \in Workers :
        /\ cur[w] \in Messages => queue[cur[w]] # "unsent"
        /\ \A m \in batch[w] \cup acked[w] : queue[m] # "unsent"

(* Every trace of success - a processed key, in the table or in its lagging *)
(* copy, a pending mark or ack, an unreported Lambda message, a deleted     *)
(* message - follows a completed run.                                       *)
SuccessFollowsRun ==
    /\ processed \cup lagging \subseteq ran
    /\ \A w \in Workers : pc[w] \in {"mark", "ack"} => Key(w) \in ran
    /\ \A w \in Workers : \A m \in acked[w] : KeyOf[m] \in ran
    /\ RetiredOnlyAfterRun

(* A key that ran is known to the guard, is about to be, or has a hole.     *)
RanIsGuarded ==
    \A k \in ran : \/ k \in processed \cup gap
                   \/ \E w \in Workers : pc[w] = "mark" /\ Key(w) = k

(* Two runs for one key overlap only through a hole; so does a run for a    *)
(* key that already ran.                                                    *)
OverlapIsGap ==
    /\ \A v, w \in Workers :
          (v # w /\ pc[v] \in Running /\ pc[w] \in Running /\ Key(v) = Key(w))
             => Key(w) \in gap
    /\ \A w \in Workers : (pc[w] = "handle" /\ Key(w) \in ran) => Key(w) \in gap

GuardInv == RanIsGuarded /\ OverlapIsGap /\ RerunOnlyThroughGap

QueueInv == TypeOK /\ HeldWasSent /\ SuccessFollowsRun /\ GuardInv

-----------------------------------------------------------------------------
(* The variables keep their types.  TaskQueue.TypeOK is the type invariant  *)
(* the runs check; it is inductive by itself.                               *)
LEMMA TypeInit == Init => TypeOK
  BY QueueAssumption DEF Init, TypeOK, Running

(* No step of the queue, a worker or a clock leaves the types.              *)
LEMMA TypeStep == TypeOK /\ [Next]_vars => TypeOK'
<1>. SUFFICES ASSUME TypeOK, [Next]_vars PROVE TypeOK'
  OBVIOUS
<1>. USE QueueAssumption DEF TypeOK, Running, To, Drop, sqsVars, keyVars, wrkVars, histVars
<1>1. ASSUME NEW m \in Messages, Enqueue(m) PROVE TypeOK'
  BY <1>1 DEF Enqueue
<1>2. ASSUME NEW m \in Messages, VisibilityExpires(m) PROVE TypeOK'
  BY <1>2 DEF VisibilityExpires
<1>3. ASSUME NEW m \in Messages, Redrive(m) PROVE TypeOK'
  BY <1>3 DEF Redrive
<1>4. ASSUME NEW k \in Keys, KeyExpires(k) \/ CatchUp(k) PROVE TypeOK'
  BY <1>4 DEF KeyExpires, CatchUp
<1>5. ASSUME NEW w \in Workers, NEW S \in SUBSET Messages, Receive(w, S) PROVE TypeOK'
  BY <1>5 DEF Receive
<1>6. ASSUME NEW w \in Workers, NEW m \in Messages, Take(w, m) PROVE TypeOK'
  BY <1>6 DEF Take
<1>7. ASSUME NEW w \in Workers, NEW m \in Messages, Reject(w, m) PROVE TypeOK'
  BY <1>7 DEF Reject
<1>8. ASSUME NEW w \in Workers, Skip(w) PROVE TypeOK'
  BY <1>8 DEF Skip
<1>9. ASSUME NEW w \in Workers, Start(w) PROVE TypeOK'
  BY <1>9 DEF Start, Unguarded, Key
<1>10. ASSUME NEW w \in Workers, HandlerReturns(w) PROVE TypeOK'
  BY <1>10 DEF HandlerReturns, Key
<1>11. ASSUME NEW w \in Workers, HandlerRaises(w) PROVE TypeOK'
  BY <1>11 DEF HandlerRaises
<1>12. ASSUME NEW w \in Workers, Mark(w) PROVE TypeOK'
  BY <1>12 DEF Mark, Key
<1>13. ASSUME NEW w \in Workers, StoreRaises(w) PROVE TypeOK'
  BY <1>13 DEF StoreRaises, Key
<1>14. ASSUME NEW w \in Workers, Ack(w) PROVE TypeOK'
  BY <1>14 DEF Ack, Delete
<1>15. ASSUME NEW w \in Workers, EndBatch(w) PROVE TypeOK'
  BY <1>15 DEF EndBatch, Delete
<1>16. ASSUME NEW w \in Workers, Crash(w) PROVE TypeOK'
  BY <1>16 DEF Crash, Key
<1>17. CASE UNCHANGED vars
  BY <1>17 DEF vars
<1>. QED
  BY <1>1, <1>2, <1>3, <1>4, <1>5, <1>6, <1>7, <1>8, <1>9, <1>10, <1>11, <1>12,
     <1>13, <1>14, <1>15, <1>16, <1>17 DEF Next, WorkerStep

(* THEOREM: every reachable state is well typed, whatever the constants.    *)
THEOREM QueueTypeCorrect == Spec => []TypeOK
<1>1. Init /\ [][Next]_vars => []TypeOK
  BY TypeInit, TypeStep, PTL
<1>. QED
  BY <1>1, PTL DEF Spec, SafetySpec

(* Nothing in a worker's hands goes back to being unsent.                   *)
LEMMA HeldStep == TypeOK /\ HeldWasSent /\ [Next]_vars => HeldWasSent'
<1>. SUFFICES ASSUME TypeOK, HeldWasSent, [Next]_vars PROVE HeldWasSent'
  OBVIOUS
<1>. USE QueueAssumption DEF TypeOK, Running, To, Drop, Key, sqsVars, keyVars, wrkVars, histVars, HeldWasSent
<1>1. ASSUME NEW m \in Messages, Enqueue(m) PROVE HeldWasSent'
  BY <1>1 DEF Enqueue
<1>2. ASSUME NEW m \in Messages, VisibilityExpires(m) PROVE HeldWasSent'
  BY <1>2 DEF VisibilityExpires
<1>3. ASSUME NEW m \in Messages, Redrive(m) PROVE HeldWasSent'
  BY <1>3 DEF Redrive
<1>4. ASSUME NEW k \in Keys, KeyExpires(k) \/ CatchUp(k) PROVE HeldWasSent'
  BY <1>4 DEF KeyExpires, CatchUp
<1>5. ASSUME NEW w \in Workers, NEW S \in SUBSET Messages, Receive(w, S) PROVE HeldWasSent'
  BY <1>5 DEF Receive
<1>6. ASSUME NEW w \in Workers, NEW m \in Messages, Take(w, m) PROVE HeldWasSent'
  BY <1>6 DEF Take
<1>7. ASSUME NEW w \in Workers, NEW m \in Messages, Reject(w, m) PROVE HeldWasSent'
  BY <1>7 DEF Reject
<1>8. ASSUME NEW w \in Workers, Skip(w) PROVE HeldWasSent'
  BY <1>8 DEF Skip
<1>9. ASSUME NEW w \in Workers, Start(w) PROVE HeldWasSent'
  BY <1>9 DEF Start, Unguarded
<1>10. ASSUME NEW w \in Workers, HandlerReturns(w) PROVE HeldWasSent'
  BY <1>10 DEF HandlerReturns
<1>11. ASSUME NEW w \in Workers, HandlerRaises(w) PROVE HeldWasSent'
  BY <1>11 DEF HandlerRaises
<1>12. ASSUME NEW w \in Workers, Mark(w) PROVE HeldWasSent'
  BY <1>12 DEF Mark
<1>13. ASSUME NEW w \in Workers, StoreRaises(w) PROVE HeldWasSent'
  BY <1>13 DEF StoreRaises
<1>14. ASSUME NEW w \in Workers, Ack(w) PROVE HeldWasSent'
  BY <1>14 DEF Ack, Delete
<1>15. ASSUME NEW w \in Workers, EndBatch(w) PROVE HeldWasSent'
  BY <1>15 DEF EndBatch, Delete
<1>16. ASSUME NEW w \in Workers, Crash(w) PROVE HeldWasSent'
  BY <1>16 DEF Crash
<1>17. CASE UNCHANGED vars
  BY <1>17 DEF vars
<1>. QED
  BY <1>1, <1>2, <1>3, <1>4, <1>5, <1>6, <1>7, <1>8, <1>9, <1>10,
     <1>11, <1>12, <1>13, <1>14, <1>15, <1>16, <1>17 DEF Next, WorkerStep


(* Success is recorded only behind a completed run.                         *)
LEMMA SuccessStep == TypeOK /\ HeldWasSent /\ SuccessFollowsRun /\ [Next]_vars => SuccessFollowsRun'
<1>. SUFFICES ASSUME TypeOK, HeldWasSent, SuccessFollowsRun, [Next]_vars PROVE SuccessFollowsRun'
  OBVIOUS
<1>. USE QueueAssumption DEF TypeOK, Running, To, Drop, Key, sqsVars, keyVars, wrkVars, histVars, SuccessFollowsRun, RetiredOnlyAfterRun
<1>1. ASSUME NEW m \in Messages, Enqueue(m) PROVE SuccessFollowsRun'
  BY <1>1 DEF Enqueue
<1>2. ASSUME NEW m \in Messages, VisibilityExpires(m) PROVE SuccessFollowsRun'
  BY <1>2 DEF VisibilityExpires
<1>3. ASSUME NEW m \in Messages, Redrive(m) PROVE SuccessFollowsRun'
  BY <1>3 DEF Redrive
<1>4. ASSUME NEW k \in Keys, KeyExpires(k) \/ CatchUp(k) PROVE SuccessFollowsRun'
  BY <1>4 DEF KeyExpires, CatchUp
<1>5. ASSUME NEW w \in Workers, NEW S \in SUBSET Messages, Receive(w, S) PROVE SuccessFollowsRun'
  BY <1>5 DEF Receive
<1>6. ASSUME NEW w \in Workers, NEW m \in Messages, Take(w, m) PROVE SuccessFollowsRun'
  BY <1>6 DEF Take
<1>7. ASSUME NEW w \in Workers, NEW m \in Messages, Reject(w, m) PROVE SuccessFollowsRun'
  BY <1>7 DEF Reject
<1>8. ASSUME NEW w \in Workers, Skip(w) PROVE SuccessFollowsRun'
  BY <1>8 DEF Skip
<1>9. ASSUME NEW w \in Workers, Start(w) PROVE SuccessFollowsRun'
  BY <1>9 DEF Start, Unguarded
<1>10. ASSUME NEW w \in Workers, HandlerReturns(w) PROVE SuccessFollowsRun'
  BY <1>10 DEF HandlerReturns
<1>11. ASSUME NEW w \in Workers, HandlerRaises(w) PROVE SuccessFollowsRun'
  BY <1>11 DEF HandlerRaises
<1>12. ASSUME NEW w \in Workers, Mark(w) PROVE SuccessFollowsRun'
  BY <1>12 DEF Mark
<1>13. ASSUME NEW w \in Workers, StoreRaises(w) PROVE SuccessFollowsRun'
  BY <1>13 DEF StoreRaises
<1>14. ASSUME NEW w \in Workers, Ack(w) PROVE SuccessFollowsRun'
  BY <1>14 DEF Ack, Delete
<1>15. ASSUME NEW w \in Workers, EndBatch(w) PROVE SuccessFollowsRun'
  BY <1>15 DEF EndBatch, Delete
<1>16. ASSUME NEW w \in Workers, Crash(w) PROVE SuccessFollowsRun'
  BY <1>16 DEF Crash
<1>17. CASE UNCHANGED vars
  BY <1>17 DEF vars
<1>. QED
  BY <1>1, <1>2, <1>3, <1>4, <1>5, <1>6, <1>7, <1>8, <1>9, <1>10,
     <1>11, <1>12, <1>13, <1>14, <1>15, <1>16, <1>17 DEF Next, WorkerStep


(* A worker leaves the mark state by marking its key or by opening a gap.   *)
LEMMA RanStep == TypeOK /\ RanIsGuarded /\ [Next]_vars => RanIsGuarded'
<1>. SUFFICES ASSUME TypeOK, RanIsGuarded, [Next]_vars PROVE RanIsGuarded'
  OBVIOUS
<1>. USE QueueAssumption DEF TypeOK, Running, To, Drop, Key, sqsVars, keyVars, wrkVars, histVars, RanIsGuarded
<1>1. ASSUME NEW m \in Messages, Enqueue(m) PROVE RanIsGuarded'
  BY <1>1 DEF Enqueue
<1>2. ASSUME NEW m \in Messages, VisibilityExpires(m) PROVE RanIsGuarded'
  BY <1>2 DEF VisibilityExpires
<1>3. ASSUME NEW m \in Messages, Redrive(m) PROVE RanIsGuarded'
  BY <1>3 DEF Redrive
<1>4. ASSUME NEW k \in Keys, KeyExpires(k) \/ CatchUp(k) PROVE RanIsGuarded'
  BY <1>4 DEF KeyExpires, CatchUp
<1>5. ASSUME NEW w \in Workers, NEW S \in SUBSET Messages, Receive(w, S) PROVE RanIsGuarded'
  BY <1>5 DEF Receive
<1>6. ASSUME NEW w \in Workers, NEW m \in Messages, Take(w, m) PROVE RanIsGuarded'
  BY <1>6 DEF Take
<1>7. ASSUME NEW w \in Workers, NEW m \in Messages, Reject(w, m) PROVE RanIsGuarded'
  BY <1>7 DEF Reject
<1>8. ASSUME NEW w \in Workers, Skip(w) PROVE RanIsGuarded'
  BY <1>8 DEF Skip
<1>9. ASSUME NEW w \in Workers, Start(w) PROVE RanIsGuarded'
  BY <1>9 DEF Start, Unguarded
<1>10. ASSUME NEW w \in Workers, HandlerReturns(w) PROVE RanIsGuarded'
  BY <1>10 DEF HandlerReturns
<1>11. ASSUME NEW w \in Workers, HandlerRaises(w) PROVE RanIsGuarded'
  BY <1>11 DEF HandlerRaises
<1>12. ASSUME NEW w \in Workers, Mark(w) PROVE RanIsGuarded'
  BY <1>12 DEF Mark
<1>13. ASSUME NEW w \in Workers, StoreRaises(w) PROVE RanIsGuarded'
  BY <1>13 DEF StoreRaises
<1>14. ASSUME NEW w \in Workers, Ack(w) PROVE RanIsGuarded'
  BY <1>14 DEF Ack, Delete
<1>15. ASSUME NEW w \in Workers, EndBatch(w) PROVE RanIsGuarded'
  BY <1>15 DEF EndBatch, Delete
<1>16. ASSUME NEW w \in Workers, Crash(w) PROVE RanIsGuarded'
  BY <1>16 DEF Crash
<1>17. CASE UNCHANGED vars
  BY <1>17 DEF vars
<1>. QED
  BY <1>1, <1>2, <1>3, <1>4, <1>5, <1>6, <1>7, <1>8, <1>9, <1>10,
     <1>11, <1>12, <1>13, <1>14, <1>15, <1>16, <1>17 DEF Next, WorkerStep


(* A run that starts beside another, or behind one that is not marked yet   *)
(* or whose mark its read misses, opens a gap as it starts.                 *)
LEMMA OverlapStep == TypeOK /\ RanIsGuarded /\ OverlapIsGap /\ [Next]_vars => OverlapIsGap'
<1>. SUFFICES ASSUME TypeOK, RanIsGuarded, OverlapIsGap, [Next]_vars PROVE OverlapIsGap'
  OBVIOUS
<1>. USE QueueAssumption DEF TypeOK, Running, To, Drop, Key, sqsVars, keyVars, wrkVars, histVars, RanIsGuarded, OverlapIsGap
<1>1. ASSUME NEW m \in Messages, Enqueue(m) PROVE OverlapIsGap'
  BY <1>1 DEF Enqueue
<1>2. ASSUME NEW m \in Messages, VisibilityExpires(m) PROVE OverlapIsGap'
  BY <1>2 DEF VisibilityExpires
<1>3. ASSUME NEW m \in Messages, Redrive(m) PROVE OverlapIsGap'
  BY <1>3 DEF Redrive
<1>4. ASSUME NEW k \in Keys, KeyExpires(k) \/ CatchUp(k) PROVE OverlapIsGap'
  BY <1>4 DEF KeyExpires, CatchUp
<1>5. ASSUME NEW w \in Workers, NEW S \in SUBSET Messages, Receive(w, S) PROVE OverlapIsGap'
  BY <1>5 DEF Receive
<1>6. ASSUME NEW w \in Workers, NEW m \in Messages, Take(w, m) PROVE OverlapIsGap'
  BY <1>6 DEF Take
<1>7. ASSUME NEW w \in Workers, NEW m \in Messages, Reject(w, m) PROVE OverlapIsGap'
  BY <1>7 DEF Reject
<1>8. ASSUME NEW w \in Workers, Skip(w) PROVE OverlapIsGap'
  BY <1>8 DEF Skip
<1>9. ASSUME NEW w \in Workers, Start(w) PROVE OverlapIsGap'
  BY <1>9 DEF Start, Unguarded
<1>10. ASSUME NEW w \in Workers, HandlerReturns(w) PROVE OverlapIsGap'
  BY <1>10 DEF HandlerReturns
<1>11. ASSUME NEW w \in Workers, HandlerRaises(w) PROVE OverlapIsGap'
  BY <1>11 DEF HandlerRaises
<1>12. ASSUME NEW w \in Workers, Mark(w) PROVE OverlapIsGap'
  BY <1>12 DEF Mark
<1>13. ASSUME NEW w \in Workers, StoreRaises(w) PROVE OverlapIsGap'
  BY <1>13 DEF StoreRaises
<1>14. ASSUME NEW w \in Workers, Ack(w) PROVE OverlapIsGap'
  BY <1>14 DEF Ack, Delete
<1>15. ASSUME NEW w \in Workers, EndBatch(w) PROVE OverlapIsGap'
  BY <1>15 DEF EndBatch, Delete
<1>16. ASSUME NEW w \in Workers, Crash(w) PROVE OverlapIsGap'
  BY <1>16 DEF Crash
<1>17. CASE UNCHANGED vars
  BY <1>17 DEF vars
<1>. QED
  BY <1>1, <1>2, <1>3, <1>4, <1>5, <1>6, <1>7, <1>8, <1>9, <1>10,
     <1>11, <1>12, <1>13, <1>14, <1>15, <1>16, <1>17 DEF Next, WorkerStep


(* A second completion comes from a run whose key had run before.           *)
LEMMA RerunStep == TypeOK /\ OverlapIsGap /\ RerunOnlyThroughGap /\ [Next]_vars => RerunOnlyThroughGap'
<1>. SUFFICES ASSUME TypeOK, OverlapIsGap, RerunOnlyThroughGap, [Next]_vars PROVE RerunOnlyThroughGap'
  OBVIOUS
<1>. USE QueueAssumption DEF TypeOK, Running, To, Drop, Key, sqsVars, keyVars, wrkVars, histVars, OverlapIsGap, RerunOnlyThroughGap
<1>1. ASSUME NEW m \in Messages, Enqueue(m) PROVE RerunOnlyThroughGap'
  BY <1>1 DEF Enqueue
<1>2. ASSUME NEW m \in Messages, VisibilityExpires(m) PROVE RerunOnlyThroughGap'
  BY <1>2 DEF VisibilityExpires
<1>3. ASSUME NEW m \in Messages, Redrive(m) PROVE RerunOnlyThroughGap'
  BY <1>3 DEF Redrive
<1>4. ASSUME NEW k \in Keys, KeyExpires(k) \/ CatchUp(k) PROVE RerunOnlyThroughGap'
  BY <1>4 DEF KeyExpires, CatchUp
<1>5. ASSUME NEW w \in Workers, NEW S \in SUBSET Messages, Receive(w, S) PROVE RerunOnlyThroughGap'
  BY <1>5 DEF Receive
<1>6. ASSUME NEW w \in Workers, NEW m \in Messages, Take(w, m) PROVE RerunOnlyThroughGap'
  BY <1>6 DEF Take
<1>7. ASSUME NEW w \in Workers, NEW m \in Messages, Reject(w, m) PROVE RerunOnlyThroughGap'
  BY <1>7 DEF Reject
<1>8. ASSUME NEW w \in Workers, Skip(w) PROVE RerunOnlyThroughGap'
  BY <1>8 DEF Skip
<1>9. ASSUME NEW w \in Workers, Start(w) PROVE RerunOnlyThroughGap'
  BY <1>9 DEF Start, Unguarded
<1>10. ASSUME NEW w \in Workers, HandlerReturns(w) PROVE RerunOnlyThroughGap'
  BY <1>10 DEF HandlerReturns
<1>11. ASSUME NEW w \in Workers, HandlerRaises(w) PROVE RerunOnlyThroughGap'
  BY <1>11 DEF HandlerRaises
<1>12. ASSUME NEW w \in Workers, Mark(w) PROVE RerunOnlyThroughGap'
  BY <1>12 DEF Mark
<1>13. ASSUME NEW w \in Workers, StoreRaises(w) PROVE RerunOnlyThroughGap'
  BY <1>13 DEF StoreRaises
<1>14. ASSUME NEW w \in Workers, Ack(w) PROVE RerunOnlyThroughGap'
  BY <1>14 DEF Ack, Delete
<1>15. ASSUME NEW w \in Workers, EndBatch(w) PROVE RerunOnlyThroughGap'
  BY <1>15 DEF EndBatch, Delete
<1>16. ASSUME NEW w \in Workers, Crash(w) PROVE RerunOnlyThroughGap'
  BY <1>16 DEF Crash
<1>17. CASE UNCHANGED vars
  BY <1>17 DEF vars
<1>. QED
  BY <1>1, <1>2, <1>3, <1>4, <1>5, <1>6, <1>7, <1>8, <1>9, <1>10,
     <1>11, <1>12, <1>13, <1>14, <1>15, <1>16, <1>17 DEF Next, WorkerStep


-----------------------------------------------------------------------------
(* The inductive invariant holds of the empty queue.                         *)
LEMMA InvInit == Init => QueueInv
  BY TypeInit, QueueAssumption
  DEF Init, QueueInv, HeldWasSent, SuccessFollowsRun, RetiredOnlyAfterRun, GuardInv,
      RanIsGuarded, OverlapIsGap, RerunOnlyThroughGap, Running

(* Each part of the invariant is kept by every step, given the other parts.  *)
LEMMA InvStep == QueueInv /\ [Next]_vars => QueueInv'
  BY TypeStep, HeldStep, SuccessStep, RanStep, OverlapStep, RerunStep DEF QueueInv, GuardInv

(* THEOREM: the conjunction the two theorems below follow from is invariant. *)
THEOREM QueueInvariant == Spec => []QueueInv
<1>1. Init /\ [][Next]_vars => []QueueInv
  BY InvInit, InvStep, PTL
<1>. QED
  BY <1>1, PTL DEF Spec, SafetySpec

(* THEOREM: no message is deleted before its handler completed for its key. *)
THEOREM NoTaskRetiredUnrun == Spec => []RetiredOnlyAfterRun
<1>1. QueueInv => RetiredOnlyAfterRun
  BY DEF QueueInv, SuccessFollowsRun
<1>. QED
  BY <1>1, QueueInvariant, PTL

(* THEOREM: a handler completes twice for a key only through an overlap, a  *)
(* lost mark, an expired key or a read that lags behind the mark.           *)
THEOREM NoRerunWithoutGap == Spec => []RerunOnlyThroughGap
<1>1. QueueInv => RerunOnlyThroughGap
  BY DEF QueueInv, GuardInv
<1>. QED
  BY <1>1, QueueInvariant, PTL

-----------------------------------------------------------------------------
(* The refinement of TaskDelivery, step by step.                            *)
LEMMA DeliveryInit == Init => Delivery!Init
  BY DEF Init, Delivery!Init, DeliveryState

(* Receiving, checking and marking stutter; a completed handler, a delete    *)
(* and a redrive are Complete, Retire and Bury.                              *)
LEMMA DeliveryStep == QueueInv /\ [Next]_vars => [Delivery!Next]_(Delivery!vars)
<1>. SUFFICES ASSUME QueueInv, [Next]_vars PROVE [Delivery!Next]_(Delivery!vars)
  OBVIOUS
<1>. USE DEF sqsVars, keyVars, wrkVars, histVars, To, Drop
<1>t. TypeOK /\ HeldWasSent /\ SuccessFollowsRun
  BY DEF QueueInv
<1>s. ASSUME UNCHANGED ran, \A m \in Messages : DeliveryState(m)' = DeliveryState(m)
      PROVE  UNCHANGED Delivery!vars
  BY <1>s DEF Delivery!vars
<1>1. ASSUME NEW m \in Messages, Enqueue(m) PROVE Delivery!Submit(m)
  BY <1>1, <1>t DEF Enqueue, Delivery!Submit, DeliveryState, TypeOK
<1>2. ASSUME NEW m \in Messages, VisibilityExpires(m) PROVE UNCHANGED Delivery!vars
  <2>. \A n \in Messages : DeliveryState(n)' = DeliveryState(n)
    BY <1>2, <1>t DEF VisibilityExpires, DeliveryState, TypeOK
  <2>. QED
    BY <1>2, <1>s DEF VisibilityExpires
<1>3. ASSUME NEW m \in Messages, Redrive(m) PROVE Delivery!Bury(m)
  BY <1>3, <1>t DEF Redrive, Delivery!Bury, DeliveryState, TypeOK
<1>5. ASSUME NEW w \in Workers, NEW S \in SUBSET Messages, Receive(w, S)
      PROVE  UNCHANGED Delivery!vars
  <2>. \A n \in Messages : DeliveryState(n)' = DeliveryState(n)
    BY <1>5, <1>t DEF Receive, DeliveryState, TypeOK
  <2>. QED
    BY <1>5, <1>s DEF Receive
<1>10. ASSUME NEW w \in Workers, HandlerReturns(w) PROVE Delivery!Complete(cur[w])
  BY <1>10, <1>t DEF HandlerReturns, Delivery!Complete, DeliveryState, TypeOK, HeldWasSent,
     Key, Running
<1>d. ASSUME NEW w \in Workers, NEW S \in SUBSET Messages, Delete(w, S), UNCHANGED ran,
             \A m \in S : KeyOf[m] \in ran
      PROVE  \E D \in SUBSET Messages : Delivery!Retire(D)
  <2>1. PICK D \in SUBSET S :
           queue' = [m \in Messages |-> IF m \in D /\ queue[m] \in {"visible", "inflight"}
                                        THEN "deleted" ELSE queue[m]]
    BY <1>d DEF Delete
  <2>. DEFINE R == {m \in D : queue[m] \in {"visible", "inflight"}}
  <2>. R \in SUBSET Messages
    OBVIOUS
  <2>2. \A m \in R : DeliveryState(m) = "queued" /\ KeyOf[m] \in ran
    BY <1>d DEF DeliveryState
  <2>3. \A m \in Messages : DeliveryState(m)' = IF m \in R THEN "retired" ELSE DeliveryState(m)
    BY <2>1 DEF DeliveryState
  <2>4. Delivery!Retire(R)
    BY <1>d, <2>2, <2>3 DEF Delivery!Retire
  <2>. QED
    BY <2>4
<1>14. ASSUME NEW w \in Workers, Ack(w)
       PROVE  (\E D \in SUBSET Messages : Delivery!Retire(D)) \/ UNCHANGED Delivery!vars
  <2>1. CASE w \in Pollers /\ Delete(w, {cur[w]})
    <3>1. cur[w] \in Messages /\ KeyOf[cur[w]] \in ran /\ UNCHANGED ran
      BY <1>14, <1>t DEF Ack, TypeOK, SuccessFollowsRun, Key
    <3>. QED
      BY <2>1, <3>1, <1>d
  <2>2. CASE UNCHANGED queue
    BY <1>14, <2>2, <1>s DEF Ack, DeliveryState
  <2>. QED
    BY <1>14, <2>1, <2>2 DEF Ack
<1>15. ASSUME NEW w \in Workers, EndBatch(w)
       PROVE  \E D \in SUBSET Messages : Delivery!Retire(D)
  <2>1. Delete(w, acked[w]) /\ UNCHANGED ran /\ acked[w] \in SUBSET Messages
    BY <1>15, <1>t DEF EndBatch, TypeOK
  <2>. QED
    BY <2>1, <1>t, <1>d DEF SuccessFollowsRun
<1>16. ASSUME UNCHANGED <<queue, ran>> PROVE UNCHANGED Delivery!vars
  BY <1>16, <1>s DEF DeliveryState
<1>17. CASE \E k \in Keys : KeyExpires(k) \/ CatchUp(k)
  BY <1>17, <1>16 DEF KeyExpires, CatchUp
<1>18. CASE \E w \in Workers : Crash(w)
  BY <1>18, <1>16 DEF Crash
<1>19. CASE \E w \in Workers :
              \/ \E m \in Messages : Take(w, m) \/ Reject(w, m)
              \/ Skip(w) \/ Start(w) \/ HandlerRaises(w) \/ Mark(w) \/ StoreRaises(w)
  BY <1>19, <1>16 DEF Take, Reject, Skip, Start, HandlerRaises, Mark, StoreRaises
<1>20. CASE UNCHANGED vars
  BY <1>20, <1>16 DEF vars
<1>21. ASSUME NEW w \in Workers, HandlerReturns(w) PROVE cur[w] \in Messages
  BY <1>21, <1>t DEF HandlerReturns, TypeOK, Running
<1>. QED
  BY <1>1, <1>2, <1>3, <1>5, <1>10, <1>14, <1>15, <1>17, <1>18, <1>19, <1>20, <1>21
  DEF Next, WorkerStep, Delivery!Next

(* THEOREM: the queue implements TaskDelivery (its safety part; that every  *)
(* submission settles is left to the model checker).                        *)
THEOREM QueueImplementsDelivery == Spec => Delivery!SafetySpec
<1>1. QueueInv /\ [Next]_vars => [Delivery!Next]_(Delivery!vars)
  BY DeliveryStep
<1>. QED
  BY <1>1, DeliveryInit, QueueInvariant, PTL DEF Spec, SafetySpec, Delivery!SafetySpec
=============================================================================
