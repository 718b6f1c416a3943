----------------------- MODULE ResumeProcessingProofs -----------------------
(***************************************************************************)
(* Proofs about ResumeProcessing, for any number of versions, workers and  *)
(* open edits.                                                             *)
(*                                                                         *)
(* Every step of the system is a step of TaskQueue or leaves the queue     *)
(* alone, so TaskQueue's invariant holds of it, proved once in module      *)
(* TaskQueueProofs.  It says that outside gap no worker is in the task of  *)
(* a version whose task has completed, and no two are in that of one; so   *)
(* what a run left settled only the user touches, and what a run has read  *)
(* of the status only the user overtakes.  And TaskQueue's promise holds   *)
(* of it, TaskDelivery.                                                    *)
(***************************************************************************)
EXTENDS ResumeProcessing, TLAPS

P == INSTANCE TaskQueueProofs WITH Messages <- Versions, Keys <- Versions,
        KeyOf <- [v \in Versions |-> v], Known <- Versions

(* A message is sent after its version's rows were flushed.                *)
SentIsBegun == \A v \in Versions : queue[v] # "unsent" => request[v] \notin {"none", "flushed"}

(* A version whose task completed has settled, or fell to a race.          *)
RanIsSettled ==
    \A v \in ran : /\ request[v] \notin {"none", "flushed"}
                   /\ Settled(v) \/ v \in missed \cup gap

(* Transaction t has read the row of v and not written it yet.             *)
HoldsRow(t, v) == \/ t \in Workers /\ pc[t] = "handle" /\ step[t] \in {"failing", "store"} /\ cur[t] = v
                  \/ t \in Editors /\ editing[t] = v

(* What a transaction did find it may leave alone: a document is not taken *)
(* away again, nor, outside gap, a settled status from under a worker.     *)
ReadIsKept ==
    \A t \in Workers \cup Editors : \A v \in Versions : HoldsRow(t, v) =>
        /\ read[t].structured # "none" => structured[v] # "none"
        /\ t \in Workers /\ read[t].status \in Done => status[v] \in Done \/ v \in gap

ResumeInv == /\ P!QueueInv /\ TypeOK /\ ReadyIsComplete /\ SentIsBegun
             /\ ReadIsKept /\ RanIsSettled

-----------------------------------------------------------------------------
(* The queue below.                                                        *)

(* The theorems of TaskQueueProofs apply to this queue.                    *)
LEMMA QueueIsAssumed == P!QueueAssumption
  BY ResumeAssumption DEF P!QueueAssumption, P!Workers

(* P and Q are one queue.                                                  *)
LEMMA SameSets == P!Workers = Workers /\ \A S \in SUBSET Versions : P!Cardinality(S) = Q!Cardinality(S)
  BY DEF P!Workers, Q!Workers, Workers, P!Cardinality, Q!Cardinality

LEMMA SameActions ==
    /\ \A v \in Versions : /\ Q!Enqueue(v) => P!Enqueue(v)
                           /\ Q!VisibilityExpires(v) => P!VisibilityExpires(v)
                           /\ Q!Redrive(v) => P!Redrive(v)
                           /\ Q!KeyExpires(v) => P!KeyExpires(v)
                           /\ Q!CatchUp(v) => P!CatchUp(v)
    /\ \A w \in Workers :
          /\ \A S \in SUBSET Versions : Q!Receive(w, S) => P!Receive(w, S)
          /\ \A v \in Versions : Q!Take(w, v) => P!Take(w, v)
          /\ Q!Skip(w) => P!Skip(w)
          /\ Q!Start(w) => P!Start(w)
          /\ Q!HandlerReturns(w) => P!HandlerReturns(w)
          /\ Q!HandlerRaises(w) => P!HandlerRaises(w)
          /\ Q!Mark(w) => P!Mark(w)
          /\ Q!StoreRaises(w) => P!StoreRaises(w)
          /\ Q!Ack(w) => P!Ack(w)
          /\ Q!EndBatch(w) => P!EndBatch(w)
          /\ Q!Crash(w) => P!Crash(w)
<1> USE DEF Q!sqsVars, P!sqsVars, Q!keyVars, P!keyVars, Q!wrkVars, P!wrkVars, Q!histVars, P!histVars, Q!To, P!To,
            Q!Drop, P!Drop, Q!Key, P!Key, Q!Delete, P!Delete, Q!Running, P!Running
<1>1. \A v \in Versions : /\ Q!Enqueue(v) => P!Enqueue(v)
                          /\ Q!VisibilityExpires(v) => P!VisibilityExpires(v)
                          /\ Q!Redrive(v) => P!Redrive(v)
                          /\ Q!KeyExpires(v) => P!KeyExpires(v)
                          /\ Q!CatchUp(v) => P!CatchUp(v)
  BY DEF Q!Enqueue, P!Enqueue, Q!VisibilityExpires, P!VisibilityExpires, Q!Redrive, P!Redrive,
         Q!KeyExpires, P!KeyExpires, Q!CatchUp, P!CatchUp
<1> SUFFICES ASSUME NEW w \in Workers
             PROVE  /\ \A S \in SUBSET Versions : Q!Receive(w, S) => P!Receive(w, S)
                    /\ \A v \in Versions : Q!Take(w, v) => P!Take(w, v)
                    /\ Q!Skip(w) => P!Skip(w)
                    /\ Q!Start(w) => P!Start(w)
                    /\ Q!HandlerReturns(w) => P!HandlerReturns(w)
                    /\ Q!HandlerRaises(w) => P!HandlerRaises(w)
                    /\ Q!Mark(w) => P!Mark(w)
                    /\ Q!StoreRaises(w) => P!StoreRaises(w)
                    /\ Q!Ack(w) => P!Ack(w)
                    /\ Q!EndBatch(w) => P!EndBatch(w)
                    /\ Q!Crash(w) => P!Crash(w)
  BY <1>1
<1>2. \A S \in SUBSET Versions : Q!Receive(w, S) => P!Receive(w, S)
  BY SameSets DEF Q!Receive, P!Receive
<1>3. \A v \in Versions : Q!Take(w, v) => P!Take(w, v)
  BY DEF Q!Take, P!Take
<1>4. Q!Skip(w) => P!Skip(w)
  BY DEF Q!Skip, P!Skip
<1>5. Q!Start(w) => P!Start(w)
  BY DEF Q!Start, P!Start, Q!Unguarded, P!Unguarded, Q!Workers, P!Workers
<1>6. Q!HandlerReturns(w) => P!HandlerReturns(w)
  BY DEF Q!HandlerReturns, P!HandlerReturns
<1>7. Q!HandlerRaises(w) => P!HandlerRaises(w)
  BY DEF Q!HandlerRaises, P!HandlerRaises
<1>8. Q!Mark(w) => P!Mark(w)
  BY DEF Q!Mark, P!Mark
<1>9. Q!StoreRaises(w) => P!StoreRaises(w)
  BY DEF Q!StoreRaises, P!StoreRaises
<1>10. Q!Ack(w) => P!Ack(w)
  BY DEF Q!Ack, P!Ack
<1>11. Q!EndBatch(w) => P!EndBatch(w)
  BY DEF Q!EndBatch, P!EndBatch
<1>12. Q!Crash(w) => P!Crash(w)
  BY DEF Q!Crash, P!Crash
<1> QED BY <1>2, <1>3, <1>4, <1>5, <1>6, <1>7, <1>8, <1>9, <1>10, <1>11, <1>12

(* What the task does to the queue: nothing, or it returns, or it raises.  *)
LEMMA TaskSteps ==
    ASSUME NEW w \in Workers, TaskStep(w)
    PROVE  UNCHANGED queueVars \/ Q!HandlerReturns(w) \/ Q!HandlerRaises(w)
  BY DEF TaskStep, Load, SetExtracting, Extract, SetFailed, Answer, SetStructuring, Store, Fail, Return, Raise, Goto

(* Every step is one of the queue, or none.                                *)
LEMMA StepsOfQueue == [Next]_vars => [P!Next]_(P!vars)
<1> SUFFICES ASSUME [Next]_vars PROVE P!Next \/ UNCHANGED queueVars
  BY DEF queueVars, P!vars
<1> USE SameSets, SameActions
<1>1. ASSUME NEW v \in Versions, Register(v) \/ Respond(v) PROVE P!Next \/ UNCHANGED queueVars
  BY <1>1 DEF Register, Respond, Send, Finish, P!Next
<1>2. ASSUME NEW e \in Editors, EditStep(e) PROVE UNCHANGED queueVars
  BY <1>2 DEF EditStep, Edit, Save, Abandon
<1>3. CASE QueueStep
  BY <1>3 DEF QueueStep, P!Next
<1>4. ASSUME NEW w \in Workers, WorkerStep(w) \/ Crash(w) PROVE P!Next \/ UNCHANGED queueVars
  <2>1. CASE AroundTask(w) \/ Start(w)
    <3>1. P!WorkerStep(w)
      BY <2>1 DEF AroundTask, Start, P!WorkerStep
    <3> QED BY <3>1 DEF P!Next
  <2>2. CASE Crash(w)
    BY <2>2 DEF Crash, P!Next
  <2>3. CASE TaskStep(w)
    BY <2>3, TaskSteps DEF P!Next, P!WorkerStep
  <2> QED BY <1>4, <2>1, <2>2, <2>3 DEF WorkerStep
<1>5. CASE UNCHANGED vars
  BY <1>5 DEF vars
<1> QED BY <1>1, <1>2, <1>3, <1>4, <1>5 DEF Next

LEMMA QueueNext == P!QueueInv /\ [Next]_vars => P!QueueInv'
  BY QueueIsAssumed, StepsOfQueue, P!InvStep

LEMMA InitOfQueue == Init => P!Init
  BY DEF Init, Q!Init, P!Init, Q!Workers, P!Workers

LEMMA QueueStarts == Init => P!QueueInv
  BY QueueIsAssumed, InitOfQueue, P!InvInit

(* What the queue's invariant says of it.                                  *)
LEMMA QueueSays ==
    ASSUME P!QueueInv
    PROVE  /\ Q!TypeOK
           /\ \A w \in Workers : pc[w] \in {"check", "handle", "mark", "ack"} =>
                 cur[w] \in Versions /\ queue[cur[w]] # "unsent"
           /\ \A w \in Workers : pc[w] = "handle" /\ cur[w] \in ran => cur[w] \in gap
           /\ \A w, x \in Workers : w # x /\ pc[w] = "handle" /\ pc[x] = "handle" /\ cur[w] = cur[x]
                                       => cur[w] \in gap
           /\ \A v \in Versions : queue[v] = "deleted" => v \in ran
           /\ ran \subseteq Versions
<1>1. P!TypeOK /\ P!HeldWasSent /\ P!SuccessFollowsRun /\ P!GuardInv
  BY DEF P!QueueInv
<1>2. Q!TypeOK /\ ran \subseteq Versions
  BY <1>1 DEF P!TypeOK, Q!TypeOK, P!Running, Q!Running, P!Workers, Q!Workers
<1>3. \A w \in Workers : pc[w] \in {"check", "handle", "mark", "ack"} =>
         cur[w] \in Versions /\ queue[cur[w]] # "unsent"
  BY <1>1, SameSets DEF P!TypeOK, P!Running, P!HeldWasSent
<1>4. \A w \in Workers : pc[w] = "handle" /\ cur[w] \in ran => cur[w] \in gap
  BY <1>1, <1>3, SameSets DEF P!GuardInv, P!OverlapIsGap, P!Key
<1>5. \A w, x \in Workers : w # x /\ pc[w] = "handle" /\ pc[x] = "handle" /\ cur[w] = cur[x]
                               => cur[w] \in gap
  BY <1>1, <1>3, SameSets DEF P!GuardInv, P!OverlapIsGap, P!Key, P!Running
<1>6. \A v \in Versions : queue[v] = "deleted" => v \in ran
  BY <1>1 DEF P!SuccessFollowsRun, P!RetiredOnlyAfterRun
<1> QED BY <1>2, <1>3, <1>4, <1>5, <1>6

LEMMA QueueIsTyped == P!QueueInv => Q!TypeOK
  BY QueueSays

-----------------------------------------------------------------------------
(* What a step does to the workers in the task.                            *)

(* A return marks the version's task complete, a raise changes nothing but *)
(* the worker.                                                             *)
LEMMA TaskTypes ==
    ASSUME Q!TypeOK, NEW w \in Workers
    PROVE  /\ Q!HandlerReturns(w) => pc' = [pc EXCEPT ![w] = "mark"] /\ cur' = cur /\ queue' = queue
                                     /\ ran' = ran \cup {cur[w]} /\ gap' = gap
           /\ Q!HandlerRaises(w) => pc' = [pc EXCEPT ![w] = "loop"] /\ cur' = [cur EXCEPT ![w] = NoMsg]
                                    /\ queue' = queue /\ ran' = ran /\ gap' = gap
<1>1. pc[w] = "handle" => cur[w] \in Versions
  BY DEF Q!TypeOK, Q!Running, Workers
<1> QED BY <1>1 DEF Q!HandlerReturns, Q!HandlerRaises, Q!To, Q!Drop, Q!Key, Q!sqsVars, Q!histVars

(* Around the task and in the queue nothing completes, and holes stay.     *)
LEMMA AroundTypes ==
    ASSUME Q!TypeOK, NEW w \in Workers
    PROVE  /\ AroundTask(w) => /\ pc[w] # "handle" /\ ran' = ran /\ gap \subseteq gap'
                               /\ \E s \in {"idle", "loop", "check", "ack"} : pc' = [pc EXCEPT ![w] = s]
                               /\ \A v \in Versions : queue[v] = "unsent" => queue'[v] = "unsent"
           /\ Start(w) => /\ pc' = [pc EXCEPT ![w] = "handle"] /\ cur' = cur /\ queue' = queue
                          /\ ran' = ran /\ gap \subseteq gap'
           /\ Crash(w) => /\ pc' = [pc EXCEPT ![w] = "idle"] /\ cur' = [cur EXCEPT ![w] = NoMsg]
                          /\ queue' = queue /\ ran' = ran /\ gap \subseteq gap'
<1> USE DEF Q!sqsVars, Q!histVars, Q!To, Q!Drop
<1>1. ASSUME NEW S \in SUBSET Versions, Q!Receive(w, S)
      PROVE  /\ pc[w] # "handle" /\ ran' = ran /\ gap' = gap /\ pc' = [pc EXCEPT ![w] = "loop"]
             /\ \A v \in Versions : queue[v] = "unsent" => queue'[v] = "unsent"
  BY <1>1 DEF Q!Receive
<1>2. ASSUME NEW v \in Versions, Q!Take(w, v)
      PROVE  /\ pc[w] # "handle" /\ ran' = ran /\ gap' = gap /\ pc' = [pc EXCEPT ![w] = "check"]
             /\ queue' = queue
  BY <1>2 DEF Q!Take
<1>3. Q!Skip(w) \/ Q!Mark(w) => /\ pc[w] # "handle" /\ ran' = ran /\ gap' = gap
                                /\ pc' = [pc EXCEPT ![w] = "ack"] /\ queue' = queue
  BY DEF Q!Skip, Q!Mark
<1>4. Q!StoreRaises(w) => /\ pc[w] # "handle" /\ ran' = ran /\ gap \subseteq gap'
                          /\ pc' = [pc EXCEPT ![w] = "loop"] /\ queue' = queue
  BY DEF Q!StoreRaises
<1>5. Q!Ack(w) => /\ pc[w] # "handle" /\ ran' = ran /\ gap' = gap /\ pc' = [pc EXCEPT ![w] = "loop"]
                  /\ \A v \in Versions : queue[v] = "unsent" => queue'[v] = "unsent"
  BY DEF Q!Ack, Q!Delete
<1>6. Q!EndBatch(w) => /\ pc[w] # "handle" /\ ran' = ran /\ gap' = gap /\ pc' = [pc EXCEPT ![w] = "idle"]
                       /\ \A v \in Versions : queue[v] = "unsent" => queue'[v] = "unsent"
  BY DEF Q!EndBatch, Q!Delete
<1>7. Start(w) => /\ pc' = [pc EXCEPT ![w] = "handle"] /\ cur' = cur /\ queue' = queue
                  /\ ran' = ran /\ gap \subseteq gap'
  BY DEF Start, Q!Start
<1>8. Crash(w) => /\ pc' = [pc EXCEPT ![w] = "idle"] /\ cur' = [cur EXCEPT ![w] = NoMsg]
                  /\ queue' = queue /\ ran' = ran /\ gap \subseteq gap'
  BY DEF Crash, Q!Crash
<1> QED BY <1>1, <1>2, <1>3, <1>4, <1>5, <1>6, <1>7, <1>8 DEF AroundTask

(* A worker around its task leaves the message in every other hand.        *)
LEMMA AroundLeaves ==
    ASSUME Q!TypeOK, NEW w \in Workers, AroundTask(w)
    PROVE  \A x \in Workers \ {w} : pc'[x] = pc[x] /\ cur'[x] = cur[x]
<1> USE DEF Q!To, Q!Drop
<1>1. cur' = cur \/ \E c \in Versions \cup {NoMsg} : cur' = [cur EXCEPT ![w] = c]
  BY DEF AroundTask, Q!Receive, Q!Take, Q!Skip, Q!Mark, Q!StoreRaises, Q!Ack, Q!EndBatch
<1>2. \E s \in {"idle", "loop", "check", "ack"} : pc' = [pc EXCEPT ![w] = s]
  BY AroundTypes
<1> QED BY <1>1, <1>2 DEF Q!TypeOK, Workers

LEMMA ClockTypes ==
    ASSUME Q!TypeOK, QueueStep
    PROVE  /\ pc' = pc /\ cur' = cur /\ ran' = ran /\ gap \subseteq gap'
           /\ \A v \in Versions : queue[v] = "unsent" => queue'[v] = "unsent"
<1> USE DEF Q!sqsVars, Q!keyVars, Q!wrkVars, Q!histVars
<1>1. ASSUME NEW v \in Versions, Q!VisibilityExpires(v) \/ Q!Redrive(v)
      PROVE  /\ pc' = pc /\ cur' = cur /\ ran' = ran /\ gap' = gap
             /\ \A u \in Versions : queue[u] = "unsent" => queue'[u] = "unsent"
  BY <1>1 DEF Q!VisibilityExpires, Q!Redrive, Q!TypeOK
<1>2. ASSUME NEW v \in Versions, Q!KeyExpires(v) \/ Q!CatchUp(v)
      PROVE  pc' = pc /\ cur' = cur /\ ran' = ran /\ gap \subseteq gap' /\ queue' = queue
  BY <1>2 DEF Q!KeyExpires, Q!CatchUp
<1> QED BY <1>1, <1>2 DEF QueueStep

(* The type invariant, given the queue's.                                  *)
RowTypes ==
    /\ request \in [Versions -> {"none", "flushed", "sent", "committed", "rolledback"}]
    /\ upload \in [Versions -> BOOLEAN]
    /\ readable \in [Versions -> BOOLEAN]
    /\ status \in [Versions -> Statuses]
    /\ rawText \in [Versions -> BOOLEAN]
    /\ structured \in [Versions -> Documents]
    /\ error \in [Versions -> BOOLEAN]
    /\ missed \subseteq Versions /\ crossed \subseteq Versions

ReadTypes ==
    /\ editing \in [Editors -> Versions \cup {NoMsg}]
    /\ read \in [Workers \cup Editors -> Rows]

Steps == {"load", "extract", "download", "failing", "structure", "llm", "store"}

StepTypes ==
    /\ step \in [Workers -> Steps \cup {"none"}]
    /\ \A w \in Workers : step[w] # "none" <=> pc[w] = "handle"

Typed == Q!TypeOK /\ RowTypes /\ ReadTypes /\ StepTypes

LEMMA TypesSplit == TypeOK <=> Typed
  BY DEF TypeOK, Typed, RowTypes, ReadTypes, StepTypes, Steps

LEMMA InTask ==
    ASSUME Typed, NEW w \in Workers, TaskStep(w)
    PROVE  pc[w] = "handle" /\ cur[w] \in Versions
<1>1. pc[w] = "handle"
  BY DEF TaskStep, Load, SetExtracting, Extract, SetFailed, SetStructuring, Answer, Store, Fail, At
<1> QED BY <1>1 DEF Typed, Q!TypeOK, Q!Running, Workers

(* A step of the task goes on to another, returns or raises.               *)
LEMMA TaskGoes ==
    ASSUME Typed, NEW w \in Workers, TaskStep(w)
    PROVE  \/ UNCHANGED queueVars /\ \E s \in Steps : step' = [step EXCEPT ![w] = s]
           \/ Return(w) \/ Raise(w)
  BY DEF TaskStep, Load, SetExtracting, Extract, SetFailed, SetStructuring, Answer, Store, Fail,
         Goto, Steps

LEMMA StepTypesNext == Typed /\ Q!TypeOK' /\ [Next]_vars => StepTypes'
<1> SUFFICES ASSUME Typed, Q!TypeOK', [Next]_vars PROVE StepTypes'
  OBVIOUS
<1>1. pc \in [Workers -> {"idle", "loop", "check", "ack", "handle", "mark"}]
  BY DEF Typed, Q!TypeOK, Q!Running, Workers
<1> USE DEF Typed
<1>2. CASE UNCHANGED <<step, pc>>
  BY <1>2 DEF StepTypes
<1>3. ASSUME NEW w \in Workers, NEW s \in Steps,
             NEW c \in {"handle"}, step' = [step EXCEPT ![w] = s], pc' = [pc EXCEPT ![w] = c]
      PROVE  StepTypes'
  BY <1>1, <1>3 DEF StepTypes, Steps
<1>4. ASSUME NEW w \in Workers, NEW c \in {"mark", "loop", "idle"},
             step' = [step EXCEPT ![w] = "none"], pc' = [pc EXCEPT ![w] = c]
      PROVE  StepTypes'
  BY <1>1, <1>4 DEF StepTypes
<1>5. ASSUME NEW w \in Workers, Return(w) \/ Raise(w) PROVE StepTypes'
  BY <1>4, <1>5, TaskTypes DEF Return, Raise
<1>6. ASSUME NEW w \in Workers, TaskStep(w) PROVE StepTypes'
  <2>1. ASSUME NEW s \in Steps, UNCHANGED queueVars, step' = [step EXCEPT ![w] = s]
        PROVE  StepTypes'
    <3>1. pc' = [pc EXCEPT ![w] = "handle"]
      BY <1>1, <1>6, <2>1, InTask DEF queueVars
    <3> QED BY <1>3, <2>1, <3>1
  <2> QED BY <1>5, <1>6, <2>1, TaskGoes
<1>7. ASSUME NEW w \in Workers, Start(w) PROVE StepTypes'
  BY <1>3, <1>7, AroundTypes DEF Start, Steps
<1>8. ASSUME NEW w \in Workers, Crash(w) PROVE StepTypes'
  BY <1>4, <1>8, AroundTypes DEF Crash
<1>9. ASSUME NEW w \in Workers, AroundTask(w) PROVE StepTypes'
  <2>1. PICK s \in {"idle", "loop", "check", "ack"} : pc' = [pc EXCEPT ![w] = s]
    BY <1>9, AroundTypes
  <2>2. step' = step /\ pc[w] # "handle"
    BY <1>9, AroundTypes DEF AroundTask
  <2> QED BY <1>1, <2>1, <2>2 DEF StepTypes
<1>10. CASE QueueStep
  BY <1>2, <1>10, ClockTypes DEF QueueStep
<1>11. ASSUME NEW v \in Versions, Register(v) \/ Respond(v) PROVE StepTypes'
  BY <1>2, <1>11 DEF Register, Respond, Send, Finish, queueVars, Q!Enqueue, Q!wrkVars
<1>12. ASSUME NEW e \in Editors, EditStep(e) PROVE StepTypes'
  BY <1>2, <1>12 DEF EditStep, Edit, Save, Abandon, queueVars
<1>13. CASE UNCHANGED vars
  BY <1>2, <1>13 DEF vars, queueVars
<1> QED BY <1>6, <1>7, <1>8, <1>9, <1>10, <1>11, <1>12, <1>13 DEF Next, WorkerStep

-----------------------------------------------------------------------------
(* What may happen to a row: it is registered, a worker in its task shows  *)
(* progress, or a transaction that has read it settles it.                 *)
Same(v)  == UNCHANGED <<status[v], structured[v], error[v]>> /\ (v \in crossed' <=> v \in crossed)
Begun(v) == request[v] = "none" /\ status'[v] \in {"pending", "structuring"}
            /\ UNCHANGED <<structured[v], error[v]>>
Progressed(v) == /\ \E w \in Workers : pc[w] = "handle" /\ step[w] \in {"extract", "structure"} /\ cur[w] = v
                 /\ status'[v] \in {"extracting", "structuring"}
                 /\ UNCHANGED <<structured[v], error[v]>>
SettledBy(t, v, s) ==
    /\ HoldsRow(t, v)
    /\ t \in Editors => s = "ready" /\ editing'[t] # v
    /\ status'[v] = s \/ (read[t].status = s /\ status'[v] = status[v])
    /\ v \in crossed' \/ (status'[v] = s /\ (error'[v] <=> s = "failed"))
    /\ structured'[v] # "none" \/ UNCHANGED structured[v]
    /\ s = "ready" => structured'[v] # "none" \/ read[t].structured # "none"

Changed(v) == \E t \in Workers \cup Editors : \E s \in Done : SettledBy(t, v, s)

(* What Settle writes, and that it writes to one row.                      *)
LEMMA SettleWrites ==
    ASSUME RowTypes, ReadTypes, NEW t \in Workers \cup Editors, NEW v \in Versions,
           NEW s \in Done, NEW e \in BOOLEAN, Settle(t, v, s, e)
    PROVE  /\ status' \in [Versions -> Statuses] /\ error' \in [Versions -> BOOLEAN]
           /\ read' = [read EXCEPT ![t] = NoRow] /\ crossed' \subseteq Versions
           /\ status'[v] = s \/ (read[t].status = s /\ status'[v] = status[v])
           /\ v \in crossed' \/ (status'[v] = s /\ (error'[v] <=> e))
           /\ \A u \in Versions \ {v} : /\ UNCHANGED <<status[u], error[u]>>
                                        /\ u \in crossed' <=> u \in crossed
<1>1. s \in Statuses /\ read[t] \in Rows
  BY DEF Statuses, ReadTypes
<1>2. status' = [status EXCEPT ![v] = Dirty(read[t].status, s, status[v])]
  BY DEF Settle
<1>3. error' = [error EXCEPT ![v] = Dirty(read[t].error, e, error[v])]
  BY DEF Settle
<1>4. status' \in [Versions -> Statuses] /\ status'[v] = Dirty(read[t].status, s, status[v])
      /\ \A u \in Versions \ {v} : status'[u] = status[u]
  BY <1>1, <1>2 DEF RowTypes, Dirty
<1>5. error' \in [Versions -> BOOLEAN] /\ error'[v] = Dirty(read[t].error, e, error[v])
      /\ \A u \in Versions \ {v} : error'[u] = error[u]
  BY <1>1, <1>3 DEF RowTypes, Dirty, Rows
<1>6. crossed' = IF status[v] = read[t].status /\ error[v] = read[t].error
                 THEN crossed \ {v} ELSE crossed \cup {v}
  BY DEF Settle
<1>7. v \in crossed' \/ (status'[v] = s /\ error'[v] = e)
  BY <1>4, <1>5, <1>6 DEF Dirty
<1>8. crossed' \subseteq Versions /\ \A u \in Versions \ {v} : u \in crossed' <=> u \in crossed
  BY <1>6 DEF RowTypes
<1>9. status'[v] = s \/ (read[t].status = s /\ status'[v] = status[v])
  BY <1>4 DEF Dirty
<1>10. read' = [read EXCEPT ![t] = NoRow]
  BY DEF Settle
<1> QED BY <1>4, <1>5, <1>7, <1>8, <1>9, <1>10

LEMMA ReplaceWrites ==
    ASSUME RowTypes, NEW t, NEW v \in Versions, NEW who \in {"llm", "user"}, Replace(t, v, who)
    PROVE  /\ structured' \in [Versions -> Documents]
           /\ structured'[v] # "none" \/ structured'[v] = structured[v]
           /\ structured'[v] # "none" \/ read[t].structured # "none"
           /\ \A u \in Versions \ {v} : structured'[u] = structured[u]
  BY DEF Replace, RowTypes, Documents

RowsFine ==
    /\ RowTypes' /\ ReadTypes' /\ missed \subseteq missed'
    /\ \A v \in Versions : Same(v) \/ Begun(v) \/ Progressed(v) \/ Changed(v)

(* A settling transaction is fine.                                         *)
LEMMA SettleIsFine ==
    ASSUME Typed, NEW t \in Workers \cup Editors, NEW v \in Versions, NEW s \in Done, NEW e \in BOOLEAN,
           Settle(t, v, s, e), e <=> s = "failed", HoldsRow(t, v),
           t \in Editors => s = "ready" /\ editing'[t] # v,
           \/ s = "ready" /\ Replace(t, v, "llm")
           \/ s = "ready" /\ Replace(t, v, "user")
           \/ s = "failed" /\ UNCHANGED structured,
           UNCHANGED <<request, upload, readable, rawText, missed>>,
           editing' \in [Editors -> Versions \cup {NoMsg}]
    PROVE  RowsFine
<1>1. RowTypes /\ ReadTypes
  BY DEF Typed
<1>2. /\ structured' \in [Versions -> Documents]
      /\ structured'[v] # "none" \/ structured'[v] = structured[v]
      /\ s = "ready" => structured'[v] # "none" \/ read[t].structured # "none"
      /\ \A u \in Versions \ {v} : structured'[u] = structured[u]
  <2>1. CASE s = "failed" /\ UNCHANGED structured
    BY <1>1, <2>1 DEF RowTypes
  <2>2. CASE s = "ready" /\ Replace(t, v, "llm")
    BY <1>1, <2>2, ReplaceWrites
  <2>3. CASE s = "ready" /\ Replace(t, v, "user")
    BY <1>1, <2>3, ReplaceWrites
  <2> QED BY <2>1, <2>2, <2>3
<1>3. /\ status' \in [Versions -> Statuses] /\ error' \in [Versions -> BOOLEAN]
      /\ read' = [read EXCEPT ![t] = NoRow] /\ crossed' \subseteq Versions
      /\ status'[v] = s \/ (read[t].status = s /\ status'[v] = status[v])
      /\ v \in crossed' \/ (status'[v] = s /\ (error'[v] <=> e))
      /\ \A u \in Versions \ {v} : /\ UNCHANGED <<status[u], error[u]>>
                                   /\ u \in crossed' <=> u \in crossed
  BY <1>1, SettleWrites
<1>4. RowTypes'
  BY <1>1, <1>2, <1>3 DEF RowTypes
<1>5. ReadTypes'
  <2>1. NoRow \in Rows
    BY DEF NoRow, Rows, Statuses, Documents
  <2> QED BY <1>1, <1>3, <2>1 DEF ReadTypes
<1>6. SettledBy(t, v, s)
  BY <1>2, <1>3 DEF SettledBy
<1>7. \A u \in Versions \ {v} : Same(u)
  BY <1>2, <1>3 DEF Same
<1> QED BY <1>4, <1>5, <1>6, <1>7 DEF RowsFine, Changed

(* Reading a row, or giving a reading up, is fine.                         *)
LEMMA ReadIsFine ==
    ASSUME Typed, NEW t \in Workers \cup Editors, UNCHANGED rowVars, UNCHANGED histVars,
           editing' \in [Editors -> Versions \cup {NoMsg}],
           \/ read' = read
           \/ read' = [read EXCEPT ![t] = NoRow]
           \/ \E v \in Versions : read' = [read EXCEPT ![t] = Row(v)]
    PROVE  RowsFine
<1>1. RowTypes'
  BY DEF Typed, RowTypes, rowVars, histVars
<1>2. NoRow \in Rows /\ \A v \in Versions : Row(v) \in Rows
  BY DEF Typed, RowTypes, NoRow, Row, Rows, Statuses, Documents
<1>3. ReadTypes'
  BY <1>2 DEF Typed, ReadTypes
<1>4. missed' = missed /\ \A v \in Versions : Same(v)
  BY DEF rowVars, histVars, Same
<1> QED BY <1>1, <1>3, <1>4 DEF RowsFine

LEMMA RowStep == ASSUME Typed, [Next]_vars PROVE RowsFine
<1>1. ASSUME UNCHANGED <<rowVars, editing, read, histVars>> PROVE RowsFine
  BY <1>1 DEF Typed, rowVars, histVars, RowTypes, ReadTypes, Same, RowsFine
<1>2. ASSUME NEW v \in Versions, Register(v) PROVE RowsFine
  BY <1>2 DEF Typed, Register, histVars, RowTypes, ReadTypes, Same, Begun, Statuses, RowsFine
<1>3. ASSUME NEW v \in Versions, Send(v) PROVE RowsFine
  BY <1>3 DEF Typed, Send, histVars, RowTypes, ReadTypes, Same, RowsFine
<1>4. ASSUME NEW v \in Versions, NEW outcome \in {"committed", "rolledback"}, Finish(v, outcome)
      PROVE  RowsFine
  BY <1>4 DEF Typed, Finish, histVars, RowTypes, ReadTypes, Same, RowsFine
<1>5. ASSUME NEW e \in Editors, EditStep(e) PROVE RowsFine
  <2>1. editing' \in [Editors -> Versions \cup {NoMsg}]
    BY <1>5 DEF EditStep, Edit, Save, Abandon, Typed, ReadTypes
  <2>2. CASE \E v \in Versions : Edit(e, v)
    BY <2>1, <2>2, ReadIsFine DEF Edit
  <2>3. CASE Abandon(e)
    BY <2>1, <2>3, ReadIsFine DEF Abandon
  <2>4. CASE Save(e)
    <3>1. editing[e] \in Versions /\ Settle(e, editing[e], "ready", FALSE) /\ Replace(e, editing[e], "user")
          /\ UNCHANGED <<request, upload, readable, rawText, missed>>
      BY <2>4 DEF Save
    <3>2. HoldsRow(e, editing[e]) /\ editing'[e] # editing[e]
      BY <2>4, ResumeAssumption DEF Save, HoldsRow, Typed, ReadTypes
    <3>3. "ready" \in Done /\ FALSE \in BOOLEAN /\ (FALSE <=> "ready" = "failed")
      BY DEF Done
    <3> QED BY <2>1, <3>1, <3>2, <3>3, SettleIsFine
  <2> QED BY <1>5, <2>2, <2>3, <2>4 DEF EditStep
<1>6. ASSUME NEW w \in Workers, TaskStep(w) PROVE RowsFine
  <2>1. pc[w] = "handle" /\ cur[w] \in Versions
    BY <1>6, InTask
  <2>2. CASE Load(w)
    BY <2>1, <2>2 DEF Load, Typed, rowVars, RowTypes, ReadTypes, Same, RowsFine
  <2>3. CASE SetExtracting(w)
    BY <2>1, <2>3 DEF SetExtracting, At, Typed, histVars, RowTypes, ReadTypes, Same, Progressed,
                      Statuses, RowsFine
  <2>4. CASE Extract(w)
    <3>1. CASE readable[cur[w]]
      BY <2>1, <2>4, <3>1 DEF Extract, Typed, histVars, RowTypes, ReadTypes, Same, RowsFine
    <3>2. CASE ~readable[cur[w]]
      <4>1. read' = [read EXCEPT ![w] = Row(cur[w])] /\ UNCHANGED rowVars /\ UNCHANGED histVars
            /\ editing' \in [Editors -> Versions \cup {NoMsg}]
        BY <2>4, <3>2 DEF Extract, ReadRow, rowVars, Typed, ReadTypes
      <4> QED BY <2>1, <4>1, ReadIsFine
    <3> QED BY <3>1, <3>2
  <2>5. CASE SetFailed(w)
    <3>1. Settle(w, cur[w], "failed", TRUE) /\ UNCHANGED structured
          /\ UNCHANGED <<request, upload, readable, rawText, missed>>
      BY <2>5 DEF SetFailed
    <3>2. HoldsRow(w, cur[w]) /\ w \notin Editors /\ editing' \in [Editors -> Versions \cup {NoMsg}]
      BY <2>1, <2>5, ResumeAssumption DEF SetFailed, At, HoldsRow, Workers, Q!Workers, Typed, ReadTypes
    <3>3. "failed" \in Done /\ TRUE \in BOOLEAN /\ (TRUE <=> "failed" = "failed")
      BY DEF Done
    <3> QED BY <2>1, <3>1, <3>2, <3>3, SettleIsFine
  <2>6. CASE SetStructuring(w)
    BY <2>1, <2>6 DEF SetStructuring, At, Typed, histVars, RowTypes, ReadTypes, Same, Progressed,
                      Statuses, RowsFine
  <2>7. CASE Answer(w)
    <3>1. read' = [read EXCEPT ![w] = Row(cur[w])] /\ UNCHANGED rowVars /\ UNCHANGED histVars
          /\ editing' \in [Editors -> Versions \cup {NoMsg}]
      BY <2>7 DEF Answer, ReadRow, Typed, ReadTypes
    <3> QED BY <2>1, <3>1, ReadIsFine
  <2>8. CASE Store(w)
    <3>1. Settle(w, cur[w], "ready", FALSE) /\ Replace(w, cur[w], "llm")
          /\ UNCHANGED <<request, upload, readable, rawText, missed>>
      BY <2>8 DEF Store
    <3>2. HoldsRow(w, cur[w]) /\ w \notin Editors /\ editing' \in [Editors -> Versions \cup {NoMsg}]
      BY <2>1, <2>8, ResumeAssumption DEF Store, At, HoldsRow, Workers, Q!Workers, Typed, ReadTypes
    <3>3. "ready" \in Done /\ FALSE \in BOOLEAN /\ (FALSE <=> "ready" = "failed")
      BY DEF Done
    <3> QED BY <2>1, <3>1, <3>2, <3>3, SettleIsFine
  <2>9. CASE Fail(w)
    <3>1. editing' \in [Editors -> Versions \cup {NoMsg}]
      BY <2>9 DEF Fail, Typed, ReadTypes
    <3> QED BY <2>9, <3>1, ReadIsFine DEF Fail
  <2> QED BY <1>6, <2>2, <2>3, <2>4, <2>5, <2>6, <2>7, <2>8, <2>9 DEF TaskStep
<1>7. ASSUME NEW w \in Workers, AroundTask(w) \/ Start(w) PROVE RowsFine
  BY <1>1, <1>7 DEF AroundTask, Start
<1>8. ASSUME NEW w \in Workers, Crash(w) PROVE RowsFine
  <2>1. editing' \in [Editors -> Versions \cup {NoMsg}]
    BY <1>8 DEF Crash, Typed, ReadTypes
  <2> QED BY <1>8, <2>1, ReadIsFine DEF Crash
<1>9. QueueStep \/ UNCHANGED vars => RowsFine
  BY <1>1 DEF QueueStep, vars
<1> QED BY <1>2, <1>3, <1>4, <1>5, <1>6, <1>7, <1>8, <1>9 DEF Next, WorkerStep, Respond

LEMMA TypesNext == P!QueueInv /\ TypeOK /\ [Next]_vars => TypeOK'
<1> SUFFICES ASSUME P!QueueInv, TypeOK, [Next]_vars PROVE TypeOK'
  OBVIOUS
<1>1. P!QueueInv'
  BY QueueNext
<1>2. Q!TypeOK'
  BY <1>1, QueueIsTyped, PTL
<1>3. Typed
  BY TypesSplit
<1>4. Typed'
  BY <1>2, <1>3, RowStep, StepTypesNext DEF Typed, RowsFine
<1> QED BY <1>4 DEF TypeOK, Typed, RowTypes, ReadTypes, StepTypes, Steps

-----------------------------------------------------------------------------
(* The parts of the invariant, one by one.                                 *)

(* What is sent has been registered.                                       *)
LEMMA SentNext == Typed /\ SentIsBegun /\ [Next]_vars => SentIsBegun'
<1> SUFFICES ASSUME Typed, SentIsBegun, [Next]_vars PROVE SentIsBegun'
  OBVIOUS
<1> USE DEF Typed
<1>1. ASSUME request' = request, \A v \in Versions : queue[v] = "unsent" => queue'[v] = "unsent"
      PROVE  SentIsBegun'
  BY <1>1 DEF SentIsBegun
<1>2. ASSUME NEW v \in Versions, Register(v) PROVE SentIsBegun'
  BY <1>2 DEF Register, SentIsBegun, RowTypes, queueVars
<1>3. ASSUME NEW v \in Versions, Send(v) PROVE SentIsBegun'
  BY <1>3 DEF Send, Q!Enqueue, SentIsBegun, RowTypes, Q!TypeOK
<1>4. ASSUME NEW v \in Versions, NEW outcome \in {"committed", "rolledback"}, Finish(v, outcome)
      PROVE  SentIsBegun'
  BY <1>4 DEF Finish, SentIsBegun, RowTypes, queueVars
<1>5. ASSUME NEW e \in Editors, EditStep(e) PROVE SentIsBegun'
  BY <1>1, <1>5 DEF EditStep, Edit, Save, Abandon, queueVars, rowVars
<1>6. ASSUME NEW w \in Workers, TaskStep(w) PROVE SentIsBegun'
  <2>1. queue' = queue
    BY <1>6, TaskSteps, TaskTypes DEF queueVars
  <2>2. request' = request
    BY <1>6 DEF TaskStep, Load, SetExtracting, Extract, SetFailed, SetStructuring, Answer, Store,
                Fail, rowVars
  <2> QED BY <1>1, <2>1, <2>2
<1>7. ASSUME NEW w \in Workers, AroundTask(w) \/ Start(w) \/ Crash(w) PROVE SentIsBegun'
  <2>1. request' = request
    BY <1>7 DEF AroundTask, Start, Crash, rowVars
  <2> QED BY <1>1, <1>7, <2>1, AroundTypes
<1>8. CASE QueueStep
  BY <1>1, <1>8, ClockTypes DEF QueueStep, rowVars
<1>9. CASE UNCHANGED vars
  BY <1>1, <1>9 DEF vars, queueVars, rowVars
<1> QED BY <1>2, <1>3, <1>4, <1>5, <1>6, <1>7, <1>8, <1>9 DEF Next, WorkerStep, Respond

(* A transaction that holds a row has held it as it is, or reads it now.   *)
LEMMA ReadStep ==
    ASSUME Typed, [Next]_vars, NEW t \in Workers \cup Editors, NEW v \in Versions, HoldsRow(t, v)'
    PROVE  \/ HoldsRow(t, v) /\ read'[t] = read[t]
           \/ read'[t] = Row(v) /\ Same(v)
<1> DEFINE Fine == \/ HoldsRow(t, v) /\ read'[t] = read[t]
                   \/ read'[t] = Row(v) /\ Same(v)
<1>t. Q!TypeOK /\ ReadTypes /\ StepTypes
  BY DEF Typed
<1>a. Workers \cap Editors = {} /\ NoMsg \notin Versions
  BY ResumeAssumption DEF Workers, Q!Workers
<1>h. /\ t \in Workers => pc'[t] = "handle" /\ step'[t] \in {"failing", "store"} /\ cur'[t] = v
      /\ t \in Editors => editing'[t] = v
  BY <1>a DEF HoldsRow
<1>1. ASSUME UNCHANGED <<pc, cur, step, editing, read>> PROVE Fine
  BY <1>1 DEF HoldsRow
<1>2. ASSUME NEW x \in Versions, Register(x) \/ Respond(x) PROVE Fine
  BY <1>1, <1>2 DEF Register, Respond, Send, Finish, queueVars, Q!Enqueue, Q!wrkVars
<1>3. ASSUME NEW e \in Editors, EditStep(e) PROVE Fine
  <2>1. UNCHANGED <<pc, cur, step>>
    BY <1>3 DEF EditStep, Edit, Save, Abandon, queueVars
  <2>2. CASE t = e
    <3>1. PICK x \in Versions : Edit(e, x)
      BY <1>3, <1>t, <1>a, <1>h, <2>2 DEF EditStep, Save, Abandon, ReadTypes
    <3>2. x = v /\ read'[t] = Row(v)
      BY <1>t, <1>h, <2>2, <3>1 DEF Edit, ReadTypes
    <3>3. Same(v)
      BY <3>1 DEF Edit, Same, rowVars, histVars
    <3> QED BY <3>2, <3>3
  <2>3. CASE t # e
    <3>1. read'[t] = read[t] /\ (t \in Editors => editing'[t] = editing[t])
      BY <1>3, <1>t, <2>3 DEF EditStep, Edit, Save, Abandon, Settle, ReadTypes
    <3> QED BY <1>a, <1>h, <2>1, <3>1 DEF HoldsRow
  <2> QED BY <2>2, <2>3
<1>4. ASSUME NEW w \in Workers, TaskStep(w) PROVE Fine
  <2>1. UNCHANGED editing
    BY <1>4 DEF TaskStep, Load, SetExtracting, Extract, SetFailed, SetStructuring, Answer, Store, Fail
  <2>2. CASE t # w
    <3>1. read'[t] = read[t]
      BY <1>4, <1>t, <2>2 DEF TaskStep, Load, SetExtracting, Extract, SetFailed, SetStructuring, Answer,
                              Store, Fail, ReadRow, Settle, ReadTypes
    <3>2. t \in Workers => pc'[t] = pc[t] /\ cur'[t] = cur[t] /\ step'[t] = step[t]
      <4>1. ASSUME UNCHANGED queueVars, NEW s \in Steps, step' = [step EXCEPT ![w] = s], t \in Workers
            PROVE  pc'[t] = pc[t] /\ cur'[t] = cur[t] /\ step'[t] = step[t]
        BY <1>t, <2>2, <4>1 DEF queueVars, StepTypes
      <4>2. ASSUME Return(w) \/ Raise(w), t \in Workers
            PROVE  pc'[t] = pc[t] /\ cur'[t] = cur[t] /\ step'[t] = step[t]
        BY <1>t, <2>2, <4>2, TaskTypes DEF Return, Raise, StepTypes, Q!TypeOK, Workers
      <4> QED BY <1>4, <4>1, <4>2, TaskGoes
    <3> QED BY <1>h, <1>a, <2>1, <3>1, <3>2 DEF HoldsRow
  <2>3. CASE t = w
    <3>1. step'[w] \in {"failing", "store"} /\ cur'[w] = v
      BY <1>h, <2>3
    <3>2. CASE Extract(w) /\ ~readable[cur[w]]
      <4>1. v = cur[w] /\ read'[t] = Row(cur[w])
        BY <1>t, <2>3, <3>1, <3>2 DEF Extract, ReadRow, Goto, queueVars, ReadTypes
      <4>2. Same(v)
        BY <3>2 DEF Extract, Same, histVars
      <4> QED BY <4>1, <4>2
    <3>3. CASE Answer(w)
      <4>1. v = cur[w] /\ read'[t] = Row(cur[w])
        BY <1>t, <2>3, <3>1, <3>3 DEF Answer, ReadRow, Goto, queueVars, ReadTypes
      <4>2. Same(v)
        BY <3>3 DEF Answer, Same, rowVars, histVars
      <4> QED BY <4>1, <4>2
    <3>4. ~Load(w) /\ ~SetExtracting(w) /\ ~SetFailed(w) /\ ~SetStructuring(w) /\ ~Store(w) /\ ~Fail(w)
      BY <1>t, <3>1 DEF Load, SetExtracting, SetFailed, SetStructuring, Store, Fail, Goto, Return, Raise,
                        StepTypes
    <3>5. CASE Extract(w) /\ readable[cur[w]]
      BY <1>t, <3>1, <3>5 DEF Extract, Goto, StepTypes
    <3> QED BY <1>4, <3>2, <3>3, <3>4, <3>5 DEF TaskStep
  <2> QED BY <2>2, <2>3
<1>5. ASSUME NEW w \in Workers, AroundTask(w) PROVE Fine
  <2>1. UNCHANGED <<step, editing, read>> /\ pc[w] # "handle"
    BY <1>5, <1>t, AroundTypes DEF AroundTask
  <2>2. step[w] = "none"
    BY <1>t, <2>1 DEF StepTypes
  <2>3. t # w
    BY <1>h, <2>1, <2>2
  <2>4. t \in Workers => pc'[t] = pc[t] /\ cur'[t] = cur[t]
    BY <1>5, <1>t, <2>3, AroundLeaves
  <2> QED BY <1>a, <1>h, <2>1, <2>4 DEF HoldsRow
<1>6. ASSUME NEW w \in Workers, Start(w) \/ Crash(w) PROVE Fine
  <2>1. UNCHANGED editing /\ step'[w] \in {"load", "none"}
    BY <1>6, <1>t DEF Start, Crash, StepTypes
  <2>2. t # w
    BY <1>h, <2>1
  <2>3. read'[t] = read[t]
    BY <1>6, <1>t, <2>2 DEF Start, Crash, ReadTypes
  <2>4. t \in Workers => pc'[t] = pc[t] /\ cur'[t] = cur[t] /\ step'[t] = step[t]
    BY <1>6, <1>t, <2>2, AroundTypes DEF Start, Crash, StepTypes, Q!TypeOK, Workers
  <2> QED BY <1>a, <1>h, <2>1, <2>3, <2>4 DEF HoldsRow
<1>7. ASSUME QueueStep PROVE Fine
  BY <1>1, <1>7, <1>t, ClockTypes DEF QueueStep
<1>8. ASSUME UNCHANGED vars PROVE Fine
  BY <1>1, <1>8 DEF vars, queueVars
<1>9. ASSUME NEW w \in Workers, WorkerStep(w) \/ Crash(w) PROVE Fine
  BY <1>4, <1>5, <1>6, <1>9 DEF WorkerStep
<1>10. Fine
  <2> HIDE DEF Fine
  <2>1. CASE Next
    BY <1>2, <1>3, <1>7, <1>9, <2>1 DEF Next
  <2>2. CASE UNCHANGED vars
    BY <1>8, <2>2
  <2> QED BY <2>1, <2>2
<1> QED BY <1>10

(* Holes stay, requests do not return to before their first message.       *)
LEMMA Lasting ==
    ASSUME Typed, [Next]_vars
    PROVE  /\ gap \subseteq gap'
           /\ \A v \in Versions : request[v] \notin {"none", "flushed"} => request'[v] \notin {"none", "flushed"}
<1> DEFINE Fine == /\ gap \subseteq gap'
                   /\ \A v \in Versions : request[v] \notin {"none", "flushed"}
                                             => request'[v] \notin {"none", "flushed"}
<1> USE DEF Typed
<1>1. ASSUME request' = request, gap \subseteq gap' PROVE Fine
  BY <1>1
<1>2. ASSUME NEW v \in Versions, Register(v) \/ Respond(v) PROVE Fine
  BY <1>2 DEF Register, Respond, Send, Finish, RowTypes, queueVars, Q!Enqueue, Q!histVars
<1>3. ASSUME NEW e \in Editors, EditStep(e) PROVE Fine
  BY <1>1, <1>3 DEF EditStep, Edit, Save, Abandon, queueVars, rowVars
<1>4. ASSUME NEW w \in Workers, TaskStep(w) PROVE Fine
  <2>1. request' = request
    BY <1>4 DEF TaskStep, Load, SetExtracting, Extract, SetFailed, SetStructuring, Answer, Store,
                Fail, rowVars
  <2>2. gap' = gap
    BY <1>4, TaskSteps, TaskTypes DEF queueVars
  <2> QED BY <1>1, <2>1, <2>2
<1>5. ASSUME NEW w \in Workers, AroundTask(w) \/ Start(w) \/ Crash(w) PROVE Fine
  <2>1. request' = request
    BY <1>5 DEF AroundTask, Start, Crash, rowVars
  <2> QED BY <1>1, <1>5, <2>1, AroundTypes
<1>6. ASSUME QueueStep PROVE Fine
  BY <1>1, <1>6, ClockTypes DEF QueueStep, rowVars
<1>7. ASSUME UNCHANGED vars PROVE Fine
  BY <1>1, <1>7 DEF vars, queueVars, rowVars
<1>8. ASSUME NEW w \in Workers, WorkerStep(w) \/ Crash(w) PROVE Fine
  BY <1>4, <1>5, <1>8 DEF WorkerStep
<1>9. Fine
  <2> HIDE DEF Fine
  <2>1. CASE Next
    BY <1>2, <1>3, <1>6, <1>8, <2>1 DEF Next
  <2>2. CASE UNCHANGED vars
    BY <1>7, <2>2
  <2> QED BY <2>1, <2>2
<1> QED BY <1>9

(* What a transaction did find stays, while it holds the row.              *)
LEMMA KeptNext ==
    P!QueueInv /\ Typed /\ SentIsBegun /\ ReadIsKept /\ [Next]_vars => ReadIsKept'
<1> SUFFICES ASSUME P!QueueInv, Typed, SentIsBegun, ReadIsKept, [Next]_vars,
                    NEW t \in Workers \cup Editors, NEW v \in Versions, HoldsRow(t, v)'
             PROVE  /\ read'[t].structured # "none" => structured'[v] # "none"
                    /\ (t \in Workers /\ read'[t].status \in Done) => (status'[v] \in Done \/ v \in gap')
  BY DEF ReadIsKept
<1>1. CASE read'[t] = Row(v) /\ Same(v)
  BY <1>1 DEF Row, Same
<1>2. CASE HoldsRow(t, v) /\ read'[t] = read[t]
  <2>1. /\ read[t].structured # "none" => structured[v] # "none"
        /\ (t \in Workers /\ read[t].status \in Done) => (status[v] \in Done \/ v \in gap)
    BY <1>2 DEF ReadIsKept
  <2>2. gap \subseteq gap'
    BY Lasting
  <2>3. Same(v) \/ Begun(v) \/ Progressed(v) \/ Changed(v)
    BY RowStep DEF RowsFine
  <2>4. CASE Same(v)
    BY <1>2, <2>1, <2>2, <2>4 DEF Same
  <2>5. CASE Begun(v)
    <3>1. t \notin Workers
      <4>1. t \in Workers => pc[t] = "handle" /\ cur[t] = v
        BY <1>2, ResumeAssumption DEF HoldsRow, Workers, Q!Workers
      <4>2. t \in Workers => queue[v] # "unsent"
        BY <4>1, QueueSays
      <4> QED BY <2>5, <4>2 DEF SentIsBegun, Begun
    <3> QED BY <1>2, <2>1, <2>5, <3>1 DEF Begun
  <2>6. CASE Progressed(v)
    <3>1. PICK w \in Workers : pc[w] = "handle" /\ step[w] \in {"extract", "structure"} /\ cur[w] = v
      BY <2>6 DEF Progressed
    <3>2. t \in Workers => pc[t] = "handle" /\ cur[t] = v /\ step[t] \in {"failing", "store"}
      BY <1>2, ResumeAssumption DEF HoldsRow, Workers, Q!Workers
    <3>3. t \in Workers => v \in gap
      BY <3>1, <3>2, QueueSays
    <3> QED BY <1>2, <2>1, <2>2, <2>6, <3>3 DEF Progressed
  <2>7. CASE Changed(v)
    <3>1. PICK x \in Workers \cup Editors, s \in Done : SettledBy(x, v, s)
      BY <2>7 DEF Changed
    <3> QED BY <1>2, <2>1, <2>2, <3>1 DEF SettledBy
  <2> QED BY <2>3, <2>4, <2>5, <2>6, <2>7
<1> QED BY <1>1, <1>2, ReadStep

(* What has settled is complete.                                           *)
LEMMA CompleteNext == Typed /\ ReadIsKept /\ ReadyIsComplete /\ [Next]_vars => ReadyIsComplete'
<1> SUFFICES ASSUME Typed, ReadIsKept, ReadyIsComplete, [Next]_vars, NEW v \in Versions
             PROVE  /\ status'[v] = "ready" => structured'[v] # "none"
                    /\ v \in crossed' \/ ((status'[v] = "ready" => ~error'[v])
                                          /\ (status'[v] = "failed" => error'[v]))
  BY DEF ReadyIsComplete
<1>1. /\ status[v] = "ready" => structured[v] # "none"
      /\ v \in crossed \/ ((status[v] = "ready" => ~error[v]) /\ (status[v] = "failed" => error[v]))
  BY DEF ReadyIsComplete
<1>2. Same(v) \/ Begun(v) \/ Progressed(v) \/ Changed(v)
  BY RowStep DEF RowsFine
<1>3. CASE Same(v)
  BY <1>1, <1>3 DEF Same
<1>4. CASE Begun(v) \/ Progressed(v)
  BY <1>4 DEF Begun, Progressed
<1>5. CASE Changed(v)
  <2>1. PICK t \in Workers \cup Editors, s \in Done : SettledBy(t, v, s)
    BY <1>5 DEF Changed
  <2>2. read[t].structured # "none" => structured[v] # "none"
    BY <2>1 DEF SettledBy, ReadIsKept
  <2>3. status'[v] = "ready" => structured'[v] # "none"
    BY <1>1, <2>1, <2>2 DEF SettledBy, Done
  <2> QED BY <2>1, <2>3 DEF SettledBy, Done
<1> QED BY <1>2, <1>3, <1>4, <1>5

(* What completes has either found no row or has settled it.               *)
LEMMA Completing ==
    ASSUME Typed, ReadIsKept, [Next]_vars
    PROVE  \A v \in ran' : \/ v \in ran
                           \/ /\ \E w \in Workers : pc[w] = "handle" /\ cur[w] = v
                              /\ v \in missed' \cup gap' \/ status'[v] \in Done
<1> DEFINE Fine == \A v \in ran' : \/ v \in ran
                                   \/ /\ \E w \in Workers : pc[w] = "handle" /\ cur[w] = v
                                      /\ v \in missed' \cup gap' \/ status'[v] \in Done
<1>t. Q!TypeOK /\ RowTypes /\ ReadTypes /\ StepTypes
  BY DEF Typed
<1>1. ASSUME ran' = ran PROVE Fine
  BY <1>1
<1>2. ASSUME NEW v \in Versions, Register(v) \/ Respond(v) PROVE Fine
  BY <1>2 DEF Register, Respond, Send, Finish, queueVars, Q!Enqueue, Q!histVars
<1>3. ASSUME NEW e \in Editors, EditStep(e) PROVE Fine
  BY <1>3 DEF EditStep, Edit, Save, Abandon, queueVars
<1>4. ASSUME NEW w \in Workers, TaskStep(w) PROVE Fine
  <2>1. pc[w] = "handle" /\ cur[w] \in Versions
    BY <1>4, InTask
  <2>2. CASE Q!HandlerReturns(w)
    <3>1. ran' = ran \cup {cur[w]} /\ gap' = gap /\ pc'[w] = "mark"
      BY <1>t, <2>2, TaskTypes DEF Q!TypeOK, Workers
    <3>2. cur[w] \in missed' \cup gap' \/ status'[cur[w]] \in Done
      <4>1. CASE Load(w)
        BY <2>1, <3>1, <4>1 DEF Load, Goto, queueVars
      <4>2. ASSUME NEW s \in Done, NEW e \in BOOLEAN, Settle(w, cur[w], s, e),
                   step[w] \in {"failing", "store"}
            PROVE  status'[cur[w]] \in Done \/ cur[w] \in gap
        <5>1. status'[cur[w]] = s \/ (read[w].status = s /\ status'[cur[w]] = status[cur[w]])
          BY <1>t, <2>1, <4>2, SettleWrites
        <5>2. HoldsRow(w, cur[w])
          BY <2>1, <4>2 DEF HoldsRow
        <5>3. read[w].status \in Done => (status[cur[w]] \in Done \/ cur[w] \in gap)
          BY <2>1, <5>2 DEF ReadIsKept
        <5> QED BY <5>1, <5>3
      <4>3. CASE SetFailed(w)
        BY <3>1, <4>2, <4>3 DEF SetFailed, At, Done
      <4>4. CASE Store(w)
        BY <3>1, <4>2, <4>4 DEF Store, At, Done
      <4>5. ~SetExtracting(w) /\ ~SetStructuring(w) /\ ~Extract(w) /\ ~Answer(w)
        BY <2>1, <3>1 DEF SetExtracting, SetStructuring, Extract, Answer, Goto, queueVars
      <4>6. ~Fail(w)
        BY <1>t, <2>1, <3>1, TaskTypes DEF Fail, Raise, Q!TypeOK, Workers
      <4> QED BY <1>4, <4>1, <4>3, <4>4, <4>5, <4>6 DEF TaskStep
    <3> QED BY <2>1, <3>1, <3>2
  <2>3. CASE Q!HandlerRaises(w)
    BY <1>1, <1>t, <2>3, TaskTypes
  <2>4. CASE UNCHANGED queueVars
    BY <1>1, <2>4 DEF queueVars
  <2> HIDE DEF Fine
  <2> QED BY <1>4, <2>2, <2>3, <2>4, TaskSteps
<1>5. ASSUME NEW w \in Workers, AroundTask(w) \/ Start(w) \/ Crash(w) PROVE Fine
  BY <1>1, <1>5, <1>t, AroundTypes
<1>6. ASSUME QueueStep PROVE Fine
  BY <1>1, <1>6, <1>t, ClockTypes
<1>7. ASSUME UNCHANGED vars PROVE Fine
  BY <1>1, <1>7 DEF vars, queueVars
<1>8. ASSUME NEW w \in Workers, WorkerStep(w) \/ Crash(w) PROVE Fine
  BY <1>4, <1>5, <1>8 DEF WorkerStep
<1>9. Fine
  <2> HIDE DEF Fine
  <2>1. CASE Next
    BY <1>2, <1>3, <1>6, <1>8, <2>1 DEF Next
  <2>2. CASE UNCHANGED vars
    BY <1>7, <2>2
  <2> QED BY <2>1, <2>2
<1> QED BY <1>9

(* A version whose task has completed is worked on only through a hole.    *)
LEMMA SettledNext ==
    P!QueueInv /\ Typed /\ SentIsBegun /\ ReadIsKept /\ RanIsSettled /\ [Next]_vars => RanIsSettled'
<1> SUFFICES ASSUME P!QueueInv, Typed, SentIsBegun, ReadIsKept, RanIsSettled, [Next]_vars,
                    NEW v \in ran'
             PROVE  /\ request'[v] \notin {"none", "flushed"}
                    /\ status'[v] \in Done \/ v \in missed' \cup gap'
  BY DEF RanIsSettled, Settled
<1>1. gap \subseteq gap' /\ missed \subseteq missed'
  BY Lasting, RowStep DEF RowsFine
<1>2. CASE v \in ran
  <2>1. v \in Versions /\ request[v] \notin {"none", "flushed"} /\ (status[v] \in Done \/ v \in missed \cup gap)
    BY <1>2, QueueSays DEF RanIsSettled, Settled
  <2>2. Progressed(v) => v \in gap
    BY <1>2, QueueSays DEF Progressed
  <2>3. Same(v) \/ Changed(v) => status'[v] \in Done \/ v \in missed \cup gap
    BY <2>1 DEF Same, Changed, SettledBy
  <2>4. ~Begun(v)
    BY <2>1 DEF Begun
  <2>5. status'[v] \in Done \/ v \in missed' \cup gap'
    BY <1>1, <2>1, <2>2, <2>3, <2>4, RowStep DEF RowsFine
  <2> QED BY <2>1, <2>5, Lasting
<1>3. CASE v \notin ran
  <2>1. PICK w \in Workers : pc[w] = "handle" /\ cur[w] = v
    BY <1>3, Completing
  <2>2. v \in Versions /\ request[v] \notin {"none", "flushed"}
    BY <2>1, QueueSays DEF SentIsBegun
  <2>3. v \in missed' \cup gap' \/ status'[v] \in Done
    BY <1>3, Completing
  <2> QED BY <2>2, <2>3, Lasting
<1> QED BY <1>2, <1>3

(* The invariant: TaskQueue's, the types, and what settles a version.      *)
LEMMA ResumeStarts == Init => ResumeInv
<1> SUFFICES ASSUME Init PROVE ResumeInv
  OBVIOUS
<1>1. P!QueueInv
  BY QueueStarts
<1>2. TypeOK
  BY <1>1, QueueSays DEF Init, Q!Init, TypeOK, Workers, Done, Statuses, Documents, Rows, NoRow
<1>3. ReadIsKept
  BY ResumeAssumption DEF Init, ReadIsKept, HoldsRow
<1> QED BY <1>1, <1>2, <1>3 DEF Init, Q!Init, ResumeInv, ReadyIsComplete, SentIsBegun, RanIsSettled

LEMMA ResumeInvariant == Spec => []ResumeInv
<1>1. ResumeInv /\ [Next]_vars => ResumeInv'
  BY QueueNext, TypesNext, TypesSplit, SentNext, KeptNext, CompleteNext, SettledNext DEF ResumeInv
<1> QED BY <1>1, ResumeStarts, PTL DEF Spec, SafetySpec

-----------------------------------------------------------------------------
(* Whatever redeliveries, crashes, edits and overlapping runs there are, a *)
(* ready version has its data, and unless the transaction that settled it  *)
(* had read an older row, no error left over; a failed one has its error   *)
(* (services/resumes.py, resume_process.py).                               *)
THEOREM VersionsStaySound == Spec => []VersionsAreSound
<1>1. ResumeInv => VersionsAreSound
  BY DEF ResumeInv, VersionsAreSound
<1> QED BY <1>1, ResumeInvariant, PTL

(* A committed version whose message is deleted and that nobody works on   *)
(* has settled, unless its task ran before the commit (services/resumes.py *)
(* enqueues first) or the idempotency guard had a hole, a read of it that  *)
(* lags included.                                                          *)
THEOREM OnlyRacesStall == Spec => []StallsOnlyThroughRaces
<1>1. ResumeInv => StallsOnlyThroughRaces
  BY QueueSays DEF ResumeInv, StallsOnlyThroughRaces, RanIsSettled
<1> QED BY <1>1, ResumeInvariant, PTL

(* After its task has completed a version changes only as an edit of it is *)
(* saved, unless the guard had a hole (workers/idempotency.py).            *)
THEOREM CompletedStays == Spec => CompletedIsLeftAlone
<1> DEFINE Alone(v) == \/ UNCHANGED <<status[v], structured[v], error[v]>>
                       \/ \E e \in Editors : editing[e] = v /\ editing'[e] # v
<1>1. ASSUME ResumeInv, [Next]_vars, NEW v \in ran \ gap PROVE Alone(v)
  <2>1. v \in Versions /\ Typed /\ request[v] # "none"
    BY <1>1, TypesSplit, QueueSays DEF ResumeInv, RanIsSettled
  <2>2. \A w \in Workers : ~(pc[w] = "handle" /\ cur[w] = v)
    BY <1>1, QueueSays DEF ResumeInv
  <2>3. ~Progressed(v) /\ ~Begun(v)
    BY <2>1, <2>2 DEF Progressed, Begun
  <2>4. Same(v) \/ Changed(v)
    BY <1>1, <2>1, <2>3, RowStep DEF RowsFine
  <2>5. CASE Same(v)
    BY <2>5 DEF Same
  <2>6. CASE Changed(v)
    <3>1. PICK t \in Workers \cup Editors, s \in Done : SettledBy(t, v, s)
      BY <2>6 DEF Changed
    <3>2. t \in Editors /\ editing[t] = v
      BY <2>2, <3>1 DEF SettledBy, HoldsRow
    <3> QED BY <3>1, <3>2 DEF SettledBy
  <2> QED BY <2>4, <2>5, <2>6
<1>2. ResumeInv /\ [Next]_vars => [\A v \in ran \ gap : Alone(v)]_vars
  BY <1>1
<1> QED BY <1>2, ResumeInvariant, PTL DEF Spec, SafetySpec, CompletedIsLeftAlone

-----------------------------------------------------------------------------
(* What the queue makes of the versions, as TaskDelivery has it: composed   *)
(* with the API's requests and the task itself, it keeps its promise.  A    *)
(* registered version's message is retired only once resume_process has     *)
(* completed for it, and is buried otherwise (services/resumes.py, queue/). *)
VersionsAreDelivered == P!Delivery!SafetySpec

THEOREM VersionsAreProcessedFirst == Spec => VersionsAreDelivered
<1>1. Init => P!Delivery!Init
  BY QueueIsAssumed, InitOfQueue, P!DeliveryInit
<1>2. ResumeInv /\ [Next]_vars => [P!Delivery!Next]_(P!Delivery!vars)
  BY QueueIsAssumed, StepsOfQueue, P!DeliveryStep DEF ResumeInv
<1> QED BY <1>1, <1>2, ResumeInvariant, PTL DEF Spec, SafetySpec, VersionsAreDelivered, P!Delivery!SafetySpec
=============================================================================
