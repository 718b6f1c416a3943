------------------------ MODULE JobSourceFetchProofs ------------------------
(***************************************************************************)
(* Proofs about JobSourceFetch, for any sources, workers and messages and  *)
(* any failure limit: what the failure counter is worth.                   *)
(***************************************************************************)
EXTENDS JobSourceFetch, TLAPS

(* A recording transaction that has read the row still has the counter's    *)
(* value in its hand, unless another one has overtaken it.                  *)
ReadIsCurrent ==
    \A w \in Workers :
        pc[w] = "write" /\ src[w] \notin raced => read[w].failures = failures[src[w]]

FetchInv == TypeOK /\ CounterIsExact /\ ReadIsCurrent

-----------------------------------------------------------------------------
(* The cap on the counters is a natural number above the limit.             *)
LEMMA CapNat == Cap \in Nat /\ MaxFailures < Cap
  BY FetchAssumption DEF Cap

(* The capped successor of a count is a count.                              *)
LEMMA Plus1Type == \A n \in 0..Cap : Plus1(n) \in 0..Cap
  BY CapNat DEF Plus1

(* The initial states have the right types.                                 *)
LEMMA TypeInit == Init => TypeOK
  BY CapNat, FetchAssumption DEF Init, TypeOK, Statuses

(* A worker that lets go of its message is idle with nothing in hand.       *)
LEMMA LetGoType ==
  ASSUME TypeOK, NEW w \in Workers, LetGo(w)
  PROVE  /\ pc' \in [Workers -> {"idle", "load", "resolve", "record", "write", "retire"}]
         /\ outcome' \in [Workers -> Outcomes \cup {"none"}]
         /\ read' \in [Workers -> [failures : 0..Cap, status : Statuses] \cup {NoRow}]
         /\ inHand' \in [Workers -> Messages \cup {NoMessage}]
         /\ src' \in [Workers -> Sources \cup {NoSource}]
         /\ \A v \in Workers : /\ pc'[v] = "idle" <=> inHand'[v] = NoMessage
                               /\ pc'[v] = "idle" <=> src'[v] = NoSource
                               /\ pc'[v] = "write" => read'[v] # NoRow
  BY DEF LetGo, Leave, Goto, TypeOK

(* No step leaves the types.                                                *)
LEMMA TypeStep == TypeOK /\ [Next]_vars => TypeOK'
<1>. SUFFICES ASSUME TypeOK, [Next]_vars PROVE TypeOK'
  OBVIOUS
<1>. USE FetchAssumption DEF TypeOK, rowVars, taskVars, histVars
<1>1. ASSUME NEW s \in Sources, Register(s) PROVE TypeOK'
  BY <1>1 DEF Register
<1>2. ASSUME NEW s \in Sources, Respond(s) PROVE TypeOK'
  BY <1>2 DEF Respond, SendFirstFetch, EnqueueFetch, Finish
<1>3. ASSUME NEW s \in Sources, NEW new \in Statuses, SetStatus(s, new) PROVE TypeOK'
  BY <1>3 DEF SetStatus
<1>4. ASSUME NEW s \in Sources, Remove(s) PROVE TypeOK'
  BY <1>4 DEF Remove
<1>5. ASSUME NEW s \in Sources, TriggerFetch(s) PROVE TypeOK'
  BY <1>5 DEF TriggerFetch, EnqueueFetch
<1>6. ASSUME NEW s \in Sources, Lapse(s) PROVE TypeOK'
  BY <1>6 DEF Lapse
<1>7. ASSUME NEW s \in Sources, ScheduleSend(s) PROVE TypeOK'
  BY <1>7 DEF ScheduleSend, EnqueueFetch
<1>8. CASE ScheduleSelect \/ ScheduleAbort
  BY <1>8 DEF ScheduleSelect, ScheduleAbort
<1>9. ASSUME NEW w \in Workers, NEW m \in Messages, Begin(w, m) PROVE TypeOK'
  BY <1>9 DEF Begin
<1>10. ASSUME NEW w \in Workers, Load(w) PROVE TypeOK'
  BY <1>10 DEF Load, At, Goto
<1>11. ASSUME NEW w \in Workers, ResolveAndPersist(w) PROVE TypeOK'
  BY <1>11 DEF ResolveAndPersist, At, Goto
<1>12. ASSUME NEW w \in Workers, ReadRow(w) PROVE TypeOK'
  <2>. DEFINE now == [failures |-> failures[src[w]], status |-> status[src[w]]]
  <2>1. src[w] \in Sources /\ pc[w] = "record"
    BY <1>12 DEF ReadRow, At
  <2>2. now \in [failures : 0..Cap, status : Statuses]
    BY <2>1
  <2>3. now # NoRow
    BY <2>1 DEF NoRow, Statuses
  <2>4. CASE Return(w)
    BY <1>12, <2>1, <2>4 DEF ReadRow, Return, Leave, Goto
  <2>5. CASE read' = [read EXCEPT ![w] = now] /\ Goto(w, "write") /\ UNCHANGED outcome
    <3>. HIDE DEF now
    <3>1. read' \in [Workers -> [failures : 0..Cap, status : Statuses] \cup {NoRow}]
      BY <2>2, <2>5
    <3>2. \A v \in Workers : pc'[v] = "write" => read'[v] # NoRow
      BY <2>3, <2>5 DEF Goto
    <3>3. QED
      BY <1>12, <2>1, <2>5, <3>1, <3>2 DEF ReadRow, Goto
  <2>6. QED
    BY <1>12, <2>4, <2>5 DEF ReadRow
<1>13. ASSUME NEW w \in Workers, WriteRow(w) PROVE TypeOK'
  <2>. DEFINE s == src[w]
  <2>1. s \in Sources /\ read[w] \in [failures : 0..Cap, status : Statuses]
    BY <1>13 DEF WriteRow, At
  <2>2. Counted(w) \in 0..Cap /\ Judged(w) \in Statuses
    BY <2>1, CapNat, Plus1Type DEF Counted, Judged, Statuses
  <2>3. failures' \in [Sources -> 0..Cap] /\ status' \in [Sources -> Statuses]
    BY <1>13, <2>1, <2>2 DEF WriteRow, Dirty
  <2>4. streak' \in [Sources -> 0..Cap] /\ raced' \subseteq Sources
    BY <1>13, <2>1, CapNat, Plus1Type DEF WriteRow, RecordHistory
  <2>5. QED
    BY <1>13, <2>3, <2>4 DEF WriteRow, Return, Leave, Goto, At
<1>14. ASSUME NEW w \in Workers, Retire(w) PROVE TypeOK'
  BY <1>14, LetGoType DEF Retire
<1>15. ASSUME NEW w \in Workers, Fail(w) PROVE TypeOK'
  BY <1>15, LetGoType DEF Fail
<1>16. ASSUME NEW m \in Messages, Bury(m) PROVE TypeOK'
  BY <1>16 DEF Bury
<1>17. CASE UNCHANGED vars
  BY <1>17 DEF vars
<1>18. QED
  BY <1>1, <1>2, <1>3, <1>4, <1>5, <1>6, <1>7, <1>8, <1>9, <1>10, <1>11, <1>12,
     <1>13, <1>14, <1>15, <1>16, <1>17 DEF Next, TaskStep, Take, Statuses

-----------------------------------------------------------------------------
(* The counter is exact at the start.                                       *)
LEMMA CountInit == Init => CounterIsExact /\ ReadIsCurrent
  BY DEF Init, CounterIsExact, ReadIsCurrent

(* Recording an outcome counts it, or the transactions overlapped; and it   *)
(* marks every transaction it overtakes.                                    *)
LEMMA WriteRowCounts ==
  ASSUME FetchInv, NEW w \in Workers, WriteRow(w)
  PROVE  (CounterIsExact /\ ReadIsCurrent)'
<1>. DEFINE s == src[w]
<1>1. /\ s \in Sources /\ read[w] \in [failures : 0..Cap, status : Statuses]
      /\ pc[w] = "write"
  BY DEF FetchInv, TypeOK, WriteRow, At
<1>2. \A t \in Sources \ {s} :
         failures'[t] = failures[t] /\ streak'[t] = streak[t] /\ (t \in raced <=> t \in raced')
  BY <1>1 DEF FetchInv, TypeOK, WriteRow, RecordHistory
<1>3. s \in raced' \/ (failures'[s] = Counted(w) /\ streak'[s] = Counted(w))
  <2>. SUFFICES ASSUME s \notin raced' PROVE failures'[s] = Counted(w) /\ streak'[s] = Counted(w)
    OBVIOUS
  <2>1. s \notin raced
    BY DEF WriteRow, RecordHistory
  <2>2. failures[s] = read[w].failures /\ failures[s] = streak[s]
    BY <1>1, <2>1 DEF FetchInv, ReadIsCurrent, CounterIsExact
  <2>3. QED
    BY <1>1, <2>2 DEF FetchInv, TypeOK, WriteRow, RecordHistory, Dirty, Counted
<1>4. CounterIsExact'
  BY <1>2, <1>3 DEF FetchInv, CounterIsExact
<1>5. ASSUME NEW v \in Workers, pc'[v] = "write", src'[v] \notin raced'
      PROVE  read'[v].failures = failures'[src'[v]]
  <2>1. v # w /\ pc[v] = "write" /\ src'[v] = src[v] /\ read'[v] = read[v]
    BY <1>1, <1>5 DEF FetchInv, TypeOK, WriteRow, Return, Leave, Goto
  <2>2. src[v] # s
    BY <1>1, <1>5, <2>1 DEF WriteRow, RecordHistory, At
  <2>3. src[v] \in Sources
    BY <2>1 DEF FetchInv, TypeOK
  <2>4. QED
    BY <1>2, <1>5, <2>1, <2>2, <2>3 DEF FetchInv, ReadIsCurrent
<1>6. QED
  BY <1>4, <1>5 DEF ReadIsCurrent

(* No other step touches a counter, and only ReadRow enters "write".        *)
LEMMA CountStep == FetchInv /\ [Next]_vars => (CounterIsExact /\ ReadIsCurrent)'
<1>. SUFFICES ASSUME FetchInv, [Next]_vars PROVE (CounterIsExact /\ ReadIsCurrent)'
  OBVIOUS
<1>. USE DEF FetchInv, CounterIsExact, ReadIsCurrent
<1>1. CASE UNCHANGED <<failures, pc, src, read, streak, raced>>
  BY <1>1
<1>2. ASSUME NEW w \in Workers, WriteRow(w) PROVE (CounterIsExact /\ ReadIsCurrent)'
  BY <1>2, WriteRowCounts
<1>3. ASSUME NEW w \in Workers, ReadRow(w) PROVE (CounterIsExact /\ ReadIsCurrent)'
  BY <1>3 DEF ReadRow, Return, Leave, Goto, TypeOK, rowVars, histVars, At
<1>4. ASSUME NEW w \in Workers, NEW m \in Messages, Begin(w, m)
      PROVE  (CounterIsExact /\ ReadIsCurrent)'
  BY <1>4 DEF Begin, TypeOK, rowVars, histVars
<1>5. ASSUME NEW w \in Workers, Load(w) \/ ResolveAndPersist(w)
      PROVE  (CounterIsExact /\ ReadIsCurrent)'
  BY <1>5 DEF Load, ResolveAndPersist, Goto, TypeOK, rowVars, histVars
<1>6. ASSUME NEW w \in Workers, Retire(w) \/ Fail(w) PROVE (CounterIsExact /\ ReadIsCurrent)'
  BY <1>6 DEF Retire, Fail, LetGo, Leave, Goto, TypeOK, rowVars, histVars
<1>7. ASSUME NEW s \in Sources,
             \/ Register(s) \/ Respond(s) \/ SetStatus(s, "active") \/ SetStatus(s, "paused")
             \/ Remove(s) \/ TriggerFetch(s) \/ Lapse(s) \/ ScheduleSend(s)
      PROVE  UNCHANGED <<failures, pc, src, read, streak, raced>>
  BY <1>7 DEF Register, Respond, SendFirstFetch, Finish, SetStatus, Remove, TriggerFetch,
              Lapse, ScheduleSend, rowVars, taskVars, histVars
<1>8. ScheduleSelect \/ ScheduleAbort \/ (\E m \in Messages : Bury(m)) \/ UNCHANGED vars
      => UNCHANGED <<failures, pc, src, read, streak, raced>>
  BY DEF ScheduleSelect, ScheduleAbort, Bury, rowVars, taskVars, histVars, vars
<1>9. QED
  BY <1>1, <1>2, <1>3, <1>4, <1>5, <1>6, <1>7, <1>8 DEF Next, TaskStep, Take

-----------------------------------------------------------------------------
(* Type correctness: consecutive_failures, statuses and the workers' hands  *)
(* stay what they are declared to be.                                       *)
THEOREM FetchTypeCorrect == SafetySpec => []TypeOK
<1>1. Init => TypeOK
  BY TypeInit
<1>2. TypeOK /\ [Next]_vars => TypeOK'
  BY TypeStep
<1>3. QED
  BY <1>1, <1>2, PTL DEF SafetySpec

(* The inductive invariant behind the two theorems below.                   *)
THEOREM FetchInvariant == SafetySpec => []FetchInv
<1>1. Init => FetchInv
  BY TypeInit, CountInit DEF FetchInv
<1>2. FetchInv /\ [Next]_vars => FetchInv'
  BY TypeStep, CountStep DEF FetchInv
<1>3. QED
  BY <1>1, <1>2, PTL DEF SafetySpec

(* consecutive_failures counts the failures since the last success exactly, *)
(* for any number of fetches, unless two recording transactions overlapped. *)
THEOREM FailureCountIsExact == SafetySpec => []CounterIsExact
<1>1. FetchInv => CounterIsExact
  BY DEF FetchInv
<1>2. QED
  BY <1>1, FetchInvariant, PTL

(* A source goes into error only after MaxFailures failures in a row, or    *)
(* through such an overlap (job_source_fetch).                              *)
THEOREM ErrorNeedsStreak == SafetySpec => ErrorOnlyAfterStreak
<1>. DEFINE Late(s) == status[s] # "error" /\ status'[s] = "error"
<1>1. FetchInv /\ [Next]_vars =>
        \A s \in Sources : Late(s) => streak'[s] >= MaxFailures \/ s \in raced'
  <2>. SUFFICES ASSUME FetchInv, [Next]_vars, NEW s \in Sources, Late(s), s \notin raced'
                PROVE  streak'[s] >= MaxFailures
    OBVIOUS
  <2>1. PICK w \in Workers : WriteRow(w)
    <3>1. status' # status
      OBVIOUS
    <3>2. ASSUME NEW t \in Sources, NEW new \in {"active", "paused"}, SetStatus(t, new) PROVE FALSE
      BY <3>2 DEF SetStatus, FetchInv, TypeOK
    <3>3. QED
      BY <3>1, <3>2 DEF Next, TaskStep, Take, Register, Respond, SendFirstFetch, Finish, Remove,
         TriggerFetch, Lapse, ScheduleSend, ScheduleSelect, ScheduleAbort, Bury, Begin, Load,
         ResolveAndPersist, ReadRow, Retire, Fail, rowVars, vars
  <2>2. /\ src[w] \in Sources /\ read[w] \in [failures : 0..Cap, status : Statuses]
        /\ pc[w] = "write"
    BY <2>1 DEF FetchInv, TypeOK, WriteRow, At
  <2>3. s = src[w]
    BY <2>1, <2>2 DEF FetchInv, TypeOK, WriteRow
  <2>4. outcome[w] # "ok" /\ Counted(w) >= MaxFailures
    BY <2>1, <2>2, <2>3 DEF FetchInv, TypeOK, WriteRow, Dirty, Judged
  <2>5. s \notin raced
    BY <2>1, <2>3 DEF WriteRow, RecordHistory
  <2>6. streak[s] = read[w].failures
    BY <2>2, <2>3, <2>5 DEF FetchInv, ReadIsCurrent, CounterIsExact
  <2>7. QED
    BY <2>1, <2>3, <2>4, <2>6 DEF FetchInv, TypeOK, WriteRow, RecordHistory, Counted
<1>2. QED
  BY <1>1, FetchInvariant, PTL DEF SafetySpec, ErrorOnlyAfterStreak

(* A fetch changes a status to error or not at all: pausing and resuming    *)
(* are the user's (only the columns it set itself are written).             *)
THEOREM FetchLeavesStatus == SafetySpec => UserDecidesActive
<1>1. TypeOK /\ [Next]_vars =>
        (pc' # pc => \A s \in Sources : status'[s] \in {status[s], "error"})
  <2>. SUFFICES ASSUME TypeOK, [Next]_vars, pc' # pc, NEW s \in Sources
                PROVE  status'[s] \in {status[s], "error"}
    OBVIOUS
  <2>1. status' = status \/ \E w \in Workers : WriteRow(w)
    BY DEF Next, TaskStep, Take, Register, Respond, SendFirstFetch, Finish, SetStatus, Remove,
       TriggerFetch, Lapse, ScheduleSend, ScheduleSelect, ScheduleAbort, Bury, Begin, Load,
       ResolveAndPersist, ReadRow, Retire, Fail, rowVars, taskVars, vars
  <2>2. ASSUME NEW w \in Workers, WriteRow(w) PROVE status'[s] \in {status[s], "error"}
    <3>1. status' = [status EXCEPT ![src[w]] = Dirty(read[w].status, Judged(w), @)]
      BY <2>2 DEF WriteRow
    <3>2. Judged(w) \in {read[w].status, "error"}
      BY DEF Judged
    <3>3. QED
      BY <3>1, <3>2 DEF Dirty, TypeOK
  <2>3. QED
    BY <2>1, <2>2
<1>2. QED
  BY <1>1, FetchTypeCorrect, PTL DEF SafetySpec, UserDecidesActive
=============================================================================
