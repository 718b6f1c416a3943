-------------------------- MODULE JobSourceFetch ---------------------------
(***************************************************************************)
(* Job sources: career pages a user registers, and the task that fetches   *)
(* them again and again (services/jobs.py, ingest/scheduler.py,            *)
(* workers/tasks/job_source_fetch.py).                                     *)
(*                                                                         *)
(* Fetch messages come from three senders - registration, "fetch now" and  *)
(* the scheduler - and each is a message of its own, so the idempotency    *)
(* keys do not keep two fetches of one source apart.  What the queue does  *)
(* with a message is here what TaskDelivery promises: it is run at least   *)
(* once, perhaps by several workers at a time, until it is retired or      *)
(* buried.  The fetch itself (resolve and persist) is module JobIngest.    *)
(***************************************************************************)
EXTENDS Naturals, FiniteSets

CONSTANTS
    Sources,
    Workers,
    Messages,      \* identities of fetch messages; reused, so it bounds those in the queue
    MaxFailures,   \* _MAX_FAILURES = 5
    NoSource, NoMessage

ASSUME FetchAssumption ==
    /\ MaxFailures \in Nat \ {0}
    /\ NoSource \notin Sources
    /\ NoMessage \notin Messages

NoRow == [failures |-> 0, status |-> "none"]

VARIABLES
    row,        \* where the row of each source is between register and remove
    status,     \* JobSource.status
    failures,   \* JobSource.consecutive_failures
    due,        \* last_fetched_at is null or older than fetch_interval_hours
    message,    \* the source each queued fetch message names
    selected,   \* the sources the scheduler's current run has yet to enqueue
    pc,         \* where each worker is inside job_source_fetch
    inHand,     \* the message it works on
    src,        \* the source that message names
    outcome,    \* what resolve returned
    read,       \* the row its last transaction read
    \* history
    streak,     \* fetches recorded as failed since the last one recorded as ok
    raced       \* sources two recording transactions overlapped on

rowVars  == <<row, status, failures, due>>
taskVars == <<pc, inHand, src, outcome, read>>
histVars == <<streak, raced>>
vars == <<row, status, failures, due, message, selected,
          pc, inHand, src, outcome, read, streak, raced>>

Statuses == {"active", "paused", "error"}
Outcomes == {"ok", "error"}

(* consecutive_failures goes on past the limit if the user resumes a source *)
(* that keeps failing; one above the limit stands for all of those.         *)
Cap     == MaxFailures + 1
Plus1(n) == IF n < Cap THEN n + 1 ELSE n

TypeOK ==
    /\ row \in [Sources -> {"none", "flushed", "sent", "committed", "removed"}]
    /\ status \in [Sources -> Statuses]
    /\ failures \in [Sources -> 0..Cap]
    /\ due \in [Sources -> BOOLEAN]
    /\ message \in [Messages -> Sources \cup {NoSource}]
    /\ selected \subseteq Sources
    /\ pc \in [Workers -> {"idle", "load", "resolve", "record", "write", "retire"}]
    /\ inHand \in [Workers -> Messages \cup {NoMessage}]
    /\ src \in [Workers -> Sources \cup {NoSource}]
    /\ outcome \in [Workers -> Outcomes \cup {"none"}]
    /\ read \in [Workers -> [failures : 0..Cap, status : Statuses] \cup {NoRow}]
    /\ streak \in [Sources -> 0..Cap]
    /\ raced \subseteq Sources
    /\ \A w \in Workers : /\ pc[w] = "idle" <=> inHand[w] = NoMessage
                          /\ pc[w] = "idle" <=> src[w] = NoSource
                          /\ pc[w] = "write" => read[w] # NoRow

Init ==
    /\ row = [s \in Sources |-> "none"]
    /\ status = [s \in Sources |-> "active"]
    /\ failures = [s \in Sources |-> 0]
    /\ due = [s \in Sources |-> TRUE]
    /\ message = [m \in Messages |-> NoSource]
    /\ selected = {}
    /\ pc = [w \in Workers |-> "idle"]
    /\ inHand = [w \in Workers |-> NoMessage]
    /\ src = [w \in Workers |-> NoSource]
    /\ outcome = [w \in Workers |-> "none"]
    /\ read = [w \in Workers |-> NoRow]
    /\ streak = [s \in Sources |-> 0]
    /\ raced = {}

Active(s) == row[s] = "committed" /\ status[s] = "active"

-----------------------------------------------------------------------------
(* The API, one request at a time per source.                               *)

(* _enqueue_fetch: a message whose identity nobody uses any more. *)
EnqueueFetch(s) ==
    \E m \in Messages :
        /\ message[m] = NoSource /\ \A w \in Workers : inHand[w] # m
        /\ message' = [message EXCEPT ![m] = s]

(* register flushes the row, enqueues the first fetch, and the request's    *)
(* commit (or rollback) comes after both, as for a résumé.                  *)
Register(s) ==
    /\ row[s] = "none"
    /\ row' = [row EXCEPT ![s] = "flushed"]
    /\ UNCHANGED <<status, failures, due, message, selected, taskVars, histVars>>

SendFirstFetch(s) ==
    /\ row[s] = "flushed"
    /\ EnqueueFetch(s)
    /\ row' = [row EXCEPT ![s] = "sent"]
    /\ UNCHANGED <<status, failures, due, selected, taskVars, histVars>>

Finish(s, end) ==
    /\ row[s] = "sent" \/ (row[s] = "flushed" /\ end = "removed")
    /\ row' = [row EXCEPT ![s] = end]
    /\ UNCHANGED <<status, failures, due, message, selected, taskVars, histVars>>

(* pause and resume: set_status, nothing else. *)
SetStatus(s, new) ==
    /\ row[s] = "committed"
    /\ status' = [status EXCEPT ![s] = new]
    /\ UNCHANGED <<row, failures, due, message, selected, taskVars, histVars>>

Remove(s) ==
    /\ row[s] = "committed"
    /\ row' = [row EXCEPT ![s] = "removed"]
    /\ UNCHANGED <<status, failures, due, message, selected, taskVars, histVars>>

TriggerFetch(s) ==
    /\ Active(s)
    /\ EnqueueFetch(s)
    /\ UNCHANGED <<rowVars, selected, taskVars, histVars>>

-----------------------------------------------------------------------------
(* The scheduler.  It selects the due sources, then enqueues one after the  *)
(* other, whatever has become of them; a fetch already queued is no reason  *)
(* not to enqueue another.                                                  *)

Lapse(s) ==
    /\ row[s] = "committed" /\ ~due[s]
    /\ due' = [due EXCEPT ![s] = TRUE]
    /\ UNCHANGED <<row, status, failures, message, selected, taskVars, histVars>>

ScheduleSelect_SkipsFailing ==
    /\ selected = {}
    /\ selected' = {s \in Sources : Active(s) /\ due[s] /\ failures[s] = 0}
    /\ selected' # {}
    /\ UNCHANGED <<rowVars, message, taskVars, histVars>>

ScheduleSelect ==
    /\ selected = {}
    /\ selected' = {s \in Sources : Active(s) /\ due[s]}
    /\ selected' # {}
    /\ UNCHANGED <<rowVars, message, taskVars, histVars>>

ScheduleSend(s) ==
    /\ s \in selected
    /\ EnqueueFetch(s)
    /\ selected' = selected \ {s}
    /\ UNCHANGED <<rowVars, taskVars, histVars>>

(* The scheduler's process dies, or a send fails: the rest waits for its    *)
(* next run.                                                                *)
ScheduleAbort ==
    /\ selected # {}
    /\ selected' = {}
    /\ UNCHANGED <<rowVars, message, taskVars, histVars>>

-----------------------------------------------------------------------------
(* job_source_fetch.                                                        *)

(* A worker is given the message, perhaps while another still works on it.  *)
Begin(w, m) ==
    /\ pc[w] = "idle" /\ message[m] # NoSource
    /\ pc' = [pc EXCEPT ![w] = "load"]
    /\ inHand' = [inHand EXCEPT ![w] = m]
    /\ src' = [src EXCEPT ![w] = message[m]]
    /\ UNCHANGED <<rowVars, message, selected, outcome, read, histVars>>

At(w, state)   == pc[w] = state
Goto(w, state) == pc' = [pc EXCEPT ![w] = state]

(* The task's local variables end with it. *)
Leave(w, state) ==
    /\ Goto(w, state)
    /\ outcome' = [outcome EXCEPT ![w] = "none"]
    /\ read' = [read EXCEPT ![w] = NoRow]

Return(w) == Leave(w, "retire")

LetGo(w) ==
    /\ Leave(w, "idle")
    /\ inHand' = [inHand EXCEPT ![w] = NoMessage]
    /\ src' = [src EXCEPT ![w] = NoSource]

(* Read the source.  Gone or not active: return. *)
Load(w) ==
    /\ At(w, "load")
    /\ Goto(w, IF Active(src[w]) THEN "resolve" ELSE "retire")
    /\ UNCHANGED <<rowVars, message, selected, inHand, src, outcome, read, histVars>>

(* resolve, and persist if there is something to keep.  Every expected      *)
(* failure - unreachable page, robots.txt, the LLM away or refusing - comes *)
(* back as an error of resolve; an exception of either is Fail.             *)
ResolveAndPersist(w) ==
    /\ At(w, "resolve")
    /\ \E o \in Outcomes : outcome' = [outcome EXCEPT ![w] = o]
    /\ Goto(w, "record")
    /\ UNCHANGED <<rowVars, message, selected, inHand, src, read, histVars>>

(* The recording transaction reads the row ...                              *)
ReadRow(w) ==
    /\ At(w, "record")
    /\ \/ /\ row[src[w]] # "committed"
          /\ Return(w)
       \/ /\ row[src[w]] = "committed"
          /\ read' = [read EXCEPT ![w] = [failures |-> failures[src[w]], status |-> status[src[w]]]]
          /\ Goto(w, "write")
          /\ UNCHANGED outcome
    /\ UNCHANGED <<rowVars, message, selected, inHand, src, histVars>>

(* ... and writes the columns that differ from what it read.                *)
Counted_StepsDown(w) == IF outcome[w] = "ok" THEN read[w].failures - 1 ELSE Plus1(read[w].failures)

Counted_NoReset(w) == IF outcome[w] = "ok" THEN read[w].failures ELSE Plus1(read[w].failures)

Counted(w) == IF outcome[w] = "ok" THEN 0 ELSE Plus1(read[w].failures)
Judged(w)  == IF outcome[w] # "ok" /\ Counted(w) >= MaxFailures THEN "error" ELSE read[w].status

Dirty_Always(old, new, column) == new

Dirty(old, new, column) == IF new = old THEN column ELSE new

RecordHistory(w) ==
    LET s == src[w] IN
    /\ streak' = [streak EXCEPT ![s] = IF outcome[w] = "ok" THEN 0 ELSE Plus1(@)]
    /\ raced' = IF \E v \in Workers \ {w} : At(v, "write") /\ src[v] = s
                THEN raced \cup {s} ELSE raced

WriteRow(w) ==
    LET s == src[w] IN
    /\ At(w, "write") /\ row[s] = "committed"
    /\ failures' = [failures EXCEPT ![s] = Dirty(read[w].failures, Counted(w), @)]
    /\ status' = [status EXCEPT ![s] = Dirty(read[w].status, Judged(w), @)]
    /\ due' = [due EXCEPT ![s] = FALSE]
    /\ RecordHistory(w)
    /\ Return(w)
    /\ UNCHANGED <<row, message, selected, inHand, src>>

(* The task returned: the worker marks and deletes the message.             *)
Retire(w) ==
    /\ At(w, "retire")
    /\ message' = [message EXCEPT ![inHand[w]] = NoSource]
    /\ LetGo(w)
    /\ UNCHANGED <<rowVars, selected, histVars>>

(* The task raises or its worker dies, at any point: an unexpected error,   *)
(* the database away, a row it writes gone (a job inserted for a removed    *)
(* source, the removed source updated).  The message stays.                 *)
Fail(w) ==
    /\ ~At(w, "idle")
    /\ LetGo(w)
    /\ UNCHANGED <<rowVars, message, selected, histVars>>

(* After MaxReceive deliveries the queue gives the message up.              *)
Bury(m) ==
    /\ message[m] # NoSource
    /\ \E w \in Workers : inHand[w] = m
    /\ message' = [message EXCEPT ![m] = NoSource]
    /\ UNCHANGED <<rowVars, selected, taskVars, histVars>>

-----------------------------------------------------------------------------
TaskStep(w) == \/ Load(w) \/ ResolveAndPersist(w)
               \/ ReadRow(w) \/ WriteRow(w) \/ Retire(w) \/ Fail(w)

Take(w) == \E m \in Messages : Begin(w, m)

Respond(s) == SendFirstFetch(s) \/ Finish(s, "committed") \/ Finish(s, "removed")

Next ==
    \/ \E s \in Sources : \/ Register(s) \/ Respond(s)
                          \/ SetStatus(s, "active") \/ SetStatus(s, "paused")
                          \/ Remove(s) \/ TriggerFetch(s) \/ Lapse(s) \/ ScheduleSend(s)
    \/ ScheduleSelect \/ ScheduleAbort
    \/ \E w \in Workers : Take(w) \/ TaskStep(w)
    \/ \E m \in Messages : Bury(m)

(* The scheduler runs again and again, not each of its runs dies before it  *)
(* reaches a source, and workers take what is queued and come to an end     *)
(* with it (each call the task makes has a timeout).                        *)
Fairness ==
    /\ WF_vars(ScheduleSelect)
    /\ \A s \in Sources : SF_vars(ScheduleSend(s))
    /\ \A w \in Workers : WF_vars(Take(w)) /\ WF_vars(TaskStep(w))

SafetySpec == Init /\ [][Next]_vars
Spec == SafetySpec /\ Fairness

-----------------------------------------------------------------------------
(* consecutive_failures is what its name says, the fetches recorded as      *)
(* failed since the last one recorded as ok - unless two recording          *)
(* transactions overlapped: each reads the counter and writes it back.      *)
CounterIsExact == \A s \in Sources : s \in raced \/ failures[s] = streak[s]

(* development-log.md: the task will "back the source off to `error` after  *)
(* 5 consecutive failures" - and, races aside, only then.                   *)
ErrorOnlyAfterStreak ==
    [][\A s \in Sources :
          status[s] # "error" /\ status'[s] = "error"
             => streak'[s] >= MaxFailures \/ s \in raced']_vars

(* A fetch never resumes or pauses a source: one that was under way when    *)
(* the user paused the source, or read the row before they did, leaves it   *)
(* paused, or in error, but not active.                                     *)
UserDecidesActive ==
    [][pc' # pc => \A s \in Sources : status'[s] \in {status[s], "error"}]_vars

(* A source that is due is eventually fetched: the message of a first fetch *)
(* that ran before the registration was committed, or that the queue gave   *)
(* up, is made good by the scheduler.                                       *)
DueIsPickedUp ==
    \A s \in Sources :
        Active(s) /\ due[s] ~> ~(Active(s) /\ due[s]) \/ \E w \in Workers : src[w] = s

(* The same line of development-log.md without the exception: the code does *)
(* not keep it, a fetch can put a source in error that read the counter     *)
(* before another recorded its success.                                     *)
ErrorMeansStreak ==
    [][\A s \in Sources :
          status[s] # "error" /\ status'[s] = "error" => streak'[s] >= MaxFailures]_vars
=============================================================================
