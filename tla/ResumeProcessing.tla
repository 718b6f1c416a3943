-------------------------- MODULE ResumeProcessing --------------------------
(***************************************************************************)
(* Résumé versions, from the API request that registers one to the worker  *)
(* task resume.process that extracts and structures it, and the user's     *)
(* edits in between (services/resumes.py, repositories/resumes.py,         *)
(* workers/tasks/resume_process.py).                                       *)
(*                                                                         *)
(* The task runs on the queue of module TaskQueue: the steps below happen  *)
(* in its "handle" state.  A step is an external call or a transaction.  A *)
(* transaction that sets several columns is two steps, the SELECT and the  *)
(* commit: the ORM updates the columns whose new value differs from the    *)
(* row it read, and other commits fall in between.  One that sets a single *)
(* column is one step: it has the effect of a write at its commit, or,     *)
(* where the value read was the same, of one at its SELECT.                *)
(* A version and its one task message share an identity.                   *)
(***************************************************************************)
EXTENDS Naturals, FiniteSets

CONSTANTS Versions,   \* résumé versions, each with its resume.process message
          Editors,    \* PATCH requests that may be open at a time
          Pollers, Lambdas, MaxReceive, BatchSize, NoMsg, NoOwner

VARIABLES
    queue, receives, owner, processed, lagging, pc, cur, batch, acked, ran, reran, gap,
    request,     \* the POST /resumes request that creates the version
    upload,      \* the version comes from an uploaded file (source_file_key)
    readable,    \* that file's text can be extracted
    status,      \* ResumeVersion.status
    rawText,     \* ResumeVersion.raw_text is there
    structured,  \* whose ResumeVersion.structured is
    error,       \* ResumeVersion.error is there
    step,        \* where each worker is inside resume_process
    editing,     \* the version each open PATCH request is about
    read,        \* the row as an open edit or settling commit of the task read it
    \* history
    missed,      \* versions whose task found no row and returned
    crossed      \* versions last settled over a row that was no longer as read

Q == INSTANCE TaskQueue WITH Messages <- Versions, Keys <- Versions,
        KeyOf <- [v \in Versions |-> v], Known <- Versions

ASSUME ResumeAssumption ==
    /\ Pollers \cap Lambdas = {}
    /\ MaxReceive \in Nat \ {0} /\ BatchSize \in Nat \ {0}
    /\ NoMsg \notin Versions /\ NoOwner \notin Pollers \cup Lambdas
    /\ Editors \cap (Pollers \cup Lambdas) = {}

queueVars == <<queue, receives, owner, processed, lagging, pc, cur, batch, acked, ran, reran, gap>>
rowVars == <<request, upload, readable, status, rawText, structured, error>>
histVars == <<missed, crossed>>
vars    == <<queueVars, rowVars, step, editing, read, histVars>>

Workers == Q!Workers
Done    == {"ready", "failed"}

(* The columns that both the task and an edit set. *)
Statuses  == {"none", "pending", "extracting", "structuring"} \cup Done
Documents == {"none", "llm", "user"}
Rows   == [status : Statuses, structured : Documents, error : BOOLEAN]
Row(v) == [status |-> status[v], structured |-> structured[v], error |-> error[v]]
NoRow  == [status |-> "none", structured |-> "none", error |-> FALSE]

TypeOK ==
    /\ Q!TypeOK
    /\ request \in [Versions -> {"none", "flushed", "sent", "committed", "rolledback"}]
    /\ upload \in [Versions -> BOOLEAN]
    /\ readable \in [Versions -> BOOLEAN]
    /\ status \in [Versions -> Statuses]
    /\ rawText \in [Versions -> BOOLEAN]
    /\ structured \in [Versions -> Documents]
    /\ error \in [Versions -> BOOLEAN]
    /\ step \in [Workers -> {"none", "load", "extract", "download", "failing", "structure",
                             "llm", "store"}]
    /\ editing \in [Editors -> Versions \cup {NoMsg}]
    /\ read \in [Workers \cup Editors -> Rows]
    /\ missed \subseteq Versions /\ crossed \subseteq Versions
    /\ \A w \in Workers : step[w] # "none" <=> pc[w] = "handle"

Init ==
    /\ Q!Init
    /\ request = [v \in Versions |-> "none"]
    /\ upload = [v \in Versions |-> FALSE]
    /\ readable = [v \in Versions |-> TRUE]
    /\ status = [v \in Versions |-> "none"]
    /\ rawText = [v \in Versions |-> FALSE]
    /\ structured = [v \in Versions |-> "none"]
    /\ error = [v \in Versions |-> FALSE]
    /\ step = [w \in Workers |-> "none"]
    /\ editing = [e \in Editors |-> NoMsg]
    /\ read = [t \in Workers \cup Editors |-> NoRow]
    /\ missed = {} /\ crossed = {}

-----------------------------------------------------------------------------
(* The API.                                                                 *)

(* ResumeService.register creates the rows and flushes them: no other       *)
(* transaction sees them yet.                                               *)
Register(v) ==
    /\ request[v] = "none"
    /\ request' = [request EXCEPT ![v] = "flushed"]
    /\ \E file, ok \in BOOLEAN :
          /\ ~file => ok
          /\ upload' = [upload EXCEPT ![v] = file]
          /\ readable' = [readable EXCEPT ![v] = ok]
          /\ status' = [status EXCEPT ![v] = IF file THEN "pending" ELSE "structuring"]
          /\ rawText' = [rawText EXCEPT ![v] = ~file]
    /\ UNCHANGED <<queueVars, structured, error, step, editing, read, histVars>>

(* register enqueues the task while the transaction is still open.          *)
Send(v) ==
    /\ request[v] = "flushed"
    /\ Q!Enqueue(v)
    /\ request' = [request EXCEPT ![v] = "sent"]
    /\ UNCHANGED <<upload, readable, status, rawText, structured, error, step, editing, read,
                   histVars>>

(* get_db commits after the endpoint has returned, or rolls back: on an     *)
(* exception of send_message, of the commit, or with the API process.       *)
Finish(v, outcome) ==
    /\ \/ request[v] = "sent"
       \/ request[v] = "flushed" /\ outcome = "rolledback"
    /\ request' = [request EXCEPT ![v] = outcome]
    /\ UNCHANGED <<queueVars, upload, readable, status, rawText, structured, error,
                   step, editing, read, histVars>>

(* update_structured reads the version, whatever its status.                *)
Edit(e, v) ==
    /\ editing[e] = NoMsg /\ request[v] = "committed"
    /\ editing' = [editing EXCEPT ![e] = v]
    /\ read' = [read EXCEPT ![e] = Row(v)]
    /\ UNCHANGED <<queueVars, rowVars, step, histVars>>

(* A commit writes a column where its new value is not the one read.        *)
Dirty(old, new, column) == IF new = old THEN column ELSE new

(* Transaction t, which has read the row of v, settles it.  Where status or *)
(* error has changed since, the outcome may be part t's, part the other's.  *)
Settle(t, v, s, e) ==
    /\ status' = [status EXCEPT ![v] = Dirty(read[t].status, s, @)]
    /\ error' = [error EXCEPT ![v] = Dirty(read[t].error, e, @)]
    /\ crossed' = IF status[v] = read[t].status /\ error[v] = read[t].error
                  THEN crossed \ {v} ELSE crossed \cup {v}
    /\ read' = [read EXCEPT ![t] = NoRow]

(* structured is set to a document of who's: it may equal the one read, and *)
(* is then not written.                                                     *)
Replace(t, v, who) ==
    \/ structured' = [structured EXCEPT ![v] = who]
    \/ read[t].structured # "none" /\ UNCHANGED structured

(* The user's document replaces structured and is committed.                *)
Save_KeepsError(e) ==
    /\ editing[e] \in Versions
    /\ Replace(e, editing[e], "user")
    /\ Settle(e, editing[e], "ready", read[e].error)
    /\ editing' = [editing EXCEPT ![e] = NoMsg]
    /\ UNCHANGED <<queueVars, request, upload, readable, rawText, step, missed>>

Save(e) ==
    /\ editing[e] \in Versions
    /\ Replace(e, editing[e], "user")
    /\ Settle(e, editing[e], "ready", FALSE)
    /\ editing' = [editing EXCEPT ![e] = NoMsg]
    /\ UNCHANGED <<queueVars, request, upload, readable, rawText, step, missed>>

(* get_db rolls back: the flush or the commit fails, or the API dies.       *)
Abandon(e) ==
    /\ editing[e] \in Versions
    /\ editing' = [editing EXCEPT ![e] = NoMsg]
    /\ read' = [read EXCEPT ![e] = NoRow]
    /\ UNCHANGED <<queueVars, rowVars, step, histVars>>

-----------------------------------------------------------------------------
(* resume_process, run by worker w for the version in its hand.             *)

At(w, s)   == pc[w] = "handle" /\ step[w] = s
Goto(w, s) == step' = [step EXCEPT ![w] = s] /\ UNCHANGED queueVars
Return_StaysInTask(w) == Q!HandlerReturns(w) /\ UNCHANGED step
Return(w)  == Q!HandlerReturns(w) /\ step' = [step EXCEPT ![w] = "none"]
Raise(w)   == Q!HandlerRaises(w) /\ step' = [step EXCEPT ![w] = "none"]
ReadRow(w) == read' = [read EXCEPT ![w] = Row(cur[w])]

(* Read the version.  No row: log "gone" and return.  A file whose text was *)
(* not saved yet is extracted first.                                        *)
Load(w) ==
    /\ At(w, "load")
    /\ \/ /\ request[cur[w]] # "committed"
          /\ missed' = missed \cup {cur[w]}
          /\ Return(w)
       \/ /\ request[cur[w]] = "committed"
          /\ Goto(w, IF upload[cur[w]] /\ ~rawText[cur[w]] THEN "extract" ELSE "structure")
          /\ UNCHANGED missed
    /\ UNCHANGED <<rowVars, editing, read, crossed>>

SetExtracting(w) ==
    /\ At(w, "extract")
    /\ status' = [status EXCEPT ![cur[w]] = "extracting"]
    /\ Goto(w, "download")
    /\ UNCHANGED <<request, upload, readable, rawText, structured, error, editing, read, histVars>>

(* The file is downloaded and extracted: its text is saved, or an           *)
(* ExtractionError leads to _set, which reads the version.                  *)
Extract_SwallowsError(w) ==
    /\ At(w, "download")
    /\ \/ /\ readable[cur[w]]
          /\ rawText' = [rawText EXCEPT ![cur[w]] = TRUE]
          /\ Goto(w, "structure")
       \/ /\ ~readable[cur[w]]
          /\ Return(w)
          /\ UNCHANGED rawText
    /\ UNCHANGED <<request, upload, readable, status, structured, error, editing, read, histVars>>

Extract(w) ==
    /\ At(w, "download")
    /\ \/ /\ readable[cur[w]]
          /\ rawText' = [rawText EXCEPT ![cur[w]] = TRUE]
          /\ Goto(w, "structure")
          /\ UNCHANGED read
       \/ /\ ~readable[cur[w]]
          /\ ReadRow(w)
          /\ Goto(w, "failing")
          /\ UNCHANGED rawText
    /\ UNCHANGED <<request, upload, readable, status, structured, error, editing, histVars>>

(* The version is failed, with the error to show; the task ends normally.   *)
SetFailed(w) ==
    /\ At(w, "failing")
    /\ Settle(w, cur[w], "failed", TRUE)
    /\ Return(w)
    /\ UNCHANGED <<request, upload, readable, rawText, structured, editing, missed>>

SetStructuring(w) ==
    /\ At(w, "structure")
    /\ status' = [status EXCEPT ![cur[w]] = "structuring"]
    /\ Goto(w, "llm")
    /\ UNCHANGED <<request, upload, readable, rawText, structured, error, editing, read, histVars>>

(* The LLM answered; the version is read again.                             *)
Answer(w) ==
    /\ At(w, "llm")
    /\ ReadRow(w)
    /\ Goto(w, "store")
    /\ UNCHANGED <<rowVars, editing, histVars>>

(* Its result replaces structured.                                          *)
Store(w) ==
    /\ At(w, "store")
    /\ Replace(w, cur[w], "llm")
    /\ Settle(w, cur[w], "ready", FALSE)
    /\ Return(w)
    /\ UNCHANGED <<request, upload, readable, rawText, editing, missed>>

(* Any other exception leaves the task: the database or S3 is away, the LLM *)
(* is overloaded (ServiceUnavailableError) or refuses the call              *)
(* (LlmRequestError, which the queue retries like every other).             *)
Fail_Returns(w) ==
    /\ pc[w] = "handle"
    /\ Return(w)
    /\ read' = [read EXCEPT ![w] = NoRow]
    /\ UNCHANGED <<rowVars, editing, histVars>>

Fail(w) ==
    /\ pc[w] = "handle"
    /\ Raise(w)
    /\ read' = [read EXCEPT ![w] = NoRow]
    /\ UNCHANGED <<rowVars, editing, histVars>>

TaskStep(w) ==
    \/ Load(w) \/ SetExtracting(w) \/ Extract(w) \/ SetFailed(w)
    \/ SetStructuring(w) \/ Answer(w) \/ Store(w) \/ Fail(w)

-----------------------------------------------------------------------------
(* The worker around the task.                                              *)

Start(w) ==
    /\ Q!Start(w)
    /\ step' = [step EXCEPT ![w] = "load"]
    /\ UNCHANGED <<rowVars, editing, read, histVars>>

AroundTask(w) ==
    /\ \/ \E S \in SUBSET Versions : Q!Receive(w, S)
       \/ \E v \in Versions : Q!Take(w, v)
       \/ Q!Skip(w) \/ Q!Mark(w) \/ Q!StoreRaises(w) \/ Q!Ack(w) \/ Q!EndBatch(w)
    /\ UNCHANGED <<rowVars, step, editing, read, histVars>>

Crash(w) ==
    /\ Q!Crash(w)
    /\ step' = [step EXCEPT ![w] = "none"]
    /\ read' = [read EXCEPT ![w] = NoRow]
    /\ UNCHANGED <<rowVars, editing, histVars>>

QueueStep ==
    /\ \E v \in Versions : \/ Q!VisibilityExpires(v) \/ Q!Redrive(v)
                          \/ Q!KeyExpires(v) \/ Q!CatchUp(v)
    /\ UNCHANGED <<rowVars, step, editing, read, histVars>>

WorkerStep(w) == AroundTask(w) \/ Start(w) \/ TaskStep(w)

EditStep(e) == (\E v \in Versions : Edit(e, v)) \/ Save(e) \/ Abandon(e)

Respond(v) == Send(v) \/ Finish(v, "committed") \/ Finish(v, "rolledback")

Next ==
    \/ \E v \in Versions : Register(v) \/ Respond(v)
    \/ \E e \in Editors : EditStep(e)
    \/ QueueStep
    \/ \E w \in Workers : WorkerStep(w) \/ Crash(w)

(* A request that began ends; workers and SQS go on, as in TaskQueue.       *)
Fairness ==
    /\ \A v \in Versions : WF_vars(Respond(v))
    /\ \A w \in Workers : WF_vars(WorkerStep(w))
    /\ \A v \in Versions : /\ WF_vars(Q!VisibilityExpires(v) /\ QueueStep)
                           /\ WF_vars(Q!Redrive(v) /\ QueueStep)

SafetySpec == Init /\ [][Next]_vars
Spec == SafetySpec /\ Fairness

-----------------------------------------------------------------------------
Settled(v) == status[v] \in Done
Working(v) == \E w \in Workers : pc[w] = "handle" /\ cur[w] = v

(* What the detail page opens in its editor is complete: a ready version    *)
(* has structured data, always; and it has no error left over from an       *)
(* earlier attempt, as a failed one has the error to show, unless the       *)
(* transaction that settled it last had read the row before another one     *)
(* changed it (a save beside the task's failure leaves ready with an error).*)
ReadyIsComplete ==
    \A v \in Versions :
        /\ status[v] = "ready" => structured[v] # "none"
        /\ v \in crossed \/ /\ status[v] = "ready" => ~error[v]
                            /\ status[v] = "failed" => error[v]

(* Every variable has its type, a worker is in the task just when it holds  *)
(* a message, and what has settled is complete.                             *)
VersionsAreSound == TypeOK /\ ReadyIsComplete

(* Once the task has completed, the version belongs to the user: it changes *)
(* (back to a spinner, or over the user's edit) only as an edit of it is    *)
(* saved, unless the idempotency guard had one of the holes of              *)
(* RerunOnlyThroughGap.                                                     *)
CompletedIsLeftAlone ==
    [][\A v \in ran \ gap :
          \/ UNCHANGED <<status[v], structured[v], error[v]>>
          \/ \E e \in Editors : editing[e] = v /\ editing'[e] # v]_vars

(* A committed version whose message is gone and that nobody works on is    *)
(* ready or failed - unless its task ran before the request committed, or   *)
(* the guard let it run again (one run may settle and retire it, the other  *)
(* set it back to structuring and fail).                                    *)
StallsOnlyThroughRaces ==
    \A v \in Versions :
        request[v] = "committed" /\ queue[v] = "deleted" /\ ~Working(v)
            => Settled(v) \/ v \in missed \cup gap

(* Every registered version settles, or its message is dead-lettered, or it *)
(* fell to one of those races.                                              *)
EveryVersionSettles ==
    \A v \in Versions :
        request[v] = "committed" ~> (Settled(v) \/ queue[v] = "dlq" \/ v \in missed \cup gap)
=============================================================================
