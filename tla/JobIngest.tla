----------------------------- MODULE JobIngest ------------------------------
(***************************************************************************)
(* What a fetch of a job source does to the user's jobs: resolve compares  *)
(* the board with the hashes of the jobs already held and has the new ones *)
(* scored; persist then saves the survivors, clusters them into postings   *)
(* and prunes the rest (services/ingest.py, repositories/jobs.py), while   *)
(* the user adds and deletes postings and sources (services/jobs.py).      *)
(*                                                                         *)
(* persist is one transaction at READ COMMITTED, and the session flushes   *)
(* late (autoflush=False).  It takes three steps here: Upsert reads the    *)
(* rows it will touch; Flush writes them (they are locked, not visible)    *)
(* and selects the orphaned postings; Commit deletes those and makes all   *)
(* of it visible.  A flush waits for the locks of another transaction and  *)
(* fails on a row that appeared or vanished since Upsert read.             *)
(***************************************************************************)
EXTENDS Naturals, FiniteSets, FiniteSetsExt

CONSTANTS
    Sources, Listings, Keys, Workers,
    SourceOf,   \* the source whose board may list it
    KeyOf,      \* _posting_key of the listing
    Contents,   \* what a listing may say, up to its content hash
    Scores,     \* match scores at or above the threshold
    MaxRuns,    \* bound on the fetches of a behaviour
    Rejected,     \* verdicts of resolve on a listing it does not keep: a rule or the threshold,
    Unusable,     \* an answer of the model that does not parse,
    Unavailable,  \* the LLM away or refusing
    Gone, NoJob, NoPosting, NoKey, NoSource

Unscored == 0   \* match_score is null

Jobs     == [content : Contents, score : Scores \cup {Unscored}, posting : Keys \cup {NoKey}]
Postings == [kind : {"manual", "fetched"}, score : Scores \cup {Unscored}]
Kept     == [content : Contents, score : Scores \cup {Unscored}]

ASSUME IngestAssumption ==
    /\ SourceOf \in [Listings -> Sources]
    /\ KeyOf \in [Listings -> Keys]
    /\ Listings \cap Keys = {}
    /\ Scores \subseteq 1..100
    /\ MaxRuns \in Nat
    /\ Gone \notin Contents /\ NoKey \notin Keys /\ NoSource \notin Sources
    /\ NoJob \notin Jobs \cup Kept /\ NoPosting \notin Postings

VARIABLES
    removed,    \* sources the user has deleted
    job,        \* the jobs row of each listing (of its source and identity)
    posting,    \* the job_postings row of each dedup key
    run,        \* what each worker's fetch holds in its local variables
    \* history
    runs,       \* fetches begun
    manual,     \* keys of postings the user entered and has not deleted
    dismissed,  \* listings whose posting the user deleted
    overlap     \* some persist was overlapped by one of the others' transactions

vars == <<removed, job, posting, run, runs, manual, dismissed, overlap>>

Idle == [pc |-> "idle", src |-> NoSource,
         known |-> [l \in Listings |-> Gone],       \* known_hashes
         keep |-> [l \in Listings |-> NoJob],       \* ResolvedIngest.keep
         survivors |-> {},                          \* ResolvedIngest.survivors
         complete |-> TRUE,                         \* ResolvedIngest.error is None
         jobs |-> [l \in Listings |-> NoJob],       \* what find_job returned
         postings |-> [k \in Keys |-> NoPosting],   \* what get_posting returned
         dead |-> {},                               \* rows deleted since they were read
         pruned |-> {}, orphans |-> {}]             \* what it will delete

Runs == [pc : {"idle", "loaded", "resolved", "upserted", "flushed"},
         src : Sources \cup {NoSource},
         known : [Listings -> Contents \cup {Gone}],
         keep : [Listings -> Kept \cup {NoJob}],
         survivors : SUBSET Listings,
         complete : BOOLEAN,
         jobs : [Listings -> Jobs \cup {NoJob}],
         postings : [Keys -> Postings \cup {NoPosting}],
         dead : SUBSET (Listings \cup Keys),
         pruned : SUBSET Listings, orphans : SUBSET Keys]

TypeOK ==
    /\ removed \subseteq Sources
    /\ job \in [Listings -> Jobs \cup {NoJob}]
    /\ posting \in [Keys -> Postings \cup {NoPosting}]
    /\ run \in [Workers -> Runs]
    /\ runs \in 0..MaxRuns
    /\ manual \subseteq Keys /\ dismissed \subseteq Listings /\ overlap \in BOOLEAN
    /\ \A l \in Listings :
          job[l] # NoJob /\ job[l].posting # NoKey => posting[job[l].posting] # NoPosting

Init ==
    /\ removed = {}
    /\ job = [l \in Listings |-> NoJob]
    /\ posting = [k \in Keys |-> NoPosting]
    /\ run = [w \in Workers |-> Idle]
    /\ runs = 0
    /\ manual = {} /\ dismissed = {} /\ overlap = FALSE

At(w, state) == run[w].pc = state
Persisting   == {w \in Workers : run[w].pc \in {"upserted", "flushed"}}
ListingsOf(s) == {l \in Listings : SourceOf[l] = s}
KeptBy(w)    == {l \in Listings : run[w].keep[l] # NoJob}
KeysOf(w)    == {KeyOf[l] : l \in KeptBy(w)}

(* The rows a flushed transaction has written, and so holds locked.         *)
Locked(w) == IF At(w, "flushed") THEN KeptBy(w) \cup KeysOf(w) \cup run[w].pruned ELSE {}
LockedByOthers(w) == UNION {Locked(v) : v \in Workers \ {w}}
AllLocked == UNION {Locked(w) : w \in Workers}

(* Runs that have read these rows learn at their flush that they are gone.  *)
HasRead(w) == {l \in Listings : run[w].jobs[l] # NoJob}
              \cup {k \in Keys : run[w].postings[k] # NoPosting} \cup run[w].orphans
Told(rows) == [w \in Workers |-> [run[w] EXCEPT !.dead = @ \cup (rows \cap HasRead(w))]]

-----------------------------------------------------------------------------
(* resolve.                                                                 *)

(* Load: the source is there and active; known_hashes of its jobs. *)
Load(w, s) ==
    /\ At(w, "idle") /\ s \notin removed
    /\ runs < MaxRuns /\ runs' = runs + 1
    /\ run' = [run EXCEPT ![w] =
          [@ EXCEPT !.pc = "loaded", !.src = s,
             !.known = [l \in Listings |-> IF SourceOf[l] = s /\ job[l] # NoJob
                                           THEN job[l].content ELSE Gone]]]
    /\ UNCHANGED <<removed, job, posting, manual, dismissed, overlap>>

(* The board lists some of the source's listings.  The diff gate lets those *)
(* through whose hash is not known; without preferences they are kept       *)
(* unscored, else each is rejected (by a rule, or below the threshold),     *)
(* scored, given up as unusable (the model's answer does not parse), or     *)
(* left because scoring is unavailable, which makes the run incomplete.     *)
Resolve(w) ==
    /\ At(w, "loaded")
    /\ \E prefs \in BOOLEAN, board \in [ListingsOf(run[w].src) -> Contents \cup {Gone}] :
       LET listed    == {l \in DOMAIN board : board[l] # Gone}
           unchanged == {l \in listed : board[l] = run[w].known[l]}
           pending   == listed \ unchanged
       IN \E verdict \in [pending -> IF prefs THEN Scores \cup {Rejected, Unusable, Unavailable}
                                              ELSE {Unscored}] :
             LET kept     == {l \in pending : verdict[l] \in Scores \cup {Unscored}}
                 complete == \A l \in pending : verdict[l] # Unavailable
             IN run' = [run EXCEPT ![w] =
                   IF ~complete /\ kept = {} THEN Idle
                   ELSE [Idle EXCEPT
                           !.pc = "resolved", !.src = run[w].src, !.complete = complete,
                           !.keep = [l \in Listings |->
                                        IF l \in kept THEN [content |-> board[l], score |-> verdict[l]]
                                        ELSE NoJob],
                           !.survivors = unchanged \cup kept
                                         \cup {l \in pending : verdict[l] = Unusable}]]
    /\ UNCHANGED <<removed, job, posting, runs, manual, dismissed, overlap>>

(* The run ends without a persist: the page or the board cannot be read, or *)
(* an exception, before the commit, takes the transaction back.             *)
Abandon(w) ==
    /\ ~At(w, "idle")
    /\ run' = [run EXCEPT ![w] = Idle]
    /\ UNCHANGED <<removed, job, posting, runs, manual, dismissed, overlap>>

-----------------------------------------------------------------------------
(* persist.                                                                 *)

(* find_job and get_posting for every job to keep.  Nothing is flushed in   *)
(* between: a second listing of a key does not see the first one's posting. *)
Upsert(w) ==
    /\ At(w, "resolved")
    /\ run' = [run EXCEPT ![w] =
          [@ EXCEPT !.pc = "upserted",
             !.jobs = [l \in Listings |-> IF l \in KeptBy(w) THEN job[l] ELSE NoJob],
             !.postings = [k \in Keys |-> IF k \in KeysOf(w) THEN posting[k] ELSE NoPosting]]]
    /\ overlap' = (overlap \/ Persisting # {})
    /\ UNCHANGED <<removed, job, posting, runs, manual, dismissed>>

(* _upsert_posting overwrites the posting's view unless it has a better one.*)
ScoreOf(w, l) == run[w].keep[l].score
SharersOf(w, k) == {l \in KeptBy(w) : KeyOf[l] = k}
Overwrites(w, k) ==
    \/ run[w].postings[k] = NoPosting
    \/ \E l \in SharersOf(w, k) : ScoreOf(w, l) = Unscored \/ ScoreOf(w, l) >= run[w].postings[k].score

(* The job row is new, or was linked to another posting (or to none).       *)
Links(w, l) == run[w].jobs[l] = NoJob \/ run[w].jobs[l].posting # KeyOf[l]

(* What makes the flush fail: a unique index, a foreign key, or an UPDATE   *)
(* that matches no row.                                                     *)
Conflict(w) ==
    \/ run[w].src \in removed /\ KeptBy(w) # {}
    \/ \E l \in KeptBy(w) : IF run[w].jobs[l] = NoJob THEN job[l] # NoJob ELSE l \in run[w].dead
    \/ \E k \in KeysOf(w) : IF run[w].postings[k] = NoPosting
                            THEN posting[k] # NoPosting \/ Cardinality(SharersOf(w, k)) > 1
                            ELSE k \in run[w].dead /\ Overwrites(w, k)
    \/ \E l \in KeptBy(w) : Links(w, l) /\ KeyOf[l] \in run[w].dead

(* _upsert_posting keeps the best score it has seen for the posting.        *)
TopScore_OfThisRun(w, k) == Max({ScoreOf(w, l) : l \in SharersOf(w, k)})

TopScore(w, k) ==
    Max({ScoreOf(w, l) : l \in SharersOf(w, k)}
        \cup (IF run[w].postings[k] = NoPosting THEN {} ELSE {run[w].postings[k].score}))

(* Prune what the source no longer lists or the user no longer wants, after *)
(* a complete run only.                                                     *)
Pruned(w) == IF run[w].complete
             THEN {l \in ListingsOf(run[w].src) \ run[w].survivors : job[l] # NoJob} ELSE {}

(* The rows as the flush leaves them; an UPDATE sets the columns whose value*)
(* is not the one that was read.                                            *)
JobAfter(w, pruned, l) ==
    IF l \in KeptBy(w) THEN [content |-> run[w].keep[l].content, score |-> ScoreOf(w, l),
                             posting |-> IF Links(w, l) THEN KeyOf[l] ELSE job[l].posting]
    ELSE IF l \in pruned THEN NoJob ELSE job[l]

PostingAfter(w, k) ==
    LET read == run[w].postings[k] top == TopScore(w, k)
    IN IF k \notin KeysOf(w) THEN posting[k]
       ELSE IF read = NoPosting THEN [kind |-> "fetched", score |-> top]
       ELSE IF posting[k] = NoPosting THEN NoPosting
       ELSE [kind |-> IF Overwrites(w, k) THEN "fetched" ELSE posting[k].kind,
             score |-> IF top # read.score THEN top ELSE posting[k].score]

(* prune_orphan_postings: the fetched postings nobody refers to any more.   *)
Orphans_SeesNoFlush(w) ==
    {k \in Keys : /\ run[w].complete
                  /\ posting[k] # NoPosting /\ posting[k].kind # "manual"
                  /\ \A l \in Listings : job[l] # NoJob => job[l].posting # k}

Orphans_EvenManual(w) ==
    {k \in Keys : /\ run[w].complete
                  /\ PostingAfter(w, k) # NoPosting
                  /\ \A l \in Listings : LET j == JobAfter(w, Pruned(w), l)
                                          IN j # NoJob => j.posting # k}

Orphans(w) ==
    {k \in Keys : /\ run[w].complete
                  /\ PostingAfter(w, k) # NoPosting /\ PostingAfter(w, k).kind # "manual"
                  /\ \A l \in Listings : LET j == JobAfter(w, Pruned(w), l)
                                          IN j # NoJob => j.posting # k}

Flush(w) ==
    /\ At(w, "upserted")
    /\ ~Conflict(w)
    /\ (KeptBy(w) \cup KeysOf(w) \cup Pruned(w)) \cap LockedByOthers(w) = {}
    /\ run' = [run EXCEPT ![w] =
          [@ EXCEPT !.pc = "flushed", !.pruned = Pruned(w), !.orphans = Orphans(w)]]
    /\ UNCHANGED <<removed, job, posting, runs, manual, dismissed, overlap>>

(* A posting that is deleted takes its link from every job that has it.     *)
Unlinked_Keeps(j, gone) == j

Unlinked(j, gone) ==
    [l \in Listings |-> IF j[l] # NoJob /\ j[l].posting \in gone
                        THEN [j[l] EXCEPT !.posting = NoKey] ELSE j[l]]

Commit(w) ==
    LET gone == run[w].orphans \ run[w].dead IN
    /\ At(w, "flushed")
    /\ gone \cap LockedByOthers(w) = {}
    /\ job' = Unlinked([l \in Listings |-> JobAfter(w, run[w].pruned, l)], gone)
    /\ posting' = [k \in Keys |-> IF k \in gone THEN NoPosting ELSE PostingAfter(w, k)]
    /\ run' = [Told(gone \cup run[w].pruned) EXCEPT ![w] = Idle]
    /\ dismissed' = {l \in dismissed : job'[l] # NoJob /\ job'[l].posting = NoKey}
    /\ UNCHANGED <<removed, runs, manual, overlap>>

-----------------------------------------------------------------------------
(* The user.                                                                *)

ManualPosting == [kind |-> "manual", score |-> Unscored]

CreateManual(k) ==
    /\ posting[k] = NoPosting /\ k \notin AllLocked
    /\ posting' = [posting EXCEPT ![k] = ManualPosting]
    /\ manual' = manual \cup {k}
    /\ overlap' = (overlap \/ Persisting # {})
    /\ UNCHANGED <<removed, job, run, runs, dismissed>>

RemovePosting(k) ==
    /\ posting[k] # NoPosting /\ k \notin AllLocked
    /\ posting' = [posting EXCEPT ![k] = NoPosting]
    /\ job' = Unlinked(job, {k})
    /\ run' = Told({k})
    /\ manual' = manual \ {k}
    /\ dismissed' = dismissed \cup {l \in Listings : job[l] # NoJob /\ job[l].posting = k}
    /\ UNCHANGED <<removed, runs, overlap>>

(* The jobs go with their source; their postings stay until the next run of *)
(* another source prunes them.                                              *)
RemoveSource(s) ==
    /\ s \notin removed
    /\ \A w \in Workers : ~(At(w, "flushed") /\ run[w].src = s)
    /\ removed' = removed \cup {s}
    /\ job' = [l \in Listings |-> IF SourceOf[l] = s THEN NoJob ELSE job[l]]
    /\ run' = Told(ListingsOf(s))
    /\ overlap' = (overlap \/ Persisting # {})
    /\ dismissed' = dismissed \ ListingsOf(s)
    /\ UNCHANGED <<posting, runs, manual>>

-----------------------------------------------------------------------------
Next ==
    \/ \E w \in Workers : \/ \E s \in Sources : Load(w, s)
                          \/ Resolve(w) \/ Upsert(w) \/ Flush(w) \/ Commit(w) \/ Abandon(w)
    \/ \E k \in Keys : CreateManual(k) \/ RemovePosting(k)
    \/ \E s \in Sources : RemoveSource(s)

Spec == Init /\ [][Next]_vars
-----------------------------------------------------------------------------
(* Every job that is held is shown under a posting, unless the user deleted *)
(* that posting or two transactions overlapped (a run may delete as orphan  *)
(* the posting another run is just attaching a job to).  A job without one  *)
(* is lost to the user: its hash is known, so no later run looks at it.     *)
JobsAreShown ==
    \/ overlap
    \/ \A l \in Listings : job[l] # NoJob /\ job[l].posting = NoKey => l \in dismissed

(* The score a posting is ranked by is not below that of any of its jobs:   *)
(* several sources may list one posting, in any order, and be re-scored.    *)
PostingCoversItsJobs ==
    \/ overlap
    \/ \A l \in Listings :
          job[l] # NoJob /\ job[l].posting # NoKey => posting[job[l].posting].score >= job[l].score

(* Every variable has its type, no job is linked to a posting that is not   *)
(* there, and none outranks its posting.                                    *)
RowsAreSound == TypeOK /\ PostingCoversItsJobs

(* A complete run that nothing overlapped leaves no fetched posting of the  *)
(* user without a job, whoever left it behind (a source deleted, an earlier *)
(* run that failed or was incomplete).                                      *)
CompleteRunTidies ==
    [][\A w \in Workers :
          Commit(w) /\ run[w].complete /\ ~overlap
             => \A k \in Keys : posting'[k] # NoPosting /\ posting'[k].kind = "fetched"
                   => \E l \in Listings : job'[l] # NoJob /\ job'[l].posting = k]_vars

(* What the user entered by hand and no fetch has matched is theirs: it     *)
(* disappears only by their own deletion.                                   *)
ManualIsLeftAlone ==
    [][\A k \in manual :
          posting[k] = ManualPosting /\ posting'[k] = NoPosting => k \notin manual']_vars

(* development-log.md: "manual postings are never pruned".  The code does   *)
(* not keep it for one that a fetched job has been clustered into.          *)
ManualIsNeverPruned == \A k \in manual : posting[k] # NoPosting

(* ADR-0009: "Clustering is deterministic and done in the app when a job is *)
(* saved: compute the key, upsert the job_posting, attach."  So a run that  *)
(* no other transaction interferes with saves what it resolved.             *)
PersistSucceedsAlone ==
    \A w \in Workers :
        At(w, "upserted") /\ ~overlap /\ run[w].dead = {} => ~Conflict(w)
=============================================================================
