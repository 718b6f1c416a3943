-------------------------- MODULE JobIngestProofs ---------------------------
(***************************************************************************)
(* Proofs about JobIngest, for any number of workers, sources, listings    *)
(* and keys.  The inductive invariant has two halves.  One holds whatever  *)
(* overlaps: what a run has read is still so, or it has been told that the *)
(* row is gone, and what its flush has found stays so, for the rows are    *)
(* locked; no row is locked twice.  The other holds until a transaction    *)
(* overlaps a persist: one run persists at a time, no posting has changed  *)
(* under it, and the orphans its flush found are those its commit leaves.  *)
(***************************************************************************)
EXTENDS JobIngest, WellFoundedInduction, TLAPS

(* A job is shown under the posting of its own key, if any.                *)
LinkIsOwn == \A l \in Listings : job[l] # NoJob => job[l].posting \in {KeyOf[l], NoKey}

(* A run that has not begun to persist has read no row of the tables.      *)
HasReadNothing(w) ==
    /\ \A l \in Listings : run[w].jobs[l] = NoJob
    /\ \A k \in Keys : run[w].postings[k] = NoPosting
    /\ run[w].dead = {} /\ run[w].orphans = {}

(* What a run keeps is of its source.                                      *)
KeepsItsOwn(w) == KeptBy(w) \cup run[w].pruned \subseteq ListingsOf(run[w].src)

(* What Upsert read is still there, or the run has been told that it went. *)
ReadsAreCurrent(w) ==
    /\ \A l \in Listings : run[w].jobs[l] # NoJob =>
          LET k == run[w].jobs[l].posting IN
          /\ job[l] # NoJob \/ l \in run[w].dead
          /\ k # NoKey => /\ k = KeyOf[l] /\ run[w].postings[k] # NoPosting
                          /\ {l, k} \cap run[w].dead # {} \/ job[l].posting = k
    /\ \A k \in Keys : run[w].postings[k] # NoPosting =>
          posting[k] # NoPosting \/ k \in run[w].dead

(* What the flush has found to be so stays so, for the rows are locked.    *)
FlushHolds(w) ==
    /\ \A l \in KeptBy(w) : /\ IF run[w].jobs[l] = NoJob THEN job[l] = NoJob ELSE l \notin run[w].dead
                            /\ Links(w, l) => KeyOf[l] \notin run[w].dead
    /\ \A k \in KeysOf(w) : run[w].postings[k] = NoPosting => posting[k] = NoPosting
    /\ \A k \in run[w].orphans \ run[w].dead :
          /\ k \notin KeysOf(w)
          /\ posting[k] # NoPosting /\ posting[k].kind = "fetched"

RunSound(w) ==
    /\ run[w].pc \in {"idle", "loaded", "resolved"} => HasReadNothing(w)
    /\ run[w].pc \in {"resolved", "upserted", "flushed"} => KeepsItsOwn(w)
    /\ run[w].pc \in {"upserted", "flushed"} => ReadsAreCurrent(w)
    /\ run[w].pc = "flushed" => FlushHolds(w)

RunInv == \A w \in Workers : RunSound(w)

LocksExclude == \A w \in Workers : Locked(w) \cap LockedByOthers(w) = {}

(* A flushed run shows the listing under the posting.                      *)
Shows(w, l, k) == LET j == JobAfter(w, run[w].pruned, l) IN j # NoJob /\ j.posting = k

(* No posting that a run needs has changed since it was read, but to go.   *)
Undisturbed(w) ==
    /\ \A k \in KeysOf(w) : posting[k] \in {run[w].postings[k], NoPosting}
    /\ \A k \in run[w].dead \cap Keys : posting[k] = NoPosting

(* The orphans a flush has found are those that the commit would leave.    *)
OrphansAreRight(w) ==
    /\ \A k \in run[w].orphans, l \in Listings : ~Shows(w, l, k)
    /\ run[w].complete =>
          \A k \in Keys : LET p == PostingAfter(w, k) IN
             p # NoPosting /\ p.kind = "fetched" /\ (\A l \in Listings : ~Shows(w, l, k))
             => k \in run[w].orphans

(* As long as no other transaction has overlapped a persist, one run at a  *)
(* time persists, and what it has read and found out is true.              *)
AloneInv ==
    ~overlap =>
        /\ \A v, w \in Persisting : v = w
        /\ \A w \in Persisting : Undisturbed(w)
        /\ \A w \in Workers : run[w].pc = "flushed" => OrphansAreRight(w)

IngestInv == TypeOK /\ LinkIsOwn /\ RunInv /\ LocksExclude /\ AloneInv
             /\ PostingCoversItsJobs /\ JobsAreShown

-----------------------------------------------------------------------------
(* What a persist computes.                                                *)

(* A set of scores has a greatest one.                                     *)
LEMMA MaxOf ==
    ASSUME NEW b \in Nat, NEW S \in SUBSET (0..b), S # {}
    PROVE  Max(S) \in S /\ \A y \in S : y <= Max(S)
<1> DEFINE T == {b - y : y \in S}
<1>1. T \subseteq Nat /\ T # {}
  <2>1. \A y \in S : b - y \in Nat
    OBVIOUS
  <2> QED BY <2>1
<1>2. \E x \in T : \A y \in T : ~(<<y, x>> \in OpToRel(<, Nat))
  BY <1>1, WFMin, NatLessThanWellFounded
<1>3. PICK x \in T : \A y \in T : ~(y < x)
  BY <1>1, <1>2 DEF OpToRel
<1>4. PICK m \in S : x = b - m
  OBVIOUS
<1>5. ASSUME NEW y \in S PROVE m >= y
  <2>1. ~(b - y < b - m)
    BY <1>3, <1>4
  <2>2. y \in Nat /\ m \in Nat
    OBVIOUS
  <2> HIDE DEF T
  <2> QED BY <2>1, <2>2
<1>6. Max(S) \in S /\ \A y \in S : Max(S) >= y
  BY <1>5 DEF Max
<1> QED BY <1>6

(* What a run keeps, and the keys of it.                                   *)
LEMMA KeptTyped ==
    ASSUME TypeOK, NEW w \in Workers, NEW l \in KeptBy(w)
    PROVE  /\ l \in Listings /\ KeyOf[l] \in KeysOf(w) /\ KeyOf[l] \in Keys
           /\ run[w].keep[l] \in Kept
           /\ ScoreOf(w, l) \in Scores \cup {Unscored}
<1>1. l \in Listings /\ run[w].keep[l] \in Kept
  BY DEF KeptBy, TypeOK, Runs
<1> QED BY <1>1, IngestAssumption DEF KeysOf, ScoreOf, Kept

LEMMA KeysTyped ==
    ASSUME TypeOK, NEW w \in Workers, NEW k \in KeysOf(w)
    PROVE  k \in Keys /\ \E l \in KeptBy(w) : l \in SharersOf(w, k) /\ KeyOf[l] = k
  BY KeptTyped DEF KeysOf, SharersOf

(* The score a posting is given: none of the run's jobs has a higher one,  *)
(* nor had the posting when it was read.                                   *)
LEMMA TopScoreTops ==
    ASSUME TypeOK, NEW w \in Workers, NEW k \in KeysOf(w)
    PROVE  /\ TopScore(w, k) \in Scores \cup {Unscored}
           /\ \A l \in SharersOf(w, k) : ScoreOf(w, l) <= TopScore(w, k)
           /\ run[w].postings[k] # NoPosting => run[w].postings[k].score <= TopScore(w, k)
<1> DEFINE S == {ScoreOf(w, l) : l \in SharersOf(w, k)}
                \cup (IF run[w].postings[k] = NoPosting THEN {} ELSE {run[w].postings[k].score})
<1>1. k \in Keys /\ \E l \in KeptBy(w) : l \in SharersOf(w, k)
  BY KeysTyped
<1>2. \A l \in SharersOf(w, k) : ScoreOf(w, l) \in Scores \cup {Unscored}
  BY KeptTyped DEF SharersOf
<1>3. run[w].postings[k] # NoPosting => run[w].postings[k].score \in Scores \cup {Unscored}
  BY <1>1 DEF TypeOK, Runs, Postings
<1>4. S \subseteq Scores \cup {Unscored} /\ S # {}
  BY <1>1, <1>2, <1>3
<1>5. Scores \cup {Unscored} \subseteq 0..100 /\ 100 \in Nat
  BY IngestAssumption DEF Unscored
<1>6. Max(S) \in S /\ \A y \in S : y <= Max(S)
  <2> HIDE DEF S
  <2> QED BY <1>4, <1>5, MaxOf
<1>7. TopScore(w, k) = Max(S)
  BY DEF TopScore
<1> QED BY <1>4, <1>6, <1>7

(* A posting as a commit leaves it.                                        *)
LEMMA PostingAfterTyped ==
    ASSUME TypeOK, NEW w \in Workers, NEW k \in Keys
    PROVE  /\ PostingAfter(w, k) \in Postings \cup {NoPosting}
           /\ posting[k] # NoPosting => PostingAfter(w, k) # NoPosting
           /\ k \in KeysOf(w) /\ run[w].postings[k] = NoPosting => PostingAfter(w, k) # NoPosting
           /\ posting[k] # NoPosting /\ posting[k].kind = "fetched" => PostingAfter(w, k).kind = "fetched"
<1>1. posting[k] \in Postings \cup {NoPosting}
  BY DEF TypeOK
<1>2. CASE k \notin KeysOf(w)
  BY <1>1, <1>2 DEF PostingAfter
<1>3. CASE k \in KeysOf(w)
  <2>1. TopScore(w, k) \in Scores \cup {Unscored}
    BY <1>3, TopScoreTops
  <2>2. CASE run[w].postings[k] = NoPosting
    <3>1. PostingAfter(w, k) = [kind |-> "fetched", score |-> TopScore(w, k)]
      BY <1>3, <2>2 DEF PostingAfter
    <3> QED BY <2>1, <3>1, IngestAssumption DEF Postings
  <2>3. CASE run[w].postings[k] # NoPosting /\ posting[k] = NoPosting
    BY <1>3, <2>3 DEF PostingAfter
  <2>4. CASE run[w].postings[k] # NoPosting /\ posting[k] # NoPosting
    <3> DEFINE score == IF TopScore(w, k) # run[w].postings[k].score THEN TopScore(w, k)
                        ELSE posting[k].score
    <3>1. PostingAfter(w, k) = [kind |-> IF Overwrites(w, k) THEN "fetched" ELSE posting[k].kind,
                                score |-> score]
      BY <1>3, <2>4 DEF PostingAfter
    <3>2. score \in Scores \cup {Unscored} /\ posting[k].kind \in {"manual", "fetched"}
      BY <1>1, <2>1, <2>4 DEF Postings
    <3> HIDE DEF score
    <3>3. PostingAfter(w, k) \in Postings
      BY <3>1, <3>2 DEF Postings
    <3> QED BY <2>4, <3>1, <3>3, IngestAssumption
  <2> QED BY <2>2, <2>3, <2>4
<1> QED BY <1>2, <1>3

(* A job as the commit of a flushed run leaves it.                         *)
LEMMA JobAfterTyped ==
    ASSUME TypeOK, LinkIsOwn, NEW w \in Workers, ReadsAreCurrent(w), FlushHolds(w), NEW l \in Listings
    PROVE  LET j == JobAfter(w, run[w].pruned, l) IN
           /\ j \in Jobs \cup {NoJob}
           /\ j # NoJob => j.posting \in {KeyOf[l], NoKey}
           /\ l \in KeptBy(w) =>
                 /\ j # NoJob /\ j.score = ScoreOf(w, l)
                 /\ j.posting = KeyOf[l] \/ (~Links(w, l) /\ job[l] # NoJob /\ j.posting = job[l].posting)
<1>1. CASE l \in KeptBy(w)
  <2> DEFINE p == IF Links(w, l) THEN KeyOf[l] ELSE job[l].posting
  <2>1. JobAfter(w, run[w].pruned, l)
           = [content |-> run[w].keep[l].content, score |-> ScoreOf(w, l), posting |-> p]
    BY <1>1 DEF JobAfter
  <2>2. ~Links(w, l) => job[l] # NoJob /\ job[l].posting \in {KeyOf[l], NoKey}
    BY <1>1 DEF Links, FlushHolds, ReadsAreCurrent, LinkIsOwn
  <2>3. p \in {KeyOf[l], NoKey} /\ KeyOf[l] \in Keys /\ run[w].keep[l].content \in Contents
        /\ ScoreOf(w, l) \in Scores \cup {Unscored}
    BY <1>1, <2>2, KeptTyped DEF Kept
  <2> HIDE DEF p
  <2>4. JobAfter(w, run[w].pruned, l) \in Jobs
    BY <2>1, <2>3 DEF Jobs
  <2>5. p = KeyOf[l] \/ (~Links(w, l) /\ job[l] # NoJob /\ p = job[l].posting)
    BY <2>2 DEF p
  <2> QED BY <2>1, <2>3, <2>4, <2>5, IngestAssumption
<1>2. CASE l \notin KeptBy(w)
  BY <1>2 DEF JobAfter, TypeOK, LinkIsOwn
<1> QED BY <1>1, <1>2

-----------------------------------------------------------------------------
(* What a step does to the runs.                                           *)

Rows == Listings \cup Keys

(* Another transaction deletes rows, or none, and a run learns of it.      *)
Hears(v, rows) == run'[v] = [run[v] EXCEPT !.dead = @ \cup (rows \cap HasRead(v))]

LEMMA HasReadTyped == ASSUME TypeOK, NEW w \in Workers PROVE HasRead(w) \subseteq Rows
  BY DEF HasRead, TypeOK, Runs, Rows

(* All but what it holds dead is as it was.                                *)
LEMMA Hearing ==
    ASSUME TypeOK, NEW v \in Workers, NEW rows, Hears(v, rows)
    PROVE  /\ run'[v] \in Runs
           /\ run'[v].pc = run[v].pc /\ run'[v].src = run[v].src /\ run'[v].keep = run[v].keep
           /\ run'[v].complete = run[v].complete /\ run'[v].survivors = run[v].survivors
           /\ run'[v].jobs = run[v].jobs /\ run'[v].postings = run[v].postings
           /\ run'[v].pruned = run[v].pruned /\ run'[v].orphans = run[v].orphans
           /\ run'[v].dead = run[v].dead \cup (rows \cap HasRead(v))
           /\ KeptBy(v)' = KeptBy(v) /\ KeysOf(v)' = KeysOf(v) /\ Locked(v)' = Locked(v)
<1>1. run[v] \in Runs /\ HasRead(v) \subseteq Rows
  BY HasReadTyped DEF TypeOK
<1>2. run'[v] \in Runs
  BY <1>1 DEF Hears, Runs, Rows
<1>3. /\ run'[v].pc = run[v].pc /\ run'[v].src = run[v].src /\ run'[v].keep = run[v].keep
      /\ run'[v].complete = run[v].complete /\ run'[v].survivors = run[v].survivors
      /\ run'[v].jobs = run[v].jobs /\ run'[v].postings = run[v].postings
      /\ run'[v].pruned = run[v].pruned /\ run'[v].orphans = run[v].orphans
      /\ run'[v].dead = run[v].dead \cup (rows \cap HasRead(v))
  BY <1>1 DEF Hears, Runs
<1>4. KeptBy(v)' = KeptBy(v)
  BY <1>3 DEF KeptBy
<1>5. KeysOf(v)' = KeysOf(v)
  BY <1>4 DEF KeysOf
<1>6. Locked(v)' = Locked(v)
  BY <1>3, <1>4, <1>5 DEF Locked, At
<1> QED BY <1>2, <1>3, <1>4, <1>5, <1>6

(* A run that nothing happens to hears of no deletions.                    *)
LEMMA HearsNothing ==
    ASSUME TypeOK, NEW v \in Workers, run'[v] = run[v]
    PROVE  Hears(v, {})
<1>1. run[v] \in Runs
  BY DEF TypeOK
<1> QED BY <1>1 DEF Hears, Runs

LEMMA IdleTyped ==
    /\ Idle \in Runs /\ Idle.pc = "idle" /\ Idle.dead = {} /\ Idle.orphans = {} /\ Idle.pruned = {}
    /\ \A l \in Listings : Idle.jobs[l] = NoJob /\ Idle.keep[l] = NoJob
    /\ \A k \in Keys : Idle.postings[k] = NoPosting
  BY DEF Idle, Runs

(* The steps of a run of its own.                                          *)
LEMMA Loading ==
    ASSUME TypeOK, RunInv, NEW w \in Workers, NEW s \in Sources, Load(w, s)
    PROVE  /\ run' = [run EXCEPT ![w] = run'[w]] /\ run'[w] \in Runs
           /\ run'[w].pc = "loaded" /\ HasReadNothing(w)'
<1>1. run[w] \in Runs /\ HasReadNothing(w)
  BY DEF Load, At, TypeOK, RunInv, RunSound
<1>2. [l \in Listings |-> IF SourceOf[l] = s /\ job[l] # NoJob THEN job[l].content ELSE Gone]
         \in [Listings -> Contents \cup {Gone}]
  BY DEF TypeOK, Jobs
<1>3. run'[w] = [run[w] EXCEPT !.pc = "loaded", !.src = s,
                    !.known = [l \in Listings |-> IF SourceOf[l] = s /\ job[l] # NoJob
                                                  THEN job[l].content ELSE Gone]]
  BY DEF Load, TypeOK
<1>4. run'[w] \in Runs /\ run'[w].pc = "loaded" /\ run'[w].jobs = run[w].jobs
      /\ run'[w].postings = run[w].postings /\ run'[w].dead = run[w].dead
      /\ run'[w].orphans = run[w].orphans
  BY <1>1, <1>2, <1>3 DEF Runs
<1>5. run' = [run EXCEPT ![w] = run'[w]]
  BY DEF Load, TypeOK
<1> QED BY <1>1, <1>4, <1>5 DEF HasReadNothing

LEMMA Resolving ==
    ASSUME TypeOK, NEW w \in Workers, Resolve(w)
    PROVE  /\ run' = [run EXCEPT ![w] = run'[w]] /\ run'[w] \in Runs
           /\ run'[w].pc \in {"idle", "resolved"} /\ HasReadNothing(w)'
           /\ run'[w].pc = "resolved" => KeepsItsOwn(w)'
<1> DEFINE src == run[w].src
<1>1. run[w] \in Runs /\ src \in Sources \cup {NoSource}
  BY DEF TypeOK, Runs
<1>2. run' = [run EXCEPT ![w] = run'[w]]
  BY DEF Resolve, TypeOK
<1>3. PICK prefs \in BOOLEAN, board \in [ListingsOf(src) -> Contents \cup {Gone}] :
         LET listed    == {l \in DOMAIN board : board[l] # Gone}
             unchanged == {l \in listed : board[l] = run[w].known[l]}
             pending   == listed \ unchanged
         IN \E verdict \in [pending -> IF prefs THEN Scores \cup {Rejected, Unusable, Unavailable}
                                                ELSE {Unscored}] :
               LET kept     == {l \in pending : verdict[l] \in Scores \cup {Unscored}}
                   complete == \A l \in pending : verdict[l] # Unavailable
               IN run' = [run EXCEPT ![w] =
                     IF ~complete /\ kept = {} THEN Idle
                     ELSE [Idle EXCEPT
                             !.pc = "resolved", !.src = src, !.complete = complete,
                             !.keep = [l \in Listings |->
                                          IF l \in kept THEN [content |-> board[l], score |-> verdict[l]]
                                          ELSE NoJob],
                             !.survivors = unchanged \cup kept
                                           \cup {l \in pending : verdict[l] = Unusable}]]
  BY DEF Resolve
<1> DEFINE listed    == {l \in DOMAIN board : board[l] # Gone}
           unchanged == {l \in listed : board[l] = run[w].known[l]}
           pending   == listed \ unchanged
<1>4. PICK verdict \in [pending -> IF prefs THEN Scores \cup {Rejected, Unusable, Unavailable}
                                            ELSE {Unscored}] :
         LET kept     == {l \in pending : verdict[l] \in Scores \cup {Unscored}}
             complete == \A l \in pending : verdict[l] # Unavailable
         IN run' = [run EXCEPT ![w] =
               IF ~complete /\ kept = {} THEN Idle
               ELSE [Idle EXCEPT
                       !.pc = "resolved", !.src = src, !.complete = complete,
                       !.keep = [l \in Listings |->
                                    IF l \in kept THEN [content |-> board[l], score |-> verdict[l]]
                                    ELSE NoJob],
                       !.survivors = unchanged \cup kept
                                     \cup {l \in pending : verdict[l] = Unusable}]]
  BY <1>3
<1> DEFINE kept     == {l \in pending : verdict[l] \in Scores \cup {Unscored}}
           complete == \A l \in pending : verdict[l] # Unavailable
           keep     == [l \in Listings |->
                           IF l \in kept THEN [content |-> board[l], score |-> verdict[l]] ELSE NoJob]
           survivors == unchanged \cup kept \cup {l \in pending : verdict[l] = Unusable}
<1>5. \/ run'[w] = Idle
      \/ run'[w] = [Idle EXCEPT !.pc = "resolved", !.src = src, !.complete = complete,
                                !.keep = keep, !.survivors = survivors]
  BY <1>4 DEF TypeOK
<1>6. /\ kept \subseteq ListingsOf(src) /\ survivors \subseteq ListingsOf(src)
      /\ ListingsOf(src) \subseteq Listings /\ complete \in BOOLEAN
  BY DEF ListingsOf
<1>7. keep \in [Listings -> Kept \cup {NoJob}] /\ \A l \in Listings : keep[l] # NoJob => l \in kept
  <2>1. \A l \in kept : board[l] \in Contents /\ verdict[l] \in Scores \cup {Unscored}
    OBVIOUS
  <2>2. \A l \in kept : [content |-> board[l], score |-> verdict[l]] \in Kept
    BY <2>1 DEF Kept
  <2> HIDE DEF kept
  <2> QED BY <2>2
<1> HIDE DEF kept, complete, keep, survivors, src
<1>8. CASE run'[w] = Idle
  BY <1>2, <1>8, IdleTyped DEF HasReadNothing
<1>9. CASE run'[w] = [Idle EXCEPT !.pc = "resolved", !.src = src, !.complete = complete,
                                  !.keep = keep, !.survivors = survivors]
  <2>1. /\ run'[w].pc = "resolved" /\ run'[w].src = src /\ run'[w].keep = keep
        /\ run'[w].jobs = Idle.jobs /\ run'[w].postings = Idle.postings
        /\ run'[w].dead = {} /\ run'[w].orphans = {} /\ run'[w].pruned = {}
    BY <1>9 DEF Idle
  <2>2. run'[w] \in Runs
    BY <1>1, <1>6, <1>7, <1>9, IdleTyped DEF Runs, src
  <2>3. KeptBy(w)' \subseteq ListingsOf(run'[w].src)
    BY <1>6, <1>7, <2>1 DEF KeptBy
  <2> QED BY <1>2, <2>1, <2>2, <2>3, IdleTyped DEF HasReadNothing, KeepsItsOwn, ListingsOf
<1> QED BY <1>5, <1>8, <1>9

LEMMA Upserting ==
    ASSUME TypeOK, LinkIsOwn, RunInv, NEW w \in Workers, Upsert(w)
    PROVE  /\ run' = [run EXCEPT ![w] = run'[w]] /\ run'[w] \in Runs
           /\ run'[w].pc = "upserted" /\ run'[w].dead = {}
           /\ KeysOf(w)' = KeysOf(w)
           /\ \A k \in KeysOf(w) : run'[w].postings[k] = posting[k]
           /\ KeepsItsOwn(w)' /\ ReadsAreCurrent(w)'
<1> DEFINE jobs     == [l \in Listings |-> IF l \in KeptBy(w) THEN job[l] ELSE NoJob]
           postings == [k \in Keys |-> IF k \in KeysOf(w) THEN posting[k] ELSE NoPosting]
<1>1. run[w] \in Runs /\ HasReadNothing(w) /\ KeepsItsOwn(w)
  BY DEF Upsert, At, TypeOK, RunInv, RunSound
<1>2. jobs \in [Listings -> Jobs \cup {NoJob}] /\ postings \in [Keys -> Postings \cup {NoPosting}]
  BY DEF TypeOK
<1>3. run'[w] = [run[w] EXCEPT !.pc = "upserted", !.jobs = jobs, !.postings = postings]
  BY DEF Upsert, TypeOK
<1>4. run' = [run EXCEPT ![w] = run'[w]]
  BY DEF Upsert, TypeOK
<1> HIDE DEF jobs, postings
<1>5. /\ run'[w] \in Runs /\ run'[w].pc = "upserted" /\ run'[w].jobs = jobs
      /\ run'[w].postings = postings /\ run'[w].dead = {} /\ run'[w].src = run[w].src
      /\ run'[w].keep = run[w].keep /\ run'[w].pruned = run[w].pruned
  BY <1>1, <1>2, <1>3 DEF Runs, HasReadNothing
<1>6. KeptBy(w)' = KeptBy(w) /\ KeysOf(w)' = KeysOf(w)
  BY <1>5 DEF KeptBy, KeysOf
<1>7. KeepsItsOwn(w)'
  BY <1>1, <1>5, <1>6 DEF KeepsItsOwn, ListingsOf
<1>8. job' = job /\ posting' = posting
  BY DEF Upsert
<1>9. ReadsAreCurrent(w)'
  <2>1. ASSUME NEW l \in Listings, run'[w].jobs[l] # NoJob
        PROVE  /\ job'[l] # NoJob /\ run'[w].jobs[l] = job'[l] /\ l \in KeptBy(w)
               /\ job'[l].posting # NoKey => /\ job'[l].posting = KeyOf[l]
                                              /\ run'[w].postings[KeyOf[l]] # NoPosting
    <3>1. l \in KeptBy(w) /\ run'[w].jobs[l] = job[l] /\ job[l] # NoJob
      BY <1>5, <2>1 DEF jobs
    <3>2. ASSUME job[l].posting # NoKey PROVE job[l].posting = KeyOf[l] /\ posting[KeyOf[l]] # NoPosting
      BY <3>1, <3>2 DEF LinkIsOwn, TypeOK
    <3>3. KeyOf[l] \in KeysOf(w) /\ KeyOf[l] \in Keys
      BY <3>1, KeptTyped
    <3> QED BY <1>5, <1>8, <3>1, <3>2, <3>3 DEF postings
  <2>2. \A k \in Keys : run'[w].postings[k] # NoPosting => posting'[k] # NoPosting
    BY <1>5, <1>8 DEF postings
  <2> QED BY <2>1, <2>2 DEF ReadsAreCurrent
<1>10. \A k \in KeysOf(w) : run'[w].postings[k] = posting[k]
  BY <1>5, KeysTyped DEF postings
<1> QED BY <1>4, <1>5, <1>6, <1>7, <1>9, <1>10

LEMMA Flushing ==
    ASSUME TypeOK, LinkIsOwn, RunInv, NEW w \in Workers, Flush(w)
    PROVE  /\ run' = [run EXCEPT ![w] = run'[w]] /\ run'[w] \in Runs
           /\ run'[w].pc = "flushed" /\ run'[w].dead = run[w].dead
           /\ run'[w].pruned = Pruned(w) /\ run'[w].orphans = Orphans(w)
           /\ run'[w].keep = run[w].keep /\ run'[w].jobs = run[w].jobs
           /\ run'[w].postings = run[w].postings /\ run'[w].complete = run[w].complete
           /\ KeptBy(w)' = KeptBy(w) /\ KeysOf(w)' = KeysOf(w)
           /\ Locked(w)' = KeptBy(w) \cup KeysOf(w) \cup Pruned(w)
           /\ KeepsItsOwn(w)' /\ ReadsAreCurrent(w)' /\ FlushHolds(w)'
<1>1. run[w] \in Runs /\ ReadsAreCurrent(w) /\ KeepsItsOwn(w) /\ run[w].pc = "upserted" /\ ~Conflict(w)
  BY DEF Flush, At, TypeOK, RunInv, RunSound
<1>2. Pruned(w) \subseteq ListingsOf(run[w].src) /\ Pruned(w) \subseteq Listings /\ Orphans(w) \subseteq Keys
  BY DEF Pruned, Orphans, ListingsOf
<1>3. run'[w] = [run[w] EXCEPT !.pc = "flushed", !.pruned = Pruned(w), !.orphans = Orphans(w)]
  BY DEF Flush, TypeOK
<1>4. run' = [run EXCEPT ![w] = run'[w]]
  BY DEF Flush, TypeOK
<1>5. /\ run'[w] \in Runs /\ run'[w].pc = "flushed" /\ run'[w].dead = run[w].dead
      /\ run'[w].pruned = Pruned(w) /\ run'[w].orphans = Orphans(w)
      /\ run'[w].keep = run[w].keep /\ run'[w].jobs = run[w].jobs /\ run'[w].src = run[w].src
      /\ run'[w].postings = run[w].postings /\ run'[w].complete = run[w].complete
  BY <1>1, <1>2, <1>3 DEF Runs
<1>6. KeptBy(w)' = KeptBy(w) /\ KeysOf(w)' = KeysOf(w)
  BY <1>5 DEF KeptBy, KeysOf
<1>7. Locked(w)' = KeptBy(w) \cup KeysOf(w) \cup Pruned(w)
  BY <1>5, <1>6 DEF Locked, At
<1>8. KeepsItsOwn(w)'
  BY <1>1, <1>2, <1>5, <1>6 DEF KeepsItsOwn, ListingsOf
<1>9. job' = job /\ posting' = posting
  BY DEF Flush
<1>10. ReadsAreCurrent(w)'
  BY <1>1, <1>5, <1>9 DEF ReadsAreCurrent
<1>11. \A l \in KeptBy(w) : IF run[w].jobs[l] = NoJob THEN job[l] = NoJob ELSE l \notin run[w].dead
  BY <1>1 DEF Conflict
<1>12. \A l \in KeptBy(w) : Links(w, l) => KeyOf[l] \notin run[w].dead
  BY <1>1 DEF Conflict
<1>13. \A k \in KeysOf(w) : run[w].postings[k] = NoPosting => posting[k] = NoPosting
  BY <1>1 DEF Conflict
<1>14. ASSUME NEW k \in Orphans(w) \ run[w].dead
       PROVE  k \notin KeysOf(w) /\ posting[k] # NoPosting /\ posting[k].kind = "fetched"
  <2>1. ASSUME k \in KeysOf(w) PROVE FALSE
    <3>1. PICK l \in KeptBy(w) : KeyOf[l] = k
      BY <2>1, KeysTyped
    <3>2. l \in Listings /\ KeyOf[l] \in Keys /\ run[w].keep[l] \in Kept /\ ScoreOf(w, l) \in Scores \cup {Unscored}
      BY KeptTyped
    <3> DEFINE p == IF Links(w, l) THEN KeyOf[l] ELSE job[l].posting
    <3>3. JobAfter(w, Pruned(w), l)
             = [content |-> run[w].keep[l].content, score |-> ScoreOf(w, l), posting |-> p]
      BY DEF JobAfter
    <3>4. p = k
      <4>1. ASSUME ~Links(w, l) PROVE job[l].posting = k
        <5>1. run[w].jobs[l] # NoJob /\ run[w].jobs[l].posting = k /\ l \notin run[w].dead
          BY <1>11, <3>1, <4>1 DEF Links
        <5>2. k # NoKey
          BY <3>1, <3>2, IngestAssumption
        <5> QED BY <1>1, <3>2, <5>1, <5>2 DEF ReadsAreCurrent
      <4> QED BY <3>1, <4>1
    <3> HIDE DEF p
    <3>5. JobAfter(w, Pruned(w), l) \in Jobs
      BY <3>1, <3>2, <3>3, <3>4 DEF Jobs, Kept
    <3> QED BY <3>2, <3>3, <3>4, <3>5, IngestAssumption DEF Orphans
  <2>2. k \in Keys /\ PostingAfter(w, k) # NoPosting /\ PostingAfter(w, k).kind # "manual"
    BY DEF Orphans
  <2>3. PostingAfter(w, k) = posting[k]
    BY <2>1 DEF PostingAfter
  <2> QED BY <2>1, <2>2, <2>3 DEF TypeOK, Postings
<1>15. FlushHolds(w)'
  BY <1>5, <1>6, <1>9, <1>11, <1>12, <1>13, <1>14 DEF FlushHolds, Links
<1> QED BY <1>4, <1>5, <1>6, <1>7, <1>8, <1>10, <1>15

-----------------------------------------------------------------------------
(* What a transaction may do to the rows without a run losing its footing. *)

(* What disappears is in rows; a link to the job's own key goes only with  *)
(* the posting; and what a flushed run has locked stays.                   *)
RowsChange(w, rows) ==
    /\ \A l \in Listings : job[l] # NoJob =>
          /\ job'[l] # NoJob \/ l \in rows
          /\ job'[l] # NoJob /\ job[l].posting = KeyOf[l] => job'[l].posting = KeyOf[l] \/ KeyOf[l] \in rows
    /\ \A k \in Keys : posting[k] # NoPosting =>
          /\ posting'[k] # NoPosting \/ k \in rows
          /\ posting'[k] # NoPosting /\ posting[k].kind = "fetched" => posting'[k].kind = "fetched"
    /\ run[w].pc = "flushed" => \A l \in KeptBy(w) :
          /\ job'[l] = job[l] /\ posting'[KeyOf[l]] = posting[KeyOf[l]]
          /\ l \notin rows /\ KeyOf[l] \notin rows

LEMMA ReadsStayCurrent ==
    ASSUME TypeOK, NEW w \in Workers, NEW rows, Hears(w, rows), RowsChange(w, rows),
           ReadsAreCurrent(w)
    PROVE  ReadsAreCurrent(w)'
<1>1. /\ run'[w].jobs = run[w].jobs /\ run'[w].postings = run[w].postings
      /\ run'[w].dead = run[w].dead \cup (rows \cap HasRead(w))
  BY Hearing
<1>2. ASSUME NEW l \in Listings, run[w].jobs[l] # NoJob
      PROVE  LET k == run[w].jobs[l].posting IN
             /\ job'[l] # NoJob \/ l \in run'[w].dead
             /\ k # NoKey => /\ k = KeyOf[l] /\ run[w].postings[k] # NoPosting
                             /\ {l, k} \cap run'[w].dead # {} \/ job'[l].posting = k
  <2> DEFINE k == run[w].jobs[l].posting
  <2>1. job[l] # NoJob \/ l \in run[w].dead
    BY <1>2 DEF ReadsAreCurrent
  <2>2. l \in HasRead(w)
    BY <1>2 DEF HasRead
  <2>3. job'[l] # NoJob \/ l \in run'[w].dead
    BY <1>1, <2>1, <2>2 DEF RowsChange
  <2>4. ASSUME k # NoKey
        PROVE  k = KeyOf[l] /\ run[w].postings[k] # NoPosting
               /\ ({l, k} \cap run'[w].dead # {} \/ job'[l].posting = k)
    <3>1. /\ k = KeyOf[l] /\ run[w].postings[k] # NoPosting
          /\ {l, k} \cap run[w].dead # {} \/ job[l].posting = k
      BY <1>2, <2>4 DEF ReadsAreCurrent
    <3>2. k \in HasRead(w)
      BY <3>1, IngestAssumption DEF HasRead
    <3> QED BY <1>1, <2>1, <2>2, <3>1, <3>2 DEF RowsChange
  <2> QED BY <2>3, <2>4
<1>3. ASSUME NEW k \in Keys, run[w].postings[k] # NoPosting
      PROVE  posting'[k] # NoPosting \/ k \in run'[w].dead
  BY <1>1, <1>3 DEF ReadsAreCurrent, RowsChange, HasRead
<1> QED BY <1>1, <1>2, <1>3 DEF ReadsAreCurrent

LEMMA FlushStillHolds ==
    ASSUME TypeOK, NEW w \in Workers, NEW rows, Hears(w, rows), RowsChange(w, rows),
           run[w].pc = "flushed", FlushHolds(w)
    PROVE  FlushHolds(w)'
<1>1. /\ run'[w].jobs = run[w].jobs /\ run'[w].postings = run[w].postings
      /\ run'[w].orphans = run[w].orphans
      /\ run'[w].dead = run[w].dead \cup (rows \cap HasRead(w))
      /\ KeptBy(w)' = KeptBy(w) /\ KeysOf(w)' = KeysOf(w)
  BY Hearing
<1>2. ASSUME NEW l \in KeptBy(w)
      PROVE  /\ IF run[w].jobs[l] = NoJob THEN job'[l] = NoJob ELSE l \notin run'[w].dead
             /\ Links(w, l) => KeyOf[l] \notin run'[w].dead
  BY <1>1 DEF FlushHolds, RowsChange
<1>3. ASSUME NEW k \in KeysOf(w), run[w].postings[k] = NoPosting
      PROVE  posting'[k] = NoPosting
  BY <1>3 DEF FlushHolds, RowsChange, KeysOf
<1>4. ASSUME NEW k \in run[w].orphans \ run'[w].dead
      PROVE  k \notin KeysOf(w) /\ posting'[k] # NoPosting /\ posting'[k].kind = "fetched"
  <2>1. k \in Keys /\ k \in HasRead(w) /\ k \notin run[w].dead /\ k \notin rows
    BY <1>1 DEF HasRead, TypeOK, Runs
  <2> QED BY <2>1 DEF FlushHolds, RowsChange
<1> QED BY <1>1, <1>2, <1>3, <1>4 DEF FlushHolds, Links

LEMMA StaysSound ==
    ASSUME TypeOK, NEW w \in Workers, NEW rows, Hears(w, rows), RowsChange(w, rows), RunSound(w)
    PROVE  RunSound(w)'
<1>1. run[w].pc \in {"idle", "loaded", "resolved"} => HasReadNothing(w)'
  BY Hearing DEF RunSound, HasReadNothing, HasRead
<1>2. run[w].pc \in {"resolved", "upserted", "flushed"} => KeepsItsOwn(w)'
  BY Hearing DEF RunSound, KeepsItsOwn, ListingsOf
<1>3. run[w].pc \in {"upserted", "flushed"} => ReadsAreCurrent(w)'
  BY ReadsStayCurrent DEF RunSound
<1>4. run[w].pc = "flushed" => FlushHolds(w)'
  BY FlushStillHolds DEF RunSound
<1>5. run'[w].pc = run[w].pc
  BY Hearing
<1> QED BY <1>1, <1>2, <1>3, <1>4, <1>5 DEF RunSound

-----------------------------------------------------------------------------
(* What each transaction does to the rows.                                 *)

(* Taking a link away leaves the rest of a job.                            *)
LEMMA Unlinking ==
    ASSUME NEW j \in [Listings -> Jobs \cup {NoJob}], NEW gone \in SUBSET Keys, NEW l \in Listings
    PROVE  LET u == Unlinked(j, gone) IN
           /\ u[l] \in Jobs \cup {NoJob} /\ u \in [Listings -> Jobs \cup {NoJob}]
           /\ u[l] = NoJob <=> j[l] = NoJob
           /\ j[l] = NoJob \/ j[l].posting \notin gone => u[l] = j[l]
           /\ j[l] # NoJob => /\ u[l].score = j[l].score /\ u[l].content = j[l].content
                              /\ u[l].posting = IF j[l].posting \in gone THEN NoKey ELSE j[l].posting
<1>1. \A m \in Listings : j[m] # NoJob => [j[m] EXCEPT !.posting = NoKey] \in Jobs
  BY DEF Jobs
<1>2. Unlinked(j, gone) = [m \in Listings |-> IF j[m] # NoJob /\ j[m].posting \in gone
                                              THEN [j[m] EXCEPT !.posting = NoKey] ELSE j[m]]
  BY DEF Unlinked
<1>3. Unlinked(j, gone) \in [Listings -> Jobs \cup {NoJob}]
  BY <1>1, <1>2
<1>4. CASE j[l] # NoJob /\ j[l].posting \in gone
  <2>1. Unlinked(j, gone)[l] = [j[l] EXCEPT !.posting = NoKey] /\ j[l] \in Jobs
    BY <1>2, <1>4
  <2>2. Unlinked(j, gone)[l] \in Jobs
    BY <1>1, <1>4, <2>1
  <2> QED BY <1>3, <1>4, <2>1, <2>2, IngestAssumption DEF Jobs
<1>5. CASE j[l] = NoJob \/ j[l].posting \notin gone
  BY <1>2, <1>3, <1>5
<1> QED BY <1>4, <1>5

LEMMA Telling ==
    ASSUME NEW rows, NEW v \in Workers, run'[v] = Told(rows)[v]
    PROVE  Hears(v, rows)
  BY DEF Told, Hears

(* The postings a commit deletes.                                          *)
GoneBy(w) == run[w].orphans \ run[w].dead

LEMMA Committing ==
    ASSUME TypeOK, LinkIsOwn, RunInv, NEW w \in Workers, Commit(w)
    PROVE  /\ GoneBy(w) \subseteq Keys /\ run[w].pruned \subseteq Listings
           /\ run[w].pc = "flushed" /\ ReadsAreCurrent(w) /\ FlushHolds(w) /\ KeepsItsOwn(w)
           /\ run' \in [Workers -> Runs] /\ run'[w] = Idle
           /\ \A v \in Workers \ {w} : Hears(v, GoneBy(w) \cup run[w].pruned)
           /\ job' \in [Listings -> Jobs \cup {NoJob}] /\ posting' \in [Keys -> Postings \cup {NoPosting}]
<1>1. GoneBy(w) \subseteq Keys /\ run[w].pruned \subseteq Listings
  BY DEF GoneBy, TypeOK, Runs
<1>2. run[w].pc = "flushed" /\ ReadsAreCurrent(w) /\ FlushHolds(w) /\ KeepsItsOwn(w)
  BY DEF Commit, At, RunInv, RunSound
<1>3. run' = [Told(GoneBy(w) \cup run[w].pruned) EXCEPT ![w] = Idle]
  BY DEF Commit, GoneBy
<1>4. run'[w] = Idle /\ \A v \in Workers \ {w} : Hears(v, GoneBy(w) \cup run[w].pruned)
  BY <1>3, Telling DEF Told
<1>5. run' \in [Workers -> Runs]
  <2>1. \A v \in Workers : run'[v] \in Runs
    BY <1>4, Hearing, IdleTyped
  <2> QED BY <1>3, <2>1 DEF Told
<1>6. posting' \in [Keys -> Postings \cup {NoPosting}]
  BY PostingAfterTyped DEF Commit
<1>7. job' \in [Listings -> Jobs \cup {NoJob}]
  <2> DEFINE after == [l \in Listings |-> JobAfter(w, run[w].pruned, l)]
  <2>1. after \in [Listings -> Jobs \cup {NoJob}]
    BY <1>2, JobAfterTyped
  <2>2. job' = Unlinked(after, GoneBy(w))
    BY DEF Commit, GoneBy
  <2> HIDE DEF after
  <2>3. DOMAIN Unlinked(after, GoneBy(w)) = Listings
    BY DEF Unlinked
  <2>4. CASE Listings = {}
    BY <2>2, <2>4 DEF Unlinked
  <2>5. CASE Listings # {}
    BY <1>1, <2>1, <2>2, <2>5, Unlinking
  <2> QED BY <2>4, <2>5
<1> QED BY <1>1, <1>2, <1>4, <1>5, <1>6, <1>7

(* The rows a commit leaves.                                               *)
LEMMA CommittedRows ==
    ASSUME TypeOK, LinkIsOwn, RunInv, NEW w \in Workers, Commit(w)
    PROVE  /\ \A k \in Keys : posting'[k] = IF k \in GoneBy(w) THEN NoPosting ELSE PostingAfter(w, k)
           /\ \A l \in Listings : LET j == JobAfter(w, run[w].pruned, l) IN
                 /\ job'[l] = NoJob <=> j = NoJob
                 /\ j = NoJob \/ j.posting \notin GoneBy(w) => job'[l] = j
                 /\ j # NoJob => /\ job'[l].score = j.score
                                 /\ job'[l].posting = IF j.posting \in GoneBy(w) THEN NoKey ELSE j.posting
<1> DEFINE after == [l \in Listings |-> JobAfter(w, run[w].pruned, l)]
<1>1. GoneBy(w) \subseteq Keys /\ ReadsAreCurrent(w) /\ FlushHolds(w)
  BY Committing
<1>2. after \in [Listings -> Jobs \cup {NoJob}]
  BY <1>1, JobAfterTyped
<1>3. job' = Unlinked(after, GoneBy(w))
  BY DEF Commit, GoneBy
<1>4. \A l \in Listings : after[l] = JobAfter(w, run[w].pruned, l)
  OBVIOUS
<1>5. ASSUME NEW l \in Listings
      PROVE  /\ job'[l] = NoJob <=> after[l] = NoJob
             /\ after[l] = NoJob \/ after[l].posting \notin GoneBy(w) => job'[l] = after[l]
             /\ after[l] # NoJob =>
                  /\ job'[l].score = after[l].score
                  /\ job'[l].posting = IF after[l].posting \in GoneBy(w) THEN NoKey ELSE after[l].posting
  <2> HIDE DEF after
  <2> QED BY <1>1, <1>2, <1>3, Unlinking
<1>6. \A k \in Keys : posting'[k] = IF k \in GoneBy(w) THEN NoPosting ELSE PostingAfter(w, k)
  BY DEF Commit, GoneBy
<1> HIDE DEF after
<1> QED BY <1>4, <1>5, <1>6

(* A commit moves no row that another flushed run has locked.              *)
LEMMA CommitMoves ==
    ASSUME TypeOK, LinkIsOwn, RunInv, LocksExclude, NEW w \in Workers, Commit(w), NEW v \in Workers \ {w}
    PROVE  RowsChange(v, GoneBy(w) \cup run[w].pruned)
<1> DEFINE rows == GoneBy(w) \cup run[w].pruned
           After(l) == JobAfter(w, run[w].pruned, l)
<1>1. /\ GoneBy(w) \subseteq Keys /\ run[w].pruned \subseteq Listings
      /\ ReadsAreCurrent(w) /\ FlushHolds(w) /\ run[w].pc = "flushed"
  BY Committing
<1>2. ASSUME NEW l \in Listings, job[l] # NoJob
      PROVE  /\ job'[l] # NoJob \/ l \in rows
             /\ job'[l] # NoJob /\ job[l].posting = KeyOf[l] => job'[l].posting = KeyOf[l] \/ KeyOf[l] \in rows
  <2>1. CASE l \in KeptBy(w)
    BY <1>1, <2>1, JobAfterTyped, CommittedRows
  <2>2. CASE l \notin KeptBy(w)
    <3>1. After(l) = IF l \in run[w].pruned THEN NoJob ELSE job[l]
      BY <2>2 DEF JobAfter
    <3> QED BY <1>2, <3>1, CommittedRows
  <2> QED BY <2>1, <2>2
<1>3. ASSUME NEW k \in Keys, posting[k] # NoPosting
      PROVE  /\ posting'[k] # NoPosting \/ k \in rows
             /\ posting'[k] # NoPosting /\ posting[k].kind = "fetched" => posting'[k].kind = "fetched"
  BY <1>3, CommittedRows, PostingAfterTyped
<1>4. ASSUME run[v].pc = "flushed", NEW l \in KeptBy(v)
      PROVE  /\ job'[l] = job[l] /\ posting'[KeyOf[l]] = posting[KeyOf[l]]
             /\ l \notin rows /\ KeyOf[l] \notin rows
  <2>1. l \in Listings /\ KeyOf[l] \in Keys /\ KeyOf[l] \in KeysOf(v)
    BY KeptTyped
  <2>2. l \in Locked(v) /\ KeyOf[l] \in Locked(v) /\ v \in Workers \ {w}
    BY <1>4, <2>1 DEF Locked, At
  <2>3. Locked(v) \subseteq LockedByOthers(w)
    BY <2>2 DEF LockedByOthers
  <2>4. l \notin KeptBy(w) \cup run[w].pruned /\ KeyOf[l] \notin KeysOf(w)
    BY <1>1, <2>2, <2>3 DEF LocksExclude, Locked, At
  <2>5. KeyOf[l] \notin GoneBy(w)
    BY <2>2, <2>3 DEF Commit, GoneBy
  <2>6. After(l) = job[l] /\ PostingAfter(w, KeyOf[l]) = posting[KeyOf[l]]
    BY <2>4 DEF JobAfter, PostingAfter
  <2>7. job[l] = NoJob \/ job[l].posting \notin GoneBy(w)
    BY <1>1, <2>1, <2>5, IngestAssumption DEF LinkIsOwn
  <2>8. l \notin rows /\ KeyOf[l] \notin rows
    BY <1>1, <2>1, <2>4, <2>5, IngestAssumption
  <2> QED BY <2>1, <2>5, <2>6, <2>7, <2>8, CommittedRows
<1> QED BY <1>2, <1>3, <1>4 DEF RowsChange

(* Neither does anything the user does.                                    *)
LEMMA FlushedIsLocked ==
    ASSUME TypeOK, NEW v \in Workers, run[v].pc = "flushed", NEW l \in KeptBy(v)
    PROVE  l \in AllLocked /\ KeyOf[l] \in AllLocked /\ l \in Listings /\ KeyOf[l] \in Keys
  BY KeptTyped DEF AllLocked, Locked, At

LEMMA ManualMoves ==
    ASSUME TypeOK, NEW k \in Keys, CreateManual(k), NEW v \in Workers
    PROVE  Hears(v, {}) /\ RowsChange(v, {})
<1>1. Hears(v, {})
  BY HearsNothing DEF CreateManual
<1>2. RowsChange(v, {})
  BY FlushedIsLocked DEF CreateManual, RowsChange, TypeOK
<1> QED BY <1>1, <1>2

LEMMA RemovalMoves ==
    ASSUME TypeOK, LinkIsOwn, NEW k \in Keys, RemovePosting(k), NEW v \in Workers
    PROVE  Hears(v, {k}) /\ RowsChange(v, {k})
<1>1. Hears(v, {k})
  BY Telling DEF RemovePosting
<1>2. \A l \in Listings :
         /\ job'[l] = NoJob <=> job[l] = NoJob
         /\ job[l] = NoJob \/ job[l].posting # k => job'[l] = job[l]
  <2>1. \A l \in Listings : job' = Unlinked(job, {k}) /\ job \in [Listings -> Jobs \cup {NoJob}]
    BY DEF RemovePosting, TypeOK
  <2> QED BY <2>1, Unlinking
<1>3. ASSUME run[v].pc = "flushed", NEW l \in KeptBy(v)
      PROVE  /\ job'[l] = job[l] /\ posting'[KeyOf[l]] = posting[KeyOf[l]]
             /\ l # k /\ KeyOf[l] # k
  <2>1. KeyOf[l] # k /\ l \in Listings /\ KeyOf[l] \in Keys
    BY <1>3, FlushedIsLocked DEF RemovePosting
  <2>2. job[l] = NoJob \/ job[l].posting # k
    BY <2>1, IngestAssumption DEF LinkIsOwn
  <2> QED BY <1>2, <2>1, <2>2, IngestAssumption DEF RemovePosting, TypeOK
<1>4. ASSUME NEW q \in Keys, posting[q] # NoPosting
      PROVE  q = k \/ posting'[q] = posting[q]
  BY DEF RemovePosting, TypeOK
<1>5. ASSUME NEW l \in Listings, job[l] # NoJob
      PROVE  job'[l] # NoJob /\ (job[l].posting = KeyOf[l] => job'[l].posting = KeyOf[l] \/ KeyOf[l] = k)
  BY <1>2, <1>5
<1>6. posting'[k] = NoPosting
  BY DEF RemovePosting, TypeOK
<1> QED BY <1>1, <1>3, <1>4, <1>5, <1>6 DEF RowsChange

LEMMA SourceMoves ==
    ASSUME TypeOK, RunInv, NEW s \in Sources, RemoveSource(s), NEW v \in Workers
    PROVE  Hears(v, ListingsOf(s)) /\ RowsChange(v, ListingsOf(s))
<1>1. Hears(v, ListingsOf(s))
  BY Telling DEF RemoveSource
<1>2. \A l \in Listings : job'[l] = IF l \in ListingsOf(s) THEN NoJob ELSE job[l]
  BY DEF RemoveSource, ListingsOf
<1>3. posting' = posting
  BY DEF RemoveSource
<1>4. ASSUME run[v].pc = "flushed", NEW l \in KeptBy(v)
      PROVE  l \in Listings /\ l \notin ListingsOf(s) /\ KeyOf[l] \notin ListingsOf(s)
  <2>1. l \in ListingsOf(run[v].src) /\ run[v].src # s
    BY <1>4 DEF RunInv, RunSound, KeepsItsOwn, RemoveSource, At
  <2> QED BY <2>1, IngestAssumption DEF ListingsOf
<1> QED BY <1>1, <1>2, <1>3, <1>4 DEF RowsChange

-----------------------------------------------------------------------------
(* The invariant: types, links, runs and locks.                            *)

Sound == TypeOK /\ LinkIsOwn /\ RunInv /\ LocksExclude

(* A step of one run that touches no row leaves the other runs as they are.*)
LEMMA OthersUntouched ==
    ASSUME TypeOK, NEW w \in Workers, run' = [run EXCEPT ![w] = run'[w]],
           job' = job, posting' = posting, NEW v \in Workers \ {w}
    PROVE  Hears(v, {}) /\ RowsChange(v, {})
<1>1. run'[v] = run[v]
  BY DEF TypeOK
<1>2. Hears(v, {})
  BY <1>1, HearsNothing
<1> QED BY <1>2 DEF RowsChange

(* The steps of a run that touch no row.                                   *)
OwnStep(w) ==
    (\E s \in Sources : Load(w, s)) \/ Resolve(w) \/ Upsert(w) \/ Flush(w) \/ Abandon(w)

LEMMA OwnSteps ==
    ASSUME TypeOK, LinkIsOwn, RunInv, NEW w \in Workers, OwnStep(w)
    PROVE  /\ run' = [run EXCEPT ![w] = run'[w]] /\ run'[w] \in Runs
           /\ UNCHANGED <<removed, job, posting, manual, dismissed>>
           /\ RunSound(w)'
           /\ Flush(w) \/ run'[w].pc # "flushed"
<1>1. ASSUME NEW s \in Sources, Load(w, s)
      PROVE  /\ run' = [run EXCEPT ![w] = run'[w]] /\ run'[w] \in Runs
             /\ RunSound(w)' /\ run'[w].pc # "flushed"
  BY <1>1, Loading DEF RunSound
<1>2. CASE Resolve(w)
  BY <1>2, Resolving DEF RunSound, Resolve
<1>3. CASE Upsert(w)
  BY <1>3, Upserting DEF RunSound, Upsert
<1>4. CASE Flush(w)
  BY <1>4, Flushing DEF RunSound, Flush
<1>5. CASE Abandon(w)
  <2>1. run' = [run EXCEPT ![w] = run'[w]] /\ run'[w] = Idle
    BY <1>5 DEF Abandon, TypeOK
  <2> QED BY <1>5, <2>1, IdleTyped DEF RunSound, HasReadNothing, Abandon
<1>6. (\E s \in Sources : Load(w, s)) => UNCHANGED <<removed, job, posting, manual, dismissed>>
  BY DEF Load
<1> QED BY <1>1, <1>2, <1>3, <1>4, <1>5, <1>6 DEF OwnStep

LEMMA RunNext == Sound /\ [Next]_vars => RunInv'
<1> SUFFICES ASSUME Sound, [Next]_vars, NEW v \in Workers PROVE RunSound(v)'
  BY DEF RunInv
<1> USE DEF Sound
<1>1. RunSound(v)
  BY DEF RunInv
<1>2. ASSUME NEW rows, Hears(v, rows), RowsChange(v, rows) PROVE RunSound(v)'
  BY <1>1, <1>2, StaysSound
<1>3. ASSUME NEW w \in Workers, OwnStep(w) PROVE RunSound(v)'
  <2>1. CASE v = w
    BY <1>3, <2>1, OwnSteps
  <2>2. CASE v # w
    <3>1. Hears(v, {}) /\ RowsChange(v, {})
      BY <1>3, <2>2, OwnSteps, OthersUntouched
    <3> QED BY <1>2, <3>1
  <2> QED BY <2>1, <2>2
<1>4. ASSUME NEW w \in Workers, Commit(w) PROVE RunSound(v)'
  <2>1. CASE v = w
    <3>1. run'[v] = Idle
      BY <1>4, <2>1, Committing
    <3> QED BY <3>1, IdleTyped DEF RunSound, HasReadNothing
  <2>2. CASE v # w
    BY <1>2, <1>4, <2>2, Committing, CommitMoves
  <2> QED BY <2>1, <2>2
<1>5. ASSUME NEW k \in Keys, CreateManual(k) PROVE RunSound(v)'
  BY <1>2, <1>5, ManualMoves
<1>6. ASSUME NEW k \in Keys, RemovePosting(k) PROVE RunSound(v)'
  BY <1>2, <1>6, RemovalMoves
<1>7. ASSUME NEW s \in Sources, RemoveSource(s) PROVE RunSound(v)'
  BY <1>2, <1>7, SourceMoves
<1>8. CASE UNCHANGED vars
  <2>1. Hears(v, {}) /\ RowsChange(v, {})
    BY <1>8, HearsNothing DEF vars, RowsChange
  <2> QED BY <1>2, <2>1
<1> QED BY <1>3, <1>4, <1>5, <1>6, <1>7, <1>8 DEF Next, OwnStep

(* Locks: only a flush takes any, and it waits for the others' to go.      *)
LEMMA LocksNext == Sound /\ [Next]_vars => LocksExclude'
<1> SUFFICES ASSUME Sound, [Next]_vars PROVE LocksExclude'
  OBVIOUS
<1> USE DEF Sound
<1>1. ASSUME \A v \in Workers : Locked(v)' \subseteq Locked(v) PROVE LocksExclude'
  BY <1>1 DEF LocksExclude, LockedByOthers
<1>2. ASSUME NEW w \in Workers, OwnStep(w) PROVE LocksExclude'
  <2>1. ASSUME NEW v \in Workers \ {w} PROVE Locked(v)' = Locked(v)
    BY <1>2, OwnSteps, OthersUntouched, Hearing
  <2>2. CASE run'[w].pc # "flushed"
    <3>1. Locked(w)' = {}
      BY <2>2 DEF Locked, At
    <3> QED BY <1>1, <2>1, <3>1
  <2>3. CASE Flush(w)
    <3>1. Locked(w)' \cap LockedByOthers(w) = {}
      BY <2>3, Flushing DEF Flush
    <3>2. \A v \in Workers \ {w} : Locked(v) \cap Locked(w)' = {}
      BY <3>1 DEF LockedByOthers
    <3>3. \A u, v \in Workers \ {w} : u # v => Locked(u) \cap Locked(v) = {}
      BY DEF LocksExclude, LockedByOthers
    <3> QED BY <2>1, <3>2, <3>3 DEF LocksExclude, LockedByOthers
  <2> QED BY <1>2, <2>2, <2>3, OwnSteps
<1>3. ASSUME NEW w \in Workers, Commit(w) PROVE LocksExclude'
  <2>1. Locked(w)' = {}
    BY <1>3, Committing, IdleTyped DEF Locked, At
  <2>2. ASSUME NEW v \in Workers \ {w} PROVE Locked(v)' = Locked(v)
    BY <1>3, Committing, Hearing
  <2> QED BY <1>1, <2>1, <2>2
<1>4. ASSUME NEW k \in Keys, CreateManual(k) \/ RemovePosting(k) PROVE LocksExclude'
  BY <1>1, <1>4, ManualMoves, RemovalMoves, Hearing
<1>5. ASSUME NEW s \in Sources, RemoveSource(s) PROVE LocksExclude'
  BY <1>1, <1>5, SourceMoves, Hearing
<1>6. CASE UNCHANGED vars
  BY <1>6 DEF vars, LocksExclude, LockedByOthers, Locked, At, KeptBy, KeysOf
<1> QED BY <1>2, <1>3, <1>4, <1>5, <1>6 DEF Next, OwnStep

(* Rows keep their types, jobs their postings, links their keys.           *)
LinksLead ==
    \A l \in Listings : job[l] # NoJob /\ job[l].posting # NoKey => posting[job[l].posting] # NoPosting

LEMMA RowsNext ==
    Sound /\ [Next]_vars =>
        /\ job' \in [Listings -> Jobs \cup {NoJob}] /\ posting' \in [Keys -> Postings \cup {NoPosting}]
        /\ LinkIsOwn' /\ LinksLead'
<1> SUFFICES ASSUME Sound, [Next]_vars
             PROVE  /\ job' \in [Listings -> Jobs \cup {NoJob}]
                    /\ posting' \in [Keys -> Postings \cup {NoPosting}]
                    /\ LinkIsOwn' /\ LinksLead'
  OBVIOUS
<1> USE DEF Sound
<1> DEFINE Fine == /\ job' \in [Listings -> Jobs \cup {NoJob}]
                   /\ posting' \in [Keys -> Postings \cup {NoPosting}]
                   /\ LinkIsOwn' /\ LinksLead'
<1>1. CASE UNCHANGED <<job, posting>>
  BY <1>1 DEF TypeOK, LinkIsOwn, LinksLead
<1>2. ASSUME NEW w \in Workers, Commit(w) PROVE Fine
  <2>1. /\ job' \in [Listings -> Jobs \cup {NoJob}] /\ posting' \in [Keys -> Postings \cup {NoPosting}]
        /\ ReadsAreCurrent(w) /\ FlushHolds(w) /\ GoneBy(w) \subseteq Keys
    BY <1>2, Committing
  <2>2. ASSUME NEW l \in Listings, job'[l] # NoJob
        PROVE  job'[l].posting \in {KeyOf[l], NoKey}
    BY <1>2, <2>1, <2>2, CommittedRows, JobAfterTyped
  <2>3. ASSUME NEW l \in Listings, job'[l] # NoJob, job'[l].posting # NoKey
        PROVE  posting'[job'[l].posting] # NoPosting
    <3> DEFINE j == JobAfter(w, run[w].pruned, l)  k == KeyOf[l]
    <3>1. j # NoJob /\ j.posting = k /\ k \notin GoneBy(w) /\ job'[l].posting = k /\ k \in Keys
      BY <1>2, <2>1, <2>2, <2>3, CommittedRows, JobAfterTyped, IngestAssumption
    <3>2. PostingAfter(w, k) # NoPosting
      <4>1. CASE l \notin KeptBy(w)
        <5>1. j = job[l]
          BY <3>1, <4>1 DEF JobAfter
        <5>2. posting[k] # NoPosting
          BY <3>1, <5>1, IngestAssumption DEF TypeOK
        <5> QED BY <3>1, <5>2, PostingAfterTyped
      <4>2. CASE l \in KeptBy(w) /\ Links(w, l)
        <5>1. k \in KeysOf(w) /\ k \notin run[w].dead
          BY <2>1, <4>2, KeptTyped DEF FlushHolds
        <5>2. run[w].postings[k] # NoPosting => posting[k] # NoPosting
          BY <2>1, <3>1, <5>1 DEF ReadsAreCurrent
        <5> QED BY <3>1, <5>1, <5>2, PostingAfterTyped
      <4>3. CASE l \in KeptBy(w) /\ ~Links(w, l)
        <5>1. job[l] # NoJob
          BY <2>1, <4>3 DEF Links, FlushHolds, ReadsAreCurrent
        <5>2. job[l].posting = k
          BY <3>1, <4>3 DEF JobAfter
        <5>3. posting[k] # NoPosting
          BY <3>1, <5>1, <5>2, IngestAssumption DEF TypeOK
        <5> QED BY <3>1, <5>3, PostingAfterTyped
      <4> QED BY <4>1, <4>2, <4>3
    <3> QED BY <1>2, <3>1, <3>2, CommittedRows
  <2> QED BY <2>1, <2>2, <2>3 DEF LinkIsOwn, LinksLead
<1>3. ASSUME NEW k \in Keys, CreateManual(k) PROVE Fine
  <2>1. ManualPosting \in Postings /\ ManualPosting # NoPosting
    BY IngestAssumption DEF ManualPosting, Postings
  <2> QED BY <1>3, <2>1 DEF CreateManual, TypeOK, LinkIsOwn, LinksLead
<1>4. ASSUME NEW k \in Keys, RemovePosting(k) PROVE Fine
  <2>1. job' = Unlinked(job, {k}) /\ posting' = [posting EXCEPT ![k] = NoPosting]
        /\ job \in [Listings -> Jobs \cup {NoJob}]
    BY <1>4 DEF RemovePosting, TypeOK
  <2>2. \A l \in Listings :
           /\ job' \in [Listings -> Jobs \cup {NoJob}]
           /\ job'[l] = NoJob <=> job[l] = NoJob
           /\ job[l] # NoJob => job'[l].posting = IF job[l].posting = k THEN NoKey ELSE job[l].posting
    BY <2>1, Unlinking
  <2>3. job' \in [Listings -> Jobs \cup {NoJob}]
    <3>1. CASE Listings = {}
      BY <2>1, <3>1 DEF Unlinked
    <3> QED BY <2>2, <3>1
  <2>4. posting' \in [Keys -> Postings \cup {NoPosting}]
    BY <2>1 DEF TypeOK
  <2>5. LinkIsOwn'
    BY <2>2 DEF LinkIsOwn
  <2>6. LinksLead'
    <3> SUFFICES ASSUME NEW l \in Listings, job'[l] # NoJob, job'[l].posting # NoKey
                 PROVE  posting'[job'[l].posting] # NoPosting
      BY DEF LinksLead
    <3>1. job[l] # NoJob /\ job[l].posting # k /\ job'[l].posting = job[l].posting
      BY <2>2
    <3>2. posting[job[l].posting] # NoPosting /\ job[l].posting \in Keys
      BY <3>1 DEF TypeOK, Jobs
    <3> QED BY <2>1, <3>1, <3>2 DEF TypeOK
  <2> QED BY <2>3, <2>4, <2>5, <2>6
<1>5. ASSUME NEW s \in Sources, RemoveSource(s) PROVE Fine
  BY <1>5 DEF RemoveSource, TypeOK, LinkIsOwn, LinksLead
<1>6. ASSUME NEW w \in Workers, OwnStep(w) PROVE UNCHANGED <<job, posting>>
  BY <1>6, OwnSteps
<1> HIDE DEF Fine
<1>7. UNCHANGED vars => UNCHANGED <<job, posting>>
  BY DEF vars
<1>8. Fine
  BY <1>1, <1>2, <1>3, <1>4, <1>5, <1>6, <1>7 DEF Next, OwnStep, Fine
<1> QED BY <1>8 DEF Fine

LEMMA TypeNext == Sound /\ [Next]_vars => TypeOK'
<1> SUFFICES ASSUME Sound, [Next]_vars PROVE TypeOK'
  OBVIOUS
<1> USE DEF Sound
<1>1. run' \in [Workers -> Runs]
  <2>1. ASSUME NEW w \in Workers, OwnStep(w) PROVE run' \in [Workers -> Runs]
    <3>1. run' = [run EXCEPT ![w] = run'[w]] /\ run'[w] \in Runs
      BY <2>1, OwnSteps
    <3> QED BY <3>1 DEF TypeOK
  <2>2. ASSUME NEW rows, run' = Told(rows) PROVE run' \in [Workers -> Runs]
    <3>1. \A v \in Workers : run'[v] \in Runs
      BY <2>2, Telling, Hearing
    <3> QED BY <2>2, <3>1 DEF Told
  <2>3. ASSUME NEW k \in Keys, CreateManual(k) \/ RemovePosting(k) PROVE run' = run \/ \E rows : run' = Told(rows)
    BY <2>3 DEF CreateManual, RemovePosting
  <2>4. ASSUME NEW s \in Sources, RemoveSource(s) PROVE \E rows : run' = Told(rows)
    BY <2>4 DEF RemoveSource
  <2>5. UNCHANGED vars => run' = run
    BY DEF vars
  <2>6. run \in [Workers -> Runs]
    BY DEF TypeOK
  <2> QED BY <2>1, <2>2, <2>3, <2>4, <2>5, <2>6, Committing DEF Next, OwnStep
<1>2. runs' \in 0..MaxRuns
  <2>1. runs' = runs \/ (runs < MaxRuns /\ runs' = runs + 1)
    BY DEF Next, vars, Load, Resolve, Upsert, Flush, Commit, Abandon, CreateManual,
           RemovePosting, RemoveSource
  <2> QED BY <2>1, IngestAssumption DEF TypeOK
<1>3. removed' \subseteq Sources /\ manual' \subseteq Keys
  BY DEF TypeOK, Next, vars, Load, Resolve, Upsert, Flush, Commit, Abandon, CreateManual,
         RemovePosting, RemoveSource
<1>4. overlap' \in BOOLEAN
  <2>1. overlap' = overlap \/ overlap' = (overlap \/ Persisting # {})
    BY DEF Next, vars, Load, Resolve, Upsert, Flush, Commit, Abandon, CreateManual,
           RemovePosting, RemoveSource
  <2> QED BY <2>1 DEF TypeOK
<1>5. dismissed' \subseteq Listings
  BY DEF TypeOK, Next, vars, Load, Resolve, Upsert, Flush, Commit, Abandon, CreateManual,
         RemovePosting, RemoveSource
<1> QED BY <1>1, <1>2, <1>3, <1>4, <1>5, RowsNext DEF TypeOK, LinksLead

-----------------------------------------------------------------------------
(* While nothing overlaps.                                                 *)

(* What a persist will leave depends on what it holds and on the rows.     *)
LEMMA SameJobAfter ==
    ASSUME NEW w \in Workers, NEW pruned, NEW l \in Listings,
           run'[w].pruned = pruned, run'[w].keep = run[w].keep, run'[w].jobs = run[w].jobs,
           IF l \in KeptBy(w) /\ job'[l] # NoJob /\ job[l] # NoJob
           THEN job'[l].posting = job[l].posting ELSE job'[l] = job[l]
    PROVE  JobAfter(w, run[w].pruned, l)' = JobAfter(w, pruned, l)
<1>1. KeptBy(w)' = KeptBy(w)
  BY DEF KeptBy
<1>2. Links(w, l)' = Links(w, l) /\ ScoreOf(w, l)' = ScoreOf(w, l)
  BY DEF Links, ScoreOf
<1> QED BY <1>1, <1>2 DEF JobAfter

LEMMA SamePostingAfter ==
    ASSUME NEW w \in Workers, NEW k \in Keys,
           run'[w].keep = run[w].keep, run'[w].postings = run[w].postings, posting'[k] = posting[k]
    PROVE  PostingAfter(w, k)' = PostingAfter(w, k)
<1>1. KeptBy(w)' = KeptBy(w)
  BY DEF KeptBy
<1>2. SharersOf(w, k)' = SharersOf(w, k) /\ KeysOf(w)' = KeysOf(w)
  BY <1>1 DEF SharersOf, KeysOf
<1>3. \A l \in Listings : ScoreOf(w, l)' = ScoreOf(w, l)
  BY DEF ScoreOf
<1>4. {ScoreOf(w, l) : l \in SharersOf(w, k)}' = {ScoreOf(w, l) : l \in SharersOf(w, k)}
  BY <1>2 DEF ScoreOf
<1>5. TopScore(w, k)' = TopScore(w, k)
  BY <1>4 DEF TopScore
<1>6. Overwrites(w, k)' = Overwrites(w, k)
  BY <1>2 DEF Overwrites, ScoreOf
<1> QED BY <1>2, <1>5, <1>6 DEF PostingAfter

(* A persist cannot begin beside another, nor the user add or delete.      *)
LEMMA OverlapStays ==
    ASSUME TypeOK, [Next]_vars, ~overlap'
    PROVE  /\ ~overlap
           /\ (\E w \in Workers : Upsert(w)) \/ (\E k \in Keys : CreateManual(k))
              \/ (\E s \in Sources : RemoveSource(s)) => Persisting = {}
  BY DEF Next, vars, Load, Resolve, Upsert, Flush, Commit, Abandon, CreateManual,
         RemovePosting, RemoveSource, TypeOK

(* A commit is made by the one run that persists.                          *)
LEMMA CommitsAlone ==
    ASSUME TypeOK, AloneInv, ~overlap, NEW w \in Workers, run[w].pc = "flushed"
    PROVE  Undisturbed(w) /\ OrphansAreRight(w) /\ Persisting = {w}
  BY DEF AloneInv, Persisting

LEMMA AloneNext == Sound /\ AloneInv /\ [Next]_vars => AloneInv'
<1> SUFFICES ASSUME Sound, AloneInv, [Next]_vars, ~overlap' PROVE AloneInv'
  BY DEF AloneInv
<1> USE DEF Sound
<1> ~overlap
  BY OverlapStays
<1>1. ASSUME Persisting' = {}
      PROVE  AloneInv'
  BY <1>1 DEF AloneInv, Persisting
<1>2. ASSUME NEW w \in Workers, run'[w].pc = run[w].pc PROVE w \in Persisting' <=> w \in Persisting
  BY <1>2 DEF Persisting
<1>3. ASSUME UNCHANGED <<job, posting>>, NEW w \in Workers, run'[w] = run[w]
      PROVE  /\ Undisturbed(w)' = Undisturbed(w)
             /\ run[w] \in Runs => OrphansAreRight(w)' = OrphansAreRight(w)
  <2>1. Undisturbed(w)' = Undisturbed(w)
    BY <1>3 DEF Undisturbed, KeysOf, KeptBy
  <2>2. \A l \in Listings : JobAfter(w, run[w].pruned, l)' = JobAfter(w, run[w].pruned, l)
    BY <1>3, SameJobAfter
  <2>3. \A k \in Keys : PostingAfter(w, k)' = PostingAfter(w, k)
    BY <1>3, SamePostingAfter
  <2>4. run[w] \in Runs => OrphansAreRight(w)' = OrphansAreRight(w)
    BY <1>3, <2>2, <2>3 DEF OrphansAreRight, Shows, Runs
  <2> QED BY <2>1, <2>4
<1>4. ASSUME UNCHANGED <<job, posting>>, NEW w \in Workers, run' = [run EXCEPT ![w] = run'[w]],
             run'[w].pc \notin {"upserted", "flushed"}
      PROVE  AloneInv'
  <2>1. \A v \in Workers \ {w} : run'[v] = run[v] /\ run[v] \in Runs
    BY <1>4 DEF TypeOK
  <2>2. w \notin Persisting'
    BY <1>4 DEF Persisting
  <2>3. Persisting' \subseteq Persisting \ {w} /\ Persisting \subseteq Workers
    BY <2>1, <2>2 DEF Persisting
  <2>4. \A v \in Persisting' : Undisturbed(v)'
    BY <1>3, <1>4, <2>1, <2>3 DEF AloneInv
  <2>5. \A v \in Workers : run'[v].pc = "flushed" => OrphansAreRight(v)'
    BY <1>3, <1>4, <2>1 DEF AloneInv
  <2> QED BY <2>3, <2>4, <2>5 DEF AloneInv
<1>5. ASSUME NEW w \in Workers, OwnStep(w), ~Upsert(w), ~Flush(w) PROVE AloneInv'
  <2>1. UNCHANGED <<job, posting>> /\ run' = [run EXCEPT ![w] = run'[w]]
    BY <1>5, OwnSteps
  <2>2. run'[w].pc \notin {"upserted", "flushed"}
    <3>1. ASSUME NEW s \in Sources, Load(w, s) PROVE run'[w].pc \notin {"upserted", "flushed"}
      BY <3>1, Loading
    <3>2. Resolve(w) => run'[w].pc \notin {"upserted", "flushed"}
      BY Resolving
    <3>3. Abandon(w) => run'[w].pc \notin {"upserted", "flushed"}
      BY IdleTyped DEF Abandon, TypeOK
    <3> QED BY <1>5, <3>1, <3>2, <3>3 DEF OwnStep
  <2> QED BY <1>4, <2>1, <2>2
<1>6. ASSUME NEW w \in Workers, Upsert(w) PROVE AloneInv'
  <2>1. Persisting = {}
    BY <1>6, OverlapStays
  <2>2. /\ run' = [run EXCEPT ![w] = run'[w]] /\ run'[w].pc = "upserted" /\ run'[w].dead = {}
        /\ KeysOf(w)' = KeysOf(w) /\ \A k \in KeysOf(w) : run'[w].postings[k] = posting[k]
        /\ posting' = posting
    BY <1>6, Upserting DEF Upsert
  <2>3. \A v \in Workers : v # w => run'[v] = run[v]
    BY <2>2 DEF TypeOK
  <2>4. \A v \in Workers : v # w => v \notin Persisting' /\ run'[v].pc # "flushed"
    BY <2>1, <2>3 DEF Persisting
  <2>5. Undisturbed(w)'
    BY <2>2 DEF Undisturbed
  <2>6. \A v \in Persisting' : v = w
    BY <2>4 DEF Persisting
  <2> QED BY <2>2, <2>4, <2>5, <2>6 DEF AloneInv
<1>7. ASSUME NEW w \in Workers, Flush(w) PROVE AloneInv'
  <2>1. /\ run' = [run EXCEPT ![w] = run'[w]] /\ run'[w].pc = "flushed" /\ run'[w].dead = run[w].dead
        /\ run'[w].pruned = Pruned(w) /\ run'[w].orphans = Orphans(w)
        /\ run'[w].keep = run[w].keep /\ run'[w].jobs = run[w].jobs
        /\ run'[w].postings = run[w].postings /\ run'[w].complete = run[w].complete
        /\ KeysOf(w)' = KeysOf(w) /\ UNCHANGED <<job, posting>>
    BY <1>7, Flushing DEF Flush
  <2>2. w \in Persisting /\ \A v \in Persisting : v = w
    BY <1>7 DEF Flush, At, Persisting, AloneInv
  <2>3. \A v \in Workers : v # w => run'[v] = run[v]
    BY <2>1 DEF TypeOK
  <2>4. \A v \in Workers : v # w => v \notin Persisting' /\ run'[v].pc # "flushed"
    BY <2>2, <2>3 DEF Persisting
  <2>5. Undisturbed(w)'
    BY <2>1, <2>2 DEF AloneInv, Undisturbed
  <2>6. \A l \in Listings : JobAfter(w, run[w].pruned, l)' = JobAfter(w, Pruned(w), l)
    BY <2>1, SameJobAfter
  <2>7. \A k \in Keys : PostingAfter(w, k)' = PostingAfter(w, k)
    BY <2>1, SamePostingAfter
  <2>8. OrphansAreRight(w)'
    BY <2>1, <2>6, <2>7 DEF OrphansAreRight, Orphans, Shows
  <2>9. \A v \in Persisting' : v = w
    BY <2>4 DEF Persisting
  <2> QED BY <2>1, <2>4, <2>5, <2>8, <2>9 DEF AloneInv
<1>8. ASSUME NEW w \in Workers, Commit(w) PROVE AloneInv'
  <2>1. Persisting = {w}
    BY <1>8, CommitsAlone, Committing
  <2>2. run'[w].pc = "idle" /\ \A v \in Workers \ {w} : run'[v].pc = run[v].pc
    BY <1>8, Committing, Hearing, IdleTyped
  <2> QED BY <1>1, <2>1, <2>2 DEF Persisting
<1>9. ASSUME NEW k \in Keys, CreateManual(k) PROVE AloneInv'
  BY <1>1, <1>9, OverlapStays DEF CreateManual, Persisting
<1>10. ASSUME NEW s \in Sources, RemoveSource(s) PROVE AloneInv'
  <2>1. \A v \in Workers : run'[v].pc = run[v].pc
    BY <1>10, SourceMoves, Hearing
  <2> QED BY <1>1, <1>10, <2>1, OverlapStays DEF Persisting
<1>11. ASSUME NEW k \in Keys, RemovePosting(k) PROVE AloneInv'
  <2>1. ASSUME NEW w \in Workers
        PROVE  /\ run'[w].pc = run[w].pc /\ run'[w].keep = run[w].keep
               /\ run'[w].complete = run[w].complete /\ run'[w].jobs = run[w].jobs
               /\ run'[w].postings = run[w].postings /\ run'[w].pruned = run[w].pruned
               /\ run'[w].orphans = run[w].orphans
               /\ run'[w].dead \subseteq run[w].dead \cup {k}
               /\ KeptBy(w)' = KeptBy(w) /\ KeysOf(w)' = KeysOf(w)
    BY <1>11, RemovalMoves, Hearing
  <2>2. posting' = [posting EXCEPT ![k] = NoPosting] /\ posting'[k] = NoPosting
        /\ \A q \in Keys \ {k} : posting'[q] = posting[q]
    BY <1>11 DEF RemovePosting, TypeOK
  <2>3. Persisting' = Persisting
    BY <2>1 DEF Persisting
  <2>4. ASSUME NEW w \in Persisting PROVE Undisturbed(w)'
    <3>1. w \in Workers /\ Undisturbed(w) /\ KeysOf(w) \subseteq Keys
      BY KeysTyped DEF Persisting, AloneInv
    <3> QED BY <2>1, <2>2, <3>1 DEF Undisturbed
  <2>5. ASSUME NEW w \in Workers, run[w].pc = "flushed" PROVE OrphansAreRight(w)'
    <3>1. k \notin KeysOf(w) /\ OrphansAreRight(w)
      BY <1>11, <2>5 DEF RemovePosting, AllLocked, Locked, At, AloneInv
    <3>2. ASSUME NEW l \in Listings
          PROVE  /\ l \notin KeptBy(w) /\ job[l] # NoJob /\ job[l].posting = k
                    => job'[l] # NoJob /\ job'[l].posting = NoKey
                 /\ ~(l \notin KeptBy(w) /\ job[l] # NoJob /\ job[l].posting = k)
                    => job'[l] = job[l]
      <4>1. job' = Unlinked(job, {k}) /\ job \in [Listings -> Jobs \cup {NoJob}]
        BY <1>11 DEF RemovePosting, TypeOK
      <4>2. /\ job[l] # NoJob /\ job[l].posting = k => job'[l] # NoJob /\ job'[l].posting = NoKey
            /\ ~(job[l] # NoJob /\ job[l].posting = k) => job'[l] = job[l]
        BY <4>1, Unlinking
      <4>3. l \in KeptBy(w) /\ job[l] # NoJob => job[l].posting # k
        BY <3>1, KeptTyped, IngestAssumption DEF LinkIsOwn
      <4> QED BY <4>2, <4>3
    <3>3. ASSUME NEW l \in Listings, NEW q \in Keys PROVE Shows(w, l, q)' <=> Shows(w, l, q) /\ q # k
      <4>1. CASE l \notin KeptBy(w) /\ job[l] # NoJob /\ job[l].posting = k
        BY <2>1, <3>2, <4>1, IngestAssumption DEF Shows, JobAfter
      <4>2. CASE ~(l \notin KeptBy(w) /\ job[l] # NoJob /\ job[l].posting = k)
        <5>1. JobAfter(w, run[w].pruned, l)' = JobAfter(w, run[w].pruned, l)
          BY <2>1, <3>2, <4>2, SameJobAfter
        <5>2. Shows(w, l, q)' <=> Shows(w, l, q)
          BY <5>1 DEF Shows
        <5>3. ~Shows(w, l, k)
          <6>1. CASE l \in KeptBy(w)
            <7>1. JobAfter(w, run[w].pruned, l).posting \in {KeyOf[l], NoKey}
              BY <2>5, <6>1, JobAfterTyped DEF RunInv, RunSound
            <7> QED BY <3>1, <6>1, <7>1, KeptTyped, IngestAssumption DEF Shows
          <6>2. CASE l \notin KeptBy(w)
            BY <4>2, <6>2 DEF Shows, JobAfter
          <6> QED BY <6>1, <6>2
        <5> QED BY <5>2, <5>3
      <4> QED BY <4>1, <4>2
    <3>4. PostingAfter(w, k)' = NoPosting
      BY <2>1, <2>2, <3>1 DEF PostingAfter
    <3>5. \A q \in Keys \ {k} : PostingAfter(w, q)' = PostingAfter(w, q)
      BY <2>1, <2>2, SamePostingAfter
    <3>6. run[w].orphans \subseteq Keys
      BY DEF TypeOK, Runs
    <3>7. \A q \in run'[w].orphans, l \in Listings : ~Shows(w, l, q)'
      BY <2>1, <3>1, <3>3, <3>6 DEF OrphansAreRight
    <3>8. ASSUME run'[w].complete, NEW q \in Keys, PostingAfter(w, q)' # NoPosting,
                 PostingAfter(w, q)'.kind = "fetched", \A l \in Listings : ~Shows(w, l, q)'
          PROVE  q \in run'[w].orphans
      BY <2>1, <3>1, <3>3, <3>4, <3>5, <3>8 DEF OrphansAreRight
    <3> QED BY <3>7, <3>8 DEF OrphansAreRight
  <2> QED BY <2>1, <2>3, <2>4, <2>5 DEF AloneInv
<1>12. CASE UNCHANGED vars
  <2>1. UNCHANGED <<job, posting, run>> /\ Persisting' = Persisting
    BY <1>12 DEF vars, Persisting
  <2>2. \A w \in Workers : run[w] \in Runs
    BY DEF TypeOK
  <2> QED BY <1>3, <2>1, <2>2 DEF AloneInv, Persisting
<1> QED BY <1>5, <1>6, <1>7, <1>8, <1>9, <1>10, <1>11, <1>12 DEF Next, OwnStep

(* The score of a posting that a run of its own has written.               *)
LEMMA WrittenScore ==
    ASSUME TypeOK, NEW w \in Workers, Undisturbed(w), NEW k \in KeysOf(w),
           PostingAfter(w, k) # NoPosting
    PROVE  /\ PostingAfter(w, k).score = TopScore(w, k)
           /\ run[w].postings[k] # NoPosting => posting[k] = run[w].postings[k]
<1>1. k \in Keys
  BY KeysTyped
<1>2. CASE run[w].postings[k] = NoPosting
  BY <1>2 DEF PostingAfter
<1>3. CASE run[w].postings[k] # NoPosting
  <2>1. posting[k] = run[w].postings[k]
    BY <1>3 DEF PostingAfter, Undisturbed
  <2> QED BY <1>3, <2>1 DEF PostingAfter
<1> QED BY <1>2, <1>3

LEMMA CoversNext ==
    Sound /\ AloneInv /\ PostingCoversItsJobs /\ [Next]_vars => PostingCoversItsJobs'
<1> SUFFICES ASSUME Sound, AloneInv, PostingCoversItsJobs, [Next]_vars, ~overlap',
                    NEW l \in Listings, job'[l] # NoJob, job'[l].posting # NoKey
             PROVE  posting'[job'[l].posting].score >= job'[l].score
  BY DEF PostingCoversItsJobs
<1> DEFINE k == job'[l].posting
<1> USE DEF Sound
<1> ~overlap
  BY OverlapStays
<1>0. Scores \cup {Unscored} \subseteq Nat
  BY IngestAssumption DEF Unscored
<1>1. k \in Keys /\ k = KeyOf[l] /\ posting'[k] # NoPosting
  BY RowsNext, IngestAssumption DEF LinkIsOwn, LinksLead
<1>2. ASSUME job[l] # NoJob, job[l].posting = k PROVE posting[k].score >= job[l].score
  BY <1>1, <1>2 DEF PostingCoversItsJobs
<1>3. ASSUME job'[l] = job[l], posting'[k] = posting[k] PROVE posting'[k].score >= job'[l].score
  BY <1>2, <1>3
<1>4. ASSUME NEW w \in Workers, OwnStep(w) PROVE posting'[k].score >= job'[l].score
  BY <1>3, <1>4, OwnSteps
<1>5. ASSUME NEW w \in Workers, Commit(w) PROVE posting'[k].score >= job'[l].score
  <2> DEFINE j == JobAfter(w, run[w].pruned, l)
  <2>1. /\ ReadsAreCurrent(w) /\ FlushHolds(w) /\ Undisturbed(w)
        /\ j # NoJob /\ j.posting = k /\ k \notin GoneBy(w) /\ job'[l].score = j.score
        /\ posting'[k] = PostingAfter(w, k)
    BY <1>1, <1>5, Committing, CommittedRows, CommitsAlone, IngestAssumption
  <2>2. CASE l \in KeptBy(w)
    <3>1. k \in KeysOf(w) /\ l \in SharersOf(w, k)
      BY <1>1, <2>2, KeptTyped DEF SharersOf
    <3>2. ScoreOf(w, l) <= TopScore(w, k) /\ TopScore(w, k) \in Scores \cup {Unscored}
      BY <3>1, TopScoreTops
    <3>3. posting'[k].score = TopScore(w, k) /\ j.score = ScoreOf(w, l)
      BY <1>1, <2>1, <2>2, <3>1, WrittenScore, JobAfterTyped
    <3> QED BY <2>1, <3>2, <3>3
  <2>3. CASE l \notin KeptBy(w)
    <3>1. j = job[l] /\ job[l] # NoJob /\ job[l].posting = k
      BY <2>1, <2>3 DEF JobAfter
    <3>2. posting[k].score >= job[l].score /\ posting[k] # NoPosting
      BY <1>1, <1>2, <3>1, IngestAssumption DEF TypeOK
    <3>3. CASE k \notin KeysOf(w)
      BY <2>1, <3>1, <3>2, <3>3 DEF PostingAfter
    <3>4. CASE k \in KeysOf(w)
      <4>1. run[w].postings[k] # NoPosting
        BY <2>1, <3>2, <3>4 DEF FlushHolds
      <4>2. posting'[k].score = TopScore(w, k) /\ posting[k].score <= TopScore(w, k)
        BY <1>1, <2>1, <3>4, <4>1, WrittenScore, TopScoreTops
      <4>3. TopScore(w, k) \in Nat
        BY <1>0, <3>4, TopScoreTops
      <4>4. posting[k] \in Postings /\ job[l] \in Jobs
        BY <1>1, <3>1, <3>2 DEF TypeOK
      <4>5. posting[k].score \in Nat /\ job[l].score \in Nat
        BY <1>0, <4>4 DEF Postings, Jobs
      <4>6. job'[l].score = job[l].score
        BY <2>1, <3>1
      <4>7. TopScore(w, k) >= job[l].score
        BY <3>2, <4>2, <4>3, <4>5
      <4> QED BY <4>2, <4>6, <4>7
    <3> QED BY <3>3, <3>4
  <2> QED BY <2>2, <2>3
<1>6. ASSUME NEW q \in Keys, CreateManual(q) PROVE posting'[k].score >= job'[l].score
  <2>1. job'[l] = job[l] /\ posting[q] = NoPosting /\ \A p \in Keys \ {q} : posting'[p] = posting[p]
    BY <1>6 DEF CreateManual, TypeOK
  <2>2. k # q
    BY <2>1, IngestAssumption DEF TypeOK
  <2> QED BY <1>1, <1>3, <2>1, <2>2
<1>7. ASSUME NEW q \in Keys, RemovePosting(q) PROVE posting'[k].score >= job'[l].score
  <2>1. job' = Unlinked(job, {q}) /\ job \in [Listings -> Jobs \cup {NoJob}]
        /\ posting' = [posting EXCEPT ![q] = NoPosting] /\ posting'[q] = NoPosting
    BY <1>7 DEF RemovePosting, TypeOK
  <2>2. k # q /\ posting'[k] = posting[k]
    BY <1>1, <2>1 DEF TypeOK
  <2>3. job[l] # NoJob /\ job[l].posting # q
    BY <2>1, Unlinking
  <2>4. job'[l] = job[l]
    BY <2>1, <2>3, Unlinking
  <2> QED BY <1>3, <2>2, <2>4
<1>8. ASSUME NEW s \in Sources, RemoveSource(s) PROVE posting'[k].score >= job'[l].score
  BY <1>3, <1>8 DEF RemoveSource
<1>9. CASE UNCHANGED vars
  BY <1>3, <1>9 DEF vars
<1> HIDE DEF k
<1> QED BY <1>4, <1>5, <1>6, <1>7, <1>8, <1>9 DEF Next, OwnStep, k

LEMMA ShownNext == Sound /\ AloneInv /\ JobsAreShown /\ [Next]_vars => JobsAreShown'
<1> SUFFICES ASSUME Sound, AloneInv, JobsAreShown, [Next]_vars, ~overlap',
                    NEW l \in Listings, job'[l] # NoJob, job'[l].posting = NoKey
             PROVE  l \in dismissed'
  BY DEF JobsAreShown
<1> USE DEF Sound
<1> ~overlap
  BY OverlapStays
<1>1. job[l] # NoJob /\ job[l].posting = NoKey => l \in dismissed
  BY DEF JobsAreShown
<1>2. ASSUME NEW w \in Workers, OwnStep(w) PROVE l \in dismissed'
  BY <1>1, <1>2, OwnSteps
<1>3. ASSUME NEW w \in Workers, Commit(w) PROVE l \in dismissed'
  <2> DEFINE j == JobAfter(w, run[w].pruned, l)
  <2>1. ReadsAreCurrent(w) /\ FlushHolds(w) /\ OrphansAreRight(w) /\ GoneBy(w) \subseteq run[w].orphans
    BY <1>3, Committing, CommitsAlone DEF GoneBy
  <2>2. j # NoJob /\ j.posting \notin GoneBy(w)
    BY <1>3, <2>1, CommittedRows DEF OrphansAreRight, Shows
  <2>3. j.posting = NoKey
    BY <1>3, <2>2, CommittedRows
  <2>4. job[l] # NoJob /\ job[l].posting = NoKey
    <3>1. CASE l \in KeptBy(w)
      BY <2>1, <2>3, <3>1, JobAfterTyped, KeptTyped, IngestAssumption
    <3>2. CASE l \notin KeptBy(w)
      BY <2>2, <2>3, <3>2 DEF JobAfter
    <3> QED BY <3>1, <3>2
  <2> QED BY <1>1, <1>3, <2>4 DEF Commit
<1>4. ASSUME NEW q \in Keys, CreateManual(q) PROVE l \in dismissed'
  BY <1>1, <1>4 DEF CreateManual
<1>5. ASSUME NEW q \in Keys, RemovePosting(q) PROVE l \in dismissed'
  <2>1. job' = Unlinked(job, {q}) /\ job \in [Listings -> Jobs \cup {NoJob}]
        /\ dismissed' = dismissed \cup {m \in Listings : job[m] # NoJob /\ job[m].posting = q}
    BY <1>5 DEF RemovePosting, TypeOK
  <2>2. job[l] # NoJob /\ job[l].posting \in {q, NoKey}
    BY <2>1, Unlinking
  <2> QED BY <1>1, <2>1, <2>2
<1>6. ASSUME NEW s \in Sources, RemoveSource(s) PROVE l \in dismissed'
  BY <1>1, <1>6 DEF RemoveSource, ListingsOf
<1>7. CASE UNCHANGED vars
  BY <1>1, <1>7 DEF vars
<1> QED BY <1>2, <1>3, <1>4, <1>5, <1>6, <1>7 DEF Next, OwnStep

LEMMA IngestStarts == Init => IngestInv
<1> SUFFICES ASSUME Init PROVE IngestInv
  OBVIOUS
<1>1. TypeOK
  <2>1. \A l \in Listings : job[l] = NoJob
    BY DEF Init
  <2>2. job \in [Listings -> Jobs \cup {NoJob}] /\ posting \in [Keys -> Postings \cup {NoPosting}]
    BY DEF Init
  <2>3. run \in [Workers -> Runs] /\ runs \in 0..MaxRuns
    BY IngestAssumption, IdleTyped DEF Init
  <2> QED BY <2>1, <2>2, <2>3 DEF Init, TypeOK
<1>2. RunInv
  BY IdleTyped DEF Init, RunInv, RunSound, HasReadNothing
<1>3. LocksExclude /\ Persisting = {}
  BY IdleTyped DEF Init, LocksExclude, LockedByOthers, Locked, At, Persisting
<1>4. AloneInv
  BY <1>3 DEF AloneInv, Persisting
<1> QED BY <1>1, <1>2, <1>3, <1>4
        DEF Init, IngestInv, LinkIsOwn, PostingCoversItsJobs, JobsAreShown

LEMMA IngestInvariant == Spec => []IngestInv
<1>1. IngestInv /\ [Next]_vars => IngestInv'
  BY TypeNext, RowsNext, RunNext, LocksNext, AloneNext, CoversNext, ShownNext DEF IngestInv, Sound
<1> QED BY <1>1, IngestStarts, PTL DEF Spec

-----------------------------------------------------------------------------
(* Whatever the fetches and the user do, in any order and with any number  *)
(* of workers: no job refers to a posting that is not there, and as long   *)
(* as no transaction overlaps a persist, the posting is ranked at or above *)
(* each of its jobs (_upsert_posting in repositories/jobs.py).             *)
THEOREM RowsStaySound == Spec => []RowsAreSound
<1>1. IngestInv => RowsAreSound
  BY DEF IngestInv, RowsAreSound
<1> QED BY <1>1, IngestInvariant, PTL

(* As long as no transaction overlaps a persist, every job that is held is *)
(* shown under a posting that the user has not deleted: prune_orphan_      *)
(* postings takes no posting away from a job (services/ingest.py, persist).*)
THEOREM JobsStayShown == Spec => []JobsAreShown
<1>1. IngestInv => JobsAreShown
  BY DEF IngestInv
<1> QED BY <1>1, IngestInvariant, PTL

(* Overlapping or not, no fetch deletes a posting that the user entered and*)
(* that no job has been clustered into; only the user does (delete_posting *)
(* in services/jobs.py).                                                   *)
THEOREM ManualStays == Spec => ManualIsLeftAlone
<1> DEFINE Step(k) == posting[k] = ManualPosting /\ posting'[k] = NoPosting => k \notin manual'
<1>1. IngestInv /\ [Next]_vars => [\A k \in manual : Step(k)]_vars
  <2> SUFFICES ASSUME IngestInv, Next, NEW k \in manual, posting[k] = ManualPosting,
                      posting'[k] = NoPosting
               PROVE  k \notin manual'
    OBVIOUS
  <2> USE DEF IngestInv
  <2>1. k \in Keys /\ ManualPosting # NoPosting /\ ManualPosting.kind = "manual"
    BY IngestAssumption DEF TypeOK, ManualPosting, Postings
  <2>2. ASSUME NEW w \in Workers, OwnStep(w) PROVE FALSE
    BY <2>1, <2>2, OwnSteps
  <2>3. ASSUME NEW w \in Workers, Commit(w) PROVE FALSE
    <3>1. k \in GoneBy(w)
      BY <2>1, <2>3, CommittedRows, PostingAfterTyped
    <3>2. posting[k].kind = "fetched"
      BY <2>3, <3>1, Committing DEF FlushHolds, GoneBy
    <3> QED BY <2>1, <3>2
  <2>4. ASSUME NEW q \in Keys, CreateManual(q) PROVE FALSE
    BY <2>1, <2>4 DEF CreateManual, TypeOK
  <2>5. ASSUME NEW q \in Keys, RemovePosting(q) PROVE k \notin manual'
    BY <2>1, <2>5 DEF RemovePosting, TypeOK
  <2>6. ASSUME NEW s \in Sources, RemoveSource(s) PROVE FALSE
    BY <2>1, <2>6 DEF RemoveSource
  <2> QED BY <2>2, <2>3, <2>4, <2>5, <2>6 DEF Next, OwnStep
<1> QED BY <1>1, IngestInvariant, PTL DEF Spec, ManualIsLeftAlone

(* A persist of a complete run that nothing has overlapped leaves no       *)
(* fetched posting without a job, for any orphan there is when it flushes  *)
(* it deletes (prune_orphan_postings in repositories/jobs.py).             *)
THEOREM RunsTidyUp == Spec => CompleteRunTidies
<1> DEFINE Tidy(w) == Commit(w) /\ run[w].complete /\ ~overlap
                         => \A k \in Keys : posting'[k] # NoPosting /\ posting'[k].kind = "fetched"
                               => \E l \in Listings : job'[l] # NoJob /\ job'[l].posting = k
<1>1. ASSUME IngestInv, NEW w \in Workers PROVE Tidy(w)
  <2> SUFFICES ASSUME Commit(w), run[w].complete, ~overlap, NEW k \in Keys,
                      posting'[k] # NoPosting, posting'[k].kind = "fetched"
               PROVE  \E l \in Listings : job'[l] # NoJob /\ job'[l].posting = k
    OBVIOUS
  <2> USE <1>1 DEF IngestInv
  <2>1. /\ ReadsAreCurrent(w) /\ FlushHolds(w) /\ OrphansAreRight(w) /\ Undisturbed(w)
        /\ k \notin GoneBy(w) /\ posting'[k] = PostingAfter(w, k)
    BY Committing, CommittedRows, CommitsAlone
  <2>2. \E l \in Listings : Shows(w, l, k)
    <3> SUFFICES ASSUME \A l \in Listings : ~Shows(w, l, k) PROVE FALSE
      OBVIOUS
    <3>1. k \in run[w].orphans
      BY <2>1 DEF OrphansAreRight
    <3>2. posting[k] = NoPosting
      BY <2>1, <3>1 DEF GoneBy, Undisturbed
    <3>3. k \in KeysOf(w) /\ run[w].postings[k] = NoPosting
      BY <2>1, <3>2 DEF PostingAfter
    <3>4. PICK l \in KeptBy(w) : l \in Listings /\ KeyOf[l] = k
      BY <3>3, KeysTyped, KeptTyped
    <3>5. Links(w, l)
      BY <2>1, <3>3, <3>4, IngestAssumption DEF Links, ReadsAreCurrent
    <3>6. Shows(w, l, k)
      BY <2>1, <3>4, <3>5, JobAfterTyped DEF Shows
    <3> QED BY <3>4, <3>6
  <2> QED BY <2>1, <2>2, CommittedRows DEF Shows
<1>2. IngestInv /\ [Next]_vars => [\A w \in Workers : Tidy(w)]_vars
  BY <1>1
<1> QED BY <1>2, IngestInvariant, PTL DEF Spec, CompleteRunTidies
=============================================================================
