--------------------------- MODULE ScreeningProofs --------------------------
(***************************************************************************)
(* Proofs about JobScreening, for any sites, preferences, scores and       *)
(* threshold; about Preferences, which saves what it screens by, for any   *)
(* requests and salaries; and about HourlyLimit, for any callers, keys,    *)
(* limit and window.                                                       *)
(*                                                                         *)
(* JobScreening:                                                           *)
(* Every job of a run is what its route makes of a posting, and every row  *)
(* is such a job that the rules of its time let pass.  So a row is only    *)
(* ever overwritten by a job of its own identity, and what a run does not  *)
(* keep of it the rules or the score have dropped.                         *)
(*                                                                         *)
(* Preferences: a request that has not seen another's commit since it read *)
(* the row still knows the row as it is, so that the columns it does not   *)
(* write are those that hold its document's values already.                *)
(*                                                                         *)
(* HourlyLimit: a window that may still be hit has let through no more     *)
(* than its item counts, because its item stays until no hit can come.     *)
(***************************************************************************)
EXTENDS JobScreening, TLAPS

CONSTANTS Requests, Salaries, Unset, NoRow, NoDocument
VARIABLES row, pc, body, read, raced

Prefs == INSTANCE Preferences

CONSTANTS Callers, Keys, Limit, Window, Patience, MaxTime
VARIABLES clock, count, hit, passed

Limiter == INSTANCE HourlyLimit

Routes == {"greenhouse", "lever", "ashby", "json_ld"}
Chosen == Preferences \cup {Nothing}

RunIsTyped ==
    /\ run = [at |-> run.at, prefs |-> run.prefs, known |-> run.known, jobs |-> run.jobs,
              route |-> run.route, result |-> run.result]
    /\ run.prefs \in Chosen
    /\ run.at = "api" => DetectFromUrl(source.url) # Nothing
    /\ run.at = "page_api" => Board # Nothing
    /\ run.at # "scoring" => DOMAIN run.jobs = {} /\ DOMAIN run.result = {}

(* A run's jobs are postings as its route gives them.                      *)
JobsAreTaken ==
    \A i \in DOMAIN run.jobs : /\ run.route \in Routes
                               /\ \E p \in Postings : run.jobs[i] = Taken(run.route, p)

(* So is a row, and the preferences it was stored under let it pass.       *)
Passed(r) ==
    /\ r.route \in Routes /\ r.of \in Postings
    /\ LET job == Taken(r.route, r.of)
       IN  r.ext = job.ext /\ r.url = job.url /\ r.structured = job.structured
    /\ r.under \in Chosen /\ ~Rejected(r.structured, r.under)
RowsArePassed == \A r \in rows : Passed(r)

ScreenInv == TypeOK /\ RunIsTyped /\ JobsAreTaken /\ RowsArePassed

-----------------------------------------------------------------------------
(* What detection and the adapters return.                                 *)

(* The first of the numbers up to n that are in a set.                     *)
LEMMA FirstIsThere ==
    ASSUME NEW S, S # {}, S \subseteq 1..5 PROVE Min(S) \in S
<1> DEFINE Least(x) == x \in S /\ \A y \in S : x <= y
<1>1. \A y \in S : y \in {1, 2, 3, 4, 5}
  OBVIOUS
<1>2. 1 \in S => Least(1)
  BY <1>1
<1>3. 1 \notin S /\ 2 \in S => Least(2)
  BY <1>1
<1>4. S \cap {1, 2} = {} /\ 3 \in S => Least(3)
  BY <1>1
<1>5. ASSUME S \cap {1, 2, 3} = {} PROVE \E x : Least(x)
  <2>1. CASE 4 \in S
    <3>1. Least(4)
      BY <1>1, <1>5, <2>1
    <3> QED BY <3>1
  <2>2. CASE 4 \notin S
    <3>1. \A y \in S : y = 5
      BY <1>1, <1>5, <2>2
    <3>2. PICK y \in S : TRUE
      BY S # {}, Zenon
    <3>3. Least(5)
      BY <3>1, <3>2
    <3> QED BY <3>3
  <2> QED BY <2>1, <2>2
<1>6. \E x : Least(x)
  BY <1>2, <1>3, <1>4, <1>5
<1> QED BY <1>6 DEF Min

(* What is detected is a board of one of the vendors.                      *)
LEMMA DetectedIsBoard ==
    ASSUME NEW links, NEW patterns \in {UrlPatterns, EmbedPatterns}, Detect(patterns, links) # Nothing
    PROVE  Detect(patterns, links).vendor \in {"greenhouse", "lever", "ashby"}
<1> DEFINE hits == {i \in 1..Len(patterns) : BoardOf(patterns[i], links) # Nothing}
<1>1. Len(patterns) \in 4..5
  BY DEF UrlPatterns, EmbedPatterns
<1>2. hits # {} /\ Detect(patterns, links) = BoardOf(patterns[Min(hits)], links)
  BY DEF Detect
<1>3. Min(hits) \in hits
  BY <1>1, <1>2, FirstIsThere
<1>4. BoardOf(patterns[Min(hits)], links).vendor = VendorOf(patterns[Min(hits)])
  BY <1>3 DEF BoardOf
<1> QED BY <1>2, <1>4 DEF VendorOf

(* So is the board the API step calls.                                     *)
LEMMA BoardIsKnown ==
    ASSUME Board # Nothing PROVE Board.vendor \in {"greenhouse", "lever", "ashby"}
  BY DetectedIsBoard DEF Board, DetectFromPage, DetectFromUrl

(* What a route makes of a posting tells which it was, and has its type.   *)
LEMMA TakenTells ==
    ASSUME NEW route \in Routes, NEW p
    PROVE  /\ Taken(route, p).of = p
           /\ route # "greenhouse" => Taken(route, p).structured.type = p.type
  BY DEF Routes, Taken, Job, JsonLd, Greenhouse, Lever, Ashby, Fetched

(* A job of a board is one of its postings, read by the vendor's adapter.  *)
LEMMA AdapterTakes ==
    ASSUME NEW vendor \in {"greenhouse", "lever", "ashby"}, site \in Sites,
           NEW i \in DOMAIN Adapter(vendor, site.board)
    PROVE  \E p \in Postings : Adapter(vendor, site.board)[i] = Taken(vendor, p)
<1>1. site.board[i] \in Postings
  BY DEF Adapter, Postings
<1> QED BY <1>1 DEF Adapter, Taken

(* A job of a page is one of its postings, read as JSON-LD.                *)
LEMMA PageTakes ==
    ASSUME site \in Sites, NEW i \in DOMAIN ExtractJobPostings(site.page, SitePage)
    PROVE  \E p \in Postings : ExtractJobPostings(site.page, SitePage)[i] = Taken("json_ld", p)
<1>1. /\ i \in 1..Len(site.page)
      /\ ExtractJobPostings(site.page, SitePage)[i] = JsonLd(site.page[i], SitePage)
  BY DEF ExtractJobPostings
<1>2. site.page[i] \in Postings
  BY <1>1 DEF Postings
<1> QED BY <1>1, <1>2 DEF Taken

-----------------------------------------------------------------------------
(* What a persist leaves.                                                  *)

(* A job that is kept passed the rules.                                    *)
LEMMA KeptPassed ==
    ASSUME ScreenInv, run.at = "scoring", NEW i \in Kept
    PROVE  /\ i \in Todo(run.jobs) /\ Passed(RowOf(run.jobs[i]))
           /\ Identity(RowOf(run.jobs[i])) = Identity(run.jobs[i])
<1>1. i \in Todo(run.jobs)
  BY DEF Kept, ScreenInv, TypeOK
<1>2. PICK p \in Postings : run.jobs[i] = Taken(run.route, p) /\ run.route \in Routes
  BY <1>1 DEF Todo, ScreenInv, JobsAreTaken
<1>3. ~Rejected(run.jobs[i].structured, run.prefs) /\ run.prefs \in Chosen
  BY <1>1 DEF Todo, ScreenInv, RunIsTyped
<1>4. Passed(RowOf(run.jobs[i]))
  BY <1>2, <1>3, TakenTells DEF Passed, RowOf
<1>5. Identity(RowOf(run.jobs[i])) = Identity(run.jobs[i])
  BY DEF Identity, RowOf
<1> QED BY <1>1, <1>4, <1>5

(* A persist that clashes changes nothing; another leaves rows that are    *)
(* apart, each an old one or a kept job's, and of each old row itself or   *)
(* the kept job that matched it, unless the prune takes that.              *)
LEMMA PersistSays ==
    ASSUME Persist
    PROVE  \/ rows' = rows
           \/ /\ \A r \in rows' : r \in rows \/ \E i \in Kept : r = RowOf(run.jobs[i])
              /\ \A r, s \in rows' : r # s => r.url # s.url /\ (r.ext # Nothing => r.ext # s.ext)
              /\ \A r \in rows :
                    \E s : /\ \/ s = r
                              \/ \E i \in Kept : s = RowOf(run.jobs[i]) /\ r \in Matches(run.jobs[i])
                           /\ s \in rows' \/ (Complete /\ Identity(s) \notin Survivors)
<1>1. PICK match \in [Kept -> {{}} \cup {{r} : r \in rows}] :
          /\ \A i \in Kept : /\ match[i] \subseteq Matches(run.jobs[i])
                             /\ match[i] = {} => Matches(run.jobs[i]) = {}
          /\ LET Newest(r) == {i \in Kept : /\ r \in match[i]
                                            /\ \A k \in Kept : r \in match[k] => k <= i}
                 new     == {i \in Kept : match[i] = {}}
                 held    == {r \in rows : Newest(r) = {}}
                 updated == {RowOf(run.jobs[i]) : i \in UNION {Newest(r) : r \in rows}}
                 all     == held \cup updated \cup {RowOf(run.jobs[i]) : i \in new}
                 clash   == \/ Cardinality(all) < Cardinality(rows) + Cardinality(new)
                            \/ \E r, s \in all : r # s /\ (r.url = s.url
                                                           \/ (r.ext # Nothing /\ r.ext = s.ext))
             IN  rows' = IF clash \/ (~Complete /\ Kept = {}) THEN rows
                         ELSE {r \in all : Complete => Identity(r) \in Survivors}
  BY DEF Persist
<1> DEFINE Newest(r) == {i \in Kept : r \in match[i] /\ \A k \in Kept : r \in match[k] => k <= i}
           new       == {i \in Kept : match[i] = {}}
           held      == {r \in rows : Newest(r) = {}}
           updated   == {RowOf(run.jobs[i]) : i \in UNION {Newest(r) : r \in rows}}
           all       == held \cup updated \cup {RowOf(run.jobs[i]) : i \in new}
           apart     == \A r, s \in all : r # s => r.url # s.url /\ (r.ext # Nothing => r.ext # s.ext)
<1>2. rows' = rows \/ (apart /\ rows' = {r \in all : Complete => Identity(r) \in Survivors})
  BY <1>1
<1>3. \A r \in all : r \in rows \/ \E i \in Kept : r = RowOf(run.jobs[i])
  OBVIOUS
<1>4. ASSUME NEW r \in rows
      PROVE  \E s \in all : s = r \/ \E i \in Kept : s = RowOf(run.jobs[i]) /\ r \in Matches(run.jobs[i])
  <2>1. CASE Newest(r) = {}
    BY <2>1
  <2>2. CASE Newest(r) # {}
    <3>1. PICK i \in Kept : i \in Newest(r)
      BY <2>2
    <3>2. RowOf(run.jobs[i]) \in all
      BY <3>1
    <3>3. r \in Matches(run.jobs[i])
      BY <1>1, <3>1
    <3> QED BY <3>2, <3>3
  <2> QED BY <2>1, <2>2
<1> HIDE DEF all
<1>5. ASSUME apart, rows' = {r \in all : Complete => Identity(r) \in Survivors}
      PROVE  /\ \A r \in rows' : r \in rows \/ \E i \in Kept : r = RowOf(run.jobs[i])
             /\ \A r, s \in rows' : r # s => r.url # s.url /\ (r.ext # Nothing => r.ext # s.ext)
             /\ \A r \in rows :
                   \E s : /\ \/ s = r
                             \/ \E i \in Kept : s = RowOf(run.jobs[i]) /\ r \in Matches(run.jobs[i])
                          /\ s \in rows' \/ (Complete /\ Identity(s) \notin Survivors)
  <2>1. rows' \subseteq all
    BY <1>5
  <2>2. \A s \in all : s \in rows' \/ (Complete /\ Identity(s) \notin Survivors)
    BY <1>5
  <2>3. \A r \in rows' : r \in rows \/ \E i \in Kept : r = RowOf(run.jobs[i])
    BY <1>3, <2>1
  <2>4. \A r, s \in rows' : r # s => r.url # s.url /\ (r.ext # Nothing => r.ext # s.ext)
    BY <1>5, <2>1
  <2>5. ASSUME NEW r \in rows
        PROVE  \E s : /\ \/ s = r
                         \/ \E i \in Kept : s = RowOf(run.jobs[i]) /\ r \in Matches(run.jobs[i])
                      /\ s \in rows' \/ (Complete /\ Identity(s) \notin Survivors)
    <3>1. PICK s \in all : s = r \/ \E i \in Kept : s = RowOf(run.jobs[i]) /\ r \in Matches(run.jobs[i])
      BY <1>4
    <3> QED BY <2>2, <3>1
  <2> QED BY <2>3, <2>4, <2>5
<1> HIDE DEF apart
<1> QED BY <1>2, <1>5

-----------------------------------------------------------------------------
(* The invariant of screening.                                             *)

(* No job is held and nothing is running at first.                         *)
LEMMA ScreenInit == Init => ScreenInv
  BY DEF Init, Idle, Chosen, ScreenInv, TypeOK, RunIsTyped, JobsAreTaken, RowsArePassed

(* Nothing of a run is left when it ends.                                  *)
LEMMA IdleKeeps ==
    ASSUME ScreenInv, run' = Idle, source' = source, site' \in Sites, prefs' \in Preferences,
           RowsArePassed',
           \A r, s \in rows' : r # s => r.url # s.url /\ (r.ext # Nothing => r.ext # s.ext)
    PROVE  ScreenInv'
<1>1. TypeOK'
  BY DEF ScreenInv, TypeOK, Idle
<1>2. RunIsTyped' /\ JobsAreTaken'
  BY DEF RunIsTyped, JobsAreTaken, Idle, Chosen
<1> QED BY <1>1, <1>2 DEF ScreenInv

(* Going on within the route keeps it.                                     *)
LEMMA GoKeeps ==
    ASSUME ScreenInv, NEW at \in {"robots", "page", "page_api", "json_ld"}, Go(at),
           run.at # "scoring", at = "page_api" => Board # Nothing
    PROVE  ScreenInv'
<1>1. /\ run' = [at |-> at, prefs |-> run.prefs, known |-> run.known, jobs |-> run.jobs,
                 route |-> run.route, result |-> run.result]
      /\ UNCHANGED <<source, site, prefs, rows>>
  BY DEF Go, ScreenInv, RunIsTyped
<1>2. DOMAIN run.jobs = {} /\ DOMAIN run.result = {}
  BY DEF ScreenInv, RunIsTyped
<1>3. TypeOK'
  BY <1>1 DEF ScreenInv, TypeOK
<1>4. RunIsTyped'
  BY <1>1, <1>2 DEF ScreenInv, RunIsTyped, Board
<1>5. JobsAreTaken' /\ RowsArePassed'
  BY <1>1, <1>2 DEF ScreenInv, JobsAreTaken, RowsArePassed, Passed
<1> QED BY <1>3, <1>4, <1>5 DEF ScreenInv

(* Entering the screening keeps it, with what the route has taken.         *)
LEMMA ScreenKeeps ==
    ASSUME ScreenInv, run.at # "scoring", NEW route \in Routes, NEW jobs, Screen(route, jobs),
           \A i \in DOMAIN jobs : \E p \in Postings : jobs[i] = Taken(route, p)
    PROVE  ScreenInv'
<1>1. /\ run' = [at |-> "scoring", prefs |-> run.prefs, known |-> run.known, jobs |-> jobs,
                 route |-> route, result |-> run.result]
      /\ UNCHANGED <<source, site, prefs, rows>>
  BY DEF Screen, ScreenInv, RunIsTyped
<1>2. DOMAIN run.result = {}
  BY DEF ScreenInv, RunIsTyped
<1>3. TypeOK'
  BY <1>1, <1>2 DEF ScreenInv, TypeOK
<1>4. RunIsTyped'
  BY <1>1 DEF ScreenInv, RunIsTyped
<1>5. JobsAreTaken' /\ RowsArePassed'
  BY <1>1 DEF ScreenInv, JobsAreTaken, RowsArePassed, Passed
<1> QED BY <1>3, <1>4, <1>5 DEF ScreenInv

(* So does a persist.                                                      *)
LEMMA PersistKeeps ==
    ASSUME ScreenInv, Persist PROVE ScreenInv'
<1>1. run' = Idle /\ run.at = "scoring" /\ UNCHANGED <<source, site, prefs>>
  BY DEF Persist
<1>2. RowsArePassed'
  <2>1. \A r \in rows' : Passed(r)
    <3>1. \A i \in Kept : Passed(RowOf(run.jobs[i]))
      BY <1>1, KeptPassed
    <3>2. \A r \in rows' : r \in rows \/ \E i \in Kept : r = RowOf(run.jobs[i])
      BY PersistSays
    <3> QED BY <3>1, <3>2 DEF ScreenInv, RowsArePassed
  <2> QED BY <2>1 DEF RowsArePassed, Passed
<1>3. \A r, s \in rows' : r # s => r.url # s.url /\ (r.ext # Nothing => r.ext # s.ext)
  <2>1. CASE rows' = rows
    BY <2>1 DEF ScreenInv, TypeOK
  <2>2. CASE rows' # rows
    BY <2>2, PersistSays
  <2> QED BY <2>1, <2>2
<1> QED BY <1>1, <1>2, <1>3, IdleKeeps DEF ScreenInv, TypeOK

(* Every step keeps it.                                                    *)
LEMMA ScreenNext == ScreenInv /\ [Next]_vars => ScreenInv'
<1> SUFFICES ASSUME ScreenInv, [Next]_vars PROVE ScreenInv'
  OBVIOUS
<1>1. CASE SiteChanges \/ PreferencesChange
  <2>1. /\ UNCHANGED <<source, rows, run>>
        /\ site' \in Sites /\ prefs' \in Preferences
    BY <1>1 DEF SiteChanges, PreferencesChange, ScreenInv, TypeOK
  <2>2. TypeOK'
    BY <2>1 DEF ScreenInv, TypeOK, Todo, Unchanged
  <2>3. RunIsTyped' /\ JobsAreTaken' /\ RowsArePassed'
    BY <2>1 DEF ScreenInv, RunIsTyped, Board, JobsAreTaken, RowsArePassed, Passed
  <2> QED BY <2>2, <2>3 DEF ScreenInv
<1>2. CASE Begin
  <2>1. PICK at \in {"api", "robots"} :
           /\ run' = [at |-> at, prefs |-> prefs, known |-> rows, jobs |-> <<>>,
                      route |-> Nothing, result |-> <<>>]
           /\ at = "api" => DetectFromUrl(source.url) # Nothing
           /\ UNCHANGED <<source, site, prefs, rows>>
    BY <1>2 DEF Begin, Idle
  <2>2. TypeOK'
    BY <2>1 DEF ScreenInv, TypeOK
  <2>3. RunIsTyped'
    BY <2>1 DEF ScreenInv, TypeOK, RunIsTyped, Chosen
  <2>4. JobsAreTaken' /\ RowsArePassed'
    BY <2>1 DEF ScreenInv, JobsAreTaken, RowsArePassed, Passed
  <2> QED BY <2>2, <2>3, <2>4 DEF ScreenInv
<1>3. ASSUME End PROVE ScreenInv'
  BY <1>3, IdleKeeps DEF End, ScreenInv, TypeOK, RowsArePassed, Passed
<1>4. CASE CallApi
  <2>1. Board # Nothing /\ site \in Sites
    BY <1>4 DEF CallApi, ScreenInv, TypeOK, RunIsTyped, Board, DetectFromPage
  <2>2. CASE Screen(Board.vendor, Adapter(Board.vendor, site.board))
    BY <1>4, <2>1, <2>2, BoardIsKnown, AdapterTakes, ScreenKeeps DEF CallApi, Routes
  <2>3. CASE Go(IF run.at = "api" THEN "robots" ELSE "json_ld")
    BY <1>4, <2>3, GoKeeps DEF CallApi
  <2> QED BY <1>4, <2>2, <2>3 DEF CallApi
<1>5. CASE CheckRobots
  BY <1>3, <1>5, GoKeeps DEF CheckRobots
<1>6. CASE FetchPage
  BY <1>3, <1>6, GoKeeps DEF FetchPage
<1>7. CASE ParsePage
  <2>1. site \in Sites /\ run.at # "scoring"
    BY <1>7 DEF ParsePage, ScreenInv, TypeOK
  <2>2. CASE Screen("json_ld", ExtractJobPostings(site.page, SitePage))
    BY <2>1, <2>2, PageTakes, ScreenKeeps DEF Routes
  <2> QED BY <1>3, <1>7, <2>2 DEF ParsePage
<1>8. ASSUME NEW i \in DOMAIN run.jobs, Score(i) PROVE ScreenInv'
  <2> DEFINE With(answer) ==
                [k \in DOMAIN run.result \cup {i} |-> IF k = i THEN answer ELSE run.result[k]]
  <2>1. PICK answer \in Scores \cup {Unavailable} : run' = [run EXCEPT !.result = With(answer)]
    BY <1>8 DEF Score
  <2>2. run' = [at |-> run.at, prefs |-> run.prefs, known |-> run.known, jobs |-> run.jobs,
                route |-> run.route, result |-> With(answer)]
    BY <2>1 DEF ScreenInv, RunIsTyped
  <2>3. DOMAIN run'.result = {i} \cup DOMAIN run.result
    BY <2>2
  <2>4. /\ i \in Todo(run.jobs) /\ run.at = "scoring"
        /\ UNCHANGED <<source, site, prefs, rows>>
    BY <1>8 DEF Score
  <2>5. TypeOK'
    BY <2>2, <2>3, <2>4 DEF ScreenInv, TypeOK, Todo, Unchanged
  <2>6. RunIsTyped' /\ JobsAreTaken' /\ RowsArePassed'
    BY <2>2, <2>4 DEF ScreenInv, RunIsTyped, Board, JobsAreTaken, RowsArePassed, Passed
  <2> QED BY <2>5, <2>6 DEF ScreenInv
<1>9. ASSUME NEW i \in DOMAIN run.jobs, ScoreRaises(i) PROVE ScreenInv'
  BY <1>3, <1>9 DEF ScoreRaises
<1>10. CASE UNCHANGED vars
  BY <1>10 DEF vars, ScreenInv, TypeOK, Todo, Unchanged, RunIsTyped, Board, JobsAreTaken,
               RowsArePassed, Passed
<1> QED BY <1>1, <1>2, <1>4, <1>5, <1>6, <1>7, <1>8, <1>9, <1>10, PersistKeeps DEF Next

-----------------------------------------------------------------------------
(* The rows of the invariant suit: their type passed the rules as one of   *)
(* the forms asked for.                                                    *)
LEMMA PassedSuit == ASSUME FormsMeanAlike, ScreenInv PROVE KeptSuits
<1> SUFFICES ASSUME NEW r \in rows, r.under # Nothing, r.under.types # {},
                    r.of.type # Nothing, r.route # "greenhouse"
             PROVE  Meaning[r.of.type] \cap UNION {Meaning[t] : t \in r.under.types} # {}
  BY DEF KeptSuits
<1>1. Passed(r)
  BY DEF ScreenInv, RowsArePassed
<1>2. r.structured.type = r.of.type
  BY <1>1, TakenTells DEF Passed
<1>3. JobTypes(r.of.type) \cap NormSet(r.under.types) # {}
  BY <1>1, <1>2 DEF Passed, Rejected, TypeMismatch
<1>4. PICK t \in r.under.types : Key(t) \in JobTypes(r.of.type)
  BY <1>3 DEF NormSet
<1>5. Meaning[r.of.type] \cap Meaning[t] # {}
  BY <1>1, <1>4 DEF Passed, Chosen, FormsMeanAlike
<1> QED BY <1>5

(* On whatever route, and through whatever is overwritten and pruned, no   *)
(* job is held of a kind that the preferences it was stored under rule out *)
(* (jobs/filter.py).                                                       *)
THEOREM HeldJobsSuit == ASSUME FormsMeanAlike PROVE Spec => []KeptSuits
<1>1. ScreenInv => KeptSuits
  BY PassedSuit
<1> QED BY <1>1, ScreenInit, ScreenNext, PTL DEF Spec

(* Only a persist prunes, and what it takes it has a reason to take.       *)
LEMMA StepPrunesForAReason ==
    ASSUME ScreeningAssumption, PagesTellApart, ScreenInv, [Next]_vars PROVE PruningIsGrounded
<1>1. ASSUME Persist, NEW r \in rows, r.route = run.route,
             \A s \in rows' : Identity(s) # Identity(r),
             NEW i \in DOMAIN run.jobs, Identity(run.jobs[i]) = Identity(r)
      PROVE  \/ Rejected(run.jobs[i].structured, run.prefs)
             \/ /\ i \in DOMAIN run.result /\ run.result[i] # Unavailable
                /\ Coerced(run.result[i]) < Threshold
  <2>1. run.at = "scoring" /\ (run.prefs # Nothing => DOMAIN run.result = Todo(run.jobs))
    BY <1>1 DEF Persist
  <2>2. PICK s : /\ \/ s = r
                    \/ \E k \in Kept : s = RowOf(run.jobs[k]) /\ r \in Matches(run.jobs[k])
                 /\ s \in rows' \/ (Complete /\ Identity(s) \notin Survivors)
    BY <1>1, PersistSays
  <2>3. Identity(s) = Identity(r)
    <3>1. ASSUME NEW k \in Kept, r \in Matches(run.jobs[k])
          PROVE  Identity(RowOf(run.jobs[k])) = Identity(r)
      <4>1. Passed(RowOf(run.jobs[k])) /\ Passed(r)
        BY <1>1, <2>1, KeptPassed DEF ScreenInv, RowsArePassed
      <4>2. r.url = RowOf(run.jobs[k]).url \/ (r.ext # Nothing /\ r.ext = RowOf(run.jobs[k]).ext)
        BY <3>1 DEF Matches, RowOf
      <4>3. CASE r.ext # Nothing /\ r.ext = RowOf(run.jobs[k]).ext
        BY <4>3 DEF Identity, OrElse
      <4>4. CASE r.url = RowOf(run.jobs[k]).url
        <5>1. RowOf(run.jobs[k]).route = r.route
          BY <1>1 DEF RowOf
        <5>2. /\ Identity(r) = Identity(Taken(r.route, r.of))
              /\ Identity(RowOf(run.jobs[k])) = Identity(Taken(r.route, RowOf(run.jobs[k]).of))
          BY <4>1, <5>1 DEF Passed, Identity
        <5>3. Taken(r.route, r.of).url = Taken(r.route, RowOf(run.jobs[k]).of).url
          BY <4>1, <4>4, <5>1 DEF Passed
        <5> QED BY <4>1, <5>2, <5>3 DEF Passed, PagesTellApart, Routes
      <4> QED BY <4>2, <4>3, <4>4
    <3> QED BY <2>2, <3>1
  <2>4. Complete /\ Identity(r) \notin Survivors
    BY <1>1, <2>2, <2>3
  <2>5. i \notin Kept /\ i \notin Unscored /\ ~Unchanged(run.jobs[i])
    BY <1>1, <2>4 DEF Survivors
  <2>6. CASE ~Rejected(run.jobs[i].structured, run.prefs)
    <3>1. i \in Todo(run.jobs)
      BY <2>5, <2>6 DEF Todo
    <3>2. i \in DOMAIN run.result /\ run.prefs # Nothing
      BY <2>1, <2>5, <3>1 DEF Kept
    <3>3. run.result[i] # Unavailable /\ Usable(run.result[i])
      BY <2>4, <2>5, <3>2 DEF Complete, Unscored
    <3>4. Coerced(run.result[i]) \in Int /\ ~(Coerced(run.result[i]) >= Threshold)
      BY <2>5, <3>2, <3>3 DEF Kept, Usable
    <3> QED BY <3>2, <3>3, <3>4 DEF ScreeningAssumption
  <2> QED BY <2>6
<1>2. ASSUME ~Persist PROVE rows' = rows
  BY <1>2 DEF Next, vars, SiteChanges, PreferencesChange, Begin, CallApi, CheckRobots, FetchPage,
              ParsePage, Score, ScoreRaises, Screen, Go, End
<1>3. ASSUME Persist PROVE PruningIsGrounded
  BY <1>1, <1>3 DEF PruningIsGrounded
<1>4. ASSUME rows' = rows PROVE PruningIsGrounded
  BY <1>4 DEF PruningIsGrounded
<1> QED BY <1>2, <1>3, <1>4

(* Where a page is that of one posting, a run that reads a job on the      *)
(* route it came by prunes it only if its postings are all dropped by the  *)
(* rules or scored below the threshold (services/ingest.py: survivors).    *)
THEOREM PrunedForAReason ==
    ASSUME ScreeningAssumption, PagesTellApart PROVE Spec => [][PruningIsGrounded]_vars
<1>1. ScreenInv /\ [Next]_vars => PruningIsGrounded
  BY StepPrunesForAReason
<1> QED BY <1>1, ScreenInit, ScreenNext, PTL DEF Spec

-----------------------------------------------------------------------------
(* Saving the preferences.                                                 *)

Documented    ==
    \A r \in Requests : pc[r] # "idle" => body[r] \in Prefs!Documents /\ Prefs!Ordered(body[r])
RowStays      == \A r \in Requests : read[r] # NoRow => row # NoRow
ReadIsCurrent == \A r \in Requests : pc[r] \in {"read", "flushed"} /\ r \notin raced => read[r] = row

SaveInv == Prefs!TypeOK /\ Documented /\ RowStays /\ ReadIsCurrent

(* What a commit leaves is a document, even after a race.                  *)
LEMMA WrittenIsDocument ==
    ASSUME SaveInv, NEW r \in Requests, pc[r] # "idle"
    PROVE  Prefs!Written(r) \in Prefs!Documents
<1>1. body[r] \in Prefs!Documents /\ row \in Prefs!Documents \cup {NoRow}
  BY DEF SaveInv, Prefs!TypeOK, Documented, Prefs!Rows
<1>2. CASE row = NoRow
  <2>1. Prefs!Dirty(r) = Prefs!Columns
    BY <1>2 DEF SaveInv, RowStays, Prefs!Dirty
  <2> QED BY <1>1, <2>1 DEF Prefs!Written, Prefs!Documents
<1>3. CASE row \in Prefs!Documents
  BY <1>1, <1>3 DEF Prefs!Written, Prefs!Documents
<1> QED BY <1>1, <1>2, <1>3

(* What it leaves when the request knew the row is its document.           *)
LEMMA UnracedIsWhole ==
    ASSUME SaveInv, NEW r \in Requests, pc[r] = "flushed", r \notin raced
    PROVE  Prefs!Written(r) = body[r] /\ Prefs!Ordered(body[r])
<1>1. body[r] \in Prefs!Documents /\ Prefs!Ordered(body[r]) /\ read[r] = row
  BY DEF SaveInv, Documented, ReadIsCurrent
<1>2. \A c \in Prefs!Columns : (IF c \in Prefs!Dirty(r) THEN body[r][c] ELSE row[c]) = body[r][c]
  BY <1>1 DEF Prefs!Dirty
<1> QED BY <1>1, <1>2 DEF Prefs!Written, Prefs!Documents

(* No request has read anything yet.                                       *)
LEMMA SaveInit == Prefs!Init => SaveInv
  BY DEF Prefs!Init, SaveInv, Prefs!TypeOK, Prefs!Rows, Documented, RowStays, ReadIsCurrent

(* The end of a request leaves nothing of it behind.                       *)
LEMMA EndKeeps ==
    ASSUME SaveInv, NEW r \in Requests, Prefs!End(r), row' = row, raced' = raced \ {r}
    PROVE  SaveInv'
<1>1. Prefs!TypeOK
  BY DEF SaveInv
<1>2. pc'[r] = "idle" /\ body'[r] = NoDocument /\ read'[r] = NoRow
  BY <1>1 DEF Prefs!End, Prefs!TypeOK
<1>3. \A q \in Requests : q # r => pc'[q] = pc[q] /\ body'[q] = body[q] /\ read'[q] = read[q]
  BY <1>1 DEF Prefs!End, Prefs!TypeOK
<1>4. Prefs!TypeOK'
  <2>1. /\ row' \in Prefs!Rows /\ read' \in [Requests -> Prefs!Rows]
        /\ pc' \in [Requests -> {"idle", "sent", "read", "flushed"}]
        /\ body' \in [Requests -> Prefs!Documents \cup {NoDocument}]
    BY <1>1 DEF Prefs!End, Prefs!TypeOK, Prefs!Rows
  <2>2. raced' \subseteq {q \in Requests : pc'[q] # "idle"}
    BY <1>1, <1>2, <1>3 DEF Prefs!TypeOK
  <2>3. \A q \in Requests : pc'[q] = "idle" <=> body'[q] = NoDocument
    BY <1>1, <1>2, <1>3 DEF Prefs!TypeOK
  <2> QED BY <2>1, <2>2, <2>3 DEF Prefs!TypeOK
<1>5. Documented' /\ RowStays' /\ ReadIsCurrent'
  BY <1>2, <1>3 DEF SaveInv, Documented, Prefs!Ordered, RowStays, ReadIsCurrent
<1> QED BY <1>4, <1>5 DEF SaveInv

(* Every step keeps it.                                                    *)
LEMMA SaveNext ==
    ASSUME Prefs!PreferencesAssumption, SaveInv, [Prefs!Next]_(Prefs!vars)
    PROVE  SaveInv'
<1>1. Prefs!TypeOK
  BY DEF SaveInv
<1>2. ASSUME NEW r \in Requests, Prefs!Put(r) PROVE SaveInv'
  <2>1. PICK d \in Prefs!Documents : Prefs!Ordered(d) /\ body' = [body EXCEPT ![r] = d]
    BY <1>2 DEF Prefs!Put
  <2>2. d # NoDocument
    BY <2>1 DEF Prefs!PreferencesAssumption
  <2>3. Prefs!TypeOK'
    BY <1>1, <1>2, <2>1, <2>2 DEF Prefs!Put, Prefs!TypeOK
  <2>4. Documented'
    <3>1. \A q \in Requests : q # r => pc'[q] = pc[q] /\ body'[q] = body[q]
      BY <1>1, <1>2, <2>1 DEF Prefs!Put, Prefs!TypeOK
    <3>2. body'[r] = d
      BY <1>1, <2>1 DEF Prefs!TypeOK
    <3> QED BY <2>1, <3>1, <3>2 DEF SaveInv, Documented, Prefs!Ordered
  <2>5. RowStays' /\ ReadIsCurrent'
    BY <1>1, <1>2 DEF Prefs!Put, Prefs!TypeOK, SaveInv, RowStays, ReadIsCurrent
  <2> QED BY <2>3, <2>4, <2>5 DEF SaveInv
<1>3. ASSUME NEW r \in Requests, Prefs!Get(r) PROVE SaveInv'
  <2>1. Prefs!TypeOK'
    BY <1>1, <1>3 DEF Prefs!Get, Prefs!TypeOK
  <2>2. Documented' /\ RowStays' /\ ReadIsCurrent'
    BY <1>1, <1>3
       DEF Prefs!Get, Prefs!TypeOK, SaveInv, Documented, Prefs!Ordered, RowStays, ReadIsCurrent
  <2> QED BY <2>1, <2>2 DEF SaveInv
<1>4. ASSUME NEW r \in Requests, Prefs!Flush(r) PROVE SaveInv'
  <2>1. CASE pc' = [pc EXCEPT ![r] = "flushed"] /\ UNCHANGED <<row, body, read, raced>>
    <3>1. pc[r] = "read"
      BY <1>4 DEF Prefs!Flush
    <3>2. Prefs!TypeOK'
      BY <1>1, <2>1, <3>1 DEF Prefs!TypeOK
    <3>3. Documented' /\ RowStays' /\ ReadIsCurrent'
      BY <1>1, <2>1, <3>1 DEF Prefs!TypeOK, SaveInv, Documented, Prefs!Ordered, RowStays, ReadIsCurrent
    <3> QED BY <3>2, <3>3 DEF SaveInv
  <2>2. CASE Prefs!End(r) /\ raced' = raced \ {r} /\ UNCHANGED row
    BY <2>2, EndKeeps
  <2> QED BY <1>4, <2>1, <2>2 DEF Prefs!Flush
<1>5. ASSUME NEW r \in Requests, Prefs!Commit(r) PROVE SaveInv'
  <2>1. row' \in Prefs!Documents /\ row' # NoRow
    BY <1>5, WrittenIsDocument DEF Prefs!Commit, Prefs!PreferencesAssumption
  <2>2. /\ pc'[r] = "idle" /\ body'[r] = NoDocument /\ read'[r] = NoRow
        /\ \A q \in Requests : q # r => pc'[q] = pc[q] /\ body'[q] = body[q] /\ read'[q] = read[q]
    BY <1>1, <1>5 DEF Prefs!Commit, Prefs!End, Prefs!TypeOK
  <2>3. /\ r \notin raced'
        /\ \A q \in Requests : q # r /\ pc[q] \in {"read", "flushed"} => q \in raced'
        /\ \A q \in raced' : q \in Requests /\ pc[q] # "idle" /\ q # r
    BY <1>1, <1>5 DEF Prefs!Commit, Prefs!TypeOK
  <2>4. Prefs!TypeOK'
    <3>1. /\ row' \in Prefs!Rows /\ read' \in [Requests -> Prefs!Rows]
          /\ pc' \in [Requests -> {"idle", "sent", "read", "flushed"}]
          /\ body' \in [Requests -> Prefs!Documents \cup {NoDocument}]
      BY <1>1, <1>5, <2>1 DEF Prefs!Commit, Prefs!End, Prefs!TypeOK, Prefs!Rows
    <3>2. raced' \subseteq {q \in Requests : pc'[q] # "idle"}
      BY <2>2, <2>3
    <3>3. \A q \in Requests : pc'[q] = "idle" <=> body'[q] = NoDocument
      BY <1>1, <2>2 DEF Prefs!TypeOK
    <3> QED BY <3>1, <3>2, <3>3 DEF Prefs!TypeOK
  <2>5. Documented' /\ RowStays'
    BY <2>1, <2>2 DEF SaveInv, Documented, Prefs!Ordered, RowStays
  <2>6. ReadIsCurrent'
    BY <2>2, <2>3 DEF ReadIsCurrent
  <2> QED BY <2>4, <2>5, <2>6 DEF SaveInv
<1>6. ASSUME NEW r \in Requests, Prefs!Rollback(r) PROVE SaveInv'
  BY <1>6, EndKeeps DEF Prefs!Rollback
<1>7. CASE UNCHANGED Prefs!vars
  BY <1>7 DEF Prefs!vars, SaveInv, Prefs!TypeOK, Documented, Prefs!Ordered, RowStays, ReadIsCurrent
<1> QED BY <1>2, <1>3, <1>4, <1>5, <1>6, <1>7 DEF Prefs!Next

(* So a commit that did not race is whole.                                 *)
LEMMA CommitIsWhole == ASSUME SaveInv PROVE Prefs!SaveIsWhole
<1> SUFFICES ASSUME NEW r \in Requests, Prefs!Commit(r), r \notin raced
             PROVE  row' = body[r] /\ Prefs!Ordered(row')
  BY DEF Prefs!SaveIsWhole
<1>1. pc[r] = "flushed" /\ row' = Prefs!Written(r)
  BY DEF Prefs!Commit
<1>2. Prefs!Written(r) = body[r] /\ Prefs!Ordered(body[r])
  BY <1>1, UnracedIsWhole
<1> QED BY <1>1, <1>2 DEF Prefs!Ordered

(* A save that no other one raced with leaves exactly its document, and so *)
(* the order that schemas/preference.py:26 asks of it.                     *)
THEOREM UnracedSavesAreWhole ==
    ASSUME Prefs!PreferencesAssumption PROVE Prefs!Spec => Prefs!SavesAreWhole
<1>1. SaveInv => Prefs!SaveIsWhole
  BY CommitIsWhole
<1>2. SaveInv /\ [Prefs!Next]_(Prefs!vars) => SaveInv'
  BY SaveNext
<1> QED BY <1>1, <1>2, SaveInit, PTL DEF Prefs!Spec, Prefs!SavesAreWhole

-----------------------------------------------------------------------------
(* The hourly limiter, which bounds how often codes are asked for.         *)

(* A window that can still be hit has let through no more than its item    *)
(* counts: it may be deleted only once no hit is on its way to it.         *)
PassedIsCounted ==
    \A k \in Keys, start \in Limiter!Starts :
        clock < Limiter!ExpiresAt(start) => passed[<<k, start>>] <= count[<<k, start>>]

LimitInv == Limiter!TypeOK /\ PassedIsCounted /\ Limiter!LimitHolds

(* The window of a time is one, and ends after it.                         *)
LEMMA WindowHasTime ==
    ASSUME Limiter!LimitAssumption, NEW t \in Limiter!Times
    PROVE  /\ Limiter!WindowStart(t) \in Limiter!Starts
           /\ Limiter!WindowStart(t) \in Int
           /\ t < Limiter!WindowStart(t) + Window
<1>1. t % Window \in 0..(Window - 1)
  BY DEF Limiter!LimitAssumption, Limiter!Times
<1> QED BY <1>1 DEF Limiter!LimitAssumption, Limiter!Times, Limiter!Starts, Limiter!WindowStart

(* Counts above the limit are alike, and stay above it.                    *)
LEMMA Saturates ==
    ASSUME Limiter!LimitAssumption, NEW m \in 0..(Limit + 1), NEW n \in 0..2
    PROVE  LET total == Limiter!Min({m + n, Limit + 1})
           IN  total \in m..(Limit + 1) /\ (total <= Limit => total = m + n)
<1>1. \A x \in {m + n, Limit + 1} : x \in Int
  BY DEF Limiter!LimitAssumption
<1>2. \E x \in {m + n, Limit + 1} : \A y \in {m + n, Limit + 1} : x <= y
  BY <1>1
<1>3. PICK x \in {m + n, Limit + 1} : x = Limiter!Min({m + n, Limit + 1}) /\ \A y \in {m + n, Limit + 1} : x <= y
  BY <1>2 DEF Limiter!Min
<1> QED BY <1>1, <1>3 DEF Limiter!LimitAssumption

(* While a hit is on its way, its window's item cannot be deleted yet.     *)
LEMMA HitIsInTime ==
    ASSUME Limiter!LimitAssumption, Limiter!TypeOK, NEW c \in Callers, hit[c] # Limiter!Idle
    PROVE  /\ hit[c].key \in Keys /\ Limiter!WindowStart(hit[c].at) \in Limiter!Starts
           /\ clock < Limiter!ExpiresAt(Limiter!WindowStart(hit[c].at))
<1>1. hit[c].key \in Keys /\ hit[c].at \in Limiter!Times /\ clock - hit[c].at \in 0..Patience
  BY DEF Limiter!TypeOK
<1> QED BY <1>1, WindowHasTime
        DEF Limiter!LimitAssumption, Limiter!ExpiresAt, Limiter!TypeOK, Limiter!Times

(* Nothing is counted and nobody has hit anything yet.                    *)
LEMMA LimitStarts == ASSUME Limiter!LimitAssumption PROVE Limiter!Init => LimitInv
  BY DEF Limiter!LimitAssumption, Limiter!Init, LimitInv, Limiter!TypeOK, PassedIsCounted,
         Limiter!LimitHolds, Limiter!Times, Limiter!Absent

(* An update counts what it lets through.                                  *)
LEMMA CountKeeps ==
    ASSUME Limiter!LimitAssumption, LimitInv, NEW c \in Callers, NEW n \in 0..2,
           (Limiter!Count(c, n) /\ n # 0) \/ Limiter!Fail(c, n)
    PROVE  LimitInv'
<1> DEFINE i == Limiter!Item(c)
           k == hit[c].key
           start == Limiter!WindowStart(hit[c].at)
<1>1. hit[c] # Limiter!Idle
  BY DEF Limiter!Count, Limiter!Fail
<1>2. k \in Keys /\ start \in Limiter!Starts /\ clock < Limiter!ExpiresAt(start) /\ i = <<k, start>>
  BY <1>1, HitIsInTime DEF LimitInv, Limiter!Item
<1>3. count[i] \in 0..(Limit + 1) /\ passed[i] \in Nat /\ passed[i] <= count[i]
  BY <1>2 DEF LimitInv, Limiter!TypeOK, PassedIsCounted
<1> DEFINE total == Limiter!Min({count[i] + n, Limit + 1})
<1>4. total \in count[i]..(Limit + 1) /\ (total <= Limit => total = count[i] + n)
  BY <1>3, Saturates
<1>5. count' = [count EXCEPT ![i] = total]
  BY DEF Limiter!Count, Limiter!Fail, Limiter!Added
<1> HIDE DEF total
<1>6. /\ count' \in [Keys \X Limiter!Starts -> 0..(Limit + 1)]
      /\ count'[i] = total
      /\ \A j \in Keys \X Limiter!Starts : j # i => count'[j] = count[j]
  BY <1>2, <1>3, <1>4, <1>5 DEF LimitInv, Limiter!TypeOK
<1>7. /\ hit' \in [Callers -> [key : Keys, at : Limiter!Times] \cup {Limiter!Idle}]
      /\ \A d \in Callers : hit'[d] # Limiter!Idle => hit'[d] = hit[d]
      /\ clock' = clock
  BY DEF Limiter!Count, Limiter!Fail, LimitInv, Limiter!TypeOK
<1>8. /\ passed' \in [Keys \X Limiter!Starts -> Nat]
      /\ passed'[i] <= total /\ passed'[i] <= Limit
      /\ \A j \in Keys \X Limiter!Starts : j # i => passed'[j] = passed[j]
  <2>1. CASE total <= Limit /\ n # 0 /\ passed' = [passed EXCEPT ![i] = passed[i] + 1]
    <3>1. passed[i] + 1 \in Nat /\ passed[i] + 1 <= total
      BY <1>3, <1>4, <2>1 DEF Limiter!LimitAssumption
    <3> QED BY <1>2, <1>4, <2>1, <3>1 DEF LimitInv, Limiter!TypeOK, Limiter!LimitAssumption
  <2>2. CASE passed' = passed
    <3>1. passed[i] <= Limit
      BY <1>2 DEF LimitInv, Limiter!LimitHolds
    <3> QED BY <1>3, <1>4, <2>2, <3>1 DEF LimitInv, Limiter!TypeOK, Limiter!LimitAssumption
  <2> QED BY <1>6, <2>1, <2>2 DEF Limiter!Count, Limiter!Fail
<1>9. Limiter!TypeOK'
  BY <1>6, <1>7, <1>8 DEF LimitInv, Limiter!TypeOK
<1>10. PassedIsCounted'
  BY <1>6, <1>7, <1>8 DEF LimitInv, PassedIsCounted, Limiter!ExpiresAt
<1>11. Limiter!LimitHolds'
  BY <1>8 DEF LimitInv, Limiter!LimitHolds
<1> QED BY <1>9, <1>10, <1>11 DEF LimitInv

(* Every step keeps it.                                                    *)
LEMMA LimitNext ==
    ASSUME Limiter!LimitAssumption, LimitInv, [Limiter!Next]_(Limiter!vars) PROVE LimitInv'
<1> USE DEF LimitInv
<1>1. ASSUME NEW c \in Callers, NEW k \in Keys, Limiter!Hit(c, k) PROVE LimitInv'
  <2>1. Limiter!TypeOK'
    BY <1>1 DEF Limiter!Hit, Limiter!TypeOK, Limiter!LimitAssumption, Limiter!Times
  <2>2. PassedIsCounted' /\ Limiter!LimitHolds'
    BY <1>1 DEF Limiter!Hit, PassedIsCounted, Limiter!LimitHolds, Limiter!ExpiresAt
  <2> QED BY <2>1, <2>2
<1>2. ASSUME NEW c \in Callers, NEW n \in 1..2, Limiter!Count(c, n) PROVE LimitInv'
  BY <1>2, CountKeeps
<1>3. ASSUME NEW c \in Callers, NEW n \in 0..1, Limiter!Fail(c, n) PROVE LimitInv'
  BY <1>3, CountKeeps
<1>4. ASSUME NEW k \in Keys, NEW start \in Limiter!Starts, Limiter!TtlDelete(k, start) PROVE LimitInv'
  <2>1. Limiter!TypeOK'
    BY <1>4 DEF Limiter!TtlDelete, Limiter!TypeOK, Limiter!LimitAssumption, Limiter!Absent
  <2>2. \A j \in Keys \X Limiter!Starts : j # <<k, start>> => count'[j] = count[j]
    BY <1>4 DEF Limiter!TtlDelete, Limiter!TypeOK
  <2>3. ~(clock < Limiter!ExpiresAt(start)) /\ clock' = clock /\ passed' = passed
    <3>1. clock \in Int /\ Limiter!ExpiresAt(start) \in Int
      <4>1. PICK t \in Limiter!Times : start = Limiter!WindowStart(t)
        BY DEF Limiter!Starts
      <4> QED BY <4>1, WindowHasTime
              DEF Limiter!TypeOK, Limiter!Times, Limiter!ExpiresAt, Limiter!LimitAssumption
    <3> QED BY <1>4, <3>1 DEF Limiter!TtlDelete
  <2>4. PassedIsCounted' /\ Limiter!LimitHolds'
    BY <2>2, <2>3 DEF PassedIsCounted, Limiter!LimitHolds, Limiter!ExpiresAt
  <2> QED BY <2>1, <2>4
<1>5. CASE Limiter!Tick
  <2>1. clock' = clock + 1 /\ clock' \in Limiter!Times /\ UNCHANGED <<count, hit, passed>>
    BY <1>5 DEF Limiter!Tick, Limiter!TypeOK, Limiter!Times, Limiter!LimitAssumption
  <2>2. Limiter!TypeOK'
    <3>1. ASSUME NEW c \in Callers, hit[c] # Limiter!Idle PROVE clock' - hit[c].at \in 0..Patience
      <4>1. hit[c].at \in Limiter!Times /\ clock - hit[c].at \in 0..Patience
        BY <3>1 DEF Limiter!TypeOK
      <4> QED BY <1>5, <2>1, <3>1, <4>1 DEF Limiter!Tick, Limiter!TypeOK, Limiter!Times, Limiter!LimitAssumption
    <3> QED BY <2>1, <3>1 DEF Limiter!TypeOK
  <2>3. ASSUME NEW start \in Limiter!Starts PROVE clock' < Limiter!ExpiresAt(start) => clock < Limiter!ExpiresAt(start)
    <3>1. PICK t \in Limiter!Times : start = Limiter!WindowStart(t)
      BY DEF Limiter!Starts
    <3> QED BY <2>1, <3>1, WindowHasTime
            DEF Limiter!TypeOK, Limiter!Times, Limiter!ExpiresAt, Limiter!LimitAssumption
  <2>4. PassedIsCounted' /\ Limiter!LimitHolds'
    BY <2>1, <2>3 DEF PassedIsCounted, Limiter!LimitHolds, Limiter!ExpiresAt
  <2> QED BY <2>2, <2>4
<1>6. CASE UNCHANGED Limiter!vars
  BY <1>6 DEF Limiter!vars, Limiter!TypeOK, PassedIsCounted, Limiter!LimitHolds, Limiter!ExpiresAt
<1> HIDE DEF LimitInv
<1> QED BY <1>1, <1>2, <1>3, <1>4, <1>5, <1>6 DEF Limiter!Next

(* No window lets more hits through than the limit, however they overlap,  *)
(* as long as its item outlives every hit that reads its window            *)
(* (auth/ratelimit.py: expires_at is a window past the end of its own).     *)
THEOREM LimitIsKept == ASSUME Limiter!LimitAssumption PROVE Limiter!Spec => []Limiter!LimitHolds
<1>1. LimitInv /\ [Limiter!Next]_(Limiter!vars) => LimitInv'
  BY LimitNext
<1>2. LimitInv => Limiter!LimitHolds
  BY DEF LimitInv
<1> QED BY <1>1, <1>2, LimitStarts, PTL DEF Limiter!Spec
=============================================================================
