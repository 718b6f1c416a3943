---------------------------- MODULE JobScreening ----------------------------
(***************************************************************************)
(* The runs of one source, one after the other (services/ingest.py): the   *)
(* route is found, its postings are read, those that did not change are    *)
(* passed over, those the rules drop are dropped, the rest is scored by    *)
(* the language model, several at a time, and what is kept is stored in    *)
(* one transaction that also prunes what is held and did not survive.      *)
(* Runs that overlap, and the postings that jobs are clustered into, are   *)
(* JobIngest's; how pages are fetched is PoliteFetch's.                    *)
(***************************************************************************)
EXTENDS JobBoards, FiniteSetsExt

CONSTANTS
    Sources,     \* what a source's own URL is, and the links of its page
    Sites,       \* the postings of the board, and those in the page's JSON-LD
    Preferences, \* the user's job_preferences; Nothing without a row
    Scores,      \* what the language model may answer, by digits
    Threshold,   \* settings.match_score_threshold
    Unavailable, \* LlmRequestError or ServiceUnavailableError instead
    Meaning      \* the kinds of employment that a written form means

VARIABLES
    source, site, prefs,
    rows,        \* the jobs held for the source
    run          \* the run under way

vars == <<source, site, prefs, rows, run>>

SitePage == "site"

Idle == [at |-> "idle", prefs |-> Nothing, known |-> {}, jobs |-> <<>>, route |-> Nothing,
         result |-> <<>>]

Identity(x) == OrElse(x.ext, x.url)
Unchanged(job) ==
    \E r \in run.known : Identity(r) = Identity(job) /\ r.structured = job.structured
Todo(jobs) == {i \in DOMAIN jobs : ~Unchanged(jobs[i]) /\ ~Rejected(jobs[i].structured, run.prefs)}

TypeOK ==
    /\ source \in Sources /\ site \in Sites /\ prefs \in Preferences
    /\ run.at \in {"idle", "api", "robots", "page", "page_api", "json_ld", "scoring"}
    /\ run.known \subseteq rows
    /\ run.at = "scoring" => DOMAIN run.result \subseteq Todo(run.jobs)
    /\ \A r, s \in rows : r # s => r.url # s.url /\ (r.ext # Nothing => r.ext # s.ext)

Init ==
    /\ source \in Sources /\ site \in Sites /\ prefs \in Preferences
    /\ rows = {} /\ run = Idle

SiteChanges == site' \in Sites \ {site} /\ UNCHANGED <<source, prefs, rows, run>>
PreferencesChange == prefs' \in Preferences \ {prefs} /\ UNCHANGED <<source, site, rows, run>>

Go(at) == run' = [run EXCEPT !.at = at] /\ UNCHANGED <<source, site, prefs, rows>>
End    == run' = Idle /\ UNCHANGED <<source, site, prefs, rows>>

(* The preferences and what is held are read once, at the start. *)
Begin ==
    /\ run.at = "idle"
    /\ run' = [Idle EXCEPT !.prefs = prefs, !.known = rows,
                           !.at = IF DetectFromUrl(source.url) # Nothing THEN "api" ELSE "robots"]
    /\ UNCHANGED <<source, site, prefs, rows>>

Board == DetectFromPage(source.url, source.links)

(* The diff gate and the rules. *)
Screen(route, jobs) ==
    /\ run' = [run EXCEPT !.at = "scoring", !.route = route, !.jobs = jobs]
    /\ UNCHANGED <<source, site, prefs, rows>>

(* _try_ats_from_url, and _classify_page with a board in the page; an       *)
(* AtsError leads on.                                                       *)
CallApi ==
    /\ run.at \in {"api", "page_api"}
    /\ \/ Screen(Board.vendor, Adapter(Board.vendor, site.board))
       \/ Go(IF run.at = "api" THEN "robots" ELSE "json_ld")

CheckRobots ==
    /\ run.at = "robots"
    /\ \/ Go("page")
       \/ End  \* disallowed: an error, to be added by hand

FetchPage ==
    /\ run.at = "page"
    /\ \/ Go(IF Board # Nothing THEN "page_api" ELSE "json_ld")
       \/ End  \* a FetchError, or a status of 400 and above

ParsePage ==
    /\ run.at = "json_ld"
    /\ LET jobs == ExtractJobPostings(site.page, SitePage)
       IN  IF DOMAIN jobs # {} THEN Screen("json_ld", jobs)
           ELSE End  \* no listings found: needs_manual

(* _score_all: the answers come in any order. *)
Score(i) ==
    /\ run.at = "scoring" /\ run.prefs # Nothing
    /\ i \in Todo(run.jobs) \ DOMAIN run.result
    /\ \E answer \in Scores \cup {Unavailable} :
          run' = [run EXCEPT !.result = [k \in DOMAIN @ \cup {i} |-> IF k = i THEN answer ELSE @[k]]]
    /\ UNCHANGED <<source, site, prefs, rows>>

(* An answer of another kind: the exception ends the run. *)
ScoreRaises(i) ==
    /\ run.at = "scoring" /\ run.prefs # Nothing
    /\ i \in Todo(run.jobs) \ DOMAIN run.result
    /\ End

(* Mutant: a job whose scoring was unavailable does not make the run incomplete. *)
Complete_Always == TRUE

Complete  == \A i \in DOMAIN run.result : run.result[i] # Unavailable
Unscored  == {i \in DOMAIN run.result : run.result[i] # Unavailable /\ ~Usable(run.result[i])}
Kept ==
    IF run.prefs = Nothing THEN Todo(run.jobs)
    ELSE {i \in DOMAIN run.result : run.result[i] # Unavailable
              /\ Usable(run.result[i]) /\ Coerced(run.result[i]) >= Threshold}
Survivors ==
    {Identity(run.jobs[i]) : i \in Kept \cup Unscored \cup
                                   {k \in DOMAIN run.jobs : Unchanged(run.jobs[k])}}

(* find_job: a row with the job's page or its id, of those held before. *)
Matches(job) == {r \in rows : r.url = job.url \/ (job.ext # Nothing /\ r.ext = job.ext)}
RowOf(job) ==
    [ext |-> job.ext, url |-> job.url, structured |-> job.structured, route |-> run.route,
     of |-> job.of, under |-> run.prefs]

(* persist.  A page or an id that two rows would have breaks a unique       *)
(* index and takes the transaction back.                                    *)
Persist ==
    /\ run.at = "scoring"
    /\ run.prefs # Nothing => DOMAIN run.result = Todo(run.jobs)
    /\ \E match \in [Kept -> {{}} \cup {{r} : r \in rows}] :
          /\ \A i \in Kept : /\ match[i] \subseteq Matches(run.jobs[i])
                             /\ match[i] = {} => Matches(run.jobs[i]) = {}
          /\ LET Newest(r) == {i \in Kept : /\ r \in match[i]
                                            /\ \A k \in Kept : r \in match[k] => k <= i}
                 new     == {i \in Kept : match[i] = {}}
                 held    == {r \in rows : Newest(r) = {}}
                 updated == {RowOf(run.jobs[i]) : i \in UNION {Newest(r) : r \in rows}}
                 all     == held \cup updated \cup {RowOf(run.jobs[i]) : i \in new}
                 clash   == \/ Cardinality(all) < Cardinality(rows) + Cardinality(new)
                            \/ \E r, s \in all : r # s /\ (r.url = s.url
                                                           \/ (r.ext # Nothing /\ r.ext = s.ext))
             IN  rows' = IF clash \/ (~Complete /\ Kept = {}) THEN rows
                         ELSE {r \in all : Complete => Identity(r) \in Survivors}
    /\ run' = Idle
    /\ UNCHANGED <<source, site, prefs>>

Next ==
    \/ SiteChanges \/ PreferencesChange
    \/ Begin \/ CallApi \/ CheckRobots \/ FetchPage \/ ParsePage \/ Persist
    \/ \E i \in DOMAIN run.jobs : Score(i) \/ ScoreRaises(i)

Spec == Init /\ [][Next]_vars

-----------------------------------------------------------------------------
(* What the theorems ask of the sites and of the words.                    *)

ScreeningAssumption == Threshold \in Nat

(* What a route makes of a posting of any of the sites. *)
Postings == UNION {{s.board[i] : i \in 1..Len(s.board)} \cup {s.page[i] : i \in 1..Len(s.page)} :
                   s \in Sites}
Taken(route, p) == IF route = "json_ld" THEN JsonLd(p, SitePage) ELSE Job(route, p)

(* On each route a page is that of one posting, as it is named there. *)
PagesTellApart ==
    \A route \in {"greenhouse", "lever", "ashby", "json_ld"}, p, q \in Postings :
        Taken(route, p).url = Taken(route, q).url
            => Identity(Taken(route, p)) = Identity(Taken(route, q))
(* A job's form and the user's that are alike once folded mean a kind alike. *)
FormsMeanAlike ==
    \A p \in Postings, pref \in Preferences \ {Nothing} : \A t \in pref.types :
        p.type # Nothing /\ Key(t) \in JobTypes(p.type) => Meaning[p.type] \cap Meaning[t] # {}

-----------------------------------------------------------------------------
(* A run that reads a job on the route the job came by prunes it only when *)
(* its postings are all dropped by the rules or scored below the threshold *)
(* as they are now: not when a score is unusable or cannot be had, however *)
(* the other jobs fare (ingest.py:78-80, :173, :302-304).                  *)
PruningIsGrounded ==
    \A r \in rows : r.route = run.route /\ (\A s \in rows' : Identity(s) # Identity(r)) =>
        \A i \in DOMAIN run.jobs : Identity(run.jobs[i]) = Identity(r) =>
            \/ Rejected(run.jobs[i].structured, run.prefs)
            \/ /\ i \in DOMAIN run.result /\ run.result[i] # Unavailable
               /\ Coerced(run.result[i]) < Threshold

(* No job is held whose kind of employment, as its site states it, is none *)
(* of those the user asked for when it was stored, however both are written *)
(* and whichever route it came by (jobs/filter.py:7-8); Greenhouse states  *)
(* none.                                                                   *)
KeptSuits ==
    \A r \in rows :
        r.under # Nothing /\ r.under.types # {} /\ r.of.type # Nothing /\ r.route # "greenhouse" =>
            Meaning[r.of.type] \cap UNION {Meaning[t] : t \in r.under.types} # {}

(* jobs/filter.py:7-8: dropped are "only obvious mismatches: wrong          *)
(* employment type, on-site when remote is required".  No route ever says  *)
(* of a job that it is on site, so none is dropped for it.                 *)
OnSiteIsDropped ==
    \A r \in rows :
        r.under # Nothing /\ r.under.remote /\ r.under.places = {} => r.of.workplace # "on_site"
=============================================================================
