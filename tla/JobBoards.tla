----------------------------- MODULE JobBoards ------------------------------
(***************************************************************************)
(* Where the postings of a source are found and what is made of them:      *)
(* detection of a hosted board (ingest/detect.py), the adapters of the     *)
(* three vendors (ingest/ats), JSON-LD (ingest/jsonld.py), and the rules   *)
(* that drop a job before it is scored (jobs/filter.py).                   *)
(*                                                                         *)
(* A written form (an employment type, a place) is a sequence of words, a  *)
(* word a sequence of parts: "full time" is two words, "Full-time",        *)
(* "full_time" and "FullTime" are one word of two parts.  Case and width   *)
(* are folded throughout (normalize_text) and left out.                    *)
(***************************************************************************)
EXTENDS Integers, SequencesExt

CONSTANTS
    Nothing,     \* None
    Employer,    \* the name of the company, as JSON-LD gives it
    BoardPage,   \* the API address of a board, the URL of a posting without one
    Generic,     \* words without a role: senior, lead, ...
    OffFamily,   \* words of other job families: sales, recruiter, ...
    Short,       \* words of fewer than three letters
    Stem,        \* the first four letters of each word; a shorter word itself
    TitleMode    \* settings.job_title_match_mode: "loose", "strict" or "off"

JobBoardsAssumption ==
    /\ TitleMode \in {"loose", "strict", "off"}
    /\ Generic \cup OffFamily \cup Short \subseteq DOMAIN Stem

-----------------------------------------------------------------------------
(* Detection.  A link is the pattern its address matches and the board's   *)
(* name in it; a source is the link its own URL is, and those of its page. *)

UrlPatterns   == <<"greenhouse", "lever", "ashby", "ashby_subdomain">>
EmbedPatterns == <<"greenhouse_for", "greenhouse", "lever", "ashby", "ashby_api">>
VendorOf(pattern) ==
    CASE pattern \in {"greenhouse_for", "greenhouse"} -> "greenhouse"
      [] pattern = "lever" -> "lever"
      [] OTHER -> "ashby"
NotABoard == {"embed", "api", "www", "job_board", "job-board", "shared"}

(* What the first link of a pattern names, if it is a board. *)
BoardOf(pattern, links) ==
    LET l == {i \in 1..Len(links) : links[i].pattern = pattern}
    IN  IF l # {} /\ links[Min(l)].slug \notin NotABoard
        THEN [vendor |-> VendorOf(pattern), board |-> links[Min(l)].slug] ELSE Nothing

(* detect_ats: the first pattern that names a board. *)
Detect(patterns, links) ==
    LET hits == {i \in 1..Len(patterns) : BoardOf(patterns[i], links) # Nothing}
    IN  IF hits = {} THEN Nothing ELSE BoardOf(patterns[Min(hits)], links)
DetectFromUrl(url)         == Detect(UrlPatterns, url)
DetectFromPage(url, links) ==
    IF DetectFromUrl(url) # Nothing THEN DetectFromUrl(url) ELSE Detect(EmbedPatterns, links)

-----------------------------------------------------------------------------
(* Adapters.  A posting as its site has it: id, page, title, type,         *)
(* workplace ("remote", "on_site" or Nothing) and text; JSON-LD may have   *)
(* an identifier, or have it as a PropertyValue.                           *)

OrElse(x, default) == IF x = Nothing THEN default ELSE x
RemoteOf(p)        == IF p.workplace = "remote" THEN TRUE ELSE Nothing

Fetched(p, ext, url, type) ==
    [ext |-> ext, url |-> url, of |-> p,  \* of: history
     structured |-> [title |-> p.title, type |-> type, remote |-> RemoteOf(p),
                     place |-> p.place, text |-> p.text]]

Greenhouse(p) == Fetched(p, p.id, OrElse(p.page, BoardPage), Nothing)
(* Mutant: the commitment is looked up in the posting, not its categories. *)
Lever_NoCommitment(p) == Fetched(p, p.id, OrElse(p.page, BoardPage), Nothing)
Lever(p)      == Fetched(p, p.id, OrElse(p.page, BoardPage), p.type)
Ashby(p)      == Fetched(p, p.id, OrElse(p.page, BoardPage), p.type)

(* _text: of a PropertyValue it takes the name, which is the company's.    *)
TextOf(identifier) ==
    CASE identifier.form = "text"  -> identifier.value
      [] identifier.form = "value" -> Employer
      [] identifier.form = "none"  -> Nothing
JsonLd(p, sitePage) ==
    Fetched(p, OrElse(TextOf(p.identifier), p.page), OrElse(p.page, sitePage), p.type)

Job(vendor, p) ==
    CASE vendor = "greenhouse" -> Greenhouse(p)
      [] vendor = "lever"      -> Lever(p)
      [] vendor = "ashby"      -> Ashby(p)
Adapter(vendor, postings) == [i \in 1..Len(postings) |-> Job(vendor, postings[i])]

(* extract_job_postings: a posting without a title is passed over, and so  *)
(* is one whose URL was seen.  The jobs keep the places of their postings. *)
ExtractJobPostings(postings, sitePage) ==
    LET job    == [i \in 1..Len(postings) |-> JsonLd(postings[i], sitePage)]
        titled == {i \in DOMAIN job : job[i].structured.title # {}}
        first  == {i \in titled : \A k \in titled : job[k].url = job[i].url => i <= k}
    IN  [i \in first |-> job[i]]

-----------------------------------------------------------------------------
(* The primary filter. *)

Key(form)       == FlattenSeq(form)
NormSet(forms)  == {Key(f) : f \in forms}
(* A job's types: its form is split at blanks and commas first. *)
JobTypes(type)  == ToSet(type)

Words(title)    == title \ Generic
RoleWords(roles) == UNION {Words(r) : r \in roles} \ Short
TitleMatches(title, roles) ==
    \E r \in RoleWords(roles), w \in Words(title) : Stem[r] = Stem[w]

TypeMismatch(s, prefs) ==
    /\ prefs.types # {} /\ s.type # Nothing
    /\ JobTypes(s.type) \cap NormSet(prefs.types) = {}
OnSiteMismatch(s, prefs) ==
    /\ prefs.remote /\ s.remote = FALSE
    /\ ~\E w \in NormSet(prefs.places), i \in 1..Len(s.place) : w = s.place[i]
TitleMismatch(s, prefs) ==
    /\ prefs.roles # {} /\ TitleMode # "off"
    /\ ~TitleMatches(s.title, prefs.roles)
    /\ TitleMode = "strict" \/ Words(s.title) \cap OffFamily # {}

(* rejection_reason *)
Rejected(s, prefs) ==
    prefs # Nothing /\ (TypeMismatch(s, prefs) \/ OnSiteMismatch(s, prefs) \/ TitleMismatch(s, prefs))

-----------------------------------------------------------------------------
(* A score as the model writes it, by its digits: _coerce_score strings    *)
(* together all the digits of a string, "85/100" too.                      *)
Coerced(digits) == FoldLeft(LAMBDA n, d : 10 * n + d, 0, digits)
Usable(digits)  == Coerced(digits) \in 0..100
=============================================================================
