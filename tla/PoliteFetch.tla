---------------------------- MODULE PoliteFetch -----------------------------
(***************************************************************************)
(* Polite fetching (ingest/fetcher.py, robots.py, ratelimit.py, http.py):  *)
(* a page is fetched once robots.txt allows it and its host's interval has *)
(* passed, and redirects are followed up to a limit.                       *)
(*                                                                         *)
(* The robots cache and the limiter are shared by all fetches of a worker  *)
(* process, which are coroutines: another one runs wherever one awaits - a *)
(* request, the host's lock, a sleep - and nowhere else.  Times are kept   *)
(* as ages that Tick adds to, up to where they make no more difference.    *)
(***************************************************************************)
EXTENDS Naturals, Sequences

CONSTANTS
    Callers,       \* fetches in progress at a time
    Hosts,
    MinInterval,   \* fetch_min_host_interval_seconds
    CrawlDelay,    \* the Crawl-delay of a site that publishes one
    Ttl,           \* robots_cache_ttl_seconds
    MaxRedirects,  \* fetch_max_redirects
    NoHost, NoEntry

ASSUME PoliteAssumption ==
    /\ MinInterval \in Nat /\ CrawlDelay \in Nat /\ MinInterval <= CrawlDelay
    /\ Ttl \in Nat /\ MaxRedirects \in Nat
    /\ NoHost \notin Hosts

(* What robots.txt says of our paths; without one, or without a rule for   *)
(* us, it says "allow".  It is "unknown" while it cannot be fetched.       *)
Policies == {"allow", "delay", "disallow"}
Rules    == Policies \cup {"unknown"}

VARIABLES
    site,      \* what each host publishes
    entry,     \* RobotsCache._by_host: [rule, age]
    last,      \* time since HostRateLimiter._last, never being long ago
    lock,      \* the asyncio.Lock of each host: its holder and those waiting, in order
    pc,        \* where each fetch is
    host,      \* the host of its URL
    interval,  \* the min_interval it asks for
    timer,     \* what is left of its sleep
    hops,      \* redirects followed
    \* history
    since,     \* time since a fetch of the host was let through
    changed    \* time since the host began or ceased to disallow us

callVars == <<pc, host, interval, timer, hops>>
vars == <<site, entry, last, lock, pc, host, interval, timer, hops, since, changed>>

TypeOK ==
    /\ site \in [Hosts -> Policies]
    /\ entry \in [Hosts -> [rule : Rules, age : 0..(Ttl + 1)] \cup {NoEntry}]
    /\ last \in [Hosts -> 0..CrawlDelay]
    /\ lock \in [Hosts -> Seq(Callers)]
    /\ pc \in [Callers -> {"idle", "check", "load", "lock", "sleep", "get"}]
    /\ host \in [Callers -> Hosts \cup {NoHost}]
    /\ interval \in [Callers -> {0, MinInterval, CrawlDelay}]
    /\ timer \in [Callers -> 0..CrawlDelay]
    /\ hops \in [Callers -> 0..MaxRedirects]
    /\ since \in [Hosts -> 0..CrawlDelay]
    /\ changed \in [Hosts -> 0..(Ttl + 1)]
    /\ \A c \in Callers :
         /\ pc[c] = "idle" <=> host[c] = NoHost
         /\ timer[c] > 0 => pc[c] = "sleep"
         \* only the holder of the lock sleeps, and no one waits twice
         /\ pc[c] = "sleep" => Head(lock[host[c]]) = c
         /\ \A h \in Hosts : pc[c] \in {"lock", "sleep"} /\ host[c] = h
                <=> \E i \in DOMAIN lock[h] : lock[h][i] = c

Init ==
    /\ site \in [Hosts -> Policies]
    /\ entry = [h \in Hosts |-> NoEntry]
    /\ last = [h \in Hosts |-> CrawlDelay]
    /\ lock = [h \in Hosts |-> <<>>]
    /\ pc = [c \in Callers |-> "idle"]
    /\ host = [c \in Callers |-> NoHost]
    /\ interval = [c \in Callers |-> 0]
    /\ timer = [c \in Callers |-> 0]
    /\ hops = [c \in Callers |-> 0]
    /\ since = [h \in Hosts |-> CrawlDelay]
    /\ changed = [h \in Hosts |-> Ttl + 1]

-----------------------------------------------------------------------------
(* The host and the clock.                                                 *)

Publish(h, policy) ==
    /\ site[h] # policy
    /\ site' = [site EXCEPT ![h] = policy]
    /\ changed' = IF "disallow" \in {site[h], policy} THEN [changed EXCEPT ![h] = 0] ELSE changed
    /\ UNCHANGED <<entry, last, lock, callVars, since>>

Older(age, most) == IF age < most THEN age + 1 ELSE age

Tick ==
    /\ entry' = [h \in Hosts |-> IF entry[h] = NoEntry THEN NoEntry
                                 ELSE [entry[h] EXCEPT !.age = Older(@, Ttl + 1)]]
    /\ last' = [h \in Hosts |-> Older(last[h], CrawlDelay)]
    /\ since' = [h \in Hosts |-> Older(since[h], CrawlDelay)]
    /\ changed' = [h \in Hosts |-> Older(changed[h], Ttl + 1)]
    /\ timer' = [c \in Callers |-> IF timer[c] > 0 THEN timer[c] - 1 ELSE 0]
    /\ UNCHANGED <<site, lock, pc, host, interval, hops>>

-----------------------------------------------------------------------------
(* PoliteFetcher.fetch.                                                    *)

Finish(c) ==
    /\ pc' = [pc EXCEPT ![c] = "idle"]
    /\ host' = [host EXCEPT ![c] = NoHost]
    /\ interval' = [interval EXCEPT ![c] = 0]
    /\ hops' = [hops EXCEPT ![c] = 0]
    /\ UNCHANGED timer

(* acquire: the lock is taken, or waited for behind those who do.          *)
Acquire(c, h, least) ==
    /\ pc' = [pc EXCEPT ![c] = "lock"]
    /\ lock' = [lock EXCEPT ![h] = Append(@, c)]
    /\ interval' = [interval EXCEPT ![c] = least]

(* An ATS endpoint (route A) is fetched without asking robots.txt.         *)
FetchApi(c, h) ==
    /\ pc[c] = "idle"
    /\ host' = [host EXCEPT ![c] = h]
    /\ Acquire(c, h, MinInterval)
    /\ UNCHANGED <<site, entry, last, timer, hops, since, changed>>

FetchPage(c, h) ==
    /\ pc[c] = "idle"
    /\ pc' = [pc EXCEPT ![c] = "check"]
    /\ host' = [host EXCEPT ![c] = h]
    /\ UNCHANGED <<site, entry, last, lock, interval, timer, hops, since, changed>>

Refused(rule) == rule = "disallow"

(* RobotsDisallowedError, or on to the limiter with the crawl delay.       *)
Decide(c, rule) ==
    \/ /\ Refused(rule)
       /\ Finish(c)
       /\ UNCHANGED lock
    \/ /\ ~Refused(rule)
       /\ Acquire(c, host[c], IF rule = "delay" THEN CrawlDelay ELSE MinInterval)
       /\ UNCHANGED <<host, timer, hops>>

(* Mutant: an entry is good for ever.                                      *)
Fresh_Always(e) == e # NoEntry

Fresh(e) == e # NoEntry /\ e.age <= Ttl

(* RobotsCache.check, with what is cached ...                              *)
Check(c) ==
    /\ pc[c] = "check"
    /\ \/ /\ Fresh(entry[host[c]])
          /\ Decide(c, entry[host[c]].rule)
       \/ /\ ~Fresh(entry[host[c]])
          /\ pc' = [pc EXCEPT ![c] = "load"]
          /\ UNCHANGED <<lock, host, interval, timer, hops>>
    /\ UNCHANGED <<site, entry, last, since, changed>>

(* ... or with what the host answers, be it nothing.  Another fetch may    *)
(* have loaded it too; the later answer is kept.  An answer says what the  *)
(* host publishes when it arrives: its flight is short beside the Ttl.     *)
Load(c) ==
    /\ pc[c] = "load"
    /\ \E rule \in {site[host[c]], "unknown"} :
         /\ entry' = [entry EXCEPT ![host[c]] = [rule |-> rule, age |-> 0]]
         /\ Decide(c, rule)
    /\ UNCHANGED <<site, last, since, changed>>

(* Mutant: a fetch does not wait for the one that holds the lock.          *)
HasLock_Always(c) == TRUE

HasLock(c) == Head(lock[host[c]]) = c

Release(h) == Tail(lock[h])

(* _last is set and the lock released with no await in between.            *)
LetThrough(c) ==
    /\ pc' = [pc EXCEPT ![c] = "get"]
    /\ last' = [last EXCEPT ![host[c]] = 0]
    /\ since' = [since EXCEPT ![host[c]] = 0]
    /\ lock' = [lock EXCEPT ![host[c]] = Release(host[c])]

(* Mutant: the crawl delay is not asked for.                               *)
Wait_DefaultOnly(c) == MinInterval

Wait(c) == interval[c]

(* With the lock: sleep for what is left of the interval, if any is.       *)
Enter(c) ==
    /\ pc[c] = "lock" /\ HasLock(c)
    /\ \/ /\ last[host[c]] < Wait(c)
          /\ pc' = [pc EXCEPT ![c] = "sleep"]
          /\ timer' = [timer EXCEPT ![c] = Wait(c) - last[host[c]]]
          /\ UNCHANGED <<lock, last, since>>
       \/ /\ last[host[c]] >= Wait(c)
          /\ LetThrough(c)
          /\ UNCHANGED timer
    /\ UNCHANGED <<site, entry, host, interval, hops, changed>>

Wake(c) ==
    /\ pc[c] = "sleep" /\ timer[c] = 0
    /\ LetThrough(c)
    /\ UNCHANGED <<site, entry, host, interval, timer, hops, changed>>

(* Mutant: the count starts again, so redirects have no limit.             *)
Hop_Unlimited(n) == IF n < MaxRedirects THEN n + 1 ELSE 0

Hop(n) == n + 1

(* safe_get: an answer, an error, or a redirect, followed at once and      *)
(* without robots.txt or the limiter, the limit being an error too.        *)
Get(c) ==
    /\ pc[c] = "get"
    /\ \/ Finish(c)
       \/ /\ Hop(hops[c]) <= MaxRedirects
          /\ hops' = [hops EXCEPT ![c] = Hop(@)]
          /\ UNCHANGED <<pc, host, interval, timer>>
    /\ UNCHANGED <<site, entry, last, lock, since, changed>>

CallStep(c) == Check(c) \/ Load(c) \/ Enter(c) \/ Wake(c) \/ Get(c)

Next ==
    \/ \E c \in Callers : CallStep(c) \/ \E h \in Hosts : FetchApi(c, h) \/ FetchPage(c, h)
    \/ \E h \in Hosts, policy \in Policies : Publish(h, policy)
    \/ Tick

(* The event loop runs every coroutine that can go on, a request is        *)
(* answered or times out, and time passes.                                 *)
Fairness == WF_vars(Tick) /\ \A c \in Callers : WF_vars(CallStep(c))

Spec == Init /\ [][Next]_vars /\ Fairness

-----------------------------------------------------------------------------
(* Fetches of one host are let through at least the default interval and   *)
(* the later one's Crawl-delay apart, however many want to at once and     *)
(* however late a sleep ends (ratelimit.py:32-41).                         *)
FetchesAreSpaced ==
    [][\A c \in Callers : pc'[c] = "get" /\ pc[c] # "get" =>
           since[host[c]] >= interval[c]]_vars

(* A page is not let pass the robots check once its site has disallowed it *)
(* for longer than the cache lives, unless robots.txt could not be read,   *)
(* and it is not refused once the site has allowed it that long, whatever  *)
(* errors robots.txt met; concurrent loads included (robots.py:52-88).     *)
RobotsAreObeyed ==
    [][\A c \in Callers : pc[c] \in {"check", "load"} /\ pc'[c] # pc[c] /\ changed[host[c]] > Ttl =>
           /\ pc'[c] = "lock" =>
                 site[host[c]] # "disallow" \/ entry'[host[c]].rule = "unknown"
           /\ pc'[c] = "idle" => site[host[c]] = "disallow"]_vars

(* Every fetch ends: the lock is handed on, sleeps end and redirects run   *)
(* out (ratelimit.py:32-41, http.py:151-183).                              *)
EveryFetchEnds == \A c \in Callers : pc[c] # "idle" ~> pc[c] = "idle"
=============================================================================
