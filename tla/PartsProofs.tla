---------------------------- MODULE PartsProofs -----------------------------
(***************************************************************************)
(* Proofs about PoliteFetch, for any number of fetches and hosts, any      *)
(* intervals and any life of the cache; and, at the end, about MCParts,    *)
(* which runs it or another part.                                          *)
(*                                                                         *)
(* Two invariants of PoliteFetch that share nothing.  Of the limiter: the  *)
(* lock's queue holds whoever waits or sleeps, once, with a sleeper in     *)
(* front; so nobody else is let through while it sleeps, and its timer and *)
(* the time since the last fetch go on making up its interval.  Of the     *)
(* cache: an entry that is younger than the site's last change of mind     *)
(* says what the site says.                                                *)
(*                                                                         *)
(* Of MCParts: each part keeps the invariant proved of its module, while   *)
(* it runs.                                                                *)
(***************************************************************************)
EXTENDS MCParts, TLAPS


Waits(s, c)  == \E i \in DOMAIN s : s[i] = c
Once(s)      == \A i, j \in DOMAIN s : s[i] = s[j] => i = j
Delays       == {0, MinInterval, CrawlDelay}

LimiterTypes ==
    /\ last \in [Hosts -> 0..CrawlDelay]
    /\ since \in [Hosts -> 0..CrawlDelay]
    /\ lock \in [Hosts -> Seq(Callers)]
    /\ pc \in [Callers -> {"idle", "check", "load", "lock", "sleep", "get"}]
    /\ host \in [Callers -> Hosts \cup {NoHost}]
    /\ interval \in [Callers -> Delays]
    /\ timer \in [Callers -> 0..CrawlDelay]
    /\ hops \in [Callers -> 0..MaxRedirects]

HostWhileBusy == \A c \in Callers : pc[c] = "idle" <=> host[c] = NoHost
OnlySleepersTimed == \A c \in Callers : timer[c] > 0 => pc[c] = "sleep"
SleeperIsFirst == \A c \in Callers : pc[c] = "sleep" => Head(lock[host[c]]) = c
QueueIsTheirs ==
    \A c \in Callers, h \in Hosts :
        (pc[c] \in {"lock", "sleep"} /\ host[c] = h) <=> Waits(lock[h], c)
NoOneTwice == \A h \in Hosts : Once(lock[h])
SleepCovers ==
    \A c \in Callers : pc[c] = "sleep" => last[host[c]] + timer[c] >= interval[c]
LastIsTrue == since = last

LimiterInv ==
    /\ LimiterTypes
    /\ HostWhileBusy /\ OnlySleepersTimed /\ SleeperIsFirst
    /\ QueueIsTheirs /\ NoOneTwice
    /\ SleepCovers /\ LastIsTrue

RobotsTypes ==
    /\ site \in [Hosts -> Policies]
    /\ entry \in [Hosts -> [rule : Rules, age : 0..(Ttl + 1)] \cup {NoEntry}]
    /\ changed \in [Hosts -> 0..(Ttl + 1)]

EntryIsCurrent ==
    \A h \in Hosts :
        entry[h] # NoEntry /\ entry[h].rule # "unknown" /\ changed[h] > entry[h].age =>
            (entry[h].rule = "disallow" <=> site[h] = "disallow")

RobotsInv == RobotsTypes /\ EntryIsCurrent

-----------------------------------------------------------------------------
(* No fetch asks for more than the longest delay.                          *)
LEMMA DelaysAreShort == \A d \in Delays : d \in Nat /\ d <= CrawlDelay
  BY PoliteAssumption DEF Delays

(* Joining the end of the queue.                                           *)
LEMMA JoinQueue ==
    ASSUME NEW S, NEW s \in Seq(S), NEW c \in S, ~Waits(s, c), Once(s)
    PROVE  /\ Append(s, c) \in Seq(S)
           /\ Once(Append(s, c))
           /\ \A d : Waits(Append(s, c), d) <=> d = c \/ Waits(s, d)
           /\ \A d : Waits(s, d) => Head(Append(s, c)) = Head(s)
<1> DEFINE t == Append(s, c)
<1>1. /\ t \in Seq(S) /\ Len(s) \in Nat /\ Len(t) = Len(s) + 1
      /\ DOMAIN s = 1..Len(s) /\ DOMAIN t = 1..(Len(s) + 1)
      /\ t[Len(s) + 1] = c
      /\ \A i \in 1..Len(s) : t[i] = s[i]
  OBVIOUS
<1>2. Once(t)
  BY <1>1 DEF Once, Waits
<1>3. \A d : Waits(t, d) <=> d = c \/ Waits(s, d)
  BY <1>1 DEF Waits
<1>4. \A d : Waits(s, d) => Head(t) = Head(s)
  BY <1>1 DEF Waits
<1> QED BY <1>1, <1>2, <1>3, <1>4

(* Leaving it from the front.                                              *)
LEMMA LeaveQueue ==
    ASSUME NEW S, NEW s \in Seq(S), NEW c, Waits(s, c), Head(s) = c, Once(s)
    PROVE  /\ Tail(s) \in Seq(S)
           /\ Once(Tail(s))
           /\ \A d : Waits(Tail(s), d) <=> d # c /\ Waits(s, d)
<1> DEFINE t == Tail(s)
<1>1. /\ Len(s) \in Nat /\ Len(s) > 0 /\ s # << >>
      /\ DOMAIN s = 1..Len(s) /\ s[1] = c
  BY DEF Waits
<1>2. /\ t \in Seq(S) /\ DOMAIN t = 1..(Len(s) - 1)
      /\ \A i \in 1..(Len(s) - 1) : t[i] = s[i + 1]
  BY <1>1
<1>3. Once(t)
  BY <1>1, <1>2 DEF Once
<1>4. ASSUME NEW d, Waits(t, d) PROVE d # c /\ Waits(s, d)
  BY <1>1, <1>2, <1>4 DEF Once, Waits
<1>5. ASSUME NEW d, d # c, Waits(s, d) PROVE Waits(t, d)
  <2>1. PICK i \in 1..Len(s) : s[i] = d
    BY <1>1, <1>5 DEF Waits
  <2>2. i - 1 \in 1..(Len(s) - 1) /\ t[i - 1] = d
    BY <1>1, <1>2, <1>5, <2>1
  <2> QED BY <1>2, <2>2 DEF Waits
<1> QED BY <1>2, <1>3, <1>4, <1>5

-----------------------------------------------------------------------------
(* The limiter.                                                            *)

(* Nobody is busy and every lock is free.                                  *)
LEMMA LimiterInit == Init => LimiterInv
<1> SUFFICES ASSUME Init PROVE LimiterInv
  OBVIOUS
<1> USE PoliteAssumption
<1>1. LimiterTypes
  BY DEF Init, LimiterTypes, Delays
<1>2. \A c \in Callers : pc[c] = "idle" /\ host[c] = NoHost /\ timer[c] = 0
  BY DEF Init
<1>3. \A h \in Hosts : lock[h] = << >> /\ DOMAIN lock[h] = {}
  BY DEF Init
<1>4. HostWhileBusy /\ OnlySleepersTimed /\ SleeperIsFirst /\ SleepCovers
  BY <1>2 DEF HostWhileBusy, OnlySleepersTimed, SleeperIsFirst, SleepCovers
<1>5. QueueIsTheirs /\ NoOneTwice
  BY <1>2, <1>3 DEF QueueIsTheirs, NoOneTwice, Waits, Once
<1>6. LastIsTrue
  BY DEF Init, LastIsTrue
<1> QED BY <1>1, <1>4, <1>5, <1>6 DEF LimiterInv

(* A fetch that starts to wait joins the queue of its host.                *)
LEMMA AcquireKeeps ==
    ASSUME LimiterInv, NEW c \in Callers, NEW h \in Hosts, NEW least \in Delays,
           pc[c] \notin {"lock", "sleep"}, Acquire(c, h, least),
           host' = [host EXCEPT ![c] = h],
           UNCHANGED <<last, since, timer, hops>>
    PROVE  LimiterInv'
<1> USE PoliteAssumption
<1>1. LimiterTypes /\ lock[h] \in Seq(Callers) /\ ~Waits(lock[h], c) /\ Once(lock[h])
  BY DEF LimiterInv, LimiterTypes, QueueIsTheirs, NoOneTwice
<1>2. /\ lock'[h] = Append(lock[h], c) /\ lock'[h] \in Seq(Callers)
      /\ Once(lock'[h])
      /\ \A d : Waits(lock'[h], d) <=> d = c \/ Waits(lock[h], d)
      /\ \A d : Waits(lock[h], d) => Head(lock'[h]) = Head(lock[h])
  <2>1. lock'[h] = Append(lock[h], c)
    BY <1>1 DEF Acquire, LimiterTypes
  <2> QED BY <1>1, <2>1, JoinQueue
<1>3. \A g \in Hosts : g # h => lock'[g] = lock[g]
  BY <1>1 DEF Acquire, LimiterTypes
<1>4. pc'[c] = "lock" /\ host'[c] = h /\ interval'[c] = least
  BY <1>1 DEF Acquire, LimiterTypes
<1>5. \A d \in Callers : d # c => pc'[d] = pc[d] /\ host'[d] = host[d] /\ interval'[d] = interval[d]
  BY <1>1 DEF Acquire, LimiterTypes
<1>6. LimiterTypes'
  BY <1>1, <1>2 DEF Acquire, LimiterTypes
<1>7. HostWhileBusy' /\ OnlySleepersTimed'
  BY <1>1, <1>4, <1>5 DEF LimiterInv, HostWhileBusy, OnlySleepersTimed, LimiterTypes
<1>8. ASSUME NEW d \in Callers, NEW g \in Hosts
      PROVE  pc'[d] \in {"lock", "sleep"} /\ host'[d] = g <=> Waits(lock'[g], d)
  <2>1. pc[d] \in {"lock", "sleep"} /\ host[d] = g <=> Waits(lock[g], d)
    BY DEF LimiterInv, QueueIsTheirs
  <2>2. Waits(lock'[g], d) <=> (d = c /\ g = h) \/ Waits(lock[g], d)
    BY <1>2, <1>3
  <2>3. CASE d = c
    BY <1>4, <2>1, <2>2, <2>3
  <2>4. CASE d # c
    BY <1>5, <2>1, <2>2, <2>4
  <2> QED BY <2>3, <2>4
<1>9. NoOneTwice'
  BY <1>2, <1>3 DEF LimiterInv, NoOneTwice
<1>10. ASSUME NEW d \in Callers, pc'[d] = "sleep" PROVE Head(lock'[host'[d]]) = d
  <2>1. d # c /\ pc[d] = "sleep" /\ host'[d] = host[d] /\ host[d] \in Hosts
    BY <1>4, <1>5, <1>10 DEF LimiterInv, LimiterTypes, HostWhileBusy
  <2>2. Waits(lock[host[d]], d) /\ Head(lock[host[d]]) = d
    BY <2>1 DEF LimiterInv, QueueIsTheirs, SleeperIsFirst
  <2> QED BY <1>2, <1>3, <2>1, <2>2
<1>11. SleeperIsFirst'
  BY <1>10 DEF SleeperIsFirst
<1>12. SleepCovers' /\ LastIsTrue'
  BY <1>4, <1>5 DEF LimiterInv, SleepCovers, LastIsTrue
<1> QED BY <1>6, <1>7, <1>8, <1>9, <1>11, <1>12 DEF LimiterInv, QueueIsTheirs

(* A fetch that is let through leaves the queue; nobody else was asleep    *)
(* there, so that the new time of the last fetch makes no sleep too short. *)
LEMMA LetThroughKeeps ==
    ASSUME LimiterInv, NEW c \in Callers, pc[c] \in {"lock", "sleep"}, HasLock(c),
           timer[c] = 0, LetThrough(c), UNCHANGED <<host, interval, timer, hops>>
    PROVE  LimiterInv'
<1> USE PoliteAssumption
<1> DEFINE h == host[c]
<1>1. LimiterTypes /\ h \in Hosts /\ Waits(lock[h], c) /\ Head(lock[h]) = c
      /\ Once(lock[h]) /\ lock[h] \in Seq(Callers)
  BY DEF LimiterInv, LimiterTypes, HostWhileBusy, QueueIsTheirs, NoOneTwice, HasLock
<1>2. /\ lock'[h] \in Seq(Callers) /\ Once(lock'[h])
      /\ \A d : Waits(lock'[h], d) <=> d # c /\ Waits(lock[h], d)
  <2>1. lock'[h] = Tail(lock[h])
    BY <1>1 DEF LetThrough, Release, LimiterTypes
  <2> QED BY <1>1, <2>1, LeaveQueue
<1>3. \A g \in Hosts : g # h => lock'[g] = lock[g] /\ last'[g] = last[g]
  BY <1>1 DEF LetThrough, LimiterTypes
<1>4. pc'[c] = "get" /\ \A d \in Callers : d # c => pc'[d] = pc[d]
  BY <1>1 DEF LetThrough, LimiterTypes
<1>5. \A d \in Callers : d # c /\ pc[d] = "sleep" => host[d] # h /\ host[d] \in Hosts
  BY <1>1 DEF LimiterInv, LimiterTypes, SleeperIsFirst, HostWhileBusy
<1>6. LimiterTypes'
  BY <1>1, <1>2 DEF LetThrough, LimiterTypes
<1>7. HostWhileBusy' /\ OnlySleepersTimed'
  BY <1>1, <1>4 DEF LimiterInv, HostWhileBusy, OnlySleepersTimed, LimiterTypes
<1>8. QueueIsTheirs'
  BY <1>1, <1>2, <1>3, <1>4 DEF LimiterInv, QueueIsTheirs
<1>9. NoOneTwice'
  BY <1>2, <1>3 DEF LimiterInv, NoOneTwice
<1>10. SleeperIsFirst' /\ SleepCovers'
  BY <1>3, <1>4, <1>5 DEF LimiterInv, SleeperIsFirst, SleepCovers
<1>11. LastIsTrue'
  BY DEF LimiterInv, LastIsTrue, LetThrough
<1> QED BY <1>6, <1>7, <1>8, <1>9, <1>10, <1>11 DEF LimiterInv

(* A fetch that moves between states outside the queue disturbs nothing.   *)
LEMMA OutsideKeeps ==
    ASSUME LimiterInv, NEW c \in Callers, NEW to \in {"idle", "check", "load", "get"},
           NEW h \in Hosts \cup {NoHost}, to = "idle" <=> h = NoHost,
           pc[c] \notin {"lock", "sleep"},
           pc' = [pc EXCEPT ![c] = to], host' = [host EXCEPT ![c] = h],
           interval' \in [Callers -> Delays], hops' \in [Callers -> 0..MaxRedirects],
           \A d \in Callers : d # c => interval'[d] = interval[d],
           UNCHANGED <<last, since, lock, timer>>
    PROVE  LimiterInv'
<1> USE PoliteAssumption
<1>1. LimiterTypes /\ pc'[c] = to /\ host'[c] = h
  BY DEF LimiterInv, LimiterTypes
<1>2. \A d \in Callers : d # c => pc'[d] = pc[d] /\ host'[d] = host[d]
  BY <1>1 DEF LimiterTypes
<1>3. LimiterTypes'
  BY <1>1 DEF LimiterTypes
<1>4. HostWhileBusy' /\ OnlySleepersTimed'
  BY <1>1, <1>2 DEF LimiterInv, LimiterTypes, HostWhileBusy, OnlySleepersTimed
<1>5. SleeperIsFirst' /\ SleepCovers'
  BY <1>1, <1>2 DEF LimiterInv, SleeperIsFirst, SleepCovers
<1>6. QueueIsTheirs'
  <2>1. \A g \in Hosts : ~Waits(lock[g], c)
    BY DEF LimiterInv, QueueIsTheirs
  <2> QED BY <1>1, <1>2, <2>1 DEF LimiterInv, QueueIsTheirs
<1>7. NoOneTwice' /\ LastIsTrue'
  BY DEF LimiterInv, NoOneTwice, LastIsTrue
<1> QED BY <1>3, <1>4, <1>5, <1>6, <1>7 DEF LimiterInv

(* A fetch that ends, outside the queue, leaves nothing behind.            *)
LEMMA FinishKeeps ==
    ASSUME LimiterInv, NEW c \in Callers, pc[c] \notin {"lock", "sleep"}, Finish(c),
           UNCHANGED <<last, since, lock>>
    PROVE  LimiterInv'
<1> USE PoliteAssumption
<1>1. LimiterTypes
  BY DEF LimiterInv
<1>2. /\ pc' = [pc EXCEPT ![c] = "idle"] /\ host' = [host EXCEPT ![c] = NoHost]
      /\ UNCHANGED timer
  BY DEF Finish
<1>3. /\ interval' \in [Callers -> Delays] /\ hops' \in [Callers -> 0..MaxRedirects]
      /\ \A d \in Callers : d # c => interval'[d] = interval[d]
  BY <1>1 DEF Finish, LimiterTypes, Delays
<1>4. "idle" \in {"idle", "check", "load", "get"} /\ NoHost \in Hosts \cup {NoHost}
      /\ ("idle" = "idle" <=> NoHost = NoHost)
  OBVIOUS
<1> QED BY <1>2, <1>3, <1>4, OutsideKeeps

(* The robots check refuses a fetch or lets it go on to the lock.          *)
LEMMA DecideKeeps ==
    ASSUME LimiterInv, NEW c \in Callers, NEW rule, pc[c] \in {"check", "load"},
           Decide(c, rule), UNCHANGED <<last, since>>
    PROVE  LimiterInv'
<1> USE PoliteAssumption
<1>1. LimiterTypes /\ host[c] \in Hosts
  BY DEF LimiterInv, LimiterTypes, HostWhileBusy
<1>2. CASE Finish(c) /\ UNCHANGED lock
  BY <1>2, FinishKeeps
<1>3. CASE /\ Acquire(c, host[c], IF rule = "delay" THEN CrawlDelay ELSE MinInterval)
           /\ UNCHANGED <<host, timer, hops>>
  <2>1. host' = [host EXCEPT ![c] = host[c]]
    BY <1>1, <1>3 DEF LimiterTypes
  <2> QED BY <1>1, <1>3, <2>1, AcquireKeeps DEF Delays
<1> QED BY <1>2, <1>3 DEF Decide

(* Time takes from a timer what it adds to the time since the last fetch.  *)
LEMMA TickKeepsLimiter ==
    ASSUME LimiterInv, Tick
    PROVE  LimiterInv'
<1> USE PoliteAssumption
<1>1. LimiterTypes
  BY DEF LimiterInv
<1>2. /\ \A h \in Hosts : /\ last[h] \in 0..CrawlDelay /\ last'[h] \in 0..CrawlDelay
                          /\ last'[h] >= last[h]
                          /\ last'[h] >= last[h] + 1 \/ last'[h] = CrawlDelay
      /\ last' \in [Hosts -> 0..CrawlDelay]
  BY <1>1 DEF Tick, Older, LimiterTypes
<1>3. \A c \in Callers : /\ timer[c] \in 0..CrawlDelay /\ timer'[c] \in 0..CrawlDelay
                         /\ timer'[c] = IF timer[c] > 0 THEN timer[c] - 1 ELSE 0
  BY <1>1 DEF Tick, LimiterTypes
<1>4. LastIsTrue'
  BY <1>1 DEF LimiterInv, LastIsTrue, LimiterTypes, Tick
<1>5. LimiterTypes'
  BY <1>1, <1>2, <1>3, <1>4 DEF Tick, LimiterTypes, LastIsTrue
<1>6. HostWhileBusy' /\ SleeperIsFirst' /\ QueueIsTheirs' /\ NoOneTwice'
  BY DEF LimiterInv, Tick, HostWhileBusy, SleeperIsFirst, QueueIsTheirs, NoOneTwice
<1>7. OnlySleepersTimed'
  BY <1>3 DEF LimiterInv, Tick, OnlySleepersTimed
<1>8. ASSUME NEW c \in Callers, pc'[c] = "sleep"
      PROVE  last'[host'[c]] + timer'[c] >= interval'[c]
  <2> DEFINE h == host[c]
  <2>1. /\ pc[c] = "sleep" /\ h \in Hosts /\ host'[c] = h
        /\ interval'[c] = interval[c] /\ interval[c] \in Nat /\ interval[c] <= CrawlDelay
    <3>1. UNCHANGED <<pc, host, interval>>
      BY DEF Tick
    <3>2. pc[c] = "sleep" /\ h \in Hosts
      BY <1>1, <1>8, <3>1 DEF LimiterInv, LimiterTypes, HostWhileBusy
    <3>3. interval[c] \in Nat /\ interval[c] <= CrawlDelay
      BY <1>1, DelaysAreShort DEF LimiterTypes
    <3> QED BY <3>1, <3>2, <3>3
  <2>2. last[h] + timer[c] >= interval[c]
    BY <2>1 DEF LimiterInv, SleepCovers
  <2>3. CASE last'[h] = CrawlDelay
    BY <1>3, <2>1, <2>3
  <2>4. CASE last'[h] >= last[h] + 1
    BY <1>2, <1>3, <2>1, <2>2, <2>4
  <2> QED BY <1>2, <2>1, <2>3, <2>4
<1>9. SleepCovers'
  BY <1>8 DEF SleepCovers
<1> QED BY <1>4, <1>5, <1>6, <1>7, <1>9 DEF LimiterInv

(* The lock's holder goes to sleep for what is left of its interval.       *)
LEMMA SleepKeeps ==
    ASSUME LimiterInv, NEW c \in Callers, pc[c] = "lock", HasLock(c),
           last[host[c]] < Wait(c),
           pc' = [pc EXCEPT ![c] = "sleep"],
           timer' = [timer EXCEPT ![c] = Wait(c) - last[host[c]]],
           UNCHANGED <<lock, last, since, host, interval, hops>>
    PROVE  LimiterInv'
<1> USE PoliteAssumption
<1>1. /\ LimiterTypes /\ host[c] \in Hosts /\ last[host[c]] \in Nat
      /\ interval[c] \in Nat /\ interval[c] <= CrawlDelay
  BY DEF LimiterInv, LimiterTypes, HostWhileBusy, Delays
<1>2. /\ pc'[c] = "sleep" /\ timer'[c] = interval[c] - last[host[c]]
      /\ timer'[c] \in 0..CrawlDelay
  BY <1>1 DEF LimiterTypes, Wait
<1>3. \A d \in Callers : d # c => pc'[d] = pc[d] /\ timer'[d] = timer[d]
  BY <1>1 DEF LimiterTypes
<1>4. LimiterTypes'
  BY <1>1, <1>2 DEF LimiterTypes
<1>5. HostWhileBusy' /\ OnlySleepersTimed' /\ QueueIsTheirs'
  BY <1>2, <1>3 DEF LimiterInv, HostWhileBusy, OnlySleepersTimed, QueueIsTheirs
<1>6. SleeperIsFirst'
  BY <1>3 DEF LimiterInv, SleeperIsFirst, HasLock
<1>7. SleepCovers'
  BY <1>1, <1>2, <1>3 DEF LimiterInv, SleepCovers
<1>8. NoOneTwice' /\ LastIsTrue'
  BY DEF LimiterInv, NoOneTwice, LastIsTrue
<1> QED BY <1>4, <1>5, <1>6, <1>7, <1>8 DEF LimiterInv

(* Every step keeps the limiter's invariant.                               *)
LEMMA LimiterNext == LimiterInv /\ [Next]_vars => LimiterInv'
<1> SUFFICES ASSUME LimiterInv, [Next]_vars PROVE LimiterInv'
  OBVIOUS
<1> USE PoliteAssumption
<1>1. LimiterTypes
  BY DEF LimiterInv
<1>2. ASSUME NEW c \in Callers, Check(c) PROVE LimiterInv'
  <2>1. pc[c] = "check" /\ host[c] \in Hosts
    BY <1>1, <1>2 DEF Check, LimiterInv, LimiterTypes, HostWhileBusy
  <2>2. CASE Decide(c, entry[host[c]].rule)
    BY <1>2, <2>1, <2>2, DecideKeeps DEF Check
  <2>3. CASE pc' = [pc EXCEPT ![c] = "load"] /\ UNCHANGED <<lock, host, interval, timer, hops>>
    <3>1. host' = [host EXCEPT ![c] = host[c]] /\ host[c] # NoHost
      BY <1>1, <2>1, <2>3 DEF LimiterTypes
    <3> QED BY <1>1, <1>2, <2>1, <2>3, <3>1, OutsideKeeps DEF Check, LimiterTypes
  <2> QED BY <1>2, <2>2, <2>3 DEF Check
<1>3. ASSUME NEW c \in Callers, Load(c) PROVE LimiterInv'
  BY <1>3, DecideKeeps DEF Load
<1>4. ASSUME NEW c \in Callers, Enter(c) PROVE LimiterInv'
  <2>1. timer[c] = 0
    <3>1. pc[c] = "lock"
      BY <1>4 DEF Enter
    <3>2. timer[c] \in 0..CrawlDelay
      BY <1>1 DEF LimiterTypes
    <3> QED BY <3>1, <3>2 DEF LimiterInv, OnlySleepersTimed
  <2>2. CASE last[host[c]] < Wait(c)
    <3>1. host[c] \in Hosts /\ last[host[c]] \in Nat /\ Wait(c) \in Nat
      <4>1. pc[c] = "lock" /\ host[c] \in Hosts
        BY <1>1, <1>4 DEF Enter, LimiterInv, LimiterTypes, HostWhileBusy
      <4>2. last[host[c]] \in Nat
        BY <1>1, <4>1 DEF LimiterTypes
      <4>3. Wait(c) \in Nat
        BY <1>1, DelaysAreShort DEF LimiterTypes, Wait
      <4> QED BY <4>1, <4>2, <4>3
    <3>2. ~(last[host[c]] >= Wait(c))
      BY <2>2, <3>1
    <3> QED BY <1>4, <2>2, <3>2, SleepKeeps DEF Enter
  <2>3. CASE last[host[c]] >= Wait(c) /\ LetThrough(c) /\ UNCHANGED timer
    BY <1>4, <2>1, <2>3, LetThroughKeeps DEF Enter
  <2>4. QED
    BY <1>4, <2>2, <2>3 DEF Enter
<1>5. ASSUME NEW c \in Callers, Wake(c) PROVE LimiterInv'
  BY <1>5, LetThroughKeeps DEF Wake, HasLock, LimiterInv, SleeperIsFirst
<1>6. ASSUME NEW c \in Callers, Get(c) PROVE LimiterInv'
  <2>1. pc[c] = "get" /\ host[c] \in Hosts /\ hops[c] \in 0..MaxRedirects
    BY <1>1, <1>6 DEF Get, LimiterInv, LimiterTypes, HostWhileBusy
  <2>2. CASE Finish(c)
    BY <1>6, <2>1, <2>2, FinishKeeps DEF Get
  <2>3. CASE /\ Hop(hops[c]) <= MaxRedirects
             /\ hops' = [hops EXCEPT ![c] = Hop(@)]
             /\ UNCHANGED <<pc, host, interval, timer>>
    <3>1. /\ pc' = [pc EXCEPT ![c] = "get"] /\ host' = [host EXCEPT ![c] = host[c]]
          /\ host[c] # NoHost /\ hops' \in [Callers -> 0..MaxRedirects]
      BY <1>1, <2>1, <2>3 DEF LimiterTypes, Hop
    <3> QED BY <1>1, <1>6, <2>1, <2>3, <3>1, OutsideKeeps DEF Get, LimiterTypes
  <2> QED BY <1>6, <2>2, <2>3 DEF Get
<1>7. ASSUME NEW c \in Callers, NEW h \in Hosts, FetchApi(c, h) PROVE LimiterInv'
  BY <1>7, AcquireKeeps DEF FetchApi, Delays
<1>8. ASSUME NEW c \in Callers, NEW h \in Hosts, FetchPage(c, h) PROVE LimiterInv'
  BY <1>1, <1>8, OutsideKeeps DEF FetchPage, LimiterTypes
<1>9. ASSUME NEW h \in Hosts, NEW policy \in Policies, Publish(h, policy) PROVE LimiterInv'
  BY <1>9 DEF Publish, callVars, LimiterInv, LimiterTypes, HostWhileBusy, OnlySleepersTimed,
              SleeperIsFirst, QueueIsTheirs, NoOneTwice, SleepCovers, LastIsTrue
<1>10. ASSUME UNCHANGED vars PROVE LimiterInv'
  BY <1>10 DEF vars, LimiterInv, LimiterTypes, HostWhileBusy, OnlySleepersTimed,
               SleeperIsFirst, QueueIsTheirs, NoOneTwice, SleepCovers, LastIsTrue
<1> QED BY <1>2, <1>3, <1>4, <1>5, <1>6, <1>7, <1>8, <1>9, <1>10, TickKeepsLimiter DEF Next, CallStep

-----------------------------------------------------------------------------
(* The cache.                                                              *)

(* Nothing is cached yet.                                                  *)
LEMMA RobotsInit == Init => RobotsInv
  BY PoliteAssumption DEF Init, RobotsInv, RobotsTypes, EntryIsCurrent

LEMMA TickKeepsRobots ==
    ASSUME RobotsInv, Tick
    PROVE  RobotsInv'
<1> USE PoliteAssumption
<1>1. RobotsTypes /\ UNCHANGED site
  BY DEF RobotsInv, Tick
<1>2. ASSUME NEW h \in Hosts
      PROVE  /\ changed'[h] = Older(changed[h], Ttl + 1)
             /\ changed[h] \in 0..(Ttl + 1) /\ changed'[h] \in 0..(Ttl + 1)
  BY <1>1 DEF Tick, Older, RobotsTypes
<1>3. ASSUME NEW h \in Hosts, entry[h] # NoEntry
      PROVE  /\ entry'[h] \in [rule : Rules, age : 0..(Ttl + 1)]
             /\ entry'[h].rule = entry[h].rule
             /\ entry[h].age \in 0..(Ttl + 1)
             /\ entry'[h].age = Older(entry[h].age, Ttl + 1)
  <2>1. entry[h] \in [rule : Rules, age : 0..(Ttl + 1)]
    BY <1>1, <1>3 DEF RobotsTypes
  <2>2. entry'[h] = [entry[h] EXCEPT !.age = Older(@, Ttl + 1)]
    BY <1>3 DEF Tick
  <2>3. Older(entry[h].age, Ttl + 1) \in 0..(Ttl + 1)
    BY <2>1 DEF Older
  <2> QED BY <2>1, <2>2, <2>3
<1>4. RobotsTypes'
  <2>1. changed' \in [Hosts -> 0..(Ttl + 1)]
    BY <1>1, <1>2 DEF Tick, RobotsTypes
  <2>2. \A h \in Hosts : entry[h] = NoEntry => entry'[h] = NoEntry
    BY DEF Tick
  <2>3. entry' \in [Hosts -> [rule : Rules, age : 0..(Ttl + 1)] \cup {NoEntry}]
    <3>1. \A h \in Hosts : entry'[h] \in [rule : Rules, age : 0..(Ttl + 1)] \cup {NoEntry}
      BY <1>3, <2>2
    <3>2. entry' = [h \in Hosts |-> entry'[h]]
      BY DEF Tick
    <3> QED BY <3>1, <3>2
  <2> QED BY <1>1, <2>1, <2>3 DEF RobotsTypes
<1>5. ASSUME NEW h \in Hosts, entry'[h] # NoEntry, entry'[h].rule # "unknown",
             changed'[h] > entry'[h].age
      PROVE  entry'[h].rule = "disallow" <=> site'[h] = "disallow"
  <2>1. entry[h] # NoEntry
    BY <1>5 DEF Tick
  <2>2. changed[h] > entry[h].age
    BY <1>2, <1>3, <1>5, <2>1 DEF Older
  <2> QED BY <1>1, <1>3, <1>5, <2>1, <2>2 DEF RobotsInv, EntryIsCurrent
<1> QED BY <1>4, <1>5 DEF RobotsInv, EntryIsCurrent

(* An answer of robots.txt is kept with age 0, and says what the site says.*)
LEMMA LoadKeepsRobots ==
    ASSUME RobotsInv, NEW c \in Callers, Load(c)
    PROVE  RobotsInv'
<1> USE PoliteAssumption
<1>1. RobotsTypes /\ UNCHANGED <<site, changed>>
  BY DEF RobotsInv, Load
<1>2. PICK rule \in {site[host[c]], "unknown"} :
          entry' = [entry EXCEPT ![host[c]] = [rule |-> rule, age |-> 0]]
  BY DEF Load
<1>3. \A h \in Hosts : h # host[c] => entry'[h] = entry[h]
  BY <1>1, <1>2 DEF RobotsTypes
<1>4. ASSUME host[c] \in Hosts
      PROVE  /\ entry'[host[c]] = [rule |-> rule, age |-> 0] /\ rule \in Rules
             /\ rule = "unknown" \/ rule = site[host[c]]
  BY <1>1, <1>2, <1>4 DEF RobotsTypes, Rules
<1>5. RobotsTypes'
  <2>1. \A h \in Hosts : entry'[h] \in [rule : Rules, age : 0..(Ttl + 1)] \cup {NoEntry}
    <3>1. 0 \in 0..(Ttl + 1)
      OBVIOUS
    <3>2. host[c] \in Hosts => entry'[host[c]] \in [rule : Rules, age : 0..(Ttl + 1)]
      BY <1>4, <3>1
    <3> QED BY <1>1, <1>3, <3>2 DEF RobotsTypes
  <2>2. entry' = [h \in Hosts |-> entry'[h]]
    BY <1>1, <1>2 DEF RobotsTypes
  <2> QED BY <1>1, <2>1, <2>2 DEF RobotsTypes
<1>6. EntryIsCurrent'
  BY <1>1, <1>3, <1>4 DEF RobotsInv, EntryIsCurrent
<1> QED BY <1>5, <1>6 DEF RobotsInv

(* A site that changes its mind about us makes what is cached out of date. *)
LEMMA PublishKeepsRobots ==
    ASSUME RobotsInv, NEW h \in Hosts, NEW policy \in Policies, Publish(h, policy)
    PROVE  RobotsInv'
<1> USE PoliteAssumption
<1>1. RobotsTypes /\ UNCHANGED entry
  BY DEF RobotsInv, Publish
<1>2. RobotsTypes'
  BY <1>1 DEF Publish, RobotsTypes
<1>3. ASSUME NEW g \in Hosts, entry'[g] # NoEntry, entry'[g].rule # "unknown",
             changed'[g] > entry'[g].age
      PROVE  entry'[g].rule = "disallow" <=> site'[g] = "disallow"
  <2>1. entry[g] \in [rule : Rules, age : 0..(Ttl + 1)] /\ entry[g].age \in 0..(Ttl + 1)
    BY <1>1, <1>3 DEF RobotsTypes
  <2>2. changed'[g] = changed[g] /\ (site'[g] = "disallow" <=> site[g] = "disallow")
    BY <1>1, <1>3, <2>1 DEF Publish, RobotsTypes
  <2> QED BY <1>1, <1>3, <2>2 DEF RobotsInv, EntryIsCurrent
<1> QED BY <1>2, <1>3 DEF RobotsInv, EntryIsCurrent

(* Every step keeps the cache's invariant.                                 *)
LEMMA RobotsNext == RobotsInv /\ [Next]_vars => RobotsInv'
<1> SUFFICES ASSUME RobotsInv, [Next]_vars PROVE RobotsInv'
  OBVIOUS
<1>1. CASE UNCHANGED <<site, entry, changed>>
  BY <1>1 DEF RobotsInv, RobotsTypes, EntryIsCurrent
<1>2. ASSUME NEW c \in Callers, CallStep(c), ~Load(c) PROVE UNCHANGED <<site, entry, changed>>
  BY <1>2 DEF CallStep, Check, Enter, Wake, Get
<1>3. ASSUME NEW c \in Callers, NEW h \in Hosts, FetchApi(c, h) \/ FetchPage(c, h)
      PROVE  UNCHANGED <<site, entry, changed>>
  BY <1>3 DEF FetchApi, FetchPage
<1>4. UNCHANGED vars => UNCHANGED <<site, entry, changed>>
  BY DEF vars
<1> QED BY <1>1, <1>2, <1>3, <1>4, TickKeepsRobots, LoadKeepsRobots, PublishKeepsRobots DEF Next

-----------------------------------------------------------------------------
(* Every variable has its type, whoever holds or waits for a lock is busy  *)
(* with that host, and a sleeper holds the lock (ratelimit.py:30-41).      *)
THEOREM PoliteTypeCorrect == Spec => []TypeOK
<1>1. LimiterInv /\ RobotsInv => TypeOK
  BY DEF LimiterInv, LimiterTypes, HostWhileBusy, OnlySleepersTimed, SleeperIsFirst, QueueIsTheirs,
         Waits, Delays, RobotsInv, RobotsTypes, TypeOK
<1> QED BY <1>1, LimiterInit, LimiterNext, RobotsInit, RobotsNext, PTL DEF Spec

(* Only Enter and Wake let a fetch through: the one when the last fetch is *)
(* long enough ago, the other when its sleep has made up for the rest.     *)
LEMMA ThroughIsSpaced ==
    ASSUME LimiterInv, Next, NEW c \in Callers, pc'[c] = "get", pc[c] # "get"
    PROVE  since[host[c]] >= interval[c]
<1> USE PoliteAssumption
<1>1. LimiterTypes /\ since = last
  BY DEF LimiterInv, LastIsTrue
<1>2. Enter(c) \/ Wake(c)
  <2>1. ASSUME NEW d \in Callers, CallStep(d) PROVE d = c /\ (Enter(c) \/ Wake(c))
    <3>1. CASE Check(d)
      BY <1>1, <2>1, <3>1 DEF Check, Decide, Finish, Acquire, LimiterTypes
    <3>2. CASE Load(d)
      BY <1>1, <2>1, <3>2 DEF Load, Decide, Finish, Acquire, LimiterTypes
    <3>3. CASE Enter(d) \/ Wake(d)
      BY <1>1, <2>1, <3>3 DEF Enter, Wake, LetThrough, LimiterTypes
    <3>4. CASE Get(d)
      BY <1>1, <2>1, <3>4 DEF Get, Finish, LimiterTypes
    <3> QED BY <2>1, <3>1, <3>2, <3>3, <3>4 DEF CallStep
  <2>2. ASSUME NEW d \in Callers, NEW h \in Hosts, FetchApi(d, h) \/ FetchPage(d, h) PROVE FALSE
    BY <1>1, <2>2 DEF FetchApi, FetchPage, Acquire, LimiterTypes
  <2>3. ~Tick /\ \A h \in Hosts, policy \in Policies : ~Publish(h, policy)
    BY DEF Tick, Publish, callVars
  <2> QED BY <2>1, <2>2, <2>3 DEF Next
<1>3. CASE Enter(c)
  <2>1. pc'[c] # "sleep"
    OBVIOUS
  <2>2. last[host[c]] >= interval[c]
    BY <1>1, <1>3, <2>1 DEF Enter, Wait, LimiterTypes
  <2> QED BY <1>1, <2>2
<1>4. CASE Wake(c)
  <2>1. pc[c] = "sleep" /\ timer[c] = 0 /\ host[c] \in Hosts /\ last[host[c]] \in Nat
    BY <1>1, <1>4 DEF Wake, LimiterInv, LimiterTypes, HostWhileBusy
  <2>2. last[host[c]] + 0 >= interval[c]
    BY <2>1 DEF LimiterInv, SleepCovers
  <2> QED BY <1>1, <2>1, <2>2
<1> QED BY <1>2, <1>3, <1>4

(* Fetches of one host are let through at least the default interval and   *)
(* the later one's Crawl-delay apart (ratelimit.py:32-41).                 *)
THEOREM FetchesKeptApart == Spec => FetchesAreSpaced
<1> DEFINE Spaced == \A c \in Callers : pc'[c] = "get" /\ pc[c] # "get" =>
                         since[host[c]] >= interval[c]
<1>1. LimiterInv /\ [Next]_vars => [Spaced]_vars
  BY ThroughIsSpaced
<1> QED BY <1>1, LimiterInit, LimiterNext, PTL DEF Spec, FetchesAreSpaced

(* A fetch leaves the robots check as the rule it found says.              *)
LEMMA RuleIsFollowed ==
    ASSUME LimiterInv, RobotsInv, Next, NEW c \in Callers, pc[c] \in {"check", "load"},
           pc'[c] # pc[c], pc'[c] # "load"
    PROVE  \/ /\ Fresh(entry[host[c]]) /\ UNCHANGED entry
              /\ Decide(c, entry[host[c]].rule)
           \/ \E rule \in {site[host[c]], "unknown"} :
                 /\ entry' = [entry EXCEPT ![host[c]] = [rule |-> rule, age |-> 0]]
                 /\ Decide(c, rule)
<1>1. LimiterTypes
  BY DEF LimiterInv
<1>2. Check(c) \/ Load(c)
  <2>1. ASSUME NEW d \in Callers, CallStep(d) PROVE d = c /\ (Check(c) \/ Load(c))
    <3>1. CASE Check(d) \/ Load(d)
      BY <1>1, <3>1 DEF Check, Load, Decide, Finish, Acquire, LimiterTypes
    <3>2. CASE Enter(d) \/ Wake(d)
      BY <1>1, <3>2 DEF Enter, Wake, LetThrough, LimiterTypes
    <3>3. CASE Get(d)
      BY <1>1, <3>3 DEF Get, Finish, LimiterTypes
    <3> QED BY <2>1, <3>1, <3>2, <3>3 DEF CallStep
  <2>2. ASSUME NEW d \in Callers, NEW h \in Hosts, FetchApi(d, h) \/ FetchPage(d, h) PROVE FALSE
    BY <1>1, <2>2 DEF FetchApi, FetchPage, Acquire, LimiterTypes
  <2>3. ~Tick /\ \A h \in Hosts, policy \in Policies : ~Publish(h, policy)
    BY DEF Tick, Publish, callVars
  <2> QED BY <2>1, <2>2, <2>3 DEF Next
<1>3. CASE Check(c)
  <2>1. ~(pc' = [pc EXCEPT ![c] = "load"])
    BY <1>1 DEF LimiterTypes
  <2> QED BY <1>3, <2>1 DEF Check
<1>4. CASE Load(c)
  BY <1>4 DEF Load
<1> QED BY <1>2, <1>3, <1>4

(* What the site has disallowed, or allowed, for longer than the cache     *)
(* lives is refused, or let pass, unless robots.txt could not be read;     *)
(* whoever else loads it meanwhile (robots.py:52-88).                      *)
THEOREM RobotsObeyed == Spec => RobotsAreObeyed
<1> USE PoliteAssumption
<1> DEFINE Obeyed ==
        \A c \in Callers :
            pc[c] \in {"check", "load"} /\ pc'[c] # pc[c] /\ changed[host[c]] > Ttl =>
                /\ pc'[c] = "lock" =>
                      site[host[c]] # "disallow" \/ entry'[host[c]].rule = "unknown"
                /\ pc'[c] = "idle" => site[host[c]] = "disallow"
<1>1. ASSUME LimiterInv, RobotsInv, Next, NEW c \in Callers, pc[c] \in {"check", "load"},
             pc'[c] # pc[c], changed[host[c]] > Ttl
      PROVE  /\ pc'[c] = "lock" =>
                   site[host[c]] # "disallow" \/ entry'[host[c]].rule = "unknown"
             /\ pc'[c] = "idle" => site[host[c]] = "disallow"
  <2> DEFINE h == host[c]
  <2>1. h \in Hosts /\ LimiterTypes /\ RobotsTypes
    BY <1>1 DEF LimiterInv, LimiterTypes, HostWhileBusy, RobotsInv
  <2>2. CASE pc'[c] = "load"
    BY <2>2
  <2>3. ASSUME NEW rule, Decide(c, rule)
        PROVE  (pc'[c] = "lock" => rule # "disallow") /\ (pc'[c] = "idle" => rule = "disallow")
    BY <2>1, <2>3 DEF Decide, Refused, Finish, Acquire, LimiterTypes
  <2>4. CASE Fresh(entry[h]) /\ UNCHANGED entry /\ Decide(c, entry[h].rule)
    <3>1. entry[h] # NoEntry /\ entry[h].age <= Ttl
      BY <2>4 DEF Fresh
    <3>2. entry[h].age \in 0..(Ttl + 1) /\ changed[h] \in 0..(Ttl + 1)
      BY <2>1, <3>1 DEF RobotsTypes
    <3>3. changed[h] > entry[h].age
      BY <1>1, <3>1, <3>2
    <3>4. entry[h].rule # "unknown" => (entry[h].rule = "disallow" <=> site[h] = "disallow")
      BY <1>1, <2>1, <3>1, <3>3 DEF RobotsInv, EntryIsCurrent
    <3>5. (pc'[c] = "lock" => entry[h].rule # "disallow")
          /\ (pc'[c] = "idle" => entry[h].rule = "disallow")
      BY <2>3, <2>4
    <3> QED BY <2>4, <3>4, <3>5
  <2>5. CASE \E rule \in {site[h], "unknown"} :
                /\ entry' = [entry EXCEPT ![h] = [rule |-> rule, age |-> 0]]
                /\ Decide(c, rule)
    <3>1. PICK rule \in {site[h], "unknown"} :
                /\ entry' = [entry EXCEPT ![h] = [rule |-> rule, age |-> 0]]
                /\ Decide(c, rule)
      BY <2>5
    <3>2. entry'[h].rule = rule
      BY <2>1, <3>1 DEF RobotsTypes
    <3> QED BY <2>3, <3>1, <3>2
  <2> QED BY <1>1, <2>2, <2>4, <2>5, RuleIsFollowed
<1>2. LimiterInv /\ RobotsInv /\ [Next]_vars => [Obeyed]_vars
  BY <1>1
<1> QED BY <1>2, LimiterInit, LimiterNext, RobotsInit, RobotsNext, PTL DEF Spec, RobotsAreObeyed

-----------------------------------------------------------------------------
(* The other parts of MCParts, as ScreeningProofs has them.                *)

S == INSTANCE ScreeningProofs WITH
    source <- s1, site <- s2, prefs <- s3, rows <- s4, run <- s5,
    Generic <- {"senior"}, OffFamily <- {"sales"}, Short <- {}, Stem <- MCStem,
    TitleMode <- "loose", Sources <- MCSources, Sites <- MCSites, Meaning <- MCMeaning,
    Preferences <- {Nothing, [types |-> {FullTime}, roles |-> {{"backend", "engineer"}},
                              places |-> {}, remote |-> TRUE]},
    Scores <- {<<8, 5>>, <<2, 0>>, <<8, 5, 1, 0, 0>>}, Threshold <- 30,
    row <- s1, pc <- s2, body <- s3, read <- s4, raced <- s5,
    Requests <- Callers, Salaries <- {1, 2},
    clock <- s1, count <- s2, hit <- s3, passed <- s4,
    Keys <- {"ip"}, Limit <- 2, Window <- 2, Patience <- 2, MaxTime <- 5

(* ScreeningProofs has instances of its own; written out they say the same *)
(* of the slots.  HourlyLimit:                                             *)
LEMMA LimiterAlike ==
    /\ Limiter!LimitAssumption => S!Limiter!LimitAssumption
    /\ Limiter!Init => S!Limiter!Init
    /\ Limiter!Next => S!Limiter!Next
    /\ S!Limiter!TypeOK => Limiter!TypeOK
    /\ S!Limiter!LimitHolds => Limiter!LimitHolds
<1> USE DEF Limiter!LimitAssumption, S!Limiter!LimitAssumption, Limiter!vars, S!Limiter!vars,
            Limiter!Absent, S!Limiter!Absent, Limiter!Idle, S!Limiter!Idle, Limiter!Times,
            S!Limiter!Times, Limiter!WindowStart, S!Limiter!WindowStart, Limiter!ExpiresAt,
            S!Limiter!ExpiresAt, Limiter!Starts, S!Limiter!Starts, Limiter!TypeOK,
            S!Limiter!TypeOK, Limiter!Init, S!Limiter!Init, Limiter!Hit, S!Limiter!Hit,
            Limiter!Item, S!Limiter!Item, Limiter!Added, S!Limiter!Added, Limiter!Count,
            S!Limiter!Count, Limiter!Fail, S!Limiter!Fail, Limiter!TtlDelete,
            S!Limiter!TtlDelete, Limiter!Tick, S!Limiter!Tick, Limiter!Next, S!Limiter!Next,
            Limiter!LimitHolds, S!Limiter!LimitHolds, Limiter!Min, S!Limiter!Min
<1>1. Limiter!LimitAssumption => S!Limiter!LimitAssumption
  BY Zenon
<1>2. Limiter!Init => S!Limiter!Init
  BY Zenon
<1>3. Limiter!Next => S!Limiter!Next
  BY Zenon
<1>4. S!Limiter!TypeOK => Limiter!TypeOK
  BY Zenon
<1>5. S!Limiter!LimitHolds => Limiter!LimitHolds
  BY Zenon
<1> QED BY <1>1, <1>2, <1>3, <1>4, <1>5

(* Preferences:                                                            *)
LEMMA PreferencesAlike ==
    /\ Prefs!PreferencesAssumption => S!Prefs!PreferencesAssumption
    /\ Prefs!Init => S!Prefs!Init
    /\ Prefs!Next => S!Prefs!Next
    /\ S!Prefs!TypeOK => Prefs!TypeOK
    /\ S!Prefs!SaveIsWhole => Prefs!SaveIsWhole
<1> USE DEF Prefs!Columns, S!Prefs!Columns, Prefs!Documents, S!Prefs!Documents,
            Prefs!PreferencesAssumption, S!Prefs!PreferencesAssumption, Prefs!Ordered,
            S!Prefs!Ordered, Prefs!vars, S!Prefs!vars, Prefs!Rows, S!Prefs!Rows, Prefs!TypeOK,
            S!Prefs!TypeOK, Prefs!Init, S!Prefs!Init, Prefs!End, S!Prefs!End, Prefs!Put,
            S!Prefs!Put, Prefs!Get, S!Prefs!Get, Prefs!Dirty, S!Prefs!Dirty, Prefs!Flush,
            S!Prefs!Flush, Prefs!Written, S!Prefs!Written, Prefs!Commit, S!Prefs!Commit,
            Prefs!Rollback, S!Prefs!Rollback, Prefs!Next, S!Prefs!Next, Prefs!SaveIsWhole,
            S!Prefs!SaveIsWhole
<1>1. Prefs!PreferencesAssumption => S!Prefs!PreferencesAssumption
  BY Zenon
<1>2. Prefs!Init => S!Prefs!Init
  BY Zenon
<1>3. Prefs!Next => S!Prefs!Next
  BY Zenon
<1>4. S!Prefs!TypeOK => Prefs!TypeOK
  BY Zenon
<1>5. S!Prefs!SaveIsWhole => Prefs!SaveIsWhole
  BY Zenon
<1> QED BY <1>1, <1>2, <1>3, <1>4, <1>5

(* JobScreening:                                                           *)
LEMMA ScreeningAlike ==
    /\ Screening!ScreeningAssumption => S!ScreeningAssumption
    /\ Screening!PagesTellApart => S!PagesTellApart
    /\ Screening!FormsMeanAlike => S!FormsMeanAlike
    /\ Screening!Init => S!Init
    /\ Screening!Next => S!Next
    /\ S!TypeOK => Screening!TypeOK
    /\ S!KeptSuits => Screening!KeptSuits
    /\ S!PruningIsGrounded => Screening!PruningIsGrounded
<1> USE DEF Screening!Min, S!Min, Screening!Max, S!Max, Screening!ToSet, S!ToSet,
            Screening!FlattenSeq, S!FlattenSeq, Screening!Cardinality, S!Cardinality,
            Screening!FoldLeft, S!FoldLeft, Screening!MapThenFoldSet, S!MapThenFoldSet,
            Screening!JobBoardsAssumption, S!JobBoardsAssumption, Screening!UrlPatterns,
            S!UrlPatterns, Screening!EmbedPatterns, S!EmbedPatterns, Screening!VendorOf,
            S!VendorOf, Screening!NotABoard, S!NotABoard, Screening!BoardOf, S!BoardOf,
            Screening!Detect, S!Detect, Screening!DetectFromUrl, S!DetectFromUrl,
            Screening!DetectFromPage, S!DetectFromPage, Screening!OrElse, S!OrElse,
            Screening!RemoteOf, S!RemoteOf, Screening!Fetched, S!Fetched, Screening!Greenhouse,
            S!Greenhouse, Screening!Lever, S!Lever, Screening!Ashby, S!Ashby, Screening!TextOf,
            S!TextOf, Screening!JsonLd, S!JsonLd, Screening!Job, S!Job, Screening!Adapter,
            S!Adapter, Screening!ExtractJobPostings, S!ExtractJobPostings, Screening!Key,
            S!Key, Screening!NormSet, S!NormSet, Screening!JobTypes, S!JobTypes,
            Screening!Words, S!Words, Screening!RoleWords, S!RoleWords, Screening!TitleMatches,
            S!TitleMatches, Screening!TypeMismatch, S!TypeMismatch, Screening!OnSiteMismatch,
            S!OnSiteMismatch, Screening!TitleMismatch, S!TitleMismatch, Screening!Rejected,
            S!Rejected, Screening!Coerced, S!Coerced, Screening!Usable, S!Usable,
            Screening!vars, S!vars, Screening!SitePage, S!SitePage, Screening!Idle, S!Idle,
            Screening!Identity, S!Identity, Screening!Unchanged, S!Unchanged, Screening!Todo,
            S!Todo, Screening!TypeOK, S!TypeOK, Screening!Init, S!Init, Screening!SiteChanges,
            S!SiteChanges, Screening!PreferencesChange, S!PreferencesChange, Screening!Go,
            S!Go, Screening!End, S!End, Screening!Begin, S!Begin, Screening!Board, S!Board,
            Screening!Screen, S!Screen, Screening!CallApi, S!CallApi, Screening!CheckRobots,
            S!CheckRobots, Screening!FetchPage, S!FetchPage, Screening!ParsePage, S!ParsePage,
            Screening!Score, S!Score, Screening!ScoreRaises, S!ScoreRaises, Screening!Complete,
            S!Complete, Screening!Unscored, S!Unscored, Screening!Kept, S!Kept,
            Screening!Survivors, S!Survivors, Screening!Matches, S!Matches, Screening!RowOf,
            S!RowOf, Screening!Persist, S!Persist, Screening!Next, S!Next,
            Screening!ScreeningAssumption, S!ScreeningAssumption, Screening!Postings,
            S!Postings, Screening!Taken, S!Taken, Screening!PagesTellApart, S!PagesTellApart,
            Screening!FormsMeanAlike, S!FormsMeanAlike, Screening!PruningIsGrounded,
            S!PruningIsGrounded, Screening!KeptSuits, S!KeptSuits
<1>1. Screening!ScreeningAssumption => S!ScreeningAssumption
  BY Zenon
<1>2. Screening!PagesTellApart => S!PagesTellApart
  BY Zenon
<1>3. Screening!FormsMeanAlike => S!FormsMeanAlike
  BY Zenon
<1>4. Screening!Init => S!Init
  BY Zenon
<1>5. Screening!Next => S!Next
  BY Zenon
<1>6. S!TypeOK => Screening!TypeOK
  BY Zenon
<1>7. S!KeptSuits => Screening!KeptSuits
  BY Zenon
<1>8. S!PruningIsGrounded => Screening!PruningIsGrounded
  BY Zenon
<1> QED BY <1>1, <1>2, <1>3, <1>4, <1>5, <1>6, <1>7, <1>8

-----------------------------------------------------------------------------
(* One part runs, and keeps its invariant; PoliteFetch keeps its own when  *)
(* it rests.                                                               *)
PartsInv ==
    /\ LimiterInv /\ RobotsInv
    /\ part = "limiter" => S!LimitInv
    /\ part = "preferences" => S!SaveInv
    /\ part = "screening" => S!ScreenInv

partsVars == <<vars, part, slots>>

(* Each part starts in its own initial states.                             *)
LEMMA PartsStart == PartsInit => PartsInv
<1> SUFFICES ASSUME PartsInit PROVE PartsInv
  OBVIOUS
<1>1. Init
  BY DEF PartsInit, PoliteRests
<1>2. ASSUME part = "limiter" PROVE S!LimitInv
  <2>1. Limiter!Init
    BY <1>2 DEF PartsInit
  <2> QED BY <2>1, PartsAssumption, LimiterAlike, S!LimitStarts
<1>3. ASSUME part = "preferences" PROVE S!SaveInv
  <2>1. Prefs!Init
    BY <1>3 DEF PartsInit
  <2> QED BY <2>1, PreferencesAlike, S!SaveInit
<1>4. ASSUME part = "screening" PROVE S!ScreenInv
  <2>1. Screening!Init
    BY <1>4 DEF PartsInit
  <2> QED BY <2>1, ScreeningAlike, S!ScreenInit
<1> QED BY <1>1, <1>2, <1>3, <1>4, LimiterInit, RobotsInit DEF PartsInv

(* A step is one of the part that runs, and leaves the others as they are. *)
LEMMA StepsOfParts ==
    ASSUME [PartsNext]_partsVars
    PROVE  /\ part' = part /\ [Next]_vars
           /\ part = "limiter" => [S!Limiter!Next]_(S!Limiter!vars)
           /\ part = "preferences" => [S!Prefs!Next]_(S!Prefs!vars)
           /\ part = "screening" => [S!Next]_(S!vars)
<1>1. CASE UNCHANGED partsVars
  BY <1>1 DEF partsVars, slots, S!Limiter!vars, S!Prefs!vars, S!vars
<1>2. CASE PartsNext
  <2>1. part' = part /\ [Next]_vars
    BY <1>2 DEF PartsNext
  <2>2. /\ part = "limiter" => Limiter!Next
        /\ part = "preferences" => Prefs!Next
        /\ part = "screening" => Screening!Next
    BY <1>2 DEF PartsNext
  <2> QED BY <2>1, <2>2, LimiterAlike, PreferencesAlike, ScreeningAlike
<1> QED BY <1>1, <1>2

(* Every step keeps it.                                                    *)
LEMMA PartsKeep == PartsInv /\ [PartsNext]_partsVars => PartsInv'
<1> SUFFICES ASSUME PartsInv, [PartsNext]_partsVars PROVE PartsInv'
  OBVIOUS
<1>1. part' = part /\ LimiterInv' /\ RobotsInv'
  BY StepsOfParts, LimiterNext, RobotsNext DEF PartsInv
<1>2. ASSUME part = "limiter" PROVE S!LimitInv'
  BY <1>2, StepsOfParts, PartsAssumption, LimiterAlike, S!LimitNext DEF PartsInv
<1>3. ASSUME part = "preferences" PROVE S!SaveInv'
  BY <1>3, StepsOfParts, PartsAssumption, PreferencesAlike, S!SaveNext DEF PartsInv
<1>4. ASSUME part = "screening" PROVE S!ScreenInv'
  BY <1>4, StepsOfParts, S!ScreenNext DEF PartsInv
<1> QED BY <1>1, <1>2, <1>3, <1>4 DEF PartsInv

(* Every part's variables have their types, and what its type invariant    *)
(* ties together stays so: locks and who waits for them (ratelimit.py),    *)
(* the unique indexes of a source's jobs (models/job.py).                  *)
THEOREM PartsTypeCorrect == PartsSpec => []TypesOK
<1>1. ASSUME PartsInv PROVE TypesOK
  <2>1. TypeOK
    BY <1>1 DEF PartsInv, LimiterInv, LimiterTypes, HostWhileBusy, OnlySleepersTimed, SleeperIsFirst,
                QueueIsTheirs, Waits, Delays, RobotsInv, RobotsTypes, TypeOK
  <2>2. part = "limiter" => Limiter!TypeOK
    BY <1>1, LimiterAlike DEF PartsInv, S!LimitInv
  <2>3. part = "preferences" => Prefs!TypeOK
    BY <1>1, PreferencesAlike DEF PartsInv, S!SaveInv
  <2>4. part = "screening" => Screening!TypeOK
    BY <1>1, ScreeningAlike DEF PartsInv, S!ScreenInv
  <2> QED BY <2>1, <2>2, <2>3, <2>4 DEF TypesOK
<1> QED BY <1>1, PartsStart, PartsKeep, PTL DEF PartsSpec, partsVars

(* The limiter that runs here lets no more than two hits through a window  *)
(* (auth/ratelimit.py).                                                    *)
THEOREM PartsKeepLimit == PartsSpec => []LimitHolds
<1>1. PartsInv => LimitHolds
  BY LimiterAlike DEF PartsInv, S!LimitInv, LimitHolds
<1> QED BY <1>1, PartsStart, PartsKeep, PTL DEF PartsSpec, partsVars

(* The source that runs here holds no job of a kind that was not asked for *)
(* (jobs/filter.py): PartsAssumption says that its forms mean alike.       *)
THEOREM PartsHoldWhatSuits == PartsSpec => []KeptSuits
<1>1. PartsInv => KeptSuits
  BY PartsAssumption, ScreeningAlike, S!PassedSuit DEF PartsInv, KeptSuits
<1> QED BY <1>1, PartsStart, PartsKeep, PTL DEF PartsSpec, partsVars

(* Nor does it prune one for no reason (services/ingest.py).               *)
THEOREM PartsPruneForAReason == PartsSpec => PruningIsGrounded
<1> DEFINE Grounded == part = "screening" => Screening!PruningIsGrounded
<1>1. PartsInv /\ [PartsNext]_partsVars => [Grounded]_slots
  BY StepsOfParts, PartsAssumption, ScreeningAlike, S!StepPrunesForAReason DEF PartsInv
<1> QED BY <1>1, PartsStart, PartsKeep, PTL DEF PartsSpec, partsVars, PruningIsGrounded

(* A save of preferences that runs here and does not race leaves exactly   *)
(* its document (repositories/preferences.py).                             *)
THEOREM PartsSaveWhole == PartsSpec => SavesAreWhole
<1> DEFINE Whole == part = "preferences" => Prefs!SaveIsWhole
<1>1. PartsInv /\ [PartsNext]_partsVars => [Whole]_slots
  BY PreferencesAlike, S!CommitIsWhole DEF PartsInv
<1> QED BY <1>1, PartsStart, PartsKeep, PTL DEF PartsSpec, partsVars, SavesAreWhole
=============================================================================
