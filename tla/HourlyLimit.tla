---------------------------- MODULE HourlyLimit -----------------------------
(***************************************************************************)
(* The fixed-window rate limiter (auth/ratelimit.py): one counter item per *)
(* key and window, added to atomically, deleted by DynamoDB some time      *)
(* after expires_at.  The window is computed from the caller's clock; the  *)
(* update reaches the table later, in the next window perhaps, and botocore *)
(* may send it again after an answer was lost, which counts twice.         *)
(***************************************************************************)
EXTENDS Integers, FiniteSetsExt

CONSTANTS
    Callers,   \* hits in progress at a time
    Keys,
    Limit,
    Window,    \* window_seconds
    Patience,  \* the longest an update takes to reach the table, retries included
    MaxTime    \* bound on the clock

LimitAssumption ==
    /\ Limit \in Nat \ {0} /\ Window \in Nat \ {0} /\ MaxTime \in Nat
    /\ Patience \in 0..Window

VARIABLES
    clock,
    count,   \* the counter item of each key and window; Absent where there is none
    hit,     \* the hit each caller is waiting for: its key and the time it read
    \* history
    passed   \* how many hits each window let through

vars == <<clock, count, hit, passed>>

Absent == 0
Idle   == [key |-> "none", at |-> 0]
Times  == 0..MaxTime
WindowStart(t) == t - (t % Window)

(* Mutant: the item may go as soon as its window is over.                  *)
ExpiresAt_WindowEnd(start) == start + Window

ExpiresAt(start) == start + 2 * Window
Starts == {WindowStart(t) : t \in Times}

TypeOK ==
    /\ clock \in Times
    /\ count \in [Keys \X Starts -> 0..(Limit + 1)]
    /\ hit \in [Callers -> [key : Keys, at : Times] \cup {Idle}]
    /\ passed \in [Keys \X Starts -> Nat]
    /\ \A c \in Callers : hit[c] # Idle => clock - hit[c].at \in 0..Patience

Init ==
    /\ clock = 0
    /\ count = [i \in Keys \X Starts |-> Absent]
    /\ hit = [c \in Callers |-> Idle]
    /\ passed = [i \in Keys \X Starts |-> 0]

(* hit: the window is taken from the clock before the update is sent. *)
Hit(c, k) ==
    /\ hit[c] = Idle
    /\ hit' = [hit EXCEPT ![c] = [key |-> k, at |-> clock]]
    /\ UNCHANGED <<clock, count, passed>>

Item(c) == <<hit[c].key, WindowStart(hit[c].at)>>

(* ADD makes the item if there is none; counts above the limit are alike.  *)
Added(c, n) == [count EXCEPT ![Item(c)] = Min({@ + n, Limit + 1})]

(* The update reaches the table, n times, and the last answer comes back.  *)
Count(c, n) ==
    /\ hit[c] # Idle
    /\ count' = Added(c, n)
    /\ passed' = IF count'[Item(c)] <= Limit
                 THEN [passed EXCEPT ![Item(c)] = @ + 1] ELSE passed
    /\ hit' = [hit EXCEPT ![c] = Idle]
    /\ UNCHANGED clock

(* It fails for good, and the request with it, whether or not it counted.  *)
Fail(c, n) ==
    /\ hit[c] # Idle
    /\ count' = Added(c, n)
    /\ hit' = [hit EXCEPT ![c] = Idle]
    /\ UNCHANGED <<clock, passed>>

TtlDelete(k, start) ==
    /\ count[<<k, start>>] # Absent /\ clock >= ExpiresAt(start)
    /\ count' = [count EXCEPT ![<<k, start>>] = Absent]
    /\ UNCHANGED <<clock, hit, passed>>

Tick ==
    /\ clock < MaxTime
    /\ \A c \in Callers : hit[c] # Idle => clock - hit[c].at < Patience
    /\ clock' = clock + 1
    /\ UNCHANGED <<count, hit, passed>>

Next ==
    \/ Tick
    \/ \E c \in Callers :
          \/ \E k \in Keys : Hit(c, k)
          \/ \E n \in 1..2 : Count(c, n)
          \/ \E n \in 0..1 : Fail(c, n)
    \/ \E k \in Keys, start \in Starts : TtlDelete(k, start)

Spec == Init /\ [][Next]_vars

-----------------------------------------------------------------------------
(* No window lets more than Limit hits of a key through, although hits of  *)
(* one window may still arrive when the next has begun and DynamoDB is     *)
(* already deleting old items: an item outlives every hit that adds to it. *)
LimitHolds == \A k \in Keys, start \in Starts : passed[<<k, start>>] <= Limit
=============================================================================
