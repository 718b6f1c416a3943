---------------------------- MODULE SessionLife -----------------------------
(***************************************************************************)
(* What the session store and the requests that use it promise: a session  *)
(* is opened once and is over once.  It admits requests as its own user    *)
(* and no other, until it expires; each use may extend it; and before it   *)
(* expires nobody ends it but a request admitted as its user.  Once ended  *)
(* it extends no more, and fades: copies of it that lag behind may admit a *)
(* request for as long as they last.                                       *)
(*                                                                         *)
(* UserSessions implements this specification: nothing here tells of the   *)
(* table's items, of how a request goes about its look-up, or of what it   *)
(* lists before it deletes.  Nothing is said of what must happen either: a *)
(* session may stay open past its expiry, admitting nobody.                *)
(***************************************************************************)
EXTENDS Naturals

CONSTANTS Sessions, Users, Requests,
          Ttl,      \* how long a session lives after its last extension
          Nobody    \* the user of no session, and of no request

VARIABLES now,
          state,    \* what became of each session
          owner,    \* whose it is, while it may admit anyone
          until,    \* when it expires
          user      \* whom each request was admitted as

vars == <<now, state, owner, until, user>>

TypeOK == /\ now \in Nat
          /\ state \in [Sessions -> {"none", "open", "fading", "over"}]
          /\ owner \in [Sessions -> Users \cup {Nobody}]
          /\ until \in [Sessions -> Nat]
          /\ user \in [Requests -> Users \cup {Nobody}]

Init == /\ now = 0
        /\ state = [s \in Sessions |-> "none"]
        /\ owner = [s \in Sessions |-> Nobody]
        /\ until = [s \in Sessions |-> 0]
        /\ user = [r \in Requests |-> Nobody]

(* A verified sign-in opens a session for its user.                        *)
Open(s, u) == /\ state[s] = "none"
              /\ state' = [state EXCEPT ![s] = "open"]
              /\ owner' = [owner EXCEPT ![s] = u]
              /\ until' = [until EXCEPT ![s] = now + Ttl]
              /\ UNCHANGED <<now, user>>

(* A request comes with a session that has not expired.                    *)
Admit(r, s) == /\ user[r] = Nobody
               /\ state[s] \in {"open", "fading"} /\ until[s] > now
               /\ user' = [user EXCEPT ![r] = owner[s]]
               /\ UNCHANGED <<now, state, owner, until>>

(* A request of its user is under way.                                     *)
InUse(s) == state[s] = "open" /\ \E r \in Requests : user[r] = owner[s]

(* Using a session extends it.                                             *)
Extend(s) == /\ InUse(s)
             /\ until' = [until EXCEPT ![s] = now + Ttl]
             /\ UNCHANGED <<now, state, owner, user>>

Closed(s) == /\ state' = [state EXCEPT ![s] = "over"]
             /\ owner' = [owner EXCEPT ![s] = Nobody]
             /\ until' = [until EXCEPT ![s] = 0]

(* A session ends for good.  A copy may go on to show it as it once was,   *)
(* not to expire later than it would have.                                 *)
End(s) == /\ state[s] = "open"
          /\ until[s] <= now \/ InUse(s)
          /\ \/ Closed(s)
             \/ /\ state' = [state EXCEPT ![s] = "fading"]
                /\ \E t \in 0..until[s] : until' = [until EXCEPT ![s] = t]
                /\ UNCHANGED owner
          /\ UNCHANGED <<now, user>>

(* The last copy of it goes.                                               *)
Fade(s) == /\ state[s] = "fading"
           /\ Closed(s)
           /\ UNCHANGED <<now, user>>

Leave(r) == /\ user[r] # Nobody
            /\ user' = [user EXCEPT ![r] = Nobody]
            /\ UNCHANGED <<now, state, owner, until>>

Tick == /\ now' = now + 1
        /\ UNCHANGED <<state, owner, until, user>>

(* What the system does beside, such as looking up, listing or catching up *)
(* with what a copy need not show.                                         *)
Idle == UNCHANGED vars

Next == \/ Idle
        \/ \E s \in Sessions : Extend(s) \/ End(s) \/ Fade(s) \/ \E u \in Users : Open(s, u)
        \/ \E r \in Requests : Leave(r) \/ \E s \in Sessions : Admit(r, s)
        \/ Tick

Spec == Init /\ [][Next]_vars
=============================================================================
