--------------------------- MODULE UserSessions ----------------------------
(***************************************************************************)
(* Signed-in sessions (auth/sessions.py, api/deps.py, api/v1/auth.py).     *)
(*                                                                         *)
(* A session is an item of a DynamoDB table under the hash of its token.   *)
(* Every authenticated request looks its item up, extends it at most once  *)
(* per RefreshAfter, and then does what it came for; each of these is a    *)
(* call of its own, and other requests run in between.  Both get_item      *)
(* (called without ConsistentRead) and the index by user that the list of  *)
(* sessions is read from are eventually consistent: each read may be       *)
(* served, item by item, from the table or from a copy that lags behind.   *)
(***************************************************************************)
EXTENDS Naturals, FiniteSets, Sequences

CONSTANTS
    Sessions,      \* token hashes; a token is made once and never again
    Users,
    Requests,      \* requests in progress at a time
    Ttl,           \* session_ttl_days
    RefreshAfter,  \* session_refresh_after_seconds
    MaxTime,       \* bound on the clock
    Gone,          \* there is no item under a key
    Nobody         \* the user_id of an item that has none

ASSUME SessionsAssumption ==
    /\ Ttl \in Nat /\ RefreshAfter \in Nat /\ MaxTime \in Nat
    /\ 0 < RefreshAfter /\ RefreshAfter <= Ttl
    /\ Nobody \notin Users
    /\ Gone \notin Sessions
    /\ Gone \notin [user : Users \cup {Nobody}, expires : Nat, seen : Nat]

VARIABLES
    now,
    created,   \* the sessions made so far, in order of created_at
    table,     \* the sessions table
    lagging,   \* the older items that reads may still be served from
    pc,        \* where each request is
    cookie,    \* the session it comes with
    record,    \* the SessionRecord its lookup returned
    pending,   \* the sessions it has yet to delete
    \* history
    ended,     \* sessions whose item was deleted
    promised   \* sessions a deletion in progress may not miss

tableVars   == <<created, table, lagging>>
requestVars == <<pc, cookie, record, pending, promised>>
vars == <<now, created, table, lagging,
          pc, cookie, record, pending, ended, promised>>

Items == [user : Users \cup {Nobody}, expires : 0..(MaxTime + Ttl), seen : 0..MaxTime]

Created == {created[i] : i \in DOMAIN created}

Usable(item) == item # Gone /\ item.user \in Users

(* How a request ends: it did what it asked; it stopped early, with a 401   *)
(* or because a call to DynamoDB failed; or the item could not be read.     *)
Over == {"done", "stopped", "crashed"}

TypeOK ==
    /\ now \in 0..MaxTime
    /\ created \in Seq(Sessions)
    /\ \A i, j \in DOMAIN created : created[i] = created[j] => i = j
    /\ table \in [Sessions -> Items \cup {Gone}]
    /\ lagging \in [Sessions -> Items \cup {Gone}]
    /\ pc \in [Requests -> {"get", "touch", "handle", "delete"} \cup Over]
    /\ cookie \in [Requests -> Sessions \cup {Gone}]
    /\ record \in [Requests -> Items \cup {Gone}]
    /\ pending \in [Requests -> SUBSET Sessions]
    /\ ended \subseteq Created
    /\ promised \in [Requests -> SUBSET Sessions]
    /\ \A r \in Requests :
         /\ pc[r] \in Over <=> cookie[r] = Gone
         /\ pending[r] # {} => pc[r] = "delete"
         /\ pc[r] \in {"touch", "handle", "delete"} => record[r] # Gone /\ record[r].user \in Users

Init ==
    /\ now = 0
    /\ created = <<>>
    /\ table = [s \in Sessions |-> Gone]
    /\ lagging = table
    /\ pc = [r \in Requests |-> "done"]
    /\ cookie = [r \in Requests |-> Gone]
    /\ record = [r \in Requests |-> Gone]
    /\ pending = [r \in Requests |-> {}]
    /\ ended = {}
    /\ promised = [r \in Requests |-> {}]

-----------------------------------------------------------------------------
(* The table and the clock.                                                *)

(* create: a verified sign-in puts a new item.                             *)
Create(s, u) ==
    /\ s \notin Created
    /\ created' = Append(created, s)
    /\ table' = [table EXCEPT ![s] = [user |-> u, expires |-> now + Ttl, seen |-> now]]
    /\ UNCHANGED <<now, lagging, requestVars, ended>>

(* A write reaches the copy that lags behind.                              *)
CatchUp(s) ==
    /\ lagging[s] # table[s]
    /\ lagging' = [lagging EXCEPT ![s] = table[s]]
    /\ UNCHANGED <<now, created, table, requestVars, ended>>

(* DynamoDB deletes items whose expires_at has passed, some time later.    *)
TtlDelete(s) ==
    /\ table[s] # Gone /\ table[s].expires <= now
    /\ table' = [table EXCEPT ![s] = Gone]
    /\ ended' = ended \cup {s}
    /\ UNCHANGED <<now, created, lagging, requestVars>>

Tick ==
    /\ now < MaxTime
    /\ now' = now + 1
    /\ UNCHANGED <<tableVars, requestVars, ended>>

-----------------------------------------------------------------------------
(* A request.                                                              *)

Arrive(r, s) ==
    /\ pc[r] \in Over
    /\ s \in Created
    /\ cookie' = [cookie EXCEPT ![r] = s]
    /\ pc' = [pc EXCEPT ![r] = "get"]
    /\ UNCHANGED <<now, tableVars, record, pending, ended, promised>>

(* Mutant: a request that is over still holds what it had to delete.       *)
Finish_KeepsPending(r, how) ==
    /\ cookie' = [cookie EXCEPT ![r] = Gone]
    /\ pc' = [pc EXCEPT ![r] = how]
    /\ record' = [record EXCEPT ![r] = Gone]
    /\ pending' = pending
    /\ promised' = [promised EXCEPT ![r] = {}]

(* The request ends; what it had read is forgotten.                        *)
Finish(r, how) ==
    /\ cookie' = [cookie EXCEPT ![r] = Gone]
    /\ pc' = [pc EXCEPT ![r] = how]
    /\ record' = [record EXCEPT ![r] = Gone]
    /\ pending' = [pending EXCEPT ![r] = {}]
    /\ promised' = [promised EXCEPT ![r] = {}]

(* get: _from_item needs user_id and comes before the check of expires_at. *)
Get(r) ==
    LET s == cookie[r] IN
    /\ pc[r] = "get"
    /\ \E item \in {table[s], lagging[s]} :
         \/ item = Gone /\ Finish(r, "stopped")
         \/ item # Gone /\ ~Usable(item) /\ Finish(r, "crashed")
         \/ Usable(item) /\ item.expires <= now /\ Finish(r, "stopped")
         \/ /\ Usable(item) /\ item.expires > now
            /\ record' = [record EXCEPT ![r] = item]
            /\ pc' = [pc EXCEPT ![r] = "touch"]
            /\ UNCHANGED <<cookie, pending, promised>>
    /\ UNCHANGED <<now, tableVars, ended>>

(* Mutant: touch writes last_seen_at and forgets expires_at.               *)
Touched_SeenOnly(r) ==
    LET item == table[cookie[r]] IN
    [user    |-> IF item = Gone THEN Nobody ELSE item.user,
     expires |-> IF item = Gone THEN now + Ttl ELSE item.expires,
     seen    |-> now]

(* Mutant: touch puts an item of the two attributes only.                  *)
Touched_OnlyTimes(r) == [user |-> Nobody, expires |-> now + Ttl, seen |-> now]

(* Mutant: touch writes the whole record back with put_item.               *)
Touched_WholeRecord(r) ==
    [user |-> record[r].user, expires |-> now + Ttl, seen |-> now]

(* update_item sets two attributes; with no item there it makes one.       *)
Touched(r) ==
    LET item == table[cookie[r]] IN
    [user    |-> IF item = Gone THEN Nobody ELSE item.user,
     expires |-> now + Ttl,
     seen    |-> now]

(* touch writes at most once per RefreshAfter; then the handler runs.      *)
Touch(r) ==
    /\ pc[r] = "touch"
    /\ table' = IF now - record[r].seen < RefreshAfter THEN table
                ELSE [table EXCEPT ![cookie[r]] = Touched(r)]
    /\ pc' = [pc EXCEPT ![r] = "handle"]
    /\ UNCHANGED <<now, created, lagging, cookie, record, pending, promised, ended>>

(* A handler that deletes nothing, the list of sessions among them.        *)
Read(r) ==
    /\ pc[r] = "handle"
    /\ Finish(r, "done")
    /\ UNCHANGED <<now, tableVars, ended>>

(* The handler goes on to delete the sessions in S; those in owed are the  *)
(* ones it may not miss (history).                                         *)
Delete(r, S, owed) ==
    /\ pc[r] = "handle"
    /\ pc' = [pc EXCEPT ![r] = "delete"]
    /\ pending' = [pending EXCEPT ![r] = S]
    /\ promised' = [promised EXCEPT ![r] = owed]
    /\ UNCHANGED <<now, tableVars, cookie, record, ended>>

(* The list is sorted by created_at, the newest first.                     *)
IsNewest(s, S) ==
    \E i \in DOMAIN created : /\ created[i] = s
                               /\ \A j \in DOMAIN created : created[j] \in S => j <= i

(* The sessions of which reads may find one item or another.               *)
Behind == {s \in Sessions : lagging[s] # table[s]}

(* list_for_user: the user's sessions as the index shows them, which is the *)
(* table's view of those in fresh; an item without user_id is not in it.    *)
Listed(u, fresh) ==
    LET seen(s) == IF s \in fresh THEN table[s] ELSE lagging[s] IN
    {s \in Sessions : seen(s) # Gone /\ seen(s).user = u /\ seen(s).expires > now}

(* history: the sessions every read finds, so that none may be missed.     *)
Settled == {s \in Sessions : Usable(table[s]) /\ lagging[s] = table[s] /\ table[s].expires > now}

Logout(r) == Delete(r, {cookie[r]}, {cookie[r]})

(* Mutant: revoke deletes the id it was given, whosever it is.             *)
ToRevoke_Anyones(list, target) == {target}

(* Only an id that is in the caller's own list is deleted.                 *)
ToRevoke(list, target) == list \cap {target}

Revoke(r, target) ==
    \E fresh \in SUBSET Behind :
        Delete(r, ToRevoke(Listed(record[r].user, fresh), target),
               {s \in Settled : table[s].user = record[r].user /\ s = target})

(* Mutant: revoke-all deletes only the newest session of the list.         *)
ToRevokeAll_Newest(list, keep) == {s \in list : IsNewest(s, list)} \ {keep}

ToRevokeAll(list, keep) == list \ {keep}

RevokeOthers(r) ==
    \E fresh \in SUBSET Behind :
        Delete(r, ToRevokeAll(Listed(record[r].user, fresh), cookie[r]),
               {s \in Settled : table[s].user = record[r].user /\ s # cookie[r]})

DeleteNext(r) ==
    /\ pc[r] = "delete"
    /\ \E s \in pending[r] :
         /\ IsNewest(s, pending[r])
         /\ table' = [table EXCEPT ![s] = Gone]
         /\ ended' = ended \cup {s}
         /\ pending' = [pending EXCEPT ![r] = @ \ {s}]
    /\ UNCHANGED <<now, created, lagging, pc, cookie, record, promised>>

(* All are deleted, or there were none: 204.                               *)
AllDeleted(r) ==
    /\ pc[r] = "delete" /\ pending[r] = {}
    /\ Finish(r, "done")
    /\ UNCHANGED <<now, tableVars, ended>>

(* A call to DynamoDB fails: the request is answered 500 where it stands.  *)
StoreRaises(r) ==
    /\ pc[r] \notin Over
    /\ Finish(r, "stopped")
    /\ UNCHANGED <<now, tableVars, ended>>

Next ==
    \/ \E s \in Sessions, u \in Users : Create(s, u)
    \/ \E s \in Sessions : CatchUp(s) \/ TtlDelete(s)
    \/ \E r \in Requests :
         \/ \E s \in Sessions : Arrive(r, s)
         \/ Get(r) \/ Touch(r)
         \/ Read(r) \/ Logout(r) \/ RevokeOthers(r)
         \/ \E s \in Created : Revoke(r, s)
         \/ DeleteNext(r) \/ AllDeleted(r) \/ StoreRaises(r)
    \/ Tick

Spec == Init /\ [][Next]_vars

-----------------------------------------------------------------------------
(* A session that was deleted, by a request or after it expired, never     *)
(* comes back: no step makes it a usable item again, in the table or in a  *)
(* copy that had already lost it - a touch of a record read before the     *)
(* deletion least of all (sessions.py:102-117).                            *)
SignedOutForGood ==
    [][\A s \in ended : /\ ~Usable(table'[s])
                        /\ Usable(lagging'[s]) => Usable(lagging[s])]_vars

(* A logout or revocation that was answered 204 has ended every session it *)
(* was for and that its read of the index could not miss, whatever touched *)
(* or listed them meanwhile (api/v1/auth.py:124-165, sessions.py:139-144). *)
RevocationHolds ==
    [][\A r \in Requests : pc[r] = "delete" /\ pc'[r] = "done" =>
           \A s \in promised[r] : ~Usable(table'[s])]_vars

(* A session that has not expired ends only by a request of its own user,  *)
(* and only while that request's own session had passed the lookup         *)
(* (api/v1/auth.py:124-165).                                               *)
OnlyItsUserEndsIt ==
    [][\A s \in Sessions :
         Usable(table[s]) /\ table[s].expires > now /\ ~Usable(table'[s]) =>
           \E r \in Requests : s \in pending[r] /\ record[r].user = table[s].user]_vars

(* Sliding expiry: a request that passed the lookup leaves its session     *)
(* valid for at least Ttl - RefreshAfter more, however rarely the refresh  *)
(* is written and however old the record it read (sessions.py:102-117).    *)
UseExtends ==
    [][\A r \in Requests :
         pc[r] = "touch" /\ pc'[r] \notin {"touch", "stopped"}
         /\ Usable(table'[cookie[r]]) =>
             table'[cookie[r]].expires > now + Ttl - RefreshAfter]_vars

(* A request that could not read its session's item - one that a late      *)
(* touch made anew, without a user - came with a cookie whose session had  *)
(* been deleted: a live session is never made unreadable                   *)
(* (sessions.py:90-117).                                                   *)
UnreadableIsOver ==
    [][\A r \in Requests : pc[r] = "get" /\ pc'[r] = "crashed" => cookie[r] \in ended]_vars

-----------------------------------------------------------------------------
(* The store keeps the promise of SessionLife.  A session is open while    *)
(* its item can be read, and fades while only a copy can; a request counts *)
(* from its look-up to its end.                                            *)
LifeState(s) == IF Usable(table[s]) THEN "open"
                ELSE IF Usable(lagging[s]) THEN "fading"
                ELSE IF s \in Created THEN "over" ELSE "none"

LifeItem(s) == IF Usable(table[s]) THEN table[s]
               ELSE IF Usable(lagging[s]) THEN lagging[s]
               ELSE [user |-> Nobody, expires |-> 0]

Life == INSTANCE SessionLife WITH
    state <- [s \in Sessions |-> LifeState(s)],
    owner <- [s \in Sessions |-> LifeItem(s).user],
    until <- [s \in Sessions |-> LifeItem(s).expires],
    user  <- [r \in Requests |-> IF pc[r] \in {"touch", "handle", "delete"} THEN record[r].user
                                 ELSE Nobody]

ImplementsSessionLife == Life!Spec
=============================================================================
