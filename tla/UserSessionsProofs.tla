------------------------- MODULE UserSessionsProofs -------------------------
(***************************************************************************)
(* What requests make of a session, for any number of sessions, users and  *)
(* requests, any expiry and any lag of the reads.                          *)
(*                                                                         *)
(* EndedInv keeps what is ended: an item never precedes its session's      *)
(* creation, so that whatever is deleted cannot be created afterwards; and *)
(* what has been deleted is at most an item without a user, because a      *)
(* touch takes the user from the table and not from the record it read.    *)
(*                                                                         *)
(* ViewsInv relates the three views of a session - the table's item, the   *)
(* copy that lags behind and the record a request has read: all have both  *)
(* times of one write, and an older view is of the same user and not       *)
(* younger.  So a decision taken on an old view is a safe one: what a list *)
(* shows is its user's to revoke, and a touch left out is one not needed.  *)
(*                                                                         *)
(* Together they make each step one of SessionLife, or nothing to it.      *)
(***************************************************************************)
EXTENDS UserSessions, TLAPS

AnyItems == [user : Users \cup {Nobody}, expires : Nat, seen : Nat] \cup {Gone}

Known ==
    /\ now \in Nat
    /\ created \in Seq(Sessions)
    /\ table \in [Sessions -> AnyItems]
    /\ lagging \in [Sessions -> AnyItems]
    /\ cookie \in [Requests -> Sessions \cup {Gone}]
    /\ pc \in [Requests -> {"get", "touch", "handle", "delete"} \cup Over]
    /\ pending \in [Requests -> SUBSET Sessions]

OnlyCreated ==
    /\ \A s \in Sessions : table[s] # Gone \/ lagging[s] # Gone => s \in Created
    /\ \A r \in Requests : /\ cookie[r] # Gone => cookie[r] \in Created
                           /\ pc[r] \notin Over => cookie[r] # Gone
                           /\ pending[r] \subseteq Created

EndedHasNoUser == \A s \in ended : s \in Created /\ ~Usable(table[s])

EndedInv == Known /\ OnlyCreated /\ EndedHasNoUser

Looked == {"touch", "handle", "delete"}

(* Every write of an item sets both times, and no record is of the future. *)
TimesAgree ==
    /\ \A s \in Sessions : \A it \in {table[s], lagging[s]} :
          it # Gone => it.expires = it.seen + Ttl /\ it.seen <= now
    /\ \A r \in Requests : record[r] # Gone => record[r].seen <= now

(* A copy, and a record a request has read, are of the item's user and not *)
(* younger than the item.                                                  *)
Precedes(it, s) == Usable(table[s]) => it.user = table[s].user /\ it.seen <= table[s].seen
CopiesPrecede ==
    /\ \A s \in Sessions : Usable(lagging[s]) => Precedes(lagging[s], s)
    /\ \A r \in Requests : pc[r] \in Looked => Precedes(record[r], cookie[r])

(* A session without an item, or with one that has no user, was ended.     *)
MissingIsEnded ==
    /\ \A s \in Created : Usable(table[s]) \/ s \in ended
    /\ \A s \in Sessions : lagging[s] = Gone \/ Usable(lagging[s]) \/ s \in ended

(* What a request is to delete is its user's, and includes all it owes.    *)
PendingIsOwn ==
    \A r \in Requests : \A s \in pending[r] :
        Usable(table[s]) => record[r].user = table[s].user
OwedIsPending ==
    \A r \in Requests : pc[r] = "delete" => promised[r] \subseteq pending[r] \cup ended

ViewsInv == TimesAgree /\ CopiesPrecede /\ MissingIsEnded /\ PendingIsOwn /\ OwedIsPending

(* Creating a session adds it to those created and loses none.             *)
LEMMA CreatedGrows ==
    ASSUME created \in Seq(Sessions), NEW s \in Sessions, created' = Append(created, s)
    PROVE  created' \in Seq(Sessions) /\ Created' = Created \cup {s}
<1>1. created' \in Seq(Sessions) /\ Len(created') = Len(created) + 1 /\ Len(created) \in Nat
  OBVIOUS
<1>2. /\ DOMAIN created = 1..Len(created) /\ DOMAIN created' = 1..(Len(created) + 1)
      /\ created'[Len(created) + 1] = s
      /\ \A i \in 1..Len(created) : created'[i] = created[i]
  BY <1>1
<1>3. Created' = Created \cup {s}
  BY <1>1, <1>2 DEF Created
<1> QED BY <1>1, <1>3

(* The invariant holds at first.                                           *)
LEMMA EndedInit == Init => EndedInv
<1> SUFFICES ASSUME Init PROVE EndedInv
  OBVIOUS
<1>1. Known
  BY DEF Init, Known, Over, AnyItems
<1>2. OnlyCreated /\ EndedHasNoUser
  BY DEF Init, OnlyCreated, EndedHasNoUser, Over
<1> QED BY <1>1, <1>2 DEF EndedInv

(* A request's end forgets its cookie and what it had to delete.           *)
LEMMA FinishKeeps ==
    ASSUME Known, OnlyCreated, NEW r \in Requests, NEW how \in Over, Finish(r, how),
           created' = created, UNCHANGED <<now, table, lagging>>
    PROVE  Known' /\ OnlyCreated'
<1>1. Created' = Created
  BY DEF Created
<1>2. Known'
  BY DEF Known, Finish, Over
<1>3. OnlyCreated'
  <2>1. \A s \in Sessions : table'[s] # Gone \/ lagging'[s] # Gone => s \in Created'
    BY <1>1 DEF OnlyCreated
  <2>2. ASSUME NEW q \in Requests
        PROVE  /\ cookie'[q] # Gone => cookie'[q] \in Created'
               /\ pc'[q] \notin Over => cookie'[q] # Gone
               /\ pending'[q] \subseteq Created'
    <3>1. CASE q = r
      BY <3>1 DEF Finish, Known
    <3>2. CASE q # r
      BY <1>1, <3>2 DEF Finish, Known, OnlyCreated
    <3> QED BY <3>1, <3>2
  <2> QED BY <2>1, <2>2 DEF OnlyCreated
<1> QED BY <1>2, <1>3

(* So does every step.                                                     *)
LEMMA EndedNext == EndedInv /\ [Next]_vars => EndedInv'
<1> SUFFICES ASSUME EndedInv, [Next]_vars PROVE EndedInv'
  OBVIOUS
<1> USE DEF EndedInv
<1>1. ASSUME NEW s \in Sessions, NEW u \in Users, Create(s, u)
      PROVE  EndedInv'
  <2>1. created' \in Seq(Sessions) /\ Created' = Created \cup {s}
    BY <1>1, CreatedGrows DEF Create, Known
  <2>2. Known'
    BY <1>1, <2>1, SessionsAssumption DEF Create, Known, requestVars, AnyItems
  <2>3. OnlyCreated'
    BY <1>1, <2>1 DEF Create, OnlyCreated, Known, requestVars
  <2>4. EndedHasNoUser'
    BY <1>1, <2>1 DEF Create, EndedHasNoUser, Known, Usable
  <2> QED BY <2>2, <2>3, <2>4
<1>2. ASSUME NEW s \in Sessions, CatchUp(s) \/ TtlDelete(s)
      PROVE  EndedInv'
  <2>1. Created' = Created /\ Created \subseteq Sessions
    BY <1>2 DEF CatchUp, TtlDelete, Created, Known
  <2>2. Known'
    BY <1>2 DEF CatchUp, TtlDelete, Known, requestVars, AnyItems
  <2>3. OnlyCreated'
    BY <1>2, <2>1 DEF CatchUp, TtlDelete, OnlyCreated, Known, requestVars
  <2>4. \A q \in Sessions : table'[q] = table[q] \/ table'[q] = Gone
    BY <1>2 DEF CatchUp, TtlDelete, Known
  <2>5. ended' = ended \/ (ended' = ended \cup {s} /\ s \in Created /\ table'[s] = Gone)
    BY <1>2 DEF CatchUp, TtlDelete, OnlyCreated, Known
  <2>6. EndedHasNoUser'
    BY <2>1, <2>4, <2>5 DEF EndedHasNoUser, Usable
  <2> QED BY <2>2, <2>3, <2>6
<1>3. CASE Tick
  <2>1. Created' = Created
    BY <1>3 DEF Tick, tableVars, Created
  <2> QED BY <1>3, <2>1 DEF Tick, tableVars, requestVars, Known, OnlyCreated, EndedHasNoUser, Usable
<1>4. ASSUME NEW r \in Requests, NEW s \in Sessions, Arrive(r, s)
      PROVE  EndedInv'
  <2>1. Created' = Created /\ Known'
    BY <1>4 DEF Arrive, tableVars, Created, Known
  <2>2. OnlyCreated'
    BY <1>4, <2>1, SessionsAssumption DEF Arrive, tableVars, OnlyCreated, Known
  <2>3. EndedHasNoUser'
    BY <1>4, <2>1 DEF Arrive, tableVars, EndedHasNoUser, Usable
  <2> QED BY <2>1, <2>2, <2>3
<1>5. ASSUME NEW r \in Requests, NEW how \in Over, Finish(r, how),
             UNCHANGED <<now, tableVars, ended>>
      PROVE  EndedInv'
  <2>1. Known' /\ OnlyCreated'
    BY <1>5, FinishKeeps DEF tableVars
  <2>2. EndedHasNoUser'
    BY <1>5 DEF tableVars, EndedHasNoUser, Usable, Created
  <2> QED BY <2>1, <2>2
<1>6. ASSUME NEW r \in Requests, Get(r)
      PROVE  EndedInv'
  <2>1. CASE \E how \in Over : Finish(r, how)
    BY <1>5, <1>6, <2>1 DEF Get
  <2>2. CASE pc' = [pc EXCEPT ![r] = "touch"] /\ UNCHANGED <<cookie, pending, promised>>
    <3>1. Created' = Created /\ Known'
      BY <1>6, <2>2 DEF Get, tableVars, Created, Known
    <3>2. OnlyCreated' /\ EndedHasNoUser'
      BY <1>6, <2>2, <3>1 DEF Get, tableVars, OnlyCreated, EndedHasNoUser, Known, Usable, Over
    <3> QED BY <3>1, <3>2
  <2> QED BY <1>6, <2>1, <2>2 DEF Get, Over
<1>7. ASSUME NEW r \in Requests, Touch(r)
      PROVE  EndedInv'
  <2> DEFINE s == cookie[r]
  <2>1. s \in Sessions /\ s \in Created
    BY <1>7 DEF Touch, Known, OnlyCreated, Over
  <2>2. /\ Touched(r) \in AnyItems
        /\ Touched(r).user = IF table[s] = Gone THEN Nobody ELSE table[s].user
    BY <1>7, <2>1, SessionsAssumption DEF Touched, Known, AnyItems
  <2>3. Created' = Created /\ Known'
    BY <1>7, <2>1, <2>2 DEF Touch, Created, Known
  <2>4. OnlyCreated'
    BY <1>7, <2>1, <2>3 DEF Touch, OnlyCreated, Known, Over
  <2>5. EndedHasNoUser'
    BY <1>7, <2>1, <2>2, <2>3, SessionsAssumption DEF Touch, EndedHasNoUser, Known, Usable
  <2> QED BY <2>3, <2>4, <2>5
<1>8. ASSUME NEW r \in Requests, Read(r) \/ AllDeleted(r) \/ StoreRaises(r)
      PROVE  EndedInv'
  BY <1>5, <1>8 DEF Read, AllDeleted, StoreRaises, Over
<1>9. ASSUME NEW r \in Requests, NEW S \in SUBSET Created, NEW owed, Delete(r, S, owed)
      PROVE  EndedInv'
  <2>1. Created' = Created /\ Created \subseteq Sessions
    BY <1>9 DEF Delete, tableVars, Created, Known
  <2>2. Known'
    BY <1>9, <2>1 DEF Delete, tableVars, Known
  <2>3. OnlyCreated' /\ EndedHasNoUser'
    BY <1>9, <2>1 DEF Delete, tableVars, OnlyCreated, EndedHasNoUser, Known, Usable, Over
  <2> QED BY <2>1, <2>2, <2>3
<1>10. ASSUME NEW r \in Requests, Logout(r)
       PROVE  EndedInv'
  <2>1. cookie[r] \in Created
    BY <1>10 DEF Logout, Delete, OnlyCreated, Known, Over
  <2> QED BY <1>9, <1>10, <2>1 DEF Logout
<1>11. ASSUME NEW u, NEW fresh \in SUBSET Sessions
       PROVE  Listed(u, fresh) \subseteq Created
  BY DEF Listed, OnlyCreated
<1>12. ASSUME NEW r \in Requests, RevokeOthers(r) \/ \E s \in Created : Revoke(r, s)
       PROVE  EndedInv'
  BY <1>9, <1>11, <1>12 DEF RevokeOthers, Revoke, Behind, ToRevoke, ToRevokeAll
<1>13. ASSUME NEW r \in Requests, DeleteNext(r)
       PROVE  EndedInv'
  <2> PICK s \in pending[r] : /\ table' = [table EXCEPT ![s] = Gone]
                              /\ ended' = ended \cup {s}
                              /\ pending' = [pending EXCEPT ![r] = @ \ {s}]
    BY <1>13 DEF DeleteNext
  <2>1. s \in Created
    BY DEF OnlyCreated
  <2>2. Created' = Created /\ Created \subseteq Sessions
    BY <1>13 DEF DeleteNext, Created, Known
  <2>3. Known'
    BY <1>13 DEF DeleteNext, Known, AnyItems
  <2>4. OnlyCreated'
    BY <1>13, <2>2 DEF DeleteNext, OnlyCreated, Known
  <2>5. EndedHasNoUser'
    BY <1>13, <2>1, <2>2 DEF DeleteNext, EndedHasNoUser, Known, Usable
  <2> QED BY <2>3, <2>4, <2>5
<1>14. CASE UNCHANGED vars
  BY <1>14 DEF vars, Known, OnlyCreated, EndedHasNoUser, Usable, Created
<1> QED BY <1>1, <1>2, <1>3, <1>4, <1>6, <1>7, <1>8, <1>10, <1>12, <1>13, <1>14 DEF Next

(* No step makes an ended session usable again, in the table or in a copy  *)
(* that reads are served from and that had already lost it: logout and     *)
(* revocation are final whatever touches of older records follow.          *)
THEOREM EndedForGood == Spec => SignedOutForGood
<1> DEFINE Stays == \A s \in ended : /\ ~Usable(table'[s])
                                     /\ Usable(lagging'[s]) => Usable(lagging[s])
<1>1. Spec => []EndedInv
  BY EndedInit, EndedNext, PTL DEF Spec
<1>2. EndedInv /\ EndedInv' /\ [Next]_vars => [Stays]_vars
  <2> SUFFICES ASSUME EndedInv, EndedInv', Next, NEW s \in ended
               PROVE  ~Usable(table'[s]) /\ (Usable(lagging'[s]) => Usable(lagging[s]))
    OBVIOUS
  <2>1. ended \subseteq ended'
    BY DEF Next, Create, CatchUp, TtlDelete, Tick, Arrive, Get, Touch, Read, Logout, Revoke,
           RevokeOthers, Delete, DeleteNext, AllDeleted, StoreRaises
  <2>2. ~Usable(table'[s]) /\ ~Usable(table[s]) /\ s \in Sessions
    BY <2>1 DEF EndedInv, EndedHasNoUser, Usable, Created, Known
  <2>3. lagging'[s] = lagging[s] \/ lagging'[s] = table[s]
    <3>1. CASE \E q \in Sessions : CatchUp(q)
      BY <2>2, <3>1 DEF CatchUp, EndedInv, Known
    <3>2. CASE ~ \E q \in Sessions : CatchUp(q)
      <4>1. CASE \E r \in Requests :
                   \/ Read(r) \/ Logout(r) \/ RevokeOthers(r)
                   \/ \E q \in Created : Revoke(r, q)
        BY <4>1 DEF Read, Logout, Revoke, RevokeOthers, Delete, tableVars
      <4>2. CASE \E r \in Requests :
                   \/ Get(r) \/ Touch(r) \/ DeleteNext(r) \/ AllDeleted(r) \/ StoreRaises(r)
                   \/ \E q \in Sessions : Arrive(r, q)
        BY <4>2 DEF Get, Touch, DeleteNext, AllDeleted, StoreRaises, Arrive, tableVars
      <4>3. CASE \E q \in Sessions, u \in Users : Create(q, u)
        BY <4>3 DEF Create
      <4>4. CASE \E q \in Sessions : TtlDelete(q)
        BY <4>4 DEF TtlDelete
      <4>5. CASE Tick
        BY <4>5 DEF Tick, tableVars
      <4>6. \/ \E q \in Sessions, u \in Users : Create(q, u)
            \/ \E q \in Sessions : TtlDelete(q)
            \/ Tick
            \/ \E r \in Requests :
                   \/ Read(r) \/ Logout(r) \/ RevokeOthers(r)
                   \/ \E q \in Created : Revoke(r, q)
            \/ \E r \in Requests :
                   \/ Get(r) \/ Touch(r) \/ DeleteNext(r) \/ AllDeleted(r) \/ StoreRaises(r)
                   \/ \E q \in Sessions : Arrive(r, q)
        BY <3>2, ZenonT(60) DEF Next
      <4> QED BY <4>1, <4>2, <4>3, <4>4, <4>5, <4>6
    <3> QED BY <3>1, <3>2
  <2> QED BY <2>2, <2>3 DEF Usable
<1> QED BY <1>1, <1>2, PTL DEF Spec, SignedOutForGood

-----------------------------------------------------------------------------
(* How one step changes what the properties look at.                       *)

(* A call of DynamoDB of one kind or the other changes an item.            *)
NewItemOf(u)  == [user |-> u, expires |-> now + Ttl, seen |-> now]
TouchedItem(s) == NewItemOf(IF table[s] = Gone THEN Nobody ELSE table[s].user)

(* An item stays, is deleted and its session ended, is the new one of a    *)
(* session, or is touched; a copy stays or catches up.                     *)
LEMMA ItemStep ==
    ASSUME EndedInv, [Next]_vars, NEW s \in Sessions
    PROVE  /\ \/ table'[s] = table[s]
              \/ table'[s] = Gone /\ s \in ended'
              \/ s \notin Created /\ \E u \in Users : table'[s] = NewItemOf(u)
              \/ s \in Created /\ table'[s] = TouchedItem(s)
           /\ lagging'[s] \in {table[s], lagging[s]}
           /\ s \in Created' => s \in Created \/ \E u \in Users : table'[s] = NewItemOf(u)
           /\ ended \subseteq ended' /\ Created \subseteq Created' /\ now <= now'
<1> USE DEF EndedInv
<1>1. now \in Nat /\ now <= now
  BY DEF Known
<1>2. CASE UNCHANGED <<now, tableVars, ended>>
  BY <1>1, <1>2 DEF tableVars, Created
<1>3. ASSUME NEW q \in Sessions, NEW u \in Users, Create(q, u)
      PROVE  /\ \/ table'[s] = table[s]
                \/ s \notin Created /\ \E v \in Users : table'[s] = NewItemOf(v)
             /\ lagging'[s] \in {table[s], lagging[s]}
             /\ s \in Created' => s \in Created \/ \E v \in Users : table'[s] = NewItemOf(v)
             /\ ended \subseteq ended' /\ Created \subseteq Created' /\ now <= now'
  <2>1. Created' = Created \cup {q}
    BY <1>3, CreatedGrows DEF Create, Known
  <2> QED BY <1>1, <1>3, <2>1 DEF Create, Known, NewItemOf
<1>4. ASSUME NEW q \in Sessions, CatchUp(q) \/ TtlDelete(q)
      PROVE  /\ table'[s] = table[s] \/ (table'[s] = Gone /\ s \in ended')
             /\ lagging'[s] \in {table[s], lagging[s]}
             /\ ended \subseteq ended' /\ Created' = Created /\ now <= now'
  BY <1>1, <1>4 DEF CatchUp, TtlDelete, Known, Created
<1>5. CASE Tick
  BY <1>1, <1>5 DEF Tick, tableVars, Created, Known
<1>6. ASSUME NEW r \in Requests, Touch(r)
      PROVE  /\ table'[s] = table[s] \/ (s \in Created /\ table'[s] = TouchedItem(s))
             /\ lagging'[s] = lagging[s] /\ ended' = ended /\ Created' = Created /\ now' = now
  <2>1. cookie[r] \in Created
    BY <1>6 DEF Touch, OnlyCreated, Over
  <2>2. Touched(r) = TouchedItem(cookie[r])
    BY DEF Touched, TouchedItem, NewItemOf
  <2> QED BY <1>6, <2>1, <2>2 DEF Touch, Known, Created
<1>7. ASSUME NEW r \in Requests, DeleteNext(r)
      PROVE  /\ table'[s] = table[s] \/ (table'[s] = Gone /\ s \in ended')
             /\ lagging' = lagging /\ ended \subseteq ended' /\ Created' = Created /\ now' = now
  BY <1>7 DEF DeleteNext, Known, Created
<1>8. ASSUME NEW r \in Requests,
             \/ \E q \in Sessions : Arrive(r, q)
             \/ Get(r) \/ Read(r) \/ Logout(r) \/ RevokeOthers(r)
             \/ \E q \in Created : Revoke(r, q)
             \/ AllDeleted(r) \/ StoreRaises(r)
      PROVE  UNCHANGED <<now, tableVars, ended>>
  BY <1>8 DEF Arrive, Get, Read, Logout, RevokeOthers, Revoke, Delete, AllDeleted, StoreRaises
<1>9. CASE UNCHANGED vars
  BY <1>2, <1>9 DEF vars, tableVars
<1> QED BY <1>1, <1>2, <1>3, <1>4, <1>5, <1>6, <1>7, <1>8, <1>9 DEF Next

(* What a request lists, by whatever mix of copies, has its user: a copy   *)
(* is never of another user than the item.                                 *)
LEMMA ListedIsOwn ==
    ASSUME CopiesPrecede, NEW u \in Users, NEW fresh \in SUBSET Sessions, NEW s \in Listed(u, fresh)
    PROVE  s \in Sessions /\ (Usable(table[s]) => table[s].user = u)
<1>1. s \in Sessions
  BY DEF Listed
<1>2. \/ table[s].user = u
      \/ lagging[s] # Gone /\ lagging[s].user = u
  BY DEF Listed
<1> QED BY <1>1, <1>2 DEF CopiesPrecede, Precedes, Usable

(* What no read of the index could miss is listed.                         *)
LEMMA SettledIsListed ==
    ASSUME NEW u \in Users, NEW fresh \in SUBSET Sessions, NEW s \in Settled, table[s].user = u
    PROVE  s \in Listed(u, fresh)
  BY DEF Settled, Listed, Usable

(* What a request does in one step, seen from that request.                *)
Stays(r)   == /\ pc'[r] = pc[r] /\ cookie'[r] = cookie[r] /\ record'[r] = record[r]
              /\ pending'[r] = pending[r] /\ promised'[r] = promised[r]
Ends(r)    == /\ pc'[r] \in Over /\ cookie'[r] = Gone /\ record'[r] = Gone
              /\ pending'[r] = {} /\ promised'[r] = {}
Arrives(r) == /\ pc[r] \in Over /\ pc'[r] = "get" /\ cookie'[r] \in Created /\ record'[r] = record[r]
              /\ pending'[r] = pending[r] /\ promised'[r] = promised[r]
LooksUp(r) == /\ pc[r] = "get" /\ pc'[r] = "touch" /\ cookie'[r] = cookie[r]
              /\ record'[r] \in {table[cookie[r]], lagging[cookie[r]]} /\ Usable(record'[r])
              /\ pending'[r] = pending[r] /\ promised'[r] = promised[r] /\ table' = table
GoesOn(r)  == /\ pc[r] = "touch" /\ pc'[r] = "handle" /\ cookie'[r] = cookie[r]
              /\ record'[r] = record[r]
              /\ pending'[r] = pending[r] /\ promised'[r] = promised[r]
SetsOut(r) == /\ pc[r] = "handle" /\ pc'[r] = "delete" /\ cookie'[r] = cookie[r]
              /\ record'[r] = record[r] /\ table' = table
              /\ pending'[r] \subseteq Sessions /\ promised'[r] \subseteq pending'[r]
              /\ \A s \in pending'[r] : Usable(table[s]) => table[s].user = record[r].user
Deletes(r) == /\ pc[r] = "delete" /\ pc'[r] = "delete" /\ cookie'[r] = cookie[r]
              /\ record'[r] = record[r] /\ promised'[r] = promised[r]
              /\ \E s \in pending[r] : pending'[r] = pending[r] \ {s} /\ s \in ended'

(* A request that ends leaves the others as they were.                     *)
LEMMA FinishStep ==
    ASSUME TypeOK, NEW q \in Requests, NEW how \in Over, Finish(q, how), NEW r \in Requests
    PROVE  IF r = q THEN Ends(r) /\ pc'[r] = how ELSE Stays(r)
  BY DEF TypeOK, Finish, Ends, Stays

(* Deciding what to delete.                                                *)
LEMMA DeleteStep ==
    ASSUME TypeOK, NEW q \in Requests, NEW S \in SUBSET Sessions, NEW owed \in SUBSET S,
           Delete(q, S, owed), \A s \in S : Usable(table[s]) => table[s].user = record[q].user,
           NEW r \in Requests
    PROVE  IF r = q THEN SetsOut(r) ELSE Stays(r)
  BY DEF TypeOK, Delete, tableVars, SetsOut, Stays

(* A request has one of these steps, or another one has.                   *)
LEMMA RequestStep ==
    ASSUME EndedInv, TypeOK, CopiesPrecede, [Next]_vars, NEW r \in Requests
    PROVE  \/ Stays(r) \/ Ends(r) \/ Arrives(r) \/ LooksUp(r)
           \/ GoesOn(r) \/ SetsOut(r) \/ Deletes(r)
<1> DEFINE Steps == Stays(r) \/ Ends(r) \/ Arrives(r) \/ LooksUp(r) \/ GoesOn(r) \/ SetsOut(r) \/ Deletes(r)
<1> SUFFICES Steps
  OBVIOUS
<1>1. CASE UNCHANGED requestVars
  BY <1>1 DEF requestVars, Stays
<1>2. ASSUME NEW q \in Requests, NEW how \in Over, Finish(q, how) PROVE Steps
  BY <1>2, FinishStep
<1>3. ASSUME NEW q \in Requests, NEW s \in Sessions, Arrive(q, s) PROVE Steps
  BY <1>3 DEF Arrive, TypeOK, Arrives, Stays
<1>4. ASSUME NEW q \in Requests, Get(q) PROVE Steps
  <2>1. CASE \E how \in Over : Finish(q, how)
    BY <1>2, <2>1
  <2>2. CASE \E it \in {table[cookie[q]], lagging[cookie[q]]} :
                /\ Usable(it) /\ record' = [record EXCEPT ![q] = it]
                /\ pc' = [pc EXCEPT ![q] = "touch"] /\ UNCHANGED <<cookie, pending, promised>>
    BY <1>4, <2>2 DEF Get, tableVars, TypeOK, LooksUp, Stays
  <2> QED BY <1>4, <2>1, <2>2 DEF Get, Over
<1>5. ASSUME NEW q \in Requests, Touch(q) PROVE Steps
  BY <1>5 DEF Touch, TypeOK, GoesOn, Stays
<1>6. ASSUME NEW q \in Requests, NEW S \in SUBSET Sessions, NEW owed \in SUBSET S,
             Delete(q, S, owed), \A s \in S : Usable(table[s]) => table[s].user = record[q].user
      PROVE  Steps
  BY <1>6, DeleteStep
<1>7. ASSUME NEW q \in Requests, pc[q] = "handle"
      PROVE  /\ cookie[q] \in Sessions /\ record[q].user \in Users
             /\ Usable(table[cookie[q]]) => table[cookie[q]].user = record[q].user
  <2>1. cookie[q] \in Sessions /\ record[q].user \in Users
    BY <1>7 DEF TypeOK, Over
  <2> QED BY <1>7, <2>1 DEF CopiesPrecede, Precedes, Looked
<1>8. ASSUME NEW q \in Requests, Logout(q) PROVE Steps
  <2>1. pc[q] = "handle" /\ Delete(q, {cookie[q]}, {cookie[q]})
    BY <1>8 DEF Logout, Delete
  <2> QED BY <1>6, <1>7, <2>1
<1>9. ASSUME NEW q \in Requests, NEW s \in Created, Revoke(q, s) PROVE Steps
  <2> PICK fresh \in SUBSET Sessions :
         Delete(q, ToRevoke(Listed(record[q].user, fresh), s),
                {t \in Settled : table[t].user = record[q].user /\ t = s})
    BY <1>9 DEF Revoke, Behind
  <2> DEFINE S == ToRevoke(Listed(record[q].user, fresh), s)
             owed == {t \in Settled : table[t].user = record[q].user /\ t = s}
  <2>1. pc[q] = "handle"
    BY DEF Delete
  <2>2. \A t \in S : t \in Sessions /\ (Usable(table[t]) => table[t].user = record[q].user)
    BY <1>7, <2>1, ListedIsOwn DEF ToRevoke
  <2>3. owed \subseteq S
    BY <1>7, <2>1, SettledIsListed DEF ToRevoke
  <2> QED BY <1>6, <2>2, <2>3
<1>10. ASSUME NEW q \in Requests, RevokeOthers(q) PROVE Steps
  <2> PICK fresh \in SUBSET Sessions :
         Delete(q, ToRevokeAll(Listed(record[q].user, fresh), cookie[q]),
                {t \in Settled : table[t].user = record[q].user /\ t # cookie[q]})
    BY <1>10 DEF RevokeOthers, Behind
  <2> DEFINE S == ToRevokeAll(Listed(record[q].user, fresh), cookie[q])
             owed == {t \in Settled : table[t].user = record[q].user /\ t # cookie[q]}
  <2>1. pc[q] = "handle"
    BY DEF Delete
  <2>2. \A t \in S : t \in Sessions /\ (Usable(table[t]) => table[t].user = record[q].user)
    BY <1>7, <2>1, ListedIsOwn DEF ToRevokeAll
  <2>3. owed \subseteq S
    BY <1>7, <2>1, SettledIsListed DEF ToRevokeAll
  <2> QED BY <1>6, <2>2, <2>3
<1>11. ASSUME NEW q \in Requests, DeleteNext(q) PROVE Steps
  BY <1>11 DEF DeleteNext, TypeOK, Deletes, Stays
<1>12. ASSUME NEW q \in Requests, Read(q) \/ AllDeleted(q) \/ StoreRaises(q) PROVE Steps
  BY <1>2, <1>12 DEF Read, AllDeleted, StoreRaises, Over
<1>13. ASSUME NEW s \in Sessions, CatchUp(s) \/ TtlDelete(s) \/ \E u \in Users : Create(s, u)
       PROVE  UNCHANGED requestVars
  BY <1>13 DEF CatchUp, TtlDelete, Create
<1>14. Tick \/ UNCHANGED vars => UNCHANGED requestVars
  BY DEF Tick, vars, requestVars
<1> HIDE DEF Steps
<1> QED BY <1>1, <1>3, <1>4, <1>5, <1>8, <1>9, <1>10, <1>11, <1>12, <1>13, <1>14 DEF Next

-----------------------------------------------------------------------------
(* Types.                                                                  *)

(* The functions of requests stay functions of requests.                   *)
LEMMA StillFunctions ==
    ASSUME TypeOK, [Next]_vars
    PROVE  /\ record' = [r \in Requests |-> record'[r]]
           /\ promised' = [r \in Requests |-> promised'[r]]
<1>1. CASE UNCHANGED <<record, promised>>
  BY <1>1 DEF TypeOK
<1>2. ASSUME NEW q \in Requests, NEW how \in Over, Finish(q, how)
      PROVE  /\ record' = [r \in Requests |-> record'[r]]
             /\ promised' = [r \in Requests |-> promised'[r]]
  BY <1>2 DEF Finish, TypeOK
<1>3. ASSUME NEW q \in Requests, NEW S, NEW owed, Delete(q, S, owed)
      PROVE  /\ record' = [r \in Requests |-> record'[r]]
             /\ promised' = [r \in Requests |-> promised'[r]]
  BY <1>3 DEF Delete, TypeOK
<1>4. ASSUME NEW q \in Requests, Get(q)
      PROVE  /\ record' = [r \in Requests |-> record'[r]]
             /\ promised' = [r \in Requests |-> promised'[r]]
  BY <1>2, <1>4 DEF Get, TypeOK, Over
<1>5. ASSUME NEW q \in Requests, Touch(q) \/ DeleteNext(q) \/ \E s \in Sessions : Arrive(q, s)
      PROVE  UNCHANGED <<record, promised>>
  BY <1>5 DEF Touch, DeleteNext, Arrive
<1>6. ASSUME NEW s \in Sessions, CatchUp(s) \/ TtlDelete(s) \/ \E u \in Users : Create(s, u)
      PROVE  UNCHANGED <<record, promised>>
  BY <1>6 DEF CatchUp, TtlDelete, Create, requestVars
<1>7. Tick \/ UNCHANGED vars => UNCHANGED <<record, promised>>
  BY DEF Tick, vars, requestVars
<1>8. ASSUME NEW q \in Requests, Read(q) \/ AllDeleted(q) \/ StoreRaises(q)
      PROVE  \E how \in Over : Finish(q, how)
  BY <1>8 DEF Read, AllDeleted, StoreRaises, Over
<1>9. ASSUME NEW q \in Requests, Logout(q) \/ RevokeOthers(q) \/ \E s \in Created : Revoke(q, s)
      PROVE  \E S, owed : Delete(q, S, owed)
  BY <1>9 DEF Logout, RevokeOthers, Revoke
<1> QED BY <1>1, <1>2, <1>3, <1>4, <1>5, <1>6, <1>7, <1>8, <1>9 DEF Next

(* An item that a step writes is one.                                      *)
LEMMA NewIsItem ==
    ASSUME TypeOK
    PROVE  /\ \A u \in Users \cup {Nobody} : NewItemOf(u) \in Items /\ NewItemOf(u) # Gone
           /\ \A s \in Sessions : TouchedItem(s) \in Items /\ TouchedItem(s) # Gone
<1>1. now \in 0..MaxTime /\ now + Ttl \in 0..(MaxTime + Ttl) /\ now \in Nat /\ now + Ttl \in Nat
  BY SessionsAssumption DEF TypeOK
<1>2. ASSUME NEW u \in Users \cup {Nobody} PROVE NewItemOf(u) \in Items /\ NewItemOf(u) # Gone
  BY <1>1, SessionsAssumption DEF NewItemOf, Items
<1>3. ASSUME NEW s \in Sessions
      PROVE  (IF table[s] = Gone THEN Nobody ELSE table[s].user) \in Users \cup {Nobody}
  BY DEF TypeOK, Items
<1> QED BY <1>2, <1>3 DEF TouchedItem

(* Every step keeps the types.                                             *)
LEMMA TypeNext ==
    EndedInv /\ EndedInv' /\ TypeOK /\ CopiesPrecede /\ [Next]_vars => TypeOK'
<1> SUFFICES ASSUME EndedInv, EndedInv', TypeOK, CopiesPrecede, [Next]_vars PROVE TypeOK'
  OBVIOUS
<1>1. now' \in 0..MaxTime
  BY SessionsAssumption
     DEF TypeOK, Next, vars, Tick, Create, CatchUp, TtlDelete, Arrive, Get, Touch, Read, Logout,
         RevokeOthers, Revoke, Delete, DeleteNext, AllDeleted, StoreRaises
<1>2. created' \in Seq(Sessions) /\ ended' \subseteq Created'
  BY DEF EndedInv, Known, EndedHasNoUser
<1>3. \A i, j \in DOMAIN created' : created'[i] = created'[j] => i = j
  <2>1. CASE created' = created
    BY <2>1 DEF TypeOK
  <2>2. ASSUME NEW s \in Sessions, s \notin Created, created' = Append(created, s)
        PROVE  \A i, j \in DOMAIN created' : created'[i] = created'[j] => i = j
    <3>1. created \in Seq(Sessions)
      BY DEF TypeOK
    <3>2. /\ DOMAIN created = 1..Len(created) /\ DOMAIN created' = 1..(Len(created) + 1)
          /\ Len(created) \in Nat /\ created'[Len(created) + 1] = s
          /\ \A i \in 1..Len(created) : created'[i] = created[i]
      BY <2>2, <3>1
    <3>3. \A i \in 1..Len(created) : created[i] # s
      BY <2>2, <3>2 DEF Created
    <3> QED BY <3>2, <3>3 DEF TypeOK
  <2>3. created' = created \/ \E s \in Sessions : s \notin Created /\ created' = Append(created, s)
    BY DEF Next, vars, Tick, Create, CatchUp, TtlDelete, Arrive, Get, Touch, Read, Logout,
           RevokeOthers, Revoke, Delete, DeleteNext, AllDeleted, StoreRaises, tableVars
  <2> QED BY <2>1, <2>2, <2>3
<1>4. table' \in [Sessions -> Items \cup {Gone}] /\ lagging' \in [Sessions -> Items \cup {Gone}]
  <2>1. \A s \in Sessions : table'[s] \in Items \cup {Gone} /\ lagging'[s] \in Items \cup {Gone}
    BY ItemStep, NewIsItem DEF TypeOK
  <2> QED BY <2>1 DEF EndedInv, Known
<1>5. /\ pc' \in [Requests -> {"get", "touch", "handle", "delete"} \cup Over]
      /\ cookie' \in [Requests -> Sessions \cup {Gone}]
      /\ pending' \in [Requests -> SUBSET Sessions]
  BY DEF EndedInv, Known
<1>6. ASSUME NEW r \in Requests
      PROVE  /\ record'[r] \in Items \cup {Gone}
             /\ promised'[r] \in SUBSET Sessions
             /\ pc'[r] \in Over <=> cookie'[r] = Gone
             /\ pending'[r] # {} => pc'[r] = "delete"
             /\ pc'[r] \in Looked => record'[r] # Gone /\ record'[r].user \in Users
  <2>1. cookie[r] # Gone => cookie[r] \in Sessions
    BY DEF TypeOK
  <2>2. CASE Stays(r) \/ Ends(r) \/ Arrives(r)
    BY <2>2, SessionsAssumption DEF Stays, Ends, Arrives, TypeOK, Over, Looked, Created
  <2>3. CASE LooksUp(r) \/ GoesOn(r) \/ SetsOut(r) \/ Deletes(r)
    BY <2>1, <2>3 DEF LooksUp, GoesOn, SetsOut, Deletes, TypeOK, Over, Usable
  <2> QED BY <2>2, <2>3, RequestStep
<1>7. record' \in [Requests -> Items \cup {Gone}] /\ promised' \in [Requests -> SUBSET Sessions]
  BY <1>6, StillFunctions
<1> QED BY <1>1, <1>2, <1>3, <1>4, <1>5, <1>6, <1>7 DEF TypeOK, Looked

-----------------------------------------------------------------------------
(* What the table, its copies and the requests' records say of each other. *)

AllInv == EndedInv /\ TypeOK /\ ViewsInv

(* At first there is neither a session nor a request.                      *)
LEMMA AllInit == Init => AllInv
<1> SUFFICES ASSUME Init PROVE AllInv
  OBVIOUS
<1>1. Created = {}
  BY DEF Init, Created
<1>2. TypeOK
  BY <1>1, SessionsAssumption DEF Init, TypeOK, Over, Created
<1>3. ViewsInv
  BY <1>1 DEF Init, ViewsInv, TimesAgree, CopiesPrecede, MissingIsEnded, PendingIsOwn, OwedIsPending,
              Precedes, Usable, Looked, Over
<1> QED BY <1>2, <1>3, EndedInit DEF AllInv

(* A step that leaves an item usable leaves it its user and makes it no    *)
(* older, unless it is the first item of a new session.                    *)
LEMMA ItemAges ==
    ASSUME AllInv, [Next]_vars, NEW s \in Sessions, Usable(table'[s])
    PROVE  \/ s \notin Created
           \/ /\ Usable(table[s]) /\ table'[s].user = table[s].user
              /\ table[s].seen <= table'[s].seen /\ table[s].seen <= now
<1>1. now \in Nat /\ (table[s] # Gone => table[s] \in Items /\ table[s].seen \in Nat)
  BY DEF AllInv, TypeOK, Items
<1>2. CASE table'[s] = TouchedItem(s)
  BY <1>1, <1>2, SessionsAssumption
     DEF AllInv, ViewsInv, TimesAgree, TouchedItem, NewItemOf, Usable
<1>3. CASE table'[s] = table[s]
  BY <1>1, <1>3 DEF AllInv, ViewsInv, TimesAgree, Usable
<1> QED BY <1>2, <1>3, ItemStep DEF AllInv, Usable

(* So whatever preceded the item of a session made before goes on to.      *)
LEMMA PrecedesStill ==
    ASSUME AllInv, TypeOK', [Next]_vars, NEW s \in Created, NEW it \in Items, Precedes(it, s)
    PROVE  Usable(table'[s]) => it.user = table'[s].user /\ it.seen <= table'[s].seen
<1>1. s \in Sessions /\ it.seen \in Nat
  BY DEF Created, AllInv, EndedInv, Known, Items
<1> SUFFICES ASSUME Usable(table'[s]) PROVE it.user = table'[s].user /\ it.seen <= table'[s].seen
  OBVIOUS
<1>2. /\ Usable(table[s]) /\ table'[s].user = table[s].user
      /\ table[s].seen <= table'[s].seen
  BY <1>1, ItemAges
<1>3. table[s].seen \in Nat /\ table'[s].seen \in Nat
  BY <1>1, <1>2 DEF AllInv, TypeOK, Items, Usable
<1> QED BY <1>1, <1>2, <1>3 DEF Precedes

(* The parts of the invariant, each kept by every step.                    *)
LEMMA TimesNext == AllInv /\ EndedInv' /\ TypeOK' /\ [Next]_vars => TimesAgree'
<1> SUFFICES ASSUME AllInv, EndedInv', TypeOK', [Next]_vars PROVE TimesAgree'
  OBVIOUS
<1>1. now \in Nat /\ now' \in Nat
  BY DEF AllInv, EndedInv, Known
<1>2. ASSUME NEW s \in Sessions
      PROVE  \A it \in {table[s], lagging[s]} :
                it # Gone => it.expires = it.seen + Ttl /\ it.seen <= now /\ it.seen \in Nat
  BY <1>2 DEF AllInv, ViewsInv, TimesAgree, TypeOK, Items
<1>3. ASSUME NEW s \in Sessions, NEW it \in {table'[s], lagging'[s]}, it # Gone
      PROVE  it.expires = it.seen + Ttl /\ it.seen <= now'
  <2>1. now <= now'
    BY ItemStep DEF AllInv
  <2>2. CASE it \in {table[s], lagging[s]}
    BY <1>1, <1>2, <1>3, <2>1, <2>2
  <2>3. CASE it = TouchedItem(s) \/ \E u \in Users : it = NewItemOf(u)
    BY <2>1, <2>3 DEF TouchedItem, NewItemOf
  <2> QED BY <1>3, <2>2, <2>3, ItemStep DEF AllInv
<1>4. ASSUME NEW r \in Requests, record'[r] # Gone
      PROVE  record'[r].seen <= now'
  <2>1. \A s \in Sessions : now <= now'
    BY ItemStep DEF AllInv
  <2>2. cookie[r] # Gone => cookie[r] \in Sessions
    BY DEF AllInv, TypeOK
  <2>3. CASE record'[r] = record[r]
    <3>1. record[r].seen \in Nat /\ record[r].seen <= now
      BY <1>4, <2>3 DEF AllInv, ViewsInv, TimesAgree, TypeOK, Items
    <3>2. now <= now'
      BY <1>1 DEF AllInv, TypeOK, Next, vars, Tick, Create, CatchUp, TtlDelete, Arrive, Get, Touch, Read,
           Logout, RevokeOthers, Revoke, Delete, DeleteNext, AllDeleted, StoreRaises
    <3> QED BY <1>1, <2>3, <3>1, <3>2
  <2>4. CASE LooksUp(r)
    <3>1. cookie[r] \in Sessions
      BY <2>4 DEF AllInv, TypeOK, LooksUp, Over
    <3> QED BY <1>1, <1>2, <1>4, <2>1, <2>4, <3>1 DEF LooksUp
  <2> QED BY <1>4, <2>3, <2>4, RequestStep
        DEF AllInv, ViewsInv, Stays, Ends, Arrives, GoesOn, SetsOut, Deletes
<1> QED BY <1>3, <1>4 DEF TimesAgree

(* What precedes an item, be it a copy or a request's record.              *)
LEMMA ViewPrecedes ==
    ASSUME AllInv, TypeOK', [Next]_vars, NEW s \in Sessions, NEW it \in {table[s], lagging[s]},
           Usable(it), Usable(table'[s])
    PROVE  it.user = table'[s].user /\ it.seen <= table'[s].seen
<1>1. s \in Created /\ it \in Items
  BY DEF AllInv, EndedInv, OnlyCreated, TypeOK, Usable
<1>2. Precedes(it, s)
  <2>1. it.seen \in Nat
    BY <1>1 DEF Items
  <2> QED BY <2>1 DEF AllInv, ViewsInv, CopiesPrecede, Precedes
<1> QED BY <1>1, <1>2, PrecedesStill

LEMMA CopiesNext == AllInv /\ TypeOK' /\ [Next]_vars => CopiesPrecede'
<1> SUFFICES ASSUME AllInv, TypeOK', [Next]_vars PROVE CopiesPrecede'
  OBVIOUS
<1>1. ASSUME NEW s \in Sessions, Usable(lagging'[s]), Usable(table'[s])
      PROVE  lagging'[s].user = table'[s].user /\ lagging'[s].seen <= table'[s].seen
  BY <1>1, ItemStep, ViewPrecedes DEF AllInv
<1>2. ASSUME NEW r \in Requests, pc'[r] \in Looked, Usable(table'[cookie'[r]])
      PROVE  /\ record'[r].user = table'[cookie'[r]].user
             /\ record'[r].seen <= table'[cookie'[r]].seen
  <2>1. cookie'[r] = cookie[r]
    BY <1>2, RequestStep
       DEF AllInv, ViewsInv, Stays, Ends, Arrives, LooksUp, GoesOn, SetsOut, Deletes, Looked, Over
  <2>2. CASE pc[r] \in Looked /\ record'[r] = record[r]
    <3>1. cookie[r] \in Created /\ record[r] \in Items /\ Precedes(record[r], cookie[r])
      BY <2>2 DEF AllInv, EndedInv, OnlyCreated, TypeOK, ViewsInv, CopiesPrecede, Looked, Over
    <3> QED BY <1>2, <2>1, <2>2, <3>1, PrecedesStill
  <2>3. CASE LooksUp(r)
    <3>1. cookie[r] \in Sessions
      BY <2>3 DEF AllInv, TypeOK, LooksUp, Over
    <3> QED BY <1>2, <2>1, <2>3, <3>1, ViewPrecedes DEF LooksUp
  <2> QED BY <1>2, <2>2, <2>3, RequestStep
        DEF AllInv, ViewsInv, Stays, Ends, Arrives, GoesOn, SetsOut, Deletes, Looked, Over
<1> QED BY <1>1, <1>2 DEF CopiesPrecede, Precedes, Usable

LEMMA MissingNext == AllInv /\ [Next]_vars => MissingIsEnded'
<1> SUFFICES ASSUME AllInv, [Next]_vars PROVE MissingIsEnded'
  OBVIOUS
<1>1. Nobody \notin Users /\ \A u \in Users : Usable(NewItemOf(u))
  BY NewIsItem, SessionsAssumption DEF AllInv, NewItemOf, Usable
<1>2. ASSUME NEW s \in Created'
      PROVE  Usable(table'[s]) \/ s \in ended'
  <2>1. s \in Sessions /\ ended \subseteq ended'
    <3>1. Created' \subseteq Sessions
      BY EndedNext DEF AllInv, EndedInv, Known, Created
    <3> QED BY <3>1, ItemStep DEF AllInv
  <2>2. CASE s \in Created
    <3>1. CASE table'[s] = TouchedItem(s)
      BY <1>1, <2>1, <2>2, <3>1, NewIsItem
         DEF AllInv, ViewsInv, MissingIsEnded, TouchedItem, NewItemOf, Usable
    <3>2. CASE table'[s] = table[s]
      BY <2>1, <2>2, <3>2 DEF AllInv, ViewsInv, MissingIsEnded, Usable
    <3> QED BY <2>1, <2>2, <3>1, <3>2, ItemStep DEF AllInv
  <2> QED BY <1>1, <2>1, <2>2, ItemStep DEF AllInv, Usable
<1>3. ASSUME NEW s \in Sessions
      PROVE  lagging'[s] = Gone \/ Usable(lagging'[s]) \/ s \in ended'
  BY ItemStep DEF AllInv, EndedInv, OnlyCreated, ViewsInv, MissingIsEnded, Usable
<1> QED BY <1>2, <1>3 DEF MissingIsEnded, Usable

LEMMA PendingNext == AllInv /\ [Next]_vars => PendingIsOwn' /\ OwedIsPending'
<1> SUFFICES ASSUME AllInv, [Next]_vars PROVE PendingIsOwn' /\ OwedIsPending'
  OBVIOUS
<1>1. ASSUME NEW r \in Requests, NEW s \in pending'[r], Usable(table'[s])
      PROVE  record'[r].user = table'[s].user
  <2>1. CASE s \in pending[r] /\ record'[r] = record[r]
    <3>1. s \in Created /\ s \in Sessions
      BY <2>1 DEF AllInv, EndedInv, OnlyCreated, Known
    <3> QED BY <1>1, <2>1, <3>1, ItemAges DEF AllInv, ViewsInv, PendingIsOwn
  <2>2. CASE SetsOut(r)
    BY <1>1, <2>2 DEF SetsOut, Usable
  <2>3. pc[r] = "get" => pending[r] = {}
    BY DEF AllInv, TypeOK
  <2> QED BY <1>1, <2>1, <2>2, <2>3, RequestStep
        DEF AllInv, ViewsInv, Stays, Ends, Arrives, LooksUp, GoesOn, Deletes
<1>2. ASSUME NEW r \in Requests, pc'[r] = "delete"
      PROVE  promised'[r] \subseteq pending'[r] \cup ended'
  <2>1. ended \subseteq ended'
    BY DEF Next, vars, Create, CatchUp, TtlDelete, Tick, Arrive, Get, Touch, Read, Logout, Revoke,
           RevokeOthers, Delete, DeleteNext, AllDeleted, StoreRaises
  <2>2. CASE pc[r] = "delete" /\ promised'[r] = promised[r]
             /\ (pending'[r] = pending[r] \/ \E s \in pending[r] : pending'[r] = pending[r] \ {s} /\ s \in ended')
    BY <2>1, <2>2 DEF AllInv, ViewsInv, OwedIsPending
  <2>3. CASE SetsOut(r)
    BY <2>3 DEF SetsOut
  <2> QED BY <1>2, <2>2, <2>3, RequestStep
        DEF AllInv, ViewsInv, Stays, Ends, Arrives, LooksUp, GoesOn, Deletes, Over
<1> QED BY <1>1, <1>2 DEF PendingIsOwn, OwedIsPending, Usable

LEMMA AllInvariant == Spec => []AllInv
<1>1. AllInv /\ [Next]_vars => AllInv'
  <2> SUFFICES ASSUME AllInv, [Next]_vars PROVE AllInv'
    OBVIOUS
  <2>1. EndedInv'
    BY EndedNext DEF AllInv
  <2>2. TypeOK'
    BY <2>1, TypeNext DEF AllInv, ViewsInv
  <2> QED BY <2>1, <2>2, TimesNext, CopiesNext, MissingNext, PendingNext DEF AllInv, ViewsInv
<1> QED BY <1>1, AllInit, PTL DEF Spec

-----------------------------------------------------------------------------
(* What the invariant says of the sessions.                                *)

(* Whatever requests, copies and deletions interleave, the table holds at  *)
(* most an item per session ever created, a request past its lookup has a  *)
(* record of a user (sessions.py:90-99), and only one that deletes has     *)
(* something to delete.                                                    *)
THEOREM SessionsAreTyped == Spec => []TypeOK
<1>1. AllInv => TypeOK
  BY DEF AllInv
<1> QED BY <1>1, AllInvariant, PTL

(* A request that deletes is done when it has deleted all it had to.       *)
LEMMA DoneHasNoPending ==
    ASSUME TypeOK, Next, NEW r \in Requests, pc[r] = "delete", pc'[r] = "done"
    PROVE  pending[r] = {} /\ ended' = ended
<1>1. ASSUME NEW q \in Requests, StoreRaises(q) PROVE FALSE
  BY <1>1, FinishStep DEF StoreRaises, Over, Stays
<1>2. ASSUME NEW q \in Requests, AllDeleted(q) PROVE pending[r] = {} /\ ended' = ended
  BY <1>2, FinishStep DEF AllDeleted, Over, Stays
<1>3. ASSUME NEW q \in Requests, Get(q) \/ Read(q) PROVE FALSE
  <2>1. CASE \E how \in Over : Finish(q, how)
    BY <1>3, <2>1, FinishStep DEF Get, Read, Stays
  <2>2. CASE pc' = [pc EXCEPT ![q] = "touch"]
    BY <2>2 DEF TypeOK
  <2> QED BY <1>3, <2>1, <2>2 DEF Get, Read, Over
<1>4. ASSUME NEW q \in Requests,
             \/ Touch(q) \/ Logout(q) \/ RevokeOthers(q) \/ DeleteNext(q)
             \/ \E s \in Created : Revoke(q, s)
             \/ \E s \in Sessions : Arrive(q, s)
      PROVE  FALSE
  BY <1>4 DEF Touch, Logout, RevokeOthers, Revoke, Delete, DeleteNext, Arrive, TypeOK
<1>5. ASSUME NEW s \in Sessions, CatchUp(s) \/ TtlDelete(s) \/ \E u \in Users : Create(s, u)
      PROVE  FALSE
  BY <1>5 DEF CatchUp, TtlDelete, Create, requestVars
<1>6. ~Tick
  BY DEF Tick, requestVars
<1> QED BY <1>1, <1>2, <1>3, <1>4, <1>5, <1>6 DEF Next

(* A logout or a revocation answered 204 has ended every session it was    *)
(* for and that its read of the index could not miss                       *)
(* (api/v1/auth.py:124-165): what it owes is to be deleted or was, and     *)
(* what was deleted no touch brings back.                                  *)
THEOREM RevocationIsKept == Spec => RevocationHolds
<1> DEFINE Kept == \A r \in Requests : pc[r] = "delete" /\ pc'[r] = "done" =>
                      \A s \in promised[r] : ~Usable(table'[s])
<1>1. AllInv /\ AllInv' /\ [Next]_vars => [Kept]_vars
  <2> SUFFICES ASSUME AllInv, AllInv', Next, NEW r \in Requests, pc[r] = "delete", pc'[r] = "done",
                      NEW s \in promised[r]
               PROVE  ~Usable(table'[s])
    OBVIOUS
  <2>1. pending[r] = {} /\ ended' = ended
    BY DoneHasNoPending DEF AllInv
  <2>2. s \in ended'
    BY <2>1 DEF AllInv, ViewsInv, OwedIsPending
  <2> QED BY <2>2 DEF AllInv, EndedInv, EndedHasNoUser, Usable
<1> QED BY <1>1, AllInvariant, PTL DEF Spec, RevocationHolds

(* What makes a session's item unusable before it expires is a request     *)
(* that has the session to delete.                                         *)
LEMMA OnlyDeletionEnds ==
    ASSUME AllInv, Next, NEW s \in Sessions, Usable(table[s]), table[s].expires > now,
           ~Usable(table'[s])
    PROVE  \E r \in Requests : s \in pending[r]
<1>1. s \in Created
  BY DEF AllInv, EndedInv, OnlyCreated, Usable
<1>2. table'[s] # table[s]
  BY DEF Usable
<1>3. ASSUME NEW r \in Requests, DeleteNext(r) PROVE s \in pending[r]
  BY <1>2, <1>3 DEF DeleteNext, AllInv, TypeOK
<1>4. ASSUME NEW r \in Requests, Touch(r) PROVE FALSE
  <2>1. Touched(r) = TouchedItem(cookie[r])
    BY DEF Touched, TouchedItem, NewItemOf
  <2>2. Usable(TouchedItem(s))
    <3>1. TouchedItem(s).user = table[s].user
      BY DEF TouchedItem, NewItemOf, Usable
    <3> QED BY <3>1, NewIsItem DEF AllInv, Usable
  <2> QED BY <1>2, <1>4, <2>1, <2>2 DEF Touch, AllInv, TypeOK, Usable
<1>5. ASSUME NEW q \in Sessions, CatchUp(q) \/ TtlDelete(q) \/ \E u \in Users : Create(q, u)
      PROVE  FALSE
  <2>1. table[s].expires \in Nat /\ now \in Nat
    BY DEF AllInv, TypeOK, Items, Usable
  <2>2. CASE CatchUp(q) \/ TtlDelete(q)
    BY <1>2, <2>1, <2>2 DEF CatchUp, TtlDelete, AllInv, TypeOK
  <2>3. CASE \E u \in Users : Create(q, u)
    BY <1>1, <1>2, <2>3 DEF Create, AllInv, TypeOK
  <2> QED BY <1>5, <2>2, <2>3
<1>6. ASSUME NEW r \in Requests,
             \/ \E q \in Sessions : Arrive(r, q)
             \/ Get(r) \/ Read(r) \/ Logout(r) \/ RevokeOthers(r)
             \/ \E q \in Created : Revoke(r, q)
             \/ AllDeleted(r) \/ StoreRaises(r)
      PROVE  FALSE
  BY <1>2, <1>6 DEF Arrive, Get, Read, Logout, RevokeOthers, Revoke, Delete, AllDeleted, StoreRaises,
                    tableVars
<1>7. ~Tick
  BY <1>2 DEF Tick, tableVars
<1> QED BY <1>3, <1>4, <1>5, <1>6, <1>7 DEF Next

(* A session that has not expired ends only by a request of its own user   *)
(* (api/v1/auth.py:124-165): the list a request revokes from is read from  *)
(* the index, whose copies may lag but are of the item's user.             *)
THEOREM OthersCannotEndIt == Spec => OnlyItsUserEndsIt
<1> DEFINE Own == \A s \in Sessions :
                     Usable(table[s]) /\ table[s].expires > now /\ ~Usable(table'[s]) =>
                       \E r \in Requests : s \in pending[r] /\ record[r].user = table[s].user
<1>1. AllInv /\ [Next]_vars => [Own]_vars
  <2> SUFFICES ASSUME AllInv, Next, NEW s \in Sessions, Usable(table[s]), table[s].expires > now,
                      ~Usable(table'[s])
               PROVE  \E r \in Requests : s \in pending[r] /\ record[r].user = table[s].user
    OBVIOUS
  <2> QED BY OnlyDeletionEnds DEF AllInv, ViewsInv, PendingIsOwn
<1> QED BY <1>1, AllInvariant, PTL DEF Spec, OnlyItsUserEndsIt

(* A request that goes past its touch has touched.                         *)
LEMMA PastTouch ==
    ASSUME TypeOK, Next, NEW r \in Requests, pc[r] = "touch", pc'[r] \notin {"touch", "stopped"}
    PROVE  Touch(r)
<1>1. ASSUME NEW q \in Requests, StoreRaises(q) PROVE FALSE
  BY <1>1, FinishStep DEF StoreRaises, Over, Stays
<1>2. ASSUME NEW q \in Requests, Get(q) \/ Read(q) \/ AllDeleted(q) PROVE FALSE
  <2>1. CASE \E how \in Over : Finish(q, how)
    BY <1>2, <2>1, FinishStep DEF Get, Read, AllDeleted, Stays
  <2>2. CASE pc' = [pc EXCEPT ![q] = "touch"]
    BY <2>2 DEF TypeOK
  <2> QED BY <1>2, <2>1, <2>2 DEF Get, Read, AllDeleted, Over
<1>3. ASSUME NEW q \in Requests,
             \/ Logout(q) \/ RevokeOthers(q) \/ DeleteNext(q)
             \/ \E s \in Created : Revoke(q, s)
             \/ \E s \in Sessions : Arrive(q, s)
      PROVE  FALSE
  BY <1>3 DEF Logout, RevokeOthers, Revoke, Delete, DeleteNext, Arrive, TypeOK, Over
<1>4. ASSUME NEW s \in Sessions, CatchUp(s) \/ TtlDelete(s) \/ \E u \in Users : Create(s, u)
      PROVE  FALSE
  BY <1>4 DEF CatchUp, TtlDelete, Create, requestVars
<1>5. ~Tick
  BY DEF Tick, requestVars
<1>6. ASSUME NEW q \in Requests, Touch(q) PROVE q = r
  BY <1>6 DEF Touch, TypeOK
<1> QED BY <1>1, <1>2, <1>3, <1>4, <1>5, <1>6 DEF Next

(* Sliding expiry (sessions.py:102-117): a request past its lookup leaves  *)
(* its session valid for at least Ttl - RefreshAfter more, though the      *)
(* record that decides whether to write is as old as the copy it came from *)
(* - the table's item can only be younger.                                 *)
THEOREM UseKeepsAlive == Spec => UseExtends
<1> DEFINE Extends == \A r \in Requests :
              pc[r] = "touch" /\ pc'[r] \notin {"touch", "stopped"} /\ Usable(table'[cookie[r]]) =>
                 table'[cookie[r]].expires > now + Ttl - RefreshAfter
<1>1. AllInv /\ [Next]_vars => [Extends]_vars
  <2> SUFFICES ASSUME AllInv, Next, NEW r \in Requests, pc[r] = "touch",
                      pc'[r] \notin {"touch", "stopped"}, Usable(table'[cookie[r]])
               PROVE  table'[cookie[r]].expires > now + Ttl - RefreshAfter
    OBVIOUS
  <2> DEFINE s == cookie[r]
  <2>1. Touch(r)
    BY PastTouch DEF AllInv
  <2>2. s \in Sessions /\ now \in Nat /\ Ttl \in Nat /\ RefreshAfter \in Nat /\ 0 < RefreshAfter
    BY SessionsAssumption DEF AllInv, TypeOK, Over
  <2>3. CASE table' = [table EXCEPT ![s] = Touched(r)]
    BY <2>2, <2>3 DEF Touched, AllInv, TypeOK
  <2>4. CASE table' = table /\ now - record[r].seen < RefreshAfter
    <3>1. record[r] \in Items /\ record[r].seen \in Nat /\ record[r].seen <= now
      BY DEF AllInv, TypeOK, ViewsInv, TimesAgree, Items
    <3>2. /\ table[s].expires = table[s].seen + Ttl /\ table[s].seen \in Nat
          /\ record[r].seen <= table[s].seen
      BY <2>2, <2>4
         DEF AllInv, TypeOK, ViewsInv, TimesAgree, CopiesPrecede, Precedes, Looked, Items, Usable
    <3> QED BY <2>2, <2>4, <3>1, <3>2
  <2> QED BY <2>1, <2>3, <2>4 DEF Touch
<1> QED BY <1>1, AllInvariant, PTL DEF Spec, UseExtends

(* A cookie whose item could not be read, and was answered 500, is of a    *)
(* session that had been deleted (sessions.py:90-117).                     *)
THEOREM CrashedIsOver == Spec => UnreadableIsOver
<1> DEFINE WasOver == \A r \in Requests : pc[r] = "get" /\ pc'[r] = "crashed" => cookie[r] \in ended
<1>1. AllInv /\ [Next]_vars => [WasOver]_vars
  <2> SUFFICES ASSUME AllInv, Next, NEW r \in Requests, pc[r] = "get", pc'[r] = "crashed"
               PROVE  cookie[r] \in ended
    OBVIOUS
  <2>1. cookie[r] \in Sessions
    BY DEF AllInv, TypeOK, Over
  <2>2. TypeOK
    BY DEF AllInv
  <2>3. ASSUME NEW q \in Requests, Get(q)
        PROVE  \E it \in {table[cookie[r]], lagging[cookie[r]]} : it # Gone /\ ~Usable(it)
    <3>1. CASE \E how \in Over : Finish(q, how)
      <4>1. PICK how \in Over : Finish(q, how)
        BY <3>1
      <4>2. q = r /\ how = "crashed"
        BY <2>2, <4>1, FinishStep DEF Ends, Stays
      <4>3. \E it \in {table[cookie[r]], lagging[cookie[r]]} :
               \/ it # Gone /\ ~Usable(it)
               \/ pc' = [pc EXCEPT ![r] = "stopped"] \/ pc' = [pc EXCEPT ![r] = "touch"]
        BY <2>3, <4>2 DEF Get, Finish
      <4> QED BY <2>2, <4>3 DEF TypeOK
    <3>2. CASE pc' = [pc EXCEPT ![q] = "touch"]
      BY <2>2, <3>2 DEF TypeOK
    <3> QED BY <2>3, <3>1, <3>2 DEF Get, Over
  <2>4. ASSUME NEW q \in Requests, Read(q) \/ AllDeleted(q) \/ StoreRaises(q) PROVE FALSE
    <3>1. PICK how \in {"done", "stopped"} : Finish(q, how)
      BY <2>4 DEF Read, AllDeleted, StoreRaises
    <3> QED BY <2>2, <3>1, FinishStep DEF Over, Stays
  <2>5. ASSUME NEW q \in Requests,
               \/ Touch(q) \/ Logout(q) \/ RevokeOthers(q) \/ DeleteNext(q)
               \/ \E s \in Created : Revoke(q, s)
               \/ \E s \in Sessions : Arrive(q, s)
        PROVE  FALSE
    BY <2>2, <2>5 DEF Touch, Logout, RevokeOthers, Revoke, Delete, DeleteNext, Arrive, TypeOK
  <2>6. ASSUME NEW s \in Sessions, CatchUp(s) \/ TtlDelete(s) \/ \E u \in Users : Create(s, u)
        PROVE  FALSE
    BY <2>6 DEF CatchUp, TtlDelete, Create, requestVars
  <2>7. ~Tick
    BY DEF Tick, requestVars
  <2>8. \E it \in {table[cookie[r]], lagging[cookie[r]]} : it # Gone /\ ~Usable(it)
    BY <2>3, <2>4, <2>5, <2>6, <2>7 DEF Next
  <2> QED BY <2>1, <2>8 DEF AllInv, EndedInv, OnlyCreated, ViewsInv, MissingIsEnded
<1> QED BY <1>1, AllInvariant, PTL DEF Spec, UnreadableIsOver

-----------------------------------------------------------------------------
(* The store and its requests implement SessionLife.                       *)

UserOf(r) == IF pc[r] \in {"touch", "handle", "delete"} THEN record[r].user ELSE Nobody

(* The times and users that a step is told by.                             *)
LEMMA LifeTypes ==
    ASSUME AllInv, NEW s \in Sessions
    PROVE  /\ now \in Nat /\ Ttl \in Nat /\ Nobody \notin Users
           /\ Usable(table[s]) => s \in Created /\ table[s].user \in Users /\ table[s].expires \in Nat
           /\ Usable(lagging[s]) => s \in Created /\ lagging[s].user \in Users /\ lagging[s].expires \in Nat
           /\ Usable(table[s]) /\ Usable(lagging[s]) =>
                 lagging[s].user = table[s].user /\ lagging[s].expires <= table[s].expires
<1>1. now \in Nat /\ Ttl \in Nat /\ Nobody \notin Users
  BY SessionsAssumption DEF AllInv, TypeOK
<1>2. ASSUME NEW it \in {table[s], lagging[s]}, Usable(it)
      PROVE  /\ s \in Created /\ it.user \in Users /\ it.expires \in Nat
             /\ it.seen \in Nat /\ it.expires = it.seen + Ttl
  <2>1. s \in Created
    BY <1>2 DEF AllInv, EndedInv, OnlyCreated, Usable
  <2>2. it \in Items
    BY <1>2 DEF AllInv, TypeOK, Usable
  <2> QED BY <1>1, <1>2, <2>1, <2>2 DEF Items, Usable, AllInv, ViewsInv, TimesAgree
<1>3. Usable(table[s]) /\ Usable(lagging[s]) =>
         lagging[s].user = table[s].user /\ lagging[s].seen <= table[s].seen
  BY DEF AllInv, ViewsInv, CopiesPrecede, Precedes
<1> QED BY <1>1, <1>2, <1>3

(* A session that loses its item, by a deletion of one that had expired or *)
(* that a request of its user deletes, ends; one whose item had no user    *)
(* had nothing to lose.                                                    *)
LEMMA DeletionEnds ==
    ASSUME AllInv, NEW s \in Sessions, table' = [table EXCEPT ![s] = Gone],
           UNCHANGED <<now, created, lagging, pc, record>>,
           Usable(table[s]) => \/ table[s].expires <= now
                               \/ \E r \in Requests : UserOf(r) = table[s].user
    PROVE  [Life!Next]_(Life!vars)
<1>1. Created' = Created
  BY DEF Created
<1>2. ~Usable(table'[s]) /\ \A x \in Sessions \ {s} : table'[x] = table[x]
  BY DEF AllInv, TypeOK, Usable
<1>3. \A x \in Sessions \ {s} : LifeState(x)' = LifeState(x) /\ LifeItem(x)' = LifeItem(x)
  BY <1>1, <1>2 DEF LifeState, LifeItem, Usable
<1>4. CASE Usable(table[s])
  <2>1. LifeState(s) = "open" /\ LifeItem(s) = table[s] /\ s \in Created
    BY <1>4, LifeTypes DEF LifeState, LifeItem
  <2>2. LifeItem(s).expires <= now \/ Life!InUse(s)
    BY <1>4, <2>1 DEF Life!InUse, UserOf
  <2>3. CASE Usable(lagging[s])
    <3>1. LifeState(s)' = "fading" /\ LifeItem(s)' = lagging[s]
      BY <1>2, <2>3 DEF LifeState, LifeItem, Usable
    <3>2. lagging[s].user = LifeItem(s).user /\ lagging[s].expires \in 0..LifeItem(s).expires
      BY <1>4, <2>1, <2>3, LifeTypes
    <3>3. Life!End(s)
      BY <1>3, <2>1, <2>2, <3>1, <3>2 DEF Life!End
    <3> QED BY <3>3 DEF Life!Next
  <2>4. CASE ~Usable(lagging[s])
    <3>1. /\ LifeState(s)' = "over"
          /\ LifeItem(s)'.user = Nobody /\ LifeItem(s)'.expires = 0
      BY <1>1, <1>2, <2>1, <2>4 DEF LifeState, LifeItem, Usable
    <3>2. Life!End(s)
      BY <1>3, <2>1, <2>2, <3>1 DEF Life!End, Life!Closed
    <3> QED BY <3>2 DEF Life!Next
  <2> QED BY <2>3, <2>4
<1>5. CASE ~Usable(table[s])
  <2>1. LifeState(s)' = LifeState(s) /\ LifeItem(s)' = LifeItem(s)
    BY <1>1, <1>2, <1>5 DEF LifeState, LifeItem, Usable
  <2> QED BY <1>3, <2>1 DEF Life!vars
<1> QED BY <1>4, <1>5

(* What a session and a request are told by, when a step leaves it alone.  *)
LEMMA Untold ==
    ASSUME UNCHANGED <<now, tableVars>>, \A r \in Requests : UserOf(r)' = UserOf(r)
    PROVE  UNCHANGED Life!vars
<1>1. \A s \in Sessions : LifeState(s)' = LifeState(s) /\ LifeItem(s)' = LifeItem(s)
  BY DEF tableVars, LifeState, LifeItem, Created, Usable
<1> QED BY <1>1 DEF Life!vars, UserOf

(* A request leaves when it ends after its look-up.                        *)
LEMMA EndLeaves ==
    ASSUME TypeOK, NEW r \in Requests, NEW how \in Over, Finish(r, how),
           UNCHANGED <<now, tableVars>>
    PROVE  [Life!Next]_(Life!vars)
<1>1. \A s \in Sessions : LifeState(s)' = LifeState(s) /\ LifeItem(s)' = LifeItem(s)
  BY DEF tableVars, LifeState, LifeItem, Created, Usable
<1>2. UserOf(r)' = Nobody /\ \A q \in Requests \ {r} : UserOf(q)' = UserOf(q)
  BY DEF TypeOK, Finish, UserOf, Over
<1>3. CASE UserOf(r) # Nobody
  <2>1. Life!Leave(r)
    BY <1>1, <1>2, <1>3 DEF Life!Leave, UserOf
  <2> QED BY <2>1 DEF Life!Next
<1>4. CASE UserOf(r) = Nobody
  BY <1>2, <1>4, Untold
<1> QED BY <1>3, <1>4

(* A look-up that finds a session, in the table or in a copy, admits.      *)
LEMMA LookupAdmits ==
    ASSUME AllInv, NEW r \in Requests, Get(r)
    PROVE  [Life!Next]_(Life!vars)
<1> PICK s \in Sessions : s = cookie[r] /\ pc[r] = "get"
  BY DEF Get, AllInv, TypeOK, Over
<1>1. CASE \E how \in Over : Finish(r, how)
  BY <1>1, EndLeaves DEF Get, AllInv
<1>2. ASSUME NEW it \in {table[s], lagging[s]}, Usable(it), it.expires > now,
             record' = [record EXCEPT ![r] = it], pc' = [pc EXCEPT ![r] = "touch"]
      PROVE  Life!Admit(r, s)
  <2>1. UNCHANGED <<now, tableVars>>
    BY DEF Get
  <2>2. \A x \in Sessions : LifeState(x)' = LifeState(x) /\ LifeItem(x)' = LifeItem(x)
    BY <2>1 DEF tableVars, LifeState, LifeItem, Created, Usable
  <2>3. /\ UserOf(r) = Nobody /\ UserOf(r)' = it.user
        /\ \A q \in Requests \ {r} : UserOf(q)' = UserOf(q)
    BY <1>2, <2>1 DEF UserOf, AllInv, TypeOK
  <2>4. LifeState(s) \in {"open", "fading"} /\ LifeItem(s).user = it.user /\ LifeItem(s).expires > now
    BY <1>2, <2>1, LifeTypes DEF LifeState, LifeItem
  <2> QED BY <2>1, <2>2, <2>3, <2>4 DEF Life!Admit, UserOf
<1>3. CASE \E it \in {table[s], lagging[s]} :
              /\ Usable(it) /\ it.expires > now
              /\ record' = [record EXCEPT ![r] = it] /\ pc' = [pc EXCEPT ![r] = "touch"]
  <2>1. Life!Admit(r, s)
    BY <1>2, <1>3
  <2> QED BY <2>1 DEF Life!Next
<1> QED BY <1>1, <1>3 DEF Get, Over

(* A touch extends the session, which is the record's user's; one that     *)
(* comes too late makes an item that nothing is told by.                   *)
LEMMA TouchExtends ==
    ASSUME AllInv, NEW r \in Requests, Touch(r)
    PROVE  [Life!Next]_(Life!vars)
<1> PICK s \in Sessions : s = cookie[r] /\ pc[r] = "touch"
  BY DEF Touch, AllInv, TypeOK, Over
<1>1. Created' = Created
  BY DEF Touch, Created
<1>2. \A q \in Requests : UserOf(q)' = UserOf(q)
  BY DEF Touch, UserOf, AllInv, TypeOK
<1>3. CASE table' = table
  BY <1>2, <1>3, Untold DEF Touch, tableVars
<1>4. ASSUME table' = [table EXCEPT ![s] = Touched(r)]
      PROVE  [Life!Next]_(Life!vars)
  <2>1. \A x \in Sessions \ {s} : LifeState(x)' = LifeState(x) /\ LifeItem(x)' = LifeItem(x)
    BY <1>1, <1>4 DEF Touch, LifeState, LifeItem, Usable, AllInv, TypeOK
  <2>2. /\ table'[s] = Touched(r) /\ lagging' = lagging /\ now' = now
        /\ Touched(r) = TouchedItem(s) /\ Touched(r) # Gone
    BY <1>1, <1>4, NewIsItem DEF Touch, Touched, TouchedItem, NewItemOf, AllInv, TypeOK
  <2>3. CASE Usable(table[s])
    <3>1. LifeState(s) = "open" /\ LifeItem(s) = table[s]
      BY <2>3 DEF LifeState, LifeItem
    <3>2. Touched(r).user = table[s].user /\ Touched(r).expires = now + Ttl
      BY <2>3 DEF Touched, Usable
    <3>3. LifeState(s)' = "open" /\ LifeItem(s)' = Touched(r)
      BY <2>2, <2>3, <3>2 DEF LifeState, LifeItem, Usable
    <3>4. UserOf(r) = table[s].user
      BY <1>1, <2>3 DEF UserOf, AllInv, ViewsInv, CopiesPrecede, Precedes, Looked
    <3>5. Life!Extend(s)
      BY <1>1, <1>2, <2>1, <2>2, <3>1, <3>2, <3>3, <3>4 DEF Life!Extend, Life!InUse, UserOf
    <3> QED BY <1>1, <3>5 DEF Life!Next
  <2>4. CASE ~Usable(table[s])
    <3>1. ~Usable(Touched(r))
      BY <2>4, SessionsAssumption DEF Touched, Usable
    <3>2. LifeState(s)' = LifeState(s) /\ LifeItem(s)' = LifeItem(s)
      BY <1>1, <2>2, <2>4, <3>1 DEF LifeState, LifeItem, Usable
    <3> QED BY <1>2, <2>1, <2>2, <3>2 DEF Life!vars, UserOf
  <2> QED BY <2>3, <2>4
<1> QED BY <1>3, <1>4 DEF Touch

(* Every step of the system is one of the promise or is not told of.       *)
LEMMA LifeStep == AllInv /\ AllInv' /\ [Next]_vars => [Life!Next]_(Life!vars)
<1> SUFFICES ASSUME AllInv, AllInv', [Next]_vars PROVE [Life!Next]_(Life!vars)
  OBVIOUS
<1>1. ASSUME NEW s \in Sessions, NEW u \in Users, Create(s, u)
      PROVE  Life!Open(s, u)
  <2>1. Created' = Created \cup {s}
    BY <1>1, CreatedGrows DEF Create, AllInv, TypeOK
  <2>2. /\ LifeState(s) = "none" /\ LifeState(s)' = "open"
        /\ LifeItem(s)'.user = u /\ LifeItem(s)'.expires = now + Ttl
    <3>1. ~Usable(table[s]) /\ ~Usable(lagging[s]) /\ s \notin Created
      BY <1>1, LifeTypes DEF Create
    <3>2. table'[s] = NewItemOf(u) /\ Usable(NewItemOf(u))
      BY <1>1, NewIsItem DEF Create, NewItemOf, AllInv, TypeOK, Usable
    <3> QED BY <3>1, <3>2 DEF LifeState, LifeItem, NewItemOf, Usable
  <2>3. \A x \in Sessions \ {s} : LifeState(x)' = LifeState(x) /\ LifeItem(x)' = LifeItem(x)
    BY <1>1, <2>1 DEF Create, LifeState, LifeItem, Usable, AllInv, TypeOK
  <2>4. \A r \in Requests : UserOf(r)' = UserOf(r)
    BY <1>1 DEF Create, requestVars, UserOf
  <2> QED BY <1>1, <2>2, <2>3, <2>4 DEF Life!Open, UserOf, Create
<1>2. ASSUME NEW s \in Sessions, CatchUp(s)
      PROVE  [Life!Next]_(Life!vars)
  <2>1. \A r \in Requests : UserOf(r)' = UserOf(r)
    BY <1>2 DEF CatchUp, requestVars, UserOf
  <2>2. /\ Created' = Created /\ now' = now /\ table' = table /\ lagging'[s] = table[s]
        /\ \A x \in Sessions \ {s} : lagging'[x] = lagging[x]
    BY <1>2 DEF CatchUp, Created, AllInv, TypeOK
  <2>3. \A x \in Sessions \ {s} : LifeState(x)' = LifeState(x) /\ LifeItem(x)' = LifeItem(x)
    BY <2>2 DEF LifeState, LifeItem, Usable
  <2>4. CASE Usable(lagging[s]) /\ ~Usable(table[s])
    <3>1. /\ LifeState(s) = "fading" /\ LifeState(s)' = "over"
          /\ LifeItem(s)'.user = Nobody /\ LifeItem(s)'.expires = 0
      BY <2>2, <2>4, LifeTypes DEF LifeState, LifeItem, Usable
    <3>2. Life!Fade(s)
      BY <2>1, <2>2, <2>3, <3>1 DEF Life!Fade, Life!Closed, UserOf
    <3> QED BY <3>2 DEF Life!Next
  <2>5. CASE Usable(table[s]) \/ ~Usable(lagging[s])
    <3>1. LifeState(s)' = LifeState(s) /\ LifeItem(s)' = LifeItem(s)
      BY <2>2, <2>5 DEF LifeState, LifeItem, Usable
    <3> QED BY <2>1, <2>2, <2>3, <3>1 DEF Life!vars, UserOf
  <2> QED BY <2>4, <2>5
<1>3. ASSUME NEW s \in Sessions, TtlDelete(s)
      PROVE  [Life!Next]_(Life!vars)
  BY <1>3, DeletionEnds DEF TtlDelete, requestVars
<1>4. CASE Tick
  <2>1. \A s \in Sessions : LifeState(s)' = LifeState(s) /\ LifeItem(s)' = LifeItem(s)
    BY <1>4 DEF Tick, tableVars, LifeState, LifeItem, Created, Usable
  <2>2. \A r \in Requests : UserOf(r)' = UserOf(r)
    BY <1>4 DEF Tick, requestVars, UserOf
  <2>3. Life!Tick
    BY <1>4, <2>1, <2>2 DEF Tick, Life!Tick, UserOf
  <2> QED BY <2>3 DEF Life!Next
<1>5. ASSUME NEW r \in Requests, NEW s \in Sessions, Arrive(r, s)
      PROVE  UNCHANGED Life!vars
  <2>1. \A q \in Requests : UserOf(q)' = UserOf(q)
    BY <1>5 DEF Arrive, UserOf, AllInv, TypeOK, Over
  <2> QED BY <1>5, <2>1, Untold DEF Arrive
<1>6. ASSUME NEW r \in Requests, Read(r) \/ AllDeleted(r) \/ StoreRaises(r)
      PROVE  [Life!Next]_(Life!vars)
  BY <1>6, EndLeaves DEF Read, AllDeleted, StoreRaises, Over, AllInv
<1>7. ASSUME NEW r \in Requests, NEW S, NEW owed, Delete(r, S, owed)
      PROVE  UNCHANGED Life!vars
  <2>1. \A q \in Requests : UserOf(q)' = UserOf(q)
    BY <1>7 DEF Delete, UserOf, AllInv, TypeOK
  <2> QED BY <1>7, <2>1, Untold DEF Delete
<1>8. ASSUME NEW r \in Requests, Logout(r) \/ RevokeOthers(r) \/ \E s \in Created : Revoke(r, s)
      PROVE  UNCHANGED Life!vars
  BY <1>7, <1>8 DEF Logout, RevokeOthers, Revoke
<1>9. ASSUME NEW r \in Requests, DeleteNext(r)
      PROVE  [Life!Next]_(Life!vars)
  <2>1. pc[r] = "delete"
    BY <1>9 DEF DeleteNext
  <2>2. PICK s \in pending[r] : table' = [table EXCEPT ![s] = Gone]
    BY <1>9 DEF DeleteNext
  <2>3. s \in Sessions
    BY DEF AllInv, TypeOK
  <2>4. Usable(table[s]) => UserOf(r) = table[s].user
    BY <2>1 DEF UserOf, AllInv, ViewsInv, PendingIsOwn
  <2> QED BY <1>9, <2>2, <2>3, <2>4, DeletionEnds DEF DeleteNext
<1>10. CASE UNCHANGED vars
  <2>1. \A q \in Requests : UserOf(q)' = UserOf(q)
    BY <1>10 DEF vars, UserOf
  <2> QED BY <1>10, <2>1, Untold DEF vars, tableVars
<1> QED BY <1>1, <1>2, <1>3, <1>4, <1>5, <1>6, <1>8, <1>9, <1>10, LookupAdmits, TouchExtends
        DEF Next, Life!Next

(* For any lag of the reads and any overlap of the requests, the store     *)
(* keeps what SessionLife promises: a session admits only its own user,    *)
(* until it expires, is ended before that by its user's requests alone,    *)
(* and never opens again, not even by a touch that comes after its         *)
(* deletion (sessions.py:76-144, api/deps.py:54-62).                       *)
THEOREM SessionsImplementLife == Spec => ImplementsSessionLife
<1>1. Init => Life!Init
  <2> SUFFICES ASSUME Init PROVE Life!Init
    OBVIOUS
  <2>1. \A s \in Sessions : /\ LifeState(s) = "none" /\ LifeItem(s).user = Nobody
                            /\ LifeItem(s).expires = 0
    BY DEF Init, LifeState, LifeItem, Usable, Created
  <2>2. \A r \in Requests : UserOf(r) = Nobody
    BY DEF Init, UserOf
  <2> QED BY <2>1, <2>2 DEF Init, Life!Init, UserOf
<1>2. AllInv /\ AllInv' /\ [Next]_vars => [Life!Next]_(Life!vars)
  BY LifeStep
<1> QED BY <1>1, <1>2, AllInvariant, PTL DEF Spec, Life!Spec, ImplementsSessionLife
=============================================================================
