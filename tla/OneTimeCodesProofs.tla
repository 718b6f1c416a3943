------------------------- MODULE OneTimeCodesProofs -------------------------
(***************************************************************************)
(* That a code works once, dies with the next one and counts its wrong     *)
(* tries exactly outside the overlaps of two verifications, for any number *)
(* of browsers, requests, codes and tries; and that who is signed in has a *)
(* user.                                                                   *)
(*                                                                         *)
(* What carries it: whoever holds an item between its read and its write   *)
(* either sees the table still as it read it, or both its own code and the *)
(* table's are marked as slipped.  So whoever decides on a code that has   *)
(* not slipped decides on the newest one, which makes each step one of     *)
(* CodeLife, or nothing to it.                                             *)
(***************************************************************************)
EXTENDS OneTimeCodes, Integers, FiniteSetTheorems, TLAPS

Deciding == {"delete", "count", "consume"}

Types ==
    /\ issued \in 0..MaxCodes /\ lapsed \in 0..issued
    /\ table \in Items \cup {NoItem} /\ lagging \in Items \cup {NoItem}
    /\ mailed \subseteq 1..issued
    /\ cookie \in [Browsers -> 0..MaxCodes \cup {NoItem}]
    /\ user \in {"none", "exists"}
    /\ pc \in [Requests -> Over \cup {"issue", "send", "get", "delete", "count", "consume",
                                      "user", "insert", "session", "commit"}]
    /\ browser \in [Requests -> Browsers \cup {NoBrowser}]
    /\ typed \in [Requests -> 0..MaxCodes]
    /\ challenge \in [Requests -> 0..MaxCodes]
    /\ item \in [Requests -> Items \cup {NoItem}]
    /\ wrong \in 0..MaxAttempts
    /\ used \in [Codes -> 0..2]
    /\ slipped \subseteq Codes

(* A request has a browser until it is over, an item while it decides, and *)
(* a code that was issued when it sends one.                               *)
RequestsAreSound ==
    \A r \in Requests : /\ pc[r] \in Over <=> browser[r] = NoBrowser
                        /\ pc[r] \in Deciding <=> item[r] # NoItem
                        /\ pc[r] = "send" => challenge[r] \in 1..issued

(* No item is of a code not issued yet, none is held that has no code, and *)
(* the decision left room for one more try just when it is counted.        *)
ItemsAreBounded ==
    /\ table # NoItem => table.code <= issued /\ table.attempts < MaxAttempts
    /\ lagging # NoItem => lagging.code <= issued /\ lagging.attempts < MaxAttempts
    /\ \A r \in Requests : item[r] # NoItem =>
          /\ item[r].code \in 1..issued /\ item[r].attempts < MaxAttempts
          /\ pc[r] = "count" <=> (pc[r] \notin {"consume"} /\ item[r].attempts + 1 < MaxAttempts)

(* One users row is inserted at a time, by a request about to commit it.   *)
OneInserts ==
    /\ \A r \in inserted : r \in Requests /\ pc[r] \in {"session", "commit"}
    /\ \A q, r \in inserted : q = r

SoundInv == Types /\ RequestsAreSound /\ ItemsAreBounded /\ OneInserts

(* The code in the table is the newest one.                                *)
TableIsNewest == table # NoItem => table.code \in {0, issued}

(* Whoever is between read and write sees the table as it read it, or its  *)
(* code and the table's have slipped.                                      *)
HeldIsCurrent ==
    \A r \in Holding :
        table = item[r] \/ (CodeOf(item[r]) \subseteq slipped /\ CodeOf(table) \subseteq slipped)

(* Two of them at once have let their codes and the table's slip.          *)
TwoHaveSlipped ==
    \A q, r \in Holding :
        q # r => CodeOf(item[r]) \subseteq slipped /\ CodeOf(table) \subseteq slipped

(* An item without a code takes an overlap, and so does reading one.       *)
HuskHasSlipped ==
    /\ Husk(table) \/ Husk(lagging) => slipped # {}
    /\ \A r \in Requests : pc[r] = "crashed" => slipped # {}

OverlapInv == TableIsNewest /\ HeldIsCurrent /\ TwoHaveSlipped /\ HuskHasSlipped

(* A code not issued is not used, and one that was used is not in the table*)
(* any more.                                                               *)
UsedIsGone ==
    \A c \in Codes : used[c] > 0 => c <= issued /\ (table # NoItem /\ table.code = c => c \in slipped)

CountInv == UsedIsGone /\ CodeWorksOnce /\ AttemptsAreExact /\ NewestCodeIsThere

CodesInv == SoundInv /\ OverlapInv /\ CountInv

(* Whoever puts a session has found the user or has inserted it.           *)
UserIsSeen ==
    \A r \in Requests : pc[r] \in {"session", "commit"} => user = "exists" \/ r \in inserted

-----------------------------------------------------------------------------
(* Types and what they tie together.                                       *)

(* At first there is nothing.                                              *)
LEMMA SoundInit == Init => SoundInv
<1> SUFFICES ASSUME Init PROVE SoundInv
  OBVIOUS
<1>1. Types
  BY CodesAssumption DEF Init, Types, Over, Codes
<1>2. RequestsAreSound
  BY CodesAssumption DEF Init, RequestsAreSound, Over, Deciding
<1>3. ItemsAreBounded /\ OneInserts
  BY DEF Init, ItemsAreBounded, OneInserts
<1> QED BY <1>1, <1>2, <1>3 DEF SoundInv

(* A request that ends forgets its browser and its item.                   *)
LEMMA FinishSound ==
    ASSUME SoundInv, NEW r \in Requests, NEW how \in Over, Finish(r, how),
           inserted' = inserted \ {r}, UNCHANGED <<issued, mailed, used, lagging>>,
           lapsed' \in 0..issued, cookie' \in [Browsers -> 0..MaxCodes \cup {NoItem}],
           user' \in {"none", "exists"}, wrong' \in 0..MaxAttempts, slipped' \subseteq Codes,
           table' \in Items \cup {NoItem},
           table' # NoItem => table'.code <= issued /\ table'.attempts < MaxAttempts
    PROVE  SoundInv'
<1> USE DEF SoundInv
<1>1. Types'
  BY CodesAssumption DEF Types, Finish, Over, Items
<1>2. RequestsAreSound'
  BY DEF Types, RequestsAreSound, Finish, Over, Deciding
<1>3. ItemsAreBounded'
  BY DEF Types, ItemsAreBounded, Finish, Over
<1>4. OneInserts'
  BY DEF Types, OneInserts, Finish, Over
<1> QED BY <1>1, <1>2, <1>3, <1>4

(* What a request that holds an item writes is bounded like the table.     *)
LEMMA WrittenIsBounded ==
    ASSUME SoundInv, NEW r \in Holding
    PROVE  /\ Written(r) \in Items \cup {NoItem}
           /\ Written(r) # NoItem =>
                 /\ Written(r).attempts = item[r].attempts + 1 /\ item[r].attempts + 1 < MaxAttempts
                 /\ pc[r] = "count"
                 /\ Written(r).code = IF table = NoItem THEN 0 ELSE table.code
                 /\ Written(r).code <= issued
<1>1. r \in Requests /\ item[r] # NoItem /\ item[r] \in Items
  BY DEF Holding, SoundInv, Types
<1>2. CASE pc[r] # "count"
  BY <1>2 DEF Written
<1>3. CASE pc[r] = "count"
  <2> DEFINE n == IF table = NoItem THEN 0 ELSE table.code
  <2>1. n \in 0..MaxCodes /\ n <= issued
    BY CodesAssumption DEF SoundInv, Types, ItemsAreBounded, Items
  <2>2. item[r].attempts \in 0..MaxAttempts /\ item[r].attempts + 1 < MaxAttempts
    BY <1>1, <1>3 DEF SoundInv, ItemsAreBounded, Items
  <2>3. Written(r) = [code |-> n, attempts |-> item[r].attempts + 1]
    BY <1>3 DEF Written
  <2> HIDE DEF n
  <2>4. item[r].attempts + 1 \in 0..MaxAttempts
    BY <2>2, CodesAssumption
  <2>5. Written(r) \in Items
    BY <2>1, <2>3, <2>4 DEF Items
  <2> QED BY <1>3, <2>1, <2>2, <2>3, <2>5 DEF n
<1> QED BY <1>2, <1>3

(* What is held or in the table is of one code at most, and that of a code. *)
LEMMA CodesOfItems ==
    ASSUME SoundInv
    PROVE  /\ Held \subseteq Codes /\ CodeOf(table) \subseteq Codes /\ CodeOf(lagging) \subseteq Codes
           /\ \A r \in Holding : /\ r \in Requests /\ item[r] \in Items
                                 /\ CodeOf(item[r]) = {item[r].code} /\ item[r].code \in 1..issued
                                 /\ item[r].code \in Codes /\ item[r].code \in Held
<1>1. issued \in Nat /\ issued <= MaxCodes /\ MaxCodes \in Nat
  BY CodesAssumption DEF SoundInv, Types
<1>2. ASSUME NEW it \in Items \cup {NoItem} PROVE CodeOf(it) \subseteq Codes
  BY <1>1, <1>2 DEF CodeOf, Items, Codes
<1>3. ASSUME NEW r \in Holding
      PROVE  /\ r \in Requests /\ item[r] \in Items
             /\ CodeOf(item[r]) = {item[r].code} /\ item[r].code \in 1..issued
             /\ item[r].code \in Codes
  <2>1. r \in Requests /\ item[r] # NoItem /\ item[r] \in Items /\ item[r].code \in 1..issued
    BY DEF Holding, SoundInv, Types, ItemsAreBounded
  <2> QED BY <1>1, <2>1 DEF CodeOf, Codes
<1>4. Held \subseteq Codes
  BY <1>3 DEF Held
<1>5. \A r \in Holding : item[r].code \in Held
  BY <1>3 DEF Held
<1> QED BY <1>2, <1>3, <1>4, <1>5 DEF SoundInv, Types

(* Every step keeps it: requests for a code ...                            *)
LEMMA AskingSound ==
    ASSUME SoundInv, NEW r \in Requests,
           (\E b \in Browsers : Ask(r, b)) \/ Issue(r) \/ Send(r)
    PROVE  SoundInv'
<1> USE CodesAssumption DEF SoundInv
<1>1. ASSUME NEW b \in Browsers, Ask(r, b) PROVE SoundInv'
  <2>1. Types'
    BY <1>1 DEF Ask, Goto, itemVars, dbVars, histVars, Types, Over
  <2>2. RequestsAreSound'
    BY <1>1 DEF Ask, Goto, itemVars, Types, RequestsAreSound, Over, Deciding
  <2>3. ItemsAreBounded' /\ OneInserts'
    BY <1>1 DEF Ask, Goto, itemVars, dbVars, Types, ItemsAreBounded, OneInserts, RequestsAreSound, Over,
                Deciding
  <2> QED BY <2>1, <2>2, <2>3
<1>2. CASE Issue(r)
  <2>1. issued \in Nat /\ issued + 1 \in Codes /\ issued + 1 \in 0..MaxCodes
    BY <1>2 DEF Issue, Types, Codes
  <2>2. NewItem(issued + 1) \in Items /\ NewItem(issued + 1).code = issued + 1
        /\ NewItem(issued + 1).attempts = 0
    BY <2>1 DEF NewItem, Items
  <2>3. slipped' \subseteq Codes
    BY <1>2, <2>1, CodesOfItems DEF Issue, Types
  <2>4. Types'
    BY <1>2, <2>1, <2>2, <2>3 DEF Issue, Goto, dbVars, Types
  <2>5. RequestsAreSound'
    BY <1>2, <2>1 DEF Issue, Goto, Types, RequestsAreSound, Over, Deciding
  <2>6. ItemsAreBounded'
    BY <1>2, <2>1, <2>2 DEF Issue, Goto, Types, ItemsAreBounded, Items, RequestsAreSound, Deciding
  <2>7. OneInserts'
    BY <1>2 DEF Issue, Goto, dbVars, Types, OneInserts
  <2> QED BY <2>4, <2>5, <2>6, <2>7
<1>3. CASE Send(r)
  <2>1. mailed' \subseteq 1..issued' /\ cookie' \in [Browsers -> 0..MaxCodes \cup {NoItem}]
    BY <1>3 DEF Send, itemVars, Types, RequestsAreSound
  <2>2. Types'
    BY <1>3, <2>1 DEF Send, Finish, itemVars, dbVars, histVars, Types, Over
  <2>3. RequestsAreSound'
    BY <1>3 DEF Send, Finish, itemVars, Types, RequestsAreSound, Over, Deciding
  <2>4. ItemsAreBounded' /\ OneInserts'
    BY <1>3 DEF Send, Finish, itemVars, dbVars, Types, ItemsAreBounded, OneInserts, Over
  <2> QED BY <2>2, <2>3, <2>4
<1> QED BY <1>1, <1>2, <1>3

(* ... the read and the writes of a verification ...                       *)
LEMMA VerifyingSound ==
    ASSUME SoundInv, NEW r \in Requests,
           \/ \E b \in Browsers, c \in 0..MaxCodes : Verify(r, b, c)
           \/ Get(r) \/ RecordWrong(r) \/ Consume(r) \/ CallRaises(r)
    PROVE  SoundInv'
<1> USE CodesAssumption DEF SoundInv
<1>1. ASSUME NEW b \in Browsers, NEW c \in 0..MaxCodes, Verify(r, b, c) PROVE SoundInv'
  <2>1. Types'
    BY <1>1 DEF Verify, Goto, itemVars, dbVars, histVars, Types, Over
  <2>2. RequestsAreSound'
    BY <1>1 DEF Verify, Goto, itemVars, Types, RequestsAreSound, Over, Deciding
  <2>3. ItemsAreBounded' /\ OneInserts'
    BY <1>1 DEF Verify, Goto, itemVars, dbVars, Types, ItemsAreBounded, OneInserts, RequestsAreSound,
                Over, Deciding
  <2> QED BY <2>1, <2>2, <2>3
<1>2. CASE Get(r)
  <2> PICK it \in {table, lagging} :
         \/ Husk(it) /\ Finish(r, "crashed") /\ UNCHANGED slipped
         \/ ~Husk(it) /\ ~Live(it, r) /\ Finish(r, "done") /\ UNCHANGED slipped
         \/ /\ Live(it, r)
            /\ item' = [item EXCEPT ![r] = it]
            /\ Goto(r, Decision(it, typed[r]))
            /\ slipped' = IF it = table /\ Holding = {} THEN slipped
                          ELSE slipped \cup Held \cup CodeOf(it) \cup CodeOf(table)
            /\ typed' = [typed EXCEPT ![r] = 0]
            /\ challenge' = [challenge EXCEPT ![r] = 0]
            /\ UNCHANGED browser
    BY <1>2 DEF Get
  <2>1. CASE \E how \in Over : Finish(r, how) /\ UNCHANGED slipped
    BY <1>2, <2>1, FinishSound DEF Get, itemVars, dbVars, Types, ItemsAreBounded, OneInserts, Over
  <2>2. CASE Live(it, r) /\ item' = [item EXCEPT ![r] = it] /\ Goto(r, Decision(it, typed[r]))
             /\ slipped' = (IF it = table /\ Holding = {} THEN slipped
                            ELSE slipped \cup Held \cup CodeOf(it) \cup CodeOf(table))
             /\ typed' = [typed EXCEPT ![r] = 0] /\ challenge' = [challenge EXCEPT ![r] = 0]
             /\ UNCHANGED browser
    <3>1. /\ it \in Items /\ it # NoItem /\ it.code \in 1..issued /\ it.attempts < MaxAttempts
          /\ it.attempts \in Nat
      BY <2>2 DEF Live, Types, ItemsAreBounded, Items
    <3>2. /\ Decision(it, typed[r]) \in Deciding
          /\ Decision(it, typed[r]) = "count" <=> (Decision(it, typed[r]) # "consume" /\ it.attempts + 1 < MaxAttempts)
      BY <3>1 DEF Decision, Deciding
    <3> DEFINE d == Decision(it, typed[r])
    <3> HIDE DEF d
    <3>3. d \in Deciding /\ (d = "count" <=> (d # "consume" /\ it.attempts + 1 < MaxAttempts))
          /\ pc' = [pc EXCEPT ![r] = d]
      BY <2>2, <3>2 DEF d, Goto
    <3>4. slipped' \subseteq Codes
      BY <2>2, CodesOfItems DEF Types
    <3>5. Types'
      BY <1>2, <2>2, <3>1, <3>3, <3>4 DEF Get, itemVars, dbVars, Types, Deciding
    <3>6. RequestsAreSound'
      BY <1>2, <2>2, <3>1, <3>3 DEF Get, itemVars, Types, RequestsAreSound, Over, Deciding
    <3>7. ItemsAreBounded'
      BY <1>2, <2>2, <3>1, <3>3 DEF Get, itemVars, Types, ItemsAreBounded
    <3>8. OneInserts'
      BY <1>2, <3>3 DEF Get, dbVars, Types, OneInserts
    <3> QED BY <3>5, <3>6, <3>7, <3>8
  <2> QED BY <2>1, <2>2 DEF Over
<1>3. CASE RecordWrong(r)
  <2>1. r \in Holding /\ r \notin inserted
    BY <1>3 DEF RecordWrong, Holding, RequestsAreSound, OneInserts, Deciding
  <2>2. /\ table' \in Items \cup {NoItem}
        /\ table' # NoItem => table'.code <= issued /\ table'.attempts < MaxAttempts
    BY <1>3, <2>1, WrittenIsBounded DEF RecordWrong
  <2>3. wrong' \in 0..MaxAttempts
    BY <1>3 DEF RecordWrong, Types
  <2> QED
    BY <1>3, <2>1, <2>2, <2>3, FinishSound DEF RecordWrong, dbVars, Types, Over
<1>4. CASE Consume(r)
  <2>1. r \in Holding /\ r \notin inserted
    BY <1>4 DEF Consume, Holding, RequestsAreSound, OneInserts, Deciding
  <2>2. table' = NoItem /\ item[r].code \in Codes
    BY <1>4, <2>1, CodesOfItems DEF Consume, Written
  <2>3. Types'
    BY <1>4, <2>2 DEF Consume, Goto, dbVars, Types
  <2>4. RequestsAreSound'
    BY <1>4 DEF Consume, Goto, Types, RequestsAreSound, Over, Deciding
  <2>5. ItemsAreBounded' /\ OneInserts'
    BY <1>4, <2>1, <2>2 DEF Consume, Goto, dbVars, Types, ItemsAreBounded, OneInserts
  <2> QED BY <2>3, <2>4, <2>5
<1>5. CASE CallRaises(r)
  <2>1. /\ table' \in Items \cup {NoItem}
        /\ table' # NoItem => table'.code <= issued /\ table'.attempts < MaxAttempts
    BY <1>5, WrittenIsBounded DEF CallRaises, Types, ItemsAreBounded
  <2>2. slipped' \subseteq Codes
    BY <1>5, CodesOfItems DEF CallRaises, Types
  <2> QED BY <1>5, <2>1, <2>2, FinishSound DEF CallRaises, Types, Over
<1> QED BY <1>1, <1>2, <1>3, <1>4, <1>5

(* ... the sign-in ...                                                     *)
LEMMA SigningInSound ==
    ASSUME SoundInv, NEW r \in Requests,
           FindUser(r) \/ InsertUser(r) \/ PutSession(r) \/ Commit(r)
    PROVE  SoundInv'
<1> USE CodesAssumption DEF SoundInv
<1>1. CASE Commit(r)
  BY <1>1, FinishSound DEF Commit, itemVars, histVars, Types, ItemsAreBounded, Over
<1>2. CASE InsertUser(r) /\ Finish(r, "failed") /\ UNCHANGED inserted
  BY <1>2, FinishSound
     DEF InsertUser, itemVars, histVars, Types, ItemsAreBounded, OneInserts, Over
<1>3. ASSUME NEW step \in {"insert", "session", "commit"}, pc[r] \in {"user", "insert", "session"},
             Goto(r, step), UNCHANGED <<itemVars, mailed, user, histVars>>,
             UNCHANGED <<browser, typed, challenge, item>>,
             cookie' \in [Browsers -> 0..MaxCodes \cup {NoItem}],
             inserted' = inserted \/ (inserted = {} /\ inserted' = {r}),
             r \in inserted' => step # "insert"
      PROVE  SoundInv'
  <2>1. Types'
    BY <1>3 DEF Goto, itemVars, histVars, Types
  <2>2. RequestsAreSound'
    BY <1>3 DEF Goto, itemVars, Types, RequestsAreSound, Over, Deciding
  <2>3. ItemsAreBounded'
    BY <1>3 DEF Goto, itemVars, Types, ItemsAreBounded
  <2>4. OneInserts'
    BY <1>3 DEF Goto, Types, OneInserts
  <2> QED BY <2>1, <2>2, <2>3, <2>4
<1>4. CASE FindUser(r)
  BY <1>3, <1>4 DEF FindUser, dbVars, Types, OneInserts
<1>5. CASE InsertUser(r) /\ inserted' = {r} /\ Goto(r, "session")
  BY <1>3, <1>5 DEF InsertUser, Types
<1>6. CASE PutSession(r)
  <2>1. cookie' \in [Browsers -> 0..MaxCodes \cup {NoItem}]
    BY <1>6 DEF PutSession, Types
  <2> QED BY <1>3, <1>6, <2>1 DEF PutSession, dbVars
<1> QED BY <1>1, <1>2, <1>4, <1>5, <1>6 DEF InsertUser

(* ... and what DynamoDB does by itself.                                   *)
LEMMA TableSound == SoundInv /\ (CatchUp \/ Lapse \/ TtlDelete \/ UNCHANGED vars) => SoundInv'
<1> SUFFICES ASSUME SoundInv, CatchUp \/ Lapse \/ TtlDelete \/ UNCHANGED vars PROVE SoundInv'
  OBVIOUS
<1> USE CodesAssumption DEF SoundInv
<1>1. slipped' \subseteq Codes
  BY CodesOfItems DEF CatchUp, Lapse, TtlDelete, vars, histVars, Types
<1>2. Types'
  BY <1>1 DEF CatchUp, Lapse, TtlDelete, vars, requestVars, dbVars, histVars, Types
<1>3. RequestsAreSound' /\ ItemsAreBounded' /\ OneInserts'
  BY DEF CatchUp, Lapse, TtlDelete, vars, requestVars, dbVars, histVars,
         RequestsAreSound, ItemsAreBounded, OneInserts
<1> QED BY <1>2, <1>3

(* So every step keeps it.                                                 *)
LEMMA SoundNext == SoundInv /\ [Next]_vars => SoundInv'
  BY AskingSound, VerifyingSound, SigningInSound, TableSound DEF Next

-----------------------------------------------------------------------------
(* Overlaps.                                                               *)

(* At first nobody holds anything.                                         *)
LEMMA OverlapInit == Init => OverlapInv
  BY DEF Init, OverlapInv, TableIsNewest, HeldIsCurrent, TwoHaveSlipped, HuskHasSlipped, Husk, Holding

(* Nobody new holds an item, and the table is as it was; or one of them    *)
(* wrote it and holds none any more; or what they hold has slipped.        *)
LEMMA HoldersKeep ==
    ASSUME SoundInv, OverlapInv, SoundInv',
           Holding' \subseteq Holding, \A q \in Holding' : item'[q] = item[q],
           slipped \subseteq slipped',
           \/ table' = table
           \/ Holding # Holding' /\ CodeOf(table') \subseteq CodeOf(table)
           \/ Holding = {}
           \/ Held \cup CodeOf(table') \subseteq slipped'
    PROVE  HeldIsCurrent' /\ TwoHaveSlipped'
<1> DEFINE slip(q) == CodeOf(item[q]) \subseteq slipped
<1>1. ASSUME NEW q \in Holding' PROVE (CodeOf(item[q]))' = CodeOf(item[q])
  BY <1>1 DEF CodeOf
<1>2. CASE table' = table
  <2>1. (CodeOf(table))' = CodeOf(table)
    BY <1>2 DEF CodeOf
  <2> QED BY <1>1, <1>2, <2>1 DEF OverlapInv, HeldIsCurrent, TwoHaveSlipped
<1>3. CASE Holding # Holding' /\ CodeOf(table') \subseteq CodeOf(table)
  <2> PICK r \in Holding : r \notin Holding'
    BY <1>3
  <2>1. \A q \in Holding' : slip(q) /\ CodeOf(table) \subseteq slipped
    BY DEF OverlapInv, TwoHaveSlipped
  <2>2. (CodeOf(table))' \subseteq CodeOf(table)
    BY <1>3 DEF CodeOf
  <2> QED BY <1>1, <2>1, <2>2 DEF HeldIsCurrent, TwoHaveSlipped
<1>4. CASE Holding = {}
  BY <1>4 DEF HeldIsCurrent, TwoHaveSlipped
<1>5. CASE Held \cup CodeOf(table') \subseteq slipped'
  <2>1. \A q \in Holding' : CodeOf(item[q]) \subseteq slipped'
    BY <1>5, CodesOfItems
  <2>2. (CodeOf(table))' = CodeOf(table')
    BY DEF CodeOf
  <2> QED BY <1>1, <1>5, <2>1, <2>2 DEF HeldIsCurrent, TwoHaveSlipped
<1> QED BY <1>2, <1>3, <1>4, <1>5

(* Ending a request, or going on without its item, changes no other's.     *)
LEMMA Released ==
    ASSUME SoundInv, NEW r \in Requests, item' = [item EXCEPT ![r] = NoItem]
    PROVE  Holding' = Holding \ {r} /\ \A q \in Holding' : item'[q] = item[q]
  BY DEF SoundInv, Types, Holding

(* The writes of one that holds an item give the table no code it has not. *)
LEMMA WrittenHasItsCode ==
    ASSUME SoundInv, OverlapInv, NEW r \in Holding
    PROVE  /\ CodeOf(Written(r)) \subseteq CodeOf(table)
           /\ Husk(Written(r)) => slipped # {}
           /\ Written(r) # NoItem => Written(r).code \in {0, issued}
<1>1. Written(r) # NoItem => Written(r).code = IF table = NoItem THEN 0 ELSE table.code
  BY WrittenIsBounded
<1>2. CodeOf(Written(r)) \subseteq CodeOf(table)
  BY <1>1 DEF CodeOf
<1>3. ASSUME Husk(Written(r)) PROVE slipped # {}
  <2>1. CASE table = NoItem
    BY <2>1, CodesOfItems DEF OverlapInv, HeldIsCurrent, Holding
  <2>2. CASE table # NoItem
    BY <1>1, <1>3, <2>2 DEF Husk, OverlapInv, HuskHasSlipped
  <2> QED BY <2>1, <2>2
<1>4. Written(r) # NoItem => Written(r).code \in {0, issued}
  BY <1>1 DEF OverlapInv, TableIsNewest
<1> QED BY <1>2, <1>3, <1>4

(* A step that touches no item keeps all of it.                            *)
LEMMA OverlapSame ==
    ASSUME OverlapInv, UNCHANGED <<issued, table, lagging, item, slipped>>,
           \A r \in Requests : pc'[r] = "crashed" => pc[r] = "crashed"
    PROVE  OverlapInv'
  BY DEF OverlapInv, TableIsNewest, HeldIsCurrent, TwoHaveSlipped, HuskHasSlipped, Husk,
         Holding, CodeOf

(* Every step keeps it.                                                    *)
LEMMA OverlapNext == SoundInv /\ SoundInv' /\ OverlapInv /\ [Next]_vars => OverlapInv'
<1> SUFFICES ASSUME SoundInv, SoundInv', OverlapInv, [Next]_vars PROVE OverlapInv'
  OBVIOUS
<1>1. ASSUME NEW r \in Requests,
             \/ \E b \in Browsers : Ask(r, b) \/ \E c \in 0..MaxCodes : Verify(r, b, c)
             \/ FindUser(r) \/ PutSession(r)
      PROVE  OverlapInv'
  BY <1>1, OverlapSame
     DEF Ask, Verify, FindUser, PutSession, Goto, itemVars, histVars, SoundInv, Types
<1>2. ASSUME NEW r \in Requests, Issue(r) PROVE OverlapInv'
  <2>1. issued \in Nat /\ issued' = issued + 1
    BY <1>2 DEF Issue, SoundInv, Types
  <2>2. Holding' = Holding /\ item' = item /\ slipped \subseteq slipped'
    BY <1>2 DEF Issue, Holding
  <2>3. table' = [code |-> issued + 1, attempts |-> 0] /\ lagging' = lagging
    BY <1>2 DEF Issue, NewItem
  <2>4. Holding = {} \/ Held \cup CodeOf(table') \subseteq slipped'
    BY <1>2, <2>3 DEF Issue, CodeOf
  <2>5. HeldIsCurrent' /\ TwoHaveSlipped'
    BY <2>2, <2>4, HoldersKeep
  <2>6. ~Husk(table')
    BY <2>1, <2>3 DEF Husk
  <2>7. HuskHasSlipped'
    BY <1>2, <2>2, <2>3, <2>6 DEF Issue, Goto, OverlapInv, HuskHasSlipped, Husk, SoundInv, Types
  <2>8. TableIsNewest'
    BY <2>1, <2>3 DEF TableIsNewest
  <2> QED BY <2>5, <2>7, <2>8 DEF OverlapInv
<1>3. ASSUME NEW r \in Requests, NEW how \in {"done", "failed"}, Finish(r, how),
             UNCHANGED <<issued, lagging>>, slipped \subseteq slipped',
             \/ table' = table
             \/ r \in Holding /\ table' = Written(r)
      PROVE  OverlapInv'
  <2>1. Holding' = Holding \ {r} /\ \A q \in Holding' : item'[q] = item[q]
    BY <1>3, Released DEF Finish
  <2>2. HeldIsCurrent' /\ TwoHaveSlipped'
    BY <1>3, <2>1, HoldersKeep, WrittenHasItsCode
  <2>3. TableIsNewest'
    BY <1>3, WrittenHasItsCode DEF OverlapInv, TableIsNewest
  <2>4. HuskHasSlipped'
    BY <1>3, WrittenHasItsCode DEF OverlapInv, HuskHasSlipped, Husk, Finish, SoundInv, Types
  <2> QED BY <2>2, <2>3, <2>4 DEF OverlapInv
<1>4. ASSUME NEW r \in Requests,
             \/ Send(r) \/ Commit(r) \/ RecordWrong(r) \/ CallRaises(r)
             \/ InsertUser(r) /\ Finish(r, "failed")
      PROVE  OverlapInv'
  <2>1. RecordWrong(r) => r \in Holding
    BY DEF RecordWrong, Holding, SoundInv, RequestsAreSound, Deciding
  <2> QED BY <1>3, <1>4, <2>1
          DEF Send, Commit, RecordWrong, CallRaises, InsertUser, itemVars, histVars
<1>5. ASSUME NEW r \in Requests, InsertUser(r) PROVE OverlapInv'
  <2>1. CASE Goto(r, "session") /\ UNCHANGED item
    BY <1>5, <2>1, OverlapSame DEF InsertUser, Goto, itemVars, histVars, SoundInv, Types
  <2> QED BY <1>4, <1>5, <2>1 DEF InsertUser
<1>6. ASSUME NEW r \in Requests, Consume(r) PROVE OverlapInv'
  <2>1. r \in Holding /\ table' = NoItem
    BY <1>6 DEF Consume, Written, Holding, SoundInv, RequestsAreSound, Deciding
  <2>2. Holding' = Holding \ {r} /\ \A q \in Holding' : item'[q] = item[q]
    BY <1>6, Released DEF Consume
  <2>3. HeldIsCurrent' /\ TwoHaveSlipped'
    BY <1>6, <2>1, <2>2, HoldersKeep DEF Consume, CodeOf
  <2>4. TableIsNewest' /\ HuskHasSlipped'
    BY <1>6, <2>1 DEF Consume, Goto, OverlapInv, TableIsNewest, HuskHasSlipped, Husk, SoundInv, Types
  <2> QED BY <2>3, <2>4 DEF OverlapInv
<1>7. ASSUME NEW r \in Requests, Get(r) PROVE OverlapInv'
  <2> PICK it \in {table, lagging} :
         \/ Husk(it) /\ Finish(r, "crashed") /\ UNCHANGED slipped
         \/ ~Husk(it) /\ ~Live(it, r) /\ Finish(r, "done") /\ UNCHANGED slipped
         \/ /\ Live(it, r)
            /\ item' = [item EXCEPT ![r] = it]
            /\ Goto(r, Decision(it, typed[r]))
            /\ slipped' = IF it = table /\ Holding = {} THEN slipped
                          ELSE slipped \cup Held \cup CodeOf(it) \cup CodeOf(table)
            /\ UNCHANGED browser
    BY <1>7 DEF Get
  <2>1. r \notin Holding /\ UNCHANGED <<issued, table, lagging>>
    BY <1>7 DEF Get, itemVars, Holding, SoundInv, RequestsAreSound, Deciding
  <2>2. CASE Husk(it) /\ Finish(r, "crashed") /\ UNCHANGED slipped
    <3>1. slipped # {}
      BY <2>2 DEF OverlapInv, HuskHasSlipped
    <3>2. Holding' = Holding \ {r} /\ \A q \in Holding' : item'[q] = item[q]
      BY <2>2, Released DEF Finish
    <3>3. HeldIsCurrent' /\ TwoHaveSlipped'
      BY <2>1, <2>2, <3>2, HoldersKeep
    <3> QED BY <2>1, <2>2, <3>1, <3>3 DEF OverlapInv, TableIsNewest, HuskHasSlipped
  <2>3. CASE Finish(r, "done") /\ UNCHANGED slipped
    BY <1>3, <2>1, <2>3
  <2>4. CASE Live(it, r) /\ item' = [item EXCEPT ![r] = it] /\ Goto(r, Decision(it, typed[r]))
             /\ slipped' = (IF it = table /\ Holding = {} THEN slipped
                            ELSE slipped \cup Held \cup CodeOf(it) \cup CodeOf(table))
    <3>1. Holding' = Holding \cup {r} /\ item'[r] = it /\ \A q \in Holding : item'[q] = item[q]
      BY <2>1, <2>4 DEF Live, Holding, SoundInv, Types
    <3>2. ASSUME it = table, Holding = {} PROVE HeldIsCurrent' /\ TwoHaveSlipped'
      BY <2>1, <2>4, <3>1, <3>2 DEF HeldIsCurrent, TwoHaveSlipped, CodeOf
    <3>3. ASSUME ~(it = table /\ Holding = {}) PROVE HeldIsCurrent' /\ TwoHaveSlipped'
      <4>1. slipped' = slipped \cup Held \cup CodeOf(it) \cup CodeOf(table)
        BY <2>4, <3>3
      <4>2. ASSUME NEW q \in Holding'
            PROVE  CodeOf(item'[q]) \subseteq slipped' /\ CodeOf(table) \subseteq slipped'
        <5>1. CASE q = r
          BY <3>1, <4>1, <5>1
        <5>2. CASE q # r
          <6>1. q \in Holding /\ item'[q] = item[q]
            BY <3>1, <5>2
          <6>2. CodeOf(item[q]) \subseteq Held
            BY <6>1, CodesOfItems
          <6> QED BY <4>1, <6>1, <6>2
        <5> QED BY <5>1, <5>2
      <4> QED BY <2>1, <4>2 DEF HeldIsCurrent, TwoHaveSlipped, CodeOf
    <3>4. Decision(it, typed[r]) # "crashed"
      BY DEF Decision
    <3>5. TableIsNewest' /\ HuskHasSlipped'
      BY <2>1, <2>4, <3>4 DEF Goto, OverlapInv, TableIsNewest, HuskHasSlipped, Husk, SoundInv, Types
    <3> QED BY <3>2, <3>3, <3>5 DEF OverlapInv
  <2> QED BY <2>2, <2>3, <2>4
<1>8. CASE CatchUp \/ Lapse \/ TtlDelete \/ UNCHANGED vars
  <2>1. /\ UNCHANGED <<issued, item, pc>> /\ slipped \subseteq slipped'
        /\ \/ table' = table
           \/ table' = NoItem /\ Held \subseteq slipped'
        /\ lagging' \in {table, lagging}
    BY <1>8 DEF CatchUp, Lapse, TtlDelete, vars, requestVars, histVars
  <2>2. Holding' = Holding
    BY <2>1 DEF Holding
  <2>3. HeldIsCurrent' /\ TwoHaveSlipped'
    BY <2>1, <2>2, HoldersKeep DEF CodeOf
  <2> QED BY <2>1, <2>3 DEF OverlapInv, TableIsNewest, HuskHasSlipped, Husk
<1> QED BY <1>1, <1>2, <1>4, <1>5, <1>6, <1>7, <1>8 DEF Next

-----------------------------------------------------------------------------
(* Uses and tries.                                                         *)

(* At first no code is issued, and none used.                              *)
LEMMA CountInit == Init => CountInv
  BY DEF Init, CountInv, UsedIsGone, CodeWorksOnce, AttemptsAreExact, NewestCodeIsThere, Codes

(* What only lets codes slip, or lapse, keeps it.                          *)
LEMMA CountSame ==
    ASSUME SoundInv, CountInv, UNCHANGED <<issued, table, wrong, used>>,
           lapsed' \in Nat, lapsed' >= lapsed, slipped \subseteq slipped'
    PROVE  CountInv'
<1>1. UsedIsGone' /\ CodeWorksOnce' /\ AttemptsAreExact'
  BY DEF CountInv, UsedIsGone, CodeWorksOnce, AttemptsAreExact
<1>2. NewestCodeIsThere'
  BY DEF CountInv, NewestCodeIsThere, SoundInv, Types
<1> QED BY <1>1, <1>2 DEF CountInv

(* A write that has let the table's code slip, or left it none.            *)
LEMMA CountSlips ==
    ASSUME SoundInv, OverlapInv, CountInv, UNCHANGED <<issued, lapsed, wrong, used>>,
           slipped \subseteq slipped', CodeOf(table') \subseteq CodeOf(table),
           CodeOf(table) \subseteq slipped' \/ (table # NoItem /\ table.code <= lapsed /\ table' = NoItem)
    PROVE  CountInv'
<1>1. issued \in Nat /\ lapsed \in Nat
  BY DEF SoundInv, Types
<1>2. \A c \in Codes : table' # NoItem /\ table'.code = c => table # NoItem /\ table.code = c
  BY DEF CodeOf, Codes
<1>3. UsedIsGone' /\ CodeWorksOnce'
  BY <1>2 DEF CountInv, UsedIsGone, CodeWorksOnce
<1>4. AttemptsAreExact'
  <2>1. table' # NoItem /\ table'.code > 0 => table'.code \in CodeOf(table')
    BY DEF CodeOf
  <2> QED BY <2>1 DEF CountInv, AttemptsAreExact
<1>5. NewestCodeIsThere'
  <2> SUFFICES ASSUME issued > 0, issued \notin slipped', issued > lapsed, used[issued] = 0,
                      wrong < MaxAttempts
               PROVE  FALSE
    BY DEF NewestCodeIsThere
  <2>1. table # NoItem /\ table.code = issued
    BY DEF CountInv, NewestCodeIsThere
  <2>2. issued \in CodeOf(table)
    BY <2>1 DEF CodeOf
  <2> QED BY <1>1, <2>1, <2>2
<1> QED BY <1>3, <1>4, <1>5 DEF CountInv

(* Every step keeps it.                                                    *)
LEMMA CountNext == SoundInv /\ OverlapInv /\ CountInv /\ [Next]_vars => CountInv'
<1> SUFFICES ASSUME SoundInv, OverlapInv, CountInv, [Next]_vars PROVE CountInv'
  OBVIOUS
<1>1. issued \in 0..MaxCodes /\ lapsed \in 0..issued /\ MaxCodes \in Nat /\ MaxAttempts \in Nat \ {0}
      /\ wrong \in 0..MaxAttempts /\ used \in [Codes -> 0..2]
  BY CodesAssumption DEF SoundInv, Types
<1>2. ASSUME NEW r \in Requests,
             \/ \E b \in Browsers : Ask(r, b) \/ \E c \in 0..MaxCodes : Verify(r, b, c)
             \/ Send(r) \/ Get(r) \/ FindUser(r) \/ InsertUser(r) \/ PutSession(r) \/ Commit(r)
      PROVE  CountInv'
  <2>1. UNCHANGED <<issued, lapsed, table, wrong, used>> /\ slipped \subseteq slipped'
    BY <1>2 DEF Ask, Verify, Send, Get, FindUser, InsertUser, PutSession, Commit, itemVars, histVars
  <2> QED BY <1>1, <2>1, CountSame
<1>3. ASSUME NEW r \in Requests, Issue(r) PROVE CountInv'
  <2>1. /\ issued' = issued + 1 /\ table' = [code |-> issued + 1, attempts |-> 0]
        /\ wrong' = 0 /\ used' = used /\ lapsed' = lapsed /\ slipped \subseteq slipped'
        /\ issued + 1 \in Codes
    BY <1>1, <1>3 DEF Issue, NewItem, Codes
  <2>2. table' # NoItem /\ table'.code = issued' /\ table'.attempts = 0
    BY <1>1, <2>1, CodesAssumption DEF Codes
  <2>3. UsedIsGone'
    BY <1>1, <2>1 DEF CountInv, UsedIsGone, Codes
  <2>4. CodeWorksOnce' /\ AttemptsAreExact' /\ NewestCodeIsThere'
    BY <1>1, <2>1, <2>2 DEF CountInv, CodeWorksOnce, AttemptsAreExact, NewestCodeIsThere
  <2> QED BY <2>3, <2>4 DEF CountInv
<1>4. ASSUME NEW r \in Requests, RecordWrong(r) PROVE CountInv'
  <2>1. r \in Holding /\ table' = Written(r) /\ UNCHANGED <<issued, lapsed, used, slipped>>
    BY <1>4 DEF RecordWrong, Holding, SoundInv, RequestsAreSound, Deciding
  <2>2. item[r].code \in 1..issued /\ item[r].code \in Codes /\ CodeOf(item[r]) = {item[r].code}
    BY <2>1, CodesOfItems
  <2>3. CodeOf(table') \subseteq CodeOf(table)
    BY <2>1, WrittenHasItsCode
  <2>4. CASE table # item[r]
    <3>1. CodeOf(table) \subseteq slipped
      BY <2>1, <2>4 DEF OverlapInv, HeldIsCurrent
    <3>2. UsedIsGone' /\ CodeWorksOnce'
      BY <2>1, <2>3, <3>1 DEF CountInv, UsedIsGone, CodeWorksOnce, CodeOf, Codes
    <3>3. AttemptsAreExact'
      <4>1. table' # NoItem /\ table'.code > 0 => table'.code \in CodeOf(table')
        BY DEF CodeOf
      <4> QED BY <2>1, <2>3, <3>1, <4>1 DEF AttemptsAreExact
    <3>4. NewestCodeIsThere'
      <4>1. wrong' >= wrong /\ wrong' \in Nat
        BY <1>1, <1>4 DEF RecordWrong
      <4>2. SUFFICES ASSUME issued > 0, issued \notin slipped, issued > lapsed, used[issued] = 0,
                            wrong' < MaxAttempts
                     PROVE  FALSE
        BY <2>1 DEF NewestCodeIsThere
      <4>3. table # NoItem /\ table.code = issued
        BY <1>1, <4>1, <4>2 DEF CountInv, NewestCodeIsThere
      <4> QED BY <1>1, <3>1, <4>2, <4>3 DEF CodeOf
    <3> QED BY <3>2, <3>3, <3>4 DEF CountInv
  <2>5. CASE table = item[r]
    <3>1. table # NoItem /\ table.code = issued /\ table.attempts \in Nat
          /\ table.attempts < MaxAttempts /\ issued \in 1..MaxCodes
      BY <1>1, <2>1, <2>2, <2>5, CodesOfItems
         DEF OverlapInv, TableIsNewest, Holding, Items, SoundInv, ItemsAreBounded
    <3>2. issued \notin slipped => wrong' = IF wrong < MaxAttempts THEN wrong + 1 ELSE wrong
      BY <1>4, <2>5, <3>1 DEF RecordWrong
    <3>3. CASE pc[r] = "count"
      <4>1. table' = [code |-> issued, attempts |-> table.attempts + 1]
        BY <2>1, <2>5, <3>1, <3>3 DEF Written
      <4>2. table' # NoItem /\ table'.code = issued /\ table'.attempts = table.attempts + 1
        BY <1>1, <3>1, <4>1, CodesAssumption
      <4>3. UsedIsGone' /\ CodeWorksOnce'
        BY <2>1, <3>1, <4>2 DEF CountInv, UsedIsGone, CodeWorksOnce
      <4>4. AttemptsAreExact' /\ NewestCodeIsThere'
        BY <1>1, <2>1, <3>1, <3>2, <4>2 DEF CountInv, AttemptsAreExact, NewestCodeIsThere
      <4> QED BY <4>3, <4>4 DEF CountInv
    <3>4. CASE pc[r] # "count"
      <4>1. table' = NoItem /\ table.attempts + 1 = MaxAttempts
        <5>1. ~(table.attempts + 1 < MaxAttempts)
          BY <1>4, <2>1, <2>5, <3>1, <3>4 DEF RecordWrong, Holding, SoundInv, ItemsAreBounded
        <5> QED BY <1>1, <2>1, <3>1, <3>4, <5>1 DEF Written
      <4>2. UsedIsGone' /\ CodeWorksOnce' /\ AttemptsAreExact'
        BY <2>1, <4>1 DEF CountInv, UsedIsGone, CodeWorksOnce, AttemptsAreExact
      <4>3. NewestCodeIsThere'
        <5>1. issued \notin slipped => wrong = table.attempts
          BY <1>1, <3>1 DEF CountInv, AttemptsAreExact
        <5> QED BY <1>1, <2>1, <3>1, <3>2, <4>1, <5>1 DEF NewestCodeIsThere
      <4> QED BY <4>2, <4>3 DEF CountInv
    <3> QED BY <3>3, <3>4
  <2> QED BY <2>4, <2>5
<1>5. ASSUME NEW r \in Requests, Consume(r) PROVE CountInv'
  <2> DEFINE c == item[r].code
  <2>1. r \in Holding /\ table' = NoItem /\ UNCHANGED <<issued, lapsed, wrong, slipped>>
    BY <1>5 DEF Consume, Written, Holding, SoundInv, RequestsAreSound, Deciding
  <2>2. c \in 1..issued /\ c \in Codes /\ CodeOf(item[r]) = {c}
    BY <2>1, CodesOfItems
  <2>3. /\ used'[c] = IF c \notin slipped /\ used[c] < 2 THEN used[c] + 1 ELSE used[c]
        /\ \A d \in Codes \ {c} : used'[d] = used[d]
    BY <1>1, <1>5, <2>2 DEF Consume
  <2>4. c \notin slipped => table = item[r] /\ used[c] = 0 /\ c = issued
    BY <1>1, <2>1, <2>2 DEF OverlapInv, HeldIsCurrent, TableIsNewest, CountInv, UsedIsGone, Holding
  <2>5. UsedIsGone' /\ AttemptsAreExact'
    BY <1>1, <2>1, <2>2, <2>3 DEF CountInv, UsedIsGone, AttemptsAreExact
  <2>6. CodeWorksOnce'
    BY <1>1, <2>1, <2>2, <2>3, <2>4 DEF CountInv, CodeWorksOnce
  <2>7. NewestCodeIsThere'
    <3>1. SUFFICES ASSUME issued > 0, issued \notin slipped, issued > lapsed, used'[issued] = 0,
                          wrong < MaxAttempts
                   PROVE  FALSE
      BY <2>1 DEF NewestCodeIsThere
    <3>2. issued \in Codes /\ c # issued
      BY <1>1, <2>2, <2>3, <3>1 DEF Codes
    <3>3. table # NoItem /\ table.code = issued
      BY <2>3, <3>1, <3>2 DEF CountInv, NewestCodeIsThere
    <3>4. CodeOf(table) \subseteq slipped
      BY <2>1, <3>2, <3>3 DEF OverlapInv, HeldIsCurrent
    <3> QED BY <1>1, <3>1, <3>3, <3>4 DEF CodeOf
  <2> QED BY <2>5, <2>6, <2>7 DEF CountInv
<1>6. ASSUME NEW r \in Requests, CallRaises(r) PROVE CountInv'
  <2>1. CASE UNCHANGED <<table, slipped>>
    BY <1>1, <1>6, <2>1, CountSame DEF CallRaises
  <2>2. CASE r \in Holding /\ table' = Written(r) /\ slipped' = slipped \cup Held \cup CodeOf(table)
    BY <1>6, <2>2, WrittenHasItsCode, CountSlips DEF CallRaises
  <2> QED BY <1>6, <2>1, <2>2 DEF CallRaises
<1>7. CASE CatchUp \/ Lapse \/ UNCHANGED vars
  BY <1>1, <1>7, CountSame DEF CatchUp, Lapse, vars, histVars
<1>8. CASE TtlDelete
  BY <1>1, <1>8, CountSlips DEF TtlDelete, CodeOf
<1> QED BY <1>2, <1>3, <1>4, <1>5, <1>6, <1>7, <1>8 DEF Next

-----------------------------------------------------------------------------
(* The whole invariant is preserved.                                       *)
LEMMA CodesInvariant == Spec => []CodesInv
<1>1. Init => CodesInv
  BY SoundInit, OverlapInit, CountInit DEF CodesInv
<1>2. CodesInv /\ [Next]_vars => CodesInv'
  BY SoundNext, OverlapNext, CountNext DEF CodesInv
<1> QED BY <1>1, <1>2, PTL DEF Spec

(* Every variable has its type, an item is held just while it is decided   *)
(* on, a code with no try left is not kept, and no request finds an item   *)
(* it cannot read but for an overlap (otp.py:63-92).                       *)
THEOREM CodesAreSound == Spec => []ItemsAreSound
<1>1. ASSUME OneInserts PROVE Cardinality(inserted) <= 1
  <2>1. CASE inserted = {}
    BY <2>1, FS_EmptySet
  <2>2. CASE inserted # {}
    <3>1. PICK r : inserted = {r}
      BY <1>1, <2>2 DEF OneInserts
    <3> QED BY <3>1, FS_Singleton
  <2> QED BY <2>1, <2>2
<1>2. CodesInv => ItemsAreSound
  <2> SUFFICES ASSUME CodesInv PROVE ItemsAreSound
    OBVIOUS
  <2>1. inserted \subseteq {r \in Requests : pc[r] \in {"session", "commit"}}
    BY DEF CodesInv, SoundInv, OneInserts
  <2>2. TypeOK
    BY <1>1, <2>1 DEF CodesInv, SoundInv, Types, RequestsAreSound, ItemsAreBounded, Deciding, TypeOK
  <2>3. CrashOnlyAfterOverlap
    BY DEF CodesInv, OverlapInv, HuskHasSlipped, CrashOnlyAfterOverlap
  <2> QED BY <2>2, <2>3 DEF ItemsAreSound
<1> QED BY <1>2, CodesInvariant, PTL

(* Outside the overlaps of a verification with another one or with a new   *)
(* code, a code is accepted once (otp.py:74-76).                           *)
THEOREM AcceptedOnce == Spec => []CodeWorksOnce
<1>1. CodesInv => CodeWorksOnce
  BY DEF CodesInv, CountInv
<1> QED BY <1>1, CodesInvariant, PTL

(* ... its wrong tries are counted one by one (otp.py:78-90).              *)
THEOREM TriesAreCounted == Spec => []AttemptsAreExact
<1>1. CodesInv => AttemptsAreExact
  BY DEF CodesInv, CountInv
<1> QED BY <1>1, CodesInvariant, PTL

(* ... the newest one is there until it lapses, is used or is tried too    *)
(* often (otp.py:49-92).                                                   *)
THEOREM NewestStays == Spec => []NewestCodeIsThere
<1>1. CodesInv => NewestCodeIsThere
  BY DEF CodesInv, CountInv
<1> QED BY <1>1, CodesInvariant, PTL

(* ... and an older one is never accepted (otp.py:49-61).                  *)
THEOREM OlderIsRefused == Spec => []OlderCodeIsOver
<1>1. CodesInv => OlderCodeIsOver
  <2> SUFFICES ASSUME CodesInv, NEW r \in Requests, pc[r] = "consume", item[r].code < issued
               PROVE  item[r].code \in slipped
    BY DEF OlderCodeIsOver
  <2> USE DEF CodesInv
  <2>1. r \in Holding
    BY DEF SoundInv, RequestsAreSound, Deciding, Holding
  <2>2. item[r] # NoItem /\ item[r].code \in 1..issued /\ CodeOf(item[r]) = {item[r].code}
        /\ issued \in Nat
    BY <2>1, CodesOfItems DEF Holding, SoundInv, Types
  <2> QED BY <2>1, <2>2 DEF OverlapInv, HeldIsCurrent, TableIsNewest
<1> QED BY <1>1, CodesInvariant, PTL

-----------------------------------------------------------------------------
(* What becomes of a code, as CodeLife has it.                             *)

(* One code's fate changes.                                                *)
LEMMA OneBecomes ==
    ASSUME NEW f, UNCHANGED issued, issued \in Codes, Fate(issued)' = f,
           \A c \in Codes \ {issued} : Fate(c)' = Fate(c)
    PROVE  Life!Becomes(f)
  BY DEF Life!Becomes

(* Codes that come to be in dispute, while the rest stay as they are.      *)
LEMMA Disputed ==
    ASSUME SoundInv, SoundInv', UNCHANGED <<issued, lapsed, wrong, used>>, slipped \subseteq slipped',
           issued > lapsed \/ issued \in slipped' \/ (issued \in Held <=> issued \in Held')
    PROVE  Life!Next
<1> DEFINE S == slipped' \cap (1..issued)
<1>1. issued \in Nat /\ slipped' \subseteq Codes
  BY DEF SoundInv, Types
<1>2. ASSUME NEW c \in Codes PROVE Fate(c)' = IF c \in S THEN "disputed" ELSE Fate(c)
  <2>1. c \in Nat /\ c > 0
    BY DEF Codes
  <2>2. CASE c > issued
    BY <1>1, <2>1, <2>2 DEF Fate
  <2>3. CASE c <= issued /\ c \in slipped'
    BY <1>1, <2>1, <2>3 DEF Fate
  <2>4. CASE c <= issued /\ c \notin slipped'
    BY <1>1, <2>1, <2>4 DEF Fate
  <2> QED BY <1>1, <2>1, <2>2, <2>3, <2>4
<1>3. issued \in S <=> issued \in slipped'
  BY <1>1 DEF Codes
<1>4. (IF issued \in slipped THEN 0 ELSE wrong)'
        = IF issued \in S THEN 0 ELSE IF issued \in slipped THEN 0 ELSE wrong
  <2>1. issued' = issued /\ wrong' = wrong
    OBVIOUS
  <2> HIDE DEF S
  <2> QED BY <1>3, <2>1
<1> HIDE DEF S
<1>5. Life!Dispute(S)
  BY <1>2, <1>4 DEF Life!Dispute, Life!Codes, Codes
<1>6. S \in SUBSET (1..issued)
  BY DEF S
<1> QED BY <1>5, <1>6 DEF Life!Next

(* A verification that lets go of its item ends, at the most, the wait for *)
(* a code that has lapsed.                                                 *)
LEMMA LetGo ==
    ASSUME SoundInv, SoundInv', UNCHANGED <<issued, lapsed, wrong, used, slipped>>, Held' \subseteq Held
    PROVE  Life!Next
<1>1. CASE issued > lapsed \/ issued \in slipped' \/ (issued \in Held <=> issued \in Held')
  BY <1>1, Disputed
<1>2. CASE ~(issued > lapsed) /\ issued \notin slipped /\ issued \in Held /\ issued \notin Held'
  <2>1. issued \in Codes /\ issued \in Nat /\ issued > 0 /\ lapsed \in Nat
    BY <1>2, CodesOfItems DEF SoundInv, Types, Codes
  <2>2. \A c \in Codes \ {issued} : Fate(c)' = Fate(c)
    BY DEF Fate
  <2>3. CASE Fate(issued) = "live"
    <3>1. Fate(issued)' = "over"
      BY <1>2, <2>1, <2>3 DEF Fate
    <3>2. Life!GiveUp
      <4>1. Life!Becomes("over")
        BY <2>1, <2>2, <3>1, OneBecomes
      <4>2. (IF issued \in slipped THEN 0 ELSE wrong)' = IF issued \in slipped THEN 0 ELSE wrong
        OBVIOUS
      <4>3. issued <= lapsed
        BY <1>2, <2>1
      <4> QED BY <2>1, <2>3, <4>1, <4>2, <4>3 DEF Life!GiveUp
    <3> QED BY <3>2 DEF Life!Next
  <2>4. CASE Fate(issued) # "live"
    <3>1. Fate(issued)' = Fate(issued)
      BY <1>2, <2>1, <2>4 DEF Fate
    <3>2. Life!Dispute({})
      BY <2>2, <3>1 DEF Life!Dispute, Life!Codes, Codes
    <3> QED BY <3>2 DEF Life!Next
  <2> QED BY <2>3, <2>4
<1> QED BY <1>1, <1>2 DEF SoundInv, Types

(* A new code is live, unless it came in between a verification's calls.   *)
LEMMA IssueIssues == ASSUME CodesInv, SoundInv', NEW r \in Requests, Issue(r) PROVE Life!Next
<1> USE DEF CodesInv
<1> DEFINE S == slipped' \cap (1..(issued + 1))
<1>1. /\ issued \in Nat /\ lapsed \in 0..issued /\ issued < MaxCodes /\ issued' = issued + 1
      /\ wrong' = 0 /\ UNCHANGED <<lapsed, used, item>> /\ slipped \subseteq slipped'
      /\ MaxAttempts \in Nat \ {0}
  BY CodesAssumption DEF Issue, SoundInv, Types
<1>2. ASSUME NEW c \in Codes
      PROVE  Fate(c)' = IF c \in S THEN "disputed"
                        ELSE IF c = issued' THEN "live"
                        ELSE IF Fate(c) = "live" THEN "over" ELSE Fate(c)
  <2>1. c \in Nat /\ c > 0
    BY DEF Codes
  <2>2. CASE c > issued + 1
    BY <1>1, <2>1, <2>2 DEF Fate
  <2>3. CASE c <= issued + 1 /\ c \in slipped'
    BY <1>1, <2>1, <2>3 DEF Fate
  <2>4. CASE c = issued + 1 /\ c \notin slipped'
    <3>1. used[c] = 0
      BY <1>1, <2>4 DEF CountInv, UsedIsGone, SoundInv, Types
    <3> QED BY <1>1, <2>1, <2>4, <3>1 DEF Fate
  <2>5. CASE c <= issued /\ c \notin slipped'
    BY <1>1, <2>1, <2>5 DEF Fate
  <2> QED BY <1>1, <2>1, <2>2, <2>3, <2>4, <2>5
<1>3. (IF issued \in slipped THEN 0 ELSE wrong)' = 0
  BY <1>1
<1> HIDE DEF S
<1>4. Life!Issue(S)
  BY <1>1, <1>2, <1>3 DEF Life!Issue, Life!Codes, Codes
<1>5. S \in SUBSET (1..(issued + 1))
  BY DEF S
<1> QED BY <1>4, <1>5 DEF Life!Next

(* A code out of dispute that a verification decides on is live.           *)
LEMMA DecidedIsLive ==
    ASSUME CodesInv, NEW r \in Holding, item[r].code \notin slipped
    PROVE  /\ item[r].code = issued /\ issued \in Codes /\ Fate(issued) = "live"
           /\ used[issued] = 0 /\ wrong < MaxAttempts
           /\ pc[r] \in {"count", "delete"} => (pc[r] = "count" <=> wrong + 1 < MaxAttempts)
<1> USE DEF CodesInv
<1>1. /\ r \in Requests /\ item[r] # NoItem /\ CodeOf(item[r]) = {item[r].code}
      /\ item[r].code \in 1..issued /\ item[r].code \in Codes /\ item[r].code \in Held
      /\ issued \in Nat
  BY CodesOfItems DEF Holding, SoundInv, Types
<1>2. table = item[r] /\ item[r].code = issued
  BY <1>1 DEF OverlapInv, HeldIsCurrent, TableIsNewest
<1>3. used[issued] = 0
  <2>1. ~(used[issued] > 0)
    BY <1>1, <1>2 DEF CountInv, UsedIsGone
  <2>2. used[issued] \in 0..2
    BY <1>1, <1>2 DEF SoundInv, Types
  <2> QED BY <2>1, <2>2
<1>4. wrong = item[r].attempts /\ wrong < MaxAttempts
  BY <1>1, <1>2 DEF CountInv, AttemptsAreExact, SoundInv, ItemsAreBounded
<1>5. Fate(issued) = "live"
  BY <1>1, <1>2, <1>3, <1>4 DEF Fate
<1>6. pc[r] \in {"count", "delete"} => (pc[r] = "count" <=> wrong + 1 < MaxAttempts)
  BY <1>1, <1>4 DEF SoundInv, ItemsAreBounded
<1> QED BY <1>1, <1>2, <1>3, <1>4, <1>5, <1>6

(* A wrong try counts for the code it was made on.                         *)
LEMMA WrongMisses == ASSUME CodesInv, SoundInv', NEW r \in Requests, RecordWrong(r) PROVE Life!Next
<1> USE DEF CodesInv
<1>1. r \in Holding /\ UNCHANGED <<issued, lapsed, used, slipped>> /\ item' = [item EXCEPT ![r] = NoItem]
  BY DEF RecordWrong, Finish, Holding, SoundInv, RequestsAreSound, Deciding
<1>2. Held' \subseteq Held
  BY <1>1, Released DEF Held, CodeOf
<1>3. CASE item[r].code \in slipped
  BY <1>1, <1>2, <1>3, LetGo DEF RecordWrong
<1>4. CASE item[r].code \notin slipped
  <2>1. /\ item[r].code = issued /\ issued \in Codes /\ Fate(issued) = "live" /\ used[issued] = 0
        /\ wrong \in Nat /\ MaxAttempts \in Nat /\ wrong < MaxAttempts /\ wrong' = wrong + 1
        /\ issued \in Nat /\ issued > 0 /\ lapsed \in Nat
    BY <1>1, <1>4, DecidedIsLive, CodesAssumption DEF RecordWrong, SoundInv, Types, Codes
  <2>2. \A c \in Codes \ {issued} : Fate(c)' = Fate(c)
    BY <1>1, <2>1 DEF Fate
  <2>3. Fate(issued)' = IF wrong' < MaxAttempts /\ (issued > lapsed \/ issued \in Held') THEN "live" ELSE "over"
    BY <1>1, <1>4, <2>1 DEF Fate
  <2>4. Life!Miss
    <3>1. /\ (IF issued \in slipped THEN 0 ELSE wrong) = wrong
          /\ (IF issued \in slipped THEN 0 ELSE wrong)' = wrong + 1
      BY <1>1, <1>4, <2>1
    <3>2. CASE Fate(issued)' = "live"
      <4>1. UNCHANGED [c \in Codes |-> Fate(c)]
        BY <1>1, <2>1, <2>2, <3>2
      <4> QED BY <1>1, <2>1, <2>3, <3>1, <3>2, <4>1 DEF Life!Miss
    <3>3. CASE Fate(issued)' = "over"
      <4>1. Life!Becomes("over")
        BY <1>1, <2>1, <2>2, <3>3, OneBecomes
      <4>2. wrong + 1 = MaxAttempts \/ issued <= lapsed
        BY <2>1, <2>3, <3>3
      <4> QED BY <1>1, <2>1, <3>1, <4>1, <4>2 DEF Life!Miss
    <3> QED BY <2>3, <3>2, <3>3
  <2> QED BY <2>4 DEF Life!Next
<1> QED BY <1>3, <1>4

(* A correct code is used up.                                              *)
LEMMA ConsumeAccepts == ASSUME CodesInv, SoundInv', NEW r \in Requests, Consume(r) PROVE Life!Next
<1> USE DEF CodesInv
<1>1. r \in Holding /\ UNCHANGED <<issued, lapsed, wrong, slipped>> /\ item' = [item EXCEPT ![r] = NoItem]
  BY DEF Consume, Holding, SoundInv, RequestsAreSound, Deciding
<1>2. Held' \subseteq Held
  BY <1>1, Released DEF Held, CodeOf
<1>3. CASE item[r].code \in slipped
  BY <1>1, <1>2, <1>3, LetGo DEF Consume
<1>4. CASE item[r].code \notin slipped
  <2>1. /\ item[r].code = issued /\ issued \in Codes /\ Fate(issued) = "live" /\ used[issued] = 0
        /\ issued \in Nat /\ issued > 0
    BY <1>1, <1>4, DecidedIsLive DEF SoundInv, Types, Codes
  <2>2. used' = [used EXCEPT ![issued] = 1]
    BY <1>4, <2>1 DEF Consume
  <2>3. used'[issued] = 1 /\ \A c \in Codes \ {issued} : used'[c] = used[c]
    BY <2>1, <2>2 DEF SoundInv, Types
  <2>4. \A c \in Codes \ {issued} : Fate(c)' = Fate(c)
    BY <1>1, <2>1, <2>3 DEF Fate
  <2>5. Fate(issued)' = "used"
    BY <1>1, <1>4, <2>1, <2>3 DEF Fate
  <2>6. Life!Accept
    BY <1>1, <2>1, <2>4, <2>5 DEF Life!Accept, Life!Becomes
  <2> QED BY <2>6 DEF Life!Next
<1> QED BY <1>3, <1>4

(* The newest code lapses, unless a verification is at work on it.         *)
LEMMA LapseLapses == ASSUME SoundInv, Lapse PROVE Life!Next
<1>1. /\ lapsed' = lapsed + 1 /\ lapsed < issued /\ lapsed \in Nat /\ issued \in Codes /\ issued \in Nat
      /\ UNCHANGED <<issued, wrong, used, slipped, item>>
  BY CodesAssumption DEF Lapse, SoundInv, Types, Codes, requestVars, histVars
<1>2. Held' = Held
  BY <1>1 DEF Held, Holding, CodeOf
<1>3. \A c \in Codes \ {issued} : Fate(c)' = Fate(c)
  BY <1>1 DEF Fate
<1>4. \/ Fate(issued)' = Fate(issued)
      \/ lapsed' = issued /\ Fate(issued) = "live" /\ Fate(issued)' = "over"
  BY <1>1, <1>2 DEF Fate
<1>5. Life!Lapse
  BY <1>1, <1>3, <1>4 DEF Life!Lapse, Life!Becomes
<1> QED BY <1>5 DEF Life!Next

(* Every step is one of the code's life, or leaves it alone.               *)
LEMMA LifeStep == CodesInv /\ CodesInv' /\ [Next]_vars => [Life!Next]_(Life!vars)
<1> SUFFICES ASSUME CodesInv, CodesInv', [Next]_vars PROVE Life!Next
  OBVIOUS
<1> USE DEF CodesInv
<1>1. ASSUME UNCHANGED <<issued, lapsed, wrong, used, slipped, item>> PROVE Life!Next
  <2>1. Held' = Held
    BY <1>1 DEF Held, Holding, CodeOf
  <2> QED BY <1>1, <2>1, Disputed
<1>2. ASSUME NEW r \in Requests,
             \/ \E b \in Browsers : Ask(r, b) \/ \E c \in 0..MaxCodes : Verify(r, b, c)
             \/ FindUser(r) \/ PutSession(r)
      PROVE  Life!Next
  BY <1>1, <1>2 DEF Ask, Verify, FindUser, PutSession, itemVars, histVars
<1>3. ASSUME NEW r \in Requests, NEW how \in Over, Finish(r, how),
             UNCHANGED <<issued, lapsed, wrong, used, slipped>>
      PROVE  Life!Next
  <2>1. Held' \subseteq Held
    BY <1>3, Released DEF Finish, Held, CodeOf
  <2> QED BY <1>3, <2>1, LetGo
<1>4. ASSUME NEW r \in Requests, Send(r) \/ InsertUser(r) \/ Commit(r) PROVE Life!Next
  BY <1>1, <1>3, <1>4 DEF Send, InsertUser, Commit, itemVars, histVars, Over
<1>5. ASSUME NEW r \in Requests, Get(r) PROVE Life!Next
  <2> PICK it \in {table, lagging} :
         \/ Husk(it) /\ Finish(r, "crashed") /\ UNCHANGED slipped
         \/ ~Husk(it) /\ ~Live(it, r) /\ Finish(r, "done") /\ UNCHANGED slipped
         \/ Live(it, r) /\ item' = [item EXCEPT ![r] = it] /\ slipped \subseteq slipped'
    BY <1>5 DEF Get
  <2>1. UNCHANGED <<issued, lapsed, wrong, used>>
    BY <1>5 DEF Get, itemVars
  <2>2. CASE Live(it, r) /\ item' = [item EXCEPT ![r] = it] /\ slipped \subseteq slipped'
    <3>1. it # NoItem /\ it.code > lapsed /\ CodeOf(it) \subseteq {it.code}
      BY <2>2 DEF Live, CodeOf
    <3>2. r \notin Holding
      BY <1>5 DEF Get, Holding, SoundInv, RequestsAreSound, Deciding
    <3>3. Held' = Held \cup CodeOf(it)
      <4>1. Holding' = Holding \cup {r} /\ item'[r] = it /\ \A q \in Holding : item'[q] = item[q]
        BY <2>2, <3>1, <3>2 DEF Holding, SoundInv, Types
      <4> QED BY <4>1 DEF Held, CodeOf
    <3>4. issued > lapsed \/ (issued \in Held <=> issued \in Held')
      BY <3>1, <3>3
    <3> QED BY <2>1, <2>2, <3>4, Disputed
  <2> QED BY <1>3, <2>1, <2>2 DEF Over
<1>6. ASSUME NEW r \in Requests, CallRaises(r) PROVE Life!Next
  <2>1. UNCHANGED <<issued, lapsed, wrong, used>> /\ Finish(r, "failed")
    BY <1>6 DEF CallRaises
  <2>2. CASE UNCHANGED slipped
    BY <1>3, <2>1, <2>2 DEF Over
  <2>3. CASE slipped' = slipped \cup Held \cup CodeOf(table)
    <3>1. Held' \subseteq Held
      BY <2>1, Released DEF Finish, Held, CodeOf
    <3> QED BY <2>1, <2>3, <3>1, Disputed
  <2> QED BY <1>6, <2>2, <2>3 DEF CallRaises
<1>7. CASE CatchUp \/ UNCHANGED vars
  BY <1>1, <1>7 DEF CatchUp, vars, requestVars, histVars
<1>8. CASE TtlDelete
  <2>1. UNCHANGED <<issued, lapsed, wrong, used, item>> /\ slipped \subseteq slipped'
    BY <1>8 DEF TtlDelete, requestVars
  <2>2. Held' = Held
    BY <2>1 DEF Held, Holding, CodeOf
  <2> QED BY <2>1, <2>2, Disputed
<1>9. ASSUME NEW r \in Requests, Issue(r) \/ RecordWrong(r) \/ Consume(r) PROVE Life!Next
  BY <1>9, IssueIssues, WrongMisses, ConsumeAccepts
<1>10. CASE Lapse
  BY <1>10, LapseLapses
<1> QED BY <1>2, <1>4, <1>5, <1>6, <1>7, <1>8, <1>9, <1>10 DEF Next

(* The code store implements CodeLife: whatever requests overlap, whatever *)
(* calls fail and however the reads lag, a code out of dispute is accepted *)
(* once at most, while it is the newest, has tries left and has not lapsed *)
(* before a verification found it (otp.py:49-92).                          *)
THEOREM CodesImplementLife == Spec => ImplementsCodeLife
<1>1. Init => Life!Init
  BY DEF Init, Life!Init, Life!Codes, Codes, Fate
<1>2. CodesInv /\ [Next]_vars => CodesInv'
  BY SoundNext, OverlapNext, CountNext DEF CodesInv
<1>3. CodesInv /\ CodesInv' /\ [Next]_vars => [Life!Next]_(Life!vars)
  BY LifeStep
<1> QED BY <1>1, <1>2, <1>3, CodesInvariant, PTL DEF Spec, ImplementsCodeLife, Life!Spec

-----------------------------------------------------------------------------
(* The user of a sign-in.                                                  *)

(* Whoever is about to put a session or has put it has found the user or   *)
(* has inserted it, and a rollback takes that away from itself only.       *)
LEMMA SeenNext == SoundInv /\ UserIsSeen /\ [Next]_vars => UserIsSeen'
<1> SUFFICES ASSUME SoundInv, UserIsSeen, [Next]_vars PROVE UserIsSeen'
  OBVIOUS
<1>1. ASSUME NEW r \in Requests,
             \/ \E b \in Browsers : Ask(r, b) \/ \E c \in 0..MaxCodes : Verify(r, b, c)
             \/ Issue(r) \/ Send(r) \/ RecordWrong(r) \/ Consume(r)
      PROVE  UserIsSeen'
  BY <1>1 DEF Ask, Verify, Issue, Send, RecordWrong, Consume, Goto, Finish, dbVars, UserIsSeen,
              SoundInv, Types, Over
<1>2. ASSUME NEW r \in Requests, Get(r) PROVE UserIsSeen'
  BY <1>2 DEF Get, Goto, Finish, Decision, dbVars, UserIsSeen, SoundInv, Types
<1>3. ASSUME NEW r \in Requests, FindUser(r) \/ InsertUser(r) \/ PutSession(r) PROVE UserIsSeen'
  BY <1>3 DEF FindUser, HasUser, InsertUser, PutSession, Goto, Finish, dbVars, UserIsSeen,
              SoundInv, Types
<1>4. ASSUME NEW r \in Requests, Commit(r) \/ CallRaises(r) PROVE UserIsSeen'
  BY <1>4 DEF Commit, CallRaises, Finish, UserIsSeen, SoundInv, Types
<1>5. CASE CatchUp \/ Lapse \/ TtlDelete \/ UNCHANGED vars
  BY <1>5 DEF CatchUp, Lapse, TtlDelete, vars, requestVars, dbVars, UserIsSeen
<1> QED BY <1>1, <1>2, <1>3, <1>4, <1>5 DEF Next

(* A sign-in that ended well has its user in the database, whatever other  *)
(* sign-ins of the address inserted and rolled back (users.py:28-37).      *)
THEOREM SignedInIsUser == Spec => SignedInHasUser
<1>1. Init => UserIsSeen
  BY DEF Init, UserIsSeen
<1>2. SoundInv /\ UserIsSeen /\ [Next]_vars =>
         [\A r \in Requests : pc[r] = "commit" /\ pc'[r] = "done" => user' = "exists"]_vars
  <2> SUFFICES ASSUME SoundInv, UserIsSeen, Next, NEW r \in Requests,
                      pc[r] = "commit", pc'[r] = "done"
               PROVE  user' = "exists"
    OBVIOUS
  <2>1. CASE Commit(r)
    BY <2>1 DEF Commit, UserIsSeen
  <2>2. ASSUME NEW q \in Requests, q # r,
               \/ \E b \in Browsers : Ask(q, b) \/ \E c \in 0..MaxCodes : Verify(q, b, c)
               \/ Issue(q) \/ Send(q) \/ Get(q) \/ RecordWrong(q) \/ Consume(q)
               \/ FindUser(q) \/ InsertUser(q) \/ PutSession(q) \/ Commit(q) \/ CallRaises(q)
        PROVE  pc'[r] = pc[r]
    BY <2>2 DEF Ask, Verify, Issue, Send, Get, RecordWrong, Consume, FindUser, InsertUser,
                PutSession, Commit, CallRaises, Goto, Finish, SoundInv, Types
  <2>3. ~CallRaises(r)
    BY DEF CallRaises, Finish, SoundInv, Types
  <2>4. ~(\/ \E b \in Browsers : Ask(r, b) \/ \E c \in 0..MaxCodes : Verify(r, b, c)
          \/ Issue(r) \/ Send(r) \/ Get(r) \/ RecordWrong(r) \/ Consume(r)
          \/ FindUser(r) \/ InsertUser(r) \/ PutSession(r))
    BY DEF Ask, Verify, Issue, Send, Get, RecordWrong, Consume, FindUser, InsertUser, PutSession, Over
  <2>5. ~CatchUp /\ ~Lapse /\ ~TtlDelete
    BY DEF CatchUp, Lapse, TtlDelete, requestVars
  <2> QED BY <2>1, <2>2, <2>3, <2>4, <2>5 DEF Next
<1> QED BY <1>1, <1>2, SoundInit, SoundNext, SeenNext, PTL DEF Spec, SignedInHasUser
=============================================================================
