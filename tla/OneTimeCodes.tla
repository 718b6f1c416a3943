---------------------------- MODULE OneTimeCodes ----------------------------
(***************************************************************************)
(* Signing in with an e-mailed code (auth/otp.py, services/auth.py,        *)
(* repositories/users.py, api/v1/auth.py), for one e-mail address: nothing *)
(* but the per-IP limit is shared between addresses.                       *)
(*                                                                         *)
(* The active code is the one item under the hash of the address.  A       *)
(* verification reads it, decides, and then deletes it or writes back a    *)
(* new number of attempts, as calls of its own; a new code replaces the    *)
(* item at any time.  get_item is eventually consistent: it may still      *)
(* return the item before the last write.                                  *)
(***************************************************************************)
EXTENDS Naturals, FiniteSets

CONSTANTS
    Browsers,
    Requests,     \* requests in progress at a time
    MaxCodes,     \* bound on the codes issued
    MaxAttempts,  \* otp_max_attempts
    NoItem, NoBrowser

ASSUME CodesAssumption ==
    /\ MaxCodes \in Nat /\ MaxAttempts \in Nat \ {0}
    /\ NoBrowser \notin Browsers
    /\ NoItem \notin [code : 0..MaxCodes, attempts : 0..MaxAttempts]

VARIABLES
    issued,    \* number of codes issued; code n is the n-th
    table,     \* the item of the address; one update_item has made has code 0
    lagging,   \* the older item that get_item may still return
    lapsed,    \* number of codes, the oldest first, whose otp_ttl_seconds are over
    mailed,    \* codes that were e-mailed
    cookie,    \* challenge cookie of each browser: of the code it asked for,
               \* 0 if that was never issued, NoItem if it has none
    user,      \* the users row: "none", or "exists" once it is committed
    pc,        \* where each request is
    browser,   \* the browser it came from
    typed,     \* the code the user typed; 0 is a wrong one
    challenge, \* the challenge it carries
    item,      \* the item its get_item returned
    inserted,  \* requests with a users row they have not committed
    \* history
    slipped,   \* codes whose item changed between a verification's read and its write
    wrong,     \* wrong tries recorded for the newest code, until it slipped
    used       \* how often each code was accepted, until it slipped

requestVars == <<pc, browser, typed, challenge, item>>
dbVars      == <<user, inserted>>
histVars    == <<wrong, used, slipped>>
itemVars    == <<issued, table, lagging, lapsed>>
vars == <<issued, table, lagging, lapsed, mailed, cookie, user, inserted,
          pc, browser, typed, challenge, item, wrong, used, slipped>>

Codes == 1..MaxCodes
Items == [code : 0..MaxCodes, attempts : 0..MaxAttempts]

(* done: it ended with success or a 4xx; failed: a call of it failed;      *)
(* crashed: the 500 of an item that could not be read.                     *)
Over == {"done", "failed", "crashed"}

TypeOK ==
    /\ issued \in 0..MaxCodes /\ lapsed \in 0..issued
    /\ table \in Items \cup {NoItem} /\ lagging \in Items \cup {NoItem}
    /\ mailed \subseteq 1..issued
    /\ cookie \in [Browsers -> 0..MaxCodes \cup {NoItem}]
    /\ user \in {"none", "exists"}
    /\ pc \in [Requests -> Over \cup {"issue", "send", "get", "delete", "count", "consume",
                                      "user", "insert", "session", "commit"}]
    /\ browser \in [Requests -> Browsers \cup {NoBrowser}]
    /\ typed \in [Requests -> 0..MaxCodes]
    /\ challenge \in [Requests -> 0..MaxCodes]
    /\ item \in [Requests -> Items \cup {NoItem}]
    /\ inserted \subseteq {r \in Requests : pc[r] \in {"session", "commit"}}
    /\ wrong \in 0..MaxAttempts
    /\ used \in [Codes -> 0..2]
    /\ slipped \subseteq Codes
    /\ \A r \in Requests : /\ pc[r] \in Over <=> browser[r] = NoBrowser
                           /\ pc[r] \in {"delete", "count", "consume"} <=> item[r] # NoItem
    /\ Cardinality(inserted) <= 1
    /\ table # NoItem => table.attempts < MaxAttempts

Init ==
    /\ issued = 0 /\ lapsed = 0
    /\ table = NoItem /\ lagging = NoItem
    /\ mailed = {}
    /\ cookie = [b \in Browsers |-> NoItem]
    /\ user = "none"
    /\ pc = [r \in Requests |-> "done"]
    /\ browser = [r \in Requests |-> NoBrowser]
    /\ typed = [r \in Requests |-> 0]
    /\ challenge = [r \in Requests |-> 0]
    /\ item = [r \in Requests |-> NoItem]
    /\ inserted = {}
    /\ wrong = 0
    /\ used = [c \in Codes |-> 0]
    /\ slipped = {}

-----------------------------------------------------------------------------
(* A request ends; what it held is forgotten.                              *)
Finish(r, how) ==
    /\ pc' = [pc EXCEPT ![r] = how]
    /\ browser' = [browser EXCEPT ![r] = NoBrowser]
    /\ typed' = [typed EXCEPT ![r] = 0]
    /\ challenge' = [challenge EXCEPT ![r] = 0]
    /\ item' = [item EXCEPT ![r] = NoItem]

Goto(r, step) == pc' = [pc EXCEPT ![r] = step]

(* history: the requests that hold an item, and the codes their writes     *)
(* will be for or land on.                                                 *)
Holding == {r \in Requests : item[r] # NoItem}
CodeOf(it) == IF it = NoItem THEN {} ELSE {it.code} \ {0}
Held == UNION {CodeOf(item[r]) : r \in Holding}

-----------------------------------------------------------------------------
(* POST /auth/otp/request.                                                 *)

(* Over the hourly limit of the address or of the IP, the request is       *)
(* answered 202 all the same, with a challenge no code goes with.          *)
Ask(r, b) ==
    /\ pc[r] \in Over
    /\ \/ /\ Goto(r, "issue")
          /\ browser' = [browser EXCEPT ![r] = b]
          /\ UNCHANGED cookie
       \/ /\ cookie' = [cookie EXCEPT ![b] = 0]
          /\ UNCHANGED <<pc, browser>>
    /\ UNCHANGED <<itemVars, mailed, dbVars, typed, challenge, item, histVars>>

(* Mutant: put_item only if there is no item yet.                          *)
NewItem_IfAbsent(c) == IF table = NoItem THEN [code |-> c, attempts |-> 0] ELSE table

NewItem(c) == [code |-> c, attempts |-> 0]

(* issue: the new code replaces whatever item there is.                    *)
Issue(r) ==
    /\ pc[r] = "issue" /\ issued < MaxCodes
    /\ issued' = issued + 1
    /\ table' = NewItem(issued + 1)
    /\ challenge' = [challenge EXCEPT ![r] = issued + 1]
    /\ Goto(r, "send")
    /\ wrong' = 0
    /\ slipped' = IF Holding = {} THEN slipped ELSE slipped \cup Held \cup {issued + 1}
    /\ UNCHANGED <<lagging, lapsed, mailed, cookie, dbVars, browser, typed, item, used>>

(* The mail is sent, and the response sets the challenge cookie.           *)
Send(r) ==
    /\ pc[r] = "send"
    /\ mailed' = mailed \cup {challenge[r]}
    /\ cookie' = [cookie EXCEPT ![browser[r]] = challenge[r]]
    /\ Finish(r, "done")
    /\ UNCHANGED <<itemVars, dbVars, histVars>>

-----------------------------------------------------------------------------
(* POST /auth/otp/verify.  One over the IP's limit is refused and changes  *)
(* nothing.                                                                *)

Verify(r, b, code) ==
    /\ pc[r] \in Over
    /\ cookie[b] # NoItem
    /\ code \in mailed \cup {0}
    /\ Goto(r, "get")
    /\ browser' = [browser EXCEPT ![r] = b]
    /\ typed' = [typed EXCEPT ![r] = code]
    /\ challenge' = [challenge EXCEPT ![r] = cookie[b]]
    /\ UNCHANGED <<itemVars, mailed, cookie, dbVars, item, histVars>>

(* Mutants: the limit ends the code one try early, or one late.            *)
Decision_OneEarly(it, code) ==
    IF it.code = code THEN "consume"
    ELSE IF it.attempts + 2 >= MaxAttempts THEN "delete" ELSE "count"

Decision_OneLate(it, code) ==
    IF it.attempts >= MaxAttempts THEN "delete"
    ELSE IF it.code = code THEN "consume" ELSE "count"

(* verify, once the item is known to be live and of this challenge.        *)
Decision(it, code) ==
    IF it.attempts >= MaxAttempts THEN "delete"
    ELSE IF it.code = code THEN "consume"
    ELSE IF it.attempts + 1 >= MaxAttempts THEN "delete" ELSE "count"

(* An item that has not lapsed, of the challenge the request carries; and  *)
(* one made by update_item, without the expires_at that is read first.     *)
Live(it, r) == it # NoItem /\ it.code > lapsed /\ it.code = challenge[r]
Husk(it)    == it # NoItem /\ it.code = 0

Get(r) ==
    /\ pc[r] = "get"
    /\ \E it \in {table, lagging} :
         \/ Husk(it) /\ Finish(r, "crashed") /\ UNCHANGED slipped
         \/ ~Husk(it) /\ ~Live(it, r) /\ Finish(r, "done") /\ UNCHANGED slipped
         \/ /\ Live(it, r)
            /\ item' = [item EXCEPT ![r] = it]
            /\ Goto(r, Decision(it, typed[r]))
            /\ slipped' = IF it = table /\ Holding = {} THEN slipped
                          ELSE slipped \cup Held \cup CodeOf(it) \cup CodeOf(table)
            /\ typed' = [typed EXCEPT ![r] = 0]
            /\ challenge' = [challenge EXCEPT ![r] = 0]
            /\ UNCHANGED browser
    /\ UNCHANGED <<itemVars, mailed, cookie, dbVars, wrong, used>>

(* Mutant: the number of attempts is written as it was read.               *)
Written_SameAttempts(r) ==
    IF pc[r] # "count" THEN NoItem
    ELSE [code |-> IF table = NoItem THEN 0 ELSE table.code, attempts |-> item[r].attempts]

(* Mutant: a correct code is accepted but not deleted.                     *)
Written_KeepsAccepted(r) ==
    IF pc[r] = "delete" THEN NoItem
    ELSE IF pc[r] = "consume" THEN table
    ELSE [code |-> IF table = NoItem THEN 0 ELSE table.code, attempts |-> item[r].attempts + 1]

(* Mutant: the code is struck from the item, which stays.                  *)
Written_Strips(r) ==
    IF pc[r] # "count" THEN [code |-> 0, attempts |-> 0]
    ELSE [code |-> IF table = NoItem THEN 0 ELSE table.code, attempts |-> item[r].attempts + 1]

(* The item once r has written: deleted, or with the attempts r counted.   *)
(* update_item makes an item when there is none.                           *)
Written(r) ==
    IF pc[r] # "count" THEN NoItem
    ELSE [code |-> IF table = NoItem THEN 0 ELSE table.code, attempts |-> item[r].attempts + 1]

(* A wrong try, the last allowed one included, is recorded.                *)
RecordWrong(r) ==
    /\ pc[r] \in {"count", "delete"}
    /\ table' = Written(r)
    /\ wrong' = IF item[r].code \in {issued} \ slipped /\ wrong < MaxAttempts THEN wrong + 1
                ELSE wrong
    /\ Finish(r, "done")
    /\ UNCHANGED <<issued, lagging, lapsed, mailed, cookie, dbVars, used, slipped>>

Consume(r) ==
    /\ pc[r] = "consume"
    /\ table' = Written(r)
    /\ used' = IF item[r].code \in slipped THEN used
               ELSE [used EXCEPT ![item[r].code] = IF @ < 2 THEN @ + 1 ELSE @]
    /\ item' = [item EXCEPT ![r] = NoItem]
    /\ Goto(r, "user")
    /\ UNCHANGED <<issued, lagging, lapsed, mailed, cookie, dbVars,
                   browser, typed, challenge, wrong, slipped>>

(* Mutant: a row another request has inserted and not committed will do.   *)
HasUser_Uncommitted == user = "exists" \/ inserted # {}

HasUser == user = "exists"

(* get_or_create_verified looks for the user ...                           *)
FindUser(r) ==
    /\ pc[r] = "user"
    /\ Goto(r, IF HasUser THEN "session" ELSE "insert")
    /\ UNCHANGED <<itemVars, mailed, cookie, dbVars, browser, typed, challenge, item, histVars>>

(* ... and inserts one: the unique index makes a second insert wait for    *)
(* the first one's transaction, and fail if that commits.                  *)
InsertUser(r) ==
    /\ pc[r] = "insert" /\ inserted = {}
    /\ \/ /\ user = "exists"
          /\ Finish(r, "failed")
          /\ UNCHANGED inserted
       \/ /\ user = "none"
          /\ inserted' = {r}
          /\ Goto(r, "session")
          /\ UNCHANGED <<browser, typed, challenge, item>>
    /\ UNCHANGED <<itemVars, mailed, cookie, user, histVars>>

(* sessions.create puts the session, the answer sets its cookie and clears *)
(* the challenge, and only then is the transaction committed: FastAPI, at  *)
(* the version uv.lock pins, leaves get_db after the response is sent.     *)
PutSession(r) ==
    /\ pc[r] = "session"
    /\ cookie' = [cookie EXCEPT ![browser[r]] = NoItem]
    /\ Goto(r, "commit")
    /\ UNCHANGED <<itemVars, mailed, dbVars, browser, typed, challenge, item, histVars>>

Commit(r) ==
    /\ pc[r] = "commit"
    /\ user' = IF r \in inserted THEN "exists" ELSE user
    /\ inserted' = inserted \ {r}
    /\ Finish(r, "done")
    /\ UNCHANGED <<itemVars, mailed, cookie, histVars>>

(* A call of DynamoDB, of the mail server or of the database fails, and    *)
(* get_db rolls back: a 500, unless the answer is already out.  A failed   *)
(* write may or may not have happened.                                     *)
CallRaises(r) ==
    /\ pc[r] \notin Over
    /\ \/ UNCHANGED <<table, slipped>>
       \/ /\ r \in Holding
          /\ table' = Written(r)
          /\ slipped' = slipped \cup Held \cup CodeOf(table)
    /\ inserted' = inserted \ {r}
    /\ Finish(r, "failed")
    /\ UNCHANGED <<issued, lagging, lapsed, mailed, cookie, user, wrong, used>>

-----------------------------------------------------------------------------
(* DynamoDB and the clock.                                                 *)

CatchUp ==
    /\ lagging # table
    /\ lagging' = table
    /\ UNCHANGED <<issued, table, lapsed, mailed, cookie, dbVars, requestVars, histVars>>

(* otp_ttl_seconds are over for the oldest code still live.                *)
Lapse ==
    /\ lapsed < issued
    /\ lapsed' = lapsed + 1
    /\ UNCHANGED <<issued, table, lagging, mailed, cookie, dbVars, requestVars, histVars>>

TtlDelete ==
    /\ table # NoItem /\ table.code \in 1..lapsed
    /\ table' = NoItem
    /\ slipped' = slipped \cup Held
    /\ UNCHANGED <<issued, lagging, lapsed, mailed, cookie, dbVars, requestVars, wrong, used>>

Next ==
    \/ \E r \in Requests :
         \/ \E b \in Browsers : Ask(r, b) \/ \E c \in 0..MaxCodes : Verify(r, b, c)
         \/ Issue(r) \/ Send(r)
         \/ Get(r) \/ RecordWrong(r) \/ Consume(r)
         \/ FindUser(r) \/ InsertUser(r) \/ PutSession(r) \/ Commit(r)
         \/ CallRaises(r)
    \/ CatchUp \/ Lapse \/ TtlDelete

Spec == Init /\ [][Next]_vars

-----------------------------------------------------------------------------
(* A code signs in once, whoever tries it in between, unless a second      *)
(* verification read the item before the first one's deletion had reached  *)
(* it (otp.py:74-76).                                                      *)
CodeWorksOnce == \A c \in Codes : used[c] <= 1 \/ c \in slipped

(* The attempts stored with the code are the wrong tries recorded for it,   *)
(* through every interleaving of tries, new codes and failing calls that   *)
(* leaves a read and its write alone (otp.py:78-90).                       *)
AttemptsAreExact ==
    table # NoItem /\ table.code > 0 /\ table.code \notin slipped =>
        table.attempts = wrong

(* The newest code is there to be used until it lapses, is used or has had *)
(* all its wrong tries: no late write for an older code, and no miscount,  *)
(* takes it away (otp.py:49-92).                                           *)
NewestCodeIsThere ==
    issued > 0 /\ issued \notin slipped /\ issued > lapsed
    /\ used[issued] = 0 /\ wrong < MaxAttempts =>
        table # NoItem /\ table.code = issued

(* One active code per address: an older code is accepted only by a        *)
(* verification that had read it, or a late copy of it, around the issue   *)
(* of the newer one (otp.py:49-61).                                        *)
OlderCodeIsOver ==
    \A r \in Requests : pc[r] = "consume" /\ item[r].code < issued => item[r].code \in slipped

(* An item that no verification can read comes only of such an overlap: a  *)
(* late update_item on a deleted item (otp.py:85-90).                      *)
CrashOnlyAfterOverlap == \A r \in Requests : pc[r] = "crashed" => slipped # {}

(* Every variable has its type, an item is held just while it is decided    *)
(* on, a code with no try left is not kept, and none is unreadable but for  *)
(* an overlap.                                                              *)
ItemsAreSound == TypeOK /\ CrashOnlyAfterOverlap

(* A sign-in whose request ended well has its user in the database: none   *)
(* that found no user relies on a row another one had inserted and rolled  *)
(* back (users.py:28-37, services/auth.py:94-101, api/deps.py:29-36).      *)
SignedInHasUser ==
    [][\A r \in Requests : pc[r] = "commit" /\ pc'[r] = "done" => user' = "exists"]_vars

(* The store keeps the promise of CodeLife: the newest code is live until  *)
(* it has been used, has had all its tries, or has lapsed and is in no     *)
(* verification's hands; slipped codes are those in dispute.               *)
Fate(c) == IF c > issued THEN "none"
           ELSE IF c \in slipped THEN "disputed"
           ELSE IF used[c] > 0 THEN "used"
           ELSE IF c = issued /\ wrong < MaxAttempts /\ (c > lapsed \/ c \in Held) THEN "live"
           ELSE "over"

Life == INSTANCE CodeLife WITH
    newest <- issued,
    tries  <- IF issued \in slipped THEN 0 ELSE wrong,
    fate   <- [c \in Codes |-> Fate(c)]

ImplementsCodeLife == Life!Spec
=============================================================================
