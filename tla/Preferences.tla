---------------------------- MODULE Preferences -----------------------------
(***************************************************************************)
(* Saving the job preferences of a user (api/v1/preferences.py,            *)
(* repositories/preferences.py): a PUT replaces the whole document, in one *)
(* transaction at READ COMMITTED.  upsert reads the row; if there is none  *)
(* it inserts one, else the ORM updates the columns in which the document  *)
(* differs from the row as it was read, and no others.  Two requests of    *)
(* one user may run at once; others have rows of their own.                *)
(***************************************************************************)
EXTENDS Naturals

CONSTANTS
    Requests,
    Salaries,  \* annual, in JPY
    Unset,     \* salary_min or salary_max is null
    NoRow, NoDocument

Columns   == {"salary_min", "salary_max"}  \* the ones an order is asked of
Documents == [Columns -> Salaries \cup {Unset}]

PreferencesAssumption ==
    /\ Salaries \subseteq Nat /\ Unset \notin Salaries
    /\ NoRow \notin Documents /\ NoDocument \notin Documents /\ NoRow # NoDocument

(* What PreferenceIn accepts; any other document is answered with 422.     *)
Ordered(d) ==
    Unset \notin {d["salary_min"], d["salary_max"]} => d["salary_min"] <= d["salary_max"]

VARIABLES
    row,     \* the job_preferences row as committed
    pc,      \* where each request is
    body,    \* the document it was sent
    read,    \* the row its upsert found
    \* history
    raced    \* requests that have read the row and seen another's commit since

vars == <<row, pc, body, read, raced>>

Rows == Documents \cup {NoRow}

TypeOK ==
    /\ row \in Rows
    /\ pc \in [Requests -> {"idle", "sent", "read", "flushed"}]
    /\ body \in [Requests -> Documents \cup {NoDocument}]
    /\ read \in [Requests -> Rows]
    /\ raced \subseteq {r \in Requests : pc[r] # "idle"}
    /\ \A r \in Requests : pc[r] = "idle" <=> body[r] = NoDocument

Init ==
    /\ row = NoRow
    /\ pc = [r \in Requests |-> "idle"]
    /\ body = [r \in Requests |-> NoDocument]
    /\ read = [r \in Requests |-> NoRow]
    /\ raced = {}

End(r) ==
    /\ pc' = [pc EXCEPT ![r] = "idle"]
    /\ body' = [body EXCEPT ![r] = NoDocument]
    /\ read' = [read EXCEPT ![r] = NoRow]

(* put_preferences *)
Put(r) ==
    /\ pc[r] = "idle"
    /\ \E d \in {x \in Documents : Ordered(x)} : body' = [body EXCEPT ![r] = d]
    /\ pc' = [pc EXCEPT ![r] = "sent"]
    /\ UNCHANGED <<row, read, raced>>

(* upsert: the SELECT *)
Get(r) ==
    /\ pc[r] = "sent"
    /\ pc' = [pc EXCEPT ![r] = "read"]
    /\ read' = [read EXCEPT ![r] = row]
    /\ raced' = raced \ {r}
    /\ UNCHANGED <<row, body>>

(* Mutant: a salary cannot be cleared (a dump without None).                *)
Dirty_SkipsUnset(r) ==
    IF read[r] = NoRow THEN Columns
    ELSE {c \in Columns : body[r][c] \notin {read[r][c], Unset}}

(* The columns the flush writes: all of a new row, the changed ones of one  *)
(* that was read.                                                           *)
Dirty(r) == IF read[r] = NoRow THEN Columns ELSE {c \in Columns : body[r][c] # read[r][c]}

(* upsert: the flush.  An UPDATE or INSERT waits for another one that is    *)
(* not committed; an INSERT then finds its user's row there already and     *)
(* breaks the unique constraint.  With nothing to write nothing is sent.    *)
Flush(r) ==
    /\ pc[r] = "read"
    /\ Dirty(r) # {} => \A q \in Requests : pc[q] = "flushed" => Dirty(q) = {}
    /\ IF read[r] = NoRow /\ row # NoRow
       THEN End(r) /\ raced' = raced \ {r} /\ UNCHANGED row
       ELSE /\ pc' = [pc EXCEPT ![r] = "flushed"]
            /\ UNCHANGED <<row, body, read, raced>>

(* What an UPDATE leaves: it sets its columns in the row as it is by then. *)
Written(r) == [c \in Columns |-> IF c \in Dirty(r) THEN body[r][c] ELSE row[c]]

(* get_db commits. *)
Commit(r) ==
    /\ pc[r] = "flushed"
    /\ row' = Written(r)
    /\ raced' = (raced \cup {q \in Requests : pc[q] \in {"read", "flushed"}}) \ {r}
    /\ End(r)

(* The database or the connection fails: get_db rolls back. *)
Rollback(r) ==
    /\ pc[r] # "idle"
    /\ End(r)
    /\ raced' = raced \ {r}
    /\ UNCHANGED row

Next == \E r \in Requests : Put(r) \/ Get(r) \/ Flush(r) \/ Commit(r) \/ Rollback(r)

Spec == Init /\ [][Next]_vars

-----------------------------------------------------------------------------
(* A save that no other one raced with leaves exactly its document, and so *)
(* the order that schemas/preference.py:26 asks of it, whatever the row was *)
(* before.  After a race each column is of one document or the other, and  *)
(* salary_min may exceed salary_max (repositories/preferences.py:14-23).   *)
SaveIsWhole ==
    \A r \in Requests : Commit(r) /\ r \notin raced => row' = body[r] /\ Ordered(row')
SavesAreWhole == [][SaveIsWhole]_vars
=============================================================================
