----------------------------- MODULE DataModel ------------------------------
(***************************************************************************)
(* The database schema (alembic/versions, app/models): its tables, what    *)
(* refers to what, what goes when a row is deleted - by the ORM, which     *)
(* follows the relationships of the models, and by PostgreSQL, which       *)
(* follows the foreign keys - and the migrations that lead to it and back, *)
(* on a database that holds rows.                                          *)
(*                                                                         *)
(* One user, and at most one row of theirs in each table: the repositories *)
(* are scoped to a user, so that rows refer to rows of their own user only. *)
(* applications, application_events and analysis_results are written, and  *)
(* users are deleted, by nothing but the tests so far.                     *)
(***************************************************************************)
EXTENDS Naturals, Graphs

(* The foreign keys of a table.  Those with SET NULL are nullable, the     *)
(* others are not.                                                         *)
Owner           == [col |-> "user_id", to |-> "users", on |-> "CASCADE"]
Needs(c, t)     == [col |-> c, to |-> t, on |-> "CASCADE"]
MayHave(c, t)   == [col |-> c, to |-> t, on |-> "SET NULL"]

users              == {}
job_postings       == {Owner}
job_preferences    == {Owner}
job_sources        == {Owner}
llm_usage          == {MayHave("user_id", "users")}
resumes            == {Owner}
jobs               == {Owner, Needs("job_source_id", "job_sources"),
                       MayHave("job_posting_id", "job_postings")}
(* Mutant: a tailored version goes with the posting.                       *)
resume_versions_Cascade ==
    {Owner, Needs("resume_id", "resumes"), Needs("tailored_for_job_posting_id", "job_postings")}
resume_versions    == {Owner, Needs("resume_id", "resumes"),
                       MayHave("tailored_for_job_posting_id", "job_postings")}
analysis_results   == {Owner, Needs("job_posting_id", "job_postings"),
                       MayHave("resume_version_id", "resume_versions"),
                       MayHave("produced_resume_version_id", "resume_versions")}
applications       == {Owner, Needs("job_posting_id", "job_postings"),
                       MayHave("resume_version_id", "resume_versions")}
application_events == {Owner, Needs("application_id", "applications")}

Schema == [users |-> users, job_postings |-> job_postings, job_preferences |-> job_preferences,
           job_sources |-> job_sources, llm_usage |-> llm_usage, resumes |-> resumes,
           jobs |-> jobs, resume_versions |-> resume_versions,
           analysis_results |-> analysis_results, applications |-> applications,
           application_events |-> application_events]
Tables == DOMAIN Schema

(* Relationships of the models that a session.delete follows: children it  *)
(* deletes, and children whose foreign key it sets to null beforehand.     *)
OrmDeletes ==
    {<<"users", t>> : t \in {"job_preferences", "resumes", "job_sources", "applications"}}
    \cup {<<"resumes", "resume_versions">>, <<"job_sources", "jobs">>,
          <<"applications", "application_events">>}
OrmUnlinks == {<<"job_postings", "jobs">>, <<"job_postings", "applications">>}

-----------------------------------------------------------------------------
(* Migrations.                                                             *)

Create(t)        == [op |-> "create", table |-> t]
Drop(t)          == [op |-> "drop", table |-> t]
(* fill: the column is nullable, or the statement has a server default     *)
AddColumn(t, c, fill) == [op |-> "add", table |-> t, col |-> c, fill |-> fill]
DropColumn(t, c) == [op |-> "remove", table |-> t, col |-> c]

(* The last step stands for a column that users is created with.           *)
Creates == <<Create("users"), Create("job_postings"), Create("job_preferences"),
             Create("job_sources"), Create("llm_usage"), Create("resumes"), Create("jobs"),
             Create("resume_versions"), Create("analysis_results"), Create("applications"),
             Create("application_events"), AddColumn("users", "password_hash", FALSE)>>
Drops ==   <<Drop("application_events"), Drop("applications"), Drop("analysis_results"),
             Drop("resume_versions"), Drop("jobs"), Drop("resumes"), Drop("llm_usage"),
             Drop("job_sources"), Drop("job_preferences"), Drop("job_postings"), Drop("users")>>
DropPassword   == <<DropColumn("users", "password_hash")>>
AddPassword    == <<AddColumn("users", "password_hash", TRUE)>>
(* Mutant: the new column has no server default to fill old rows with.     *)
AddStatus_NoDefault == <<AddColumn("resume_versions", "status", FALSE),
                         AddColumn("resume_versions", "error", TRUE)>>
AddStatus      == <<AddColumn("resume_versions", "status", TRUE),
                    AddColumn("resume_versions", "error", TRUE)>>
DropStatus     == <<DropColumn("resume_versions", "error"),
                    DropColumn("resume_versions", "status")>>

Up   == <<Creates, DropPassword, AddStatus>>
Down == <<Drops, AddPassword, DropStatus>>
Latest == Len(Up)

VARIABLES
    rev,      \* alembic_version: how many migrations are applied
    tables, columns,
    rows,     \* tables in which the user has a row
    links,    \* nullable foreign keys that are set: table and column
    broken    \* history: a migration failed

vars == <<rev, tables, columns, rows, links, broken>>

Columns == {<<"users", "password_hash">>, <<"resume_versions", "status">>,
            <<"resume_versions", "error">>}
KeysOf(t, on) == {k \in Schema[t] : k.on = on}
Links == UNION {{<<t, k.col>> : k \in KeysOf(t, "SET NULL")} : t \in Tables}
TargetOf(l) == (CHOOSE k \in Schema[l[1]] : k.col = l[2]).to

TypeOK ==
    /\ rev \in 0..Latest
    /\ tables \subseteq Tables /\ columns \subseteq Columns
    /\ rows \subseteq tables /\ links \subseteq Links /\ broken \in BOOLEAN
    /\ \A t \in rows : \A k \in KeysOf(t, "CASCADE") : k.to \in rows
    /\ \A l \in links : {l[1], TargetOf(l)} \subseteq rows

Init == rev = 0 /\ tables = {} /\ columns = {} /\ rows = {} /\ links = {} /\ broken = FALSE

(* One statement of a migration on the database d; FALSE in ok: refused.   *)
Apply(d, s) ==
    LET t == s.table  c == <<s.table, s.col>>
        LeavesKeys == \A u \in d.tables \ {t} : \A k \in Schema[u] : k.to # t
    IN  CASE s.op = "create" ->
                [d EXCEPT !.tables = @ \cup {t},
                          !.ok = @ /\ t \notin d.tables
                                   /\ \A k \in Schema[t] : k.to \in d.tables]
          [] s.op = "drop" ->
                [d EXCEPT !.tables = @ \ {t}, !.rows = @ \ {t},
                          !.columns = {x \in @ : x[1] # t}, !.links = {l \in @ : l[1] # t},
                          !.ok = @ /\ t \in d.tables /\ LeavesKeys]
          [] s.op = "add" ->
                [d EXCEPT !.columns = @ \cup {c},
                          !.ok = @ /\ t \in d.tables /\ c \notin d.columns
                                   /\ (t \in d.rows => s.fill)]
          [] s.op = "remove" ->
                [d EXCEPT !.columns = @ \ {c}, !.ok = @ /\ c \in d.columns]

Database == [ok |-> TRUE, tables |-> tables, columns |-> columns, rows |-> rows, links |-> links]
Scripts(to) == IF to > rev THEN SubSeq(Up, rev + 1, to) ELSE Reverse(SubSeq(Down, to + 1, rev))

(* alembic upgrade, downgrade: all the scripts in one transaction. *)
Migrate(to) ==
    /\ to # rev
    /\ LET d == FoldLeft(Apply, Database, FlattenSeq(Scripts(to)))
       IN  IF d.ok
           THEN /\ rev' = to /\ tables' = d.tables /\ columns' = d.columns
                /\ rows' = d.rows /\ links' = d.links /\ UNCHANGED broken
           ELSE broken' = TRUE /\ UNCHANGED <<rev, tables, columns, rows, links>>

-----------------------------------------------------------------------------
(* The program, on the schema of its models.                               *)

Insert(t) ==
    /\ rev = Latest /\ t \notin rows
    /\ \A k \in KeysOf(t, "CASCADE") : k.to \in rows
    /\ \E set \in SUBSET {k \in KeysOf(t, "SET NULL") : k.to \in rows} :
          links' = links \cup {<<t, k.col>> : k \in set}
    /\ rows' = rows \cup {t}
    /\ UNCHANGED <<rev, tables, columns, broken>>

Cascades == UNION {{<<k.to, t>> : k \in KeysOf(t, "CASCADE")} : t \in Tables}

(* What edges lead to from S. *)
Below(S, edges) ==
    LET G == [node |-> Tables, edge |-> edges]
    IN  FoldSet(LAMBDA t, R : R \cup AllSuccessors(G, R), S, Tables)

(* session.delete, and its flush: a child that would keep a foreign key    *)
(* that cannot be null is refused, and the request or task fails.          *)
Delete(t) ==
    LET orm      == Below({t}, OrmDeletes) \cap rows
        unlinked == {e \in OrmUnlinks : e[1] \in orm /\ e[2] \in rows \ orm}
        gone     == Below(orm, Cascades)
    IN  /\ rev = Latest /\ t \in rows
        /\ \A e \in unlinked : \A k \in KeysOf(e[2], "CASCADE") : k.to # e[1]
        /\ rows' = rows \ gone
        /\ links' = {l \in links : gone \cap {l[1], TargetOf(l)} = {}}
        /\ UNCHANGED <<rev, tables, columns, broken>>

Next ==
    \/ \E to \in 0..Latest : Migrate(to)
    \/ \E t \in Tables : Insert(t)
    \/ \E t \in {"users", "job_sources", "job_postings", "jobs"} : Delete(t)

Spec == Init /\ [][Next]_vars

-----------------------------------------------------------------------------
(* The migrations run in both directions whatever rows there are - CI runs *)
(* them on an empty database (.github/workflows/backend.yml:50-53) - and   *)
(* lead to the tables and columns of the models, and back to none.         *)
MigrationsRun ==
    /\ ~broken
    /\ rev = Latest => tables = Tables /\ columns = Columns \ {<<"users", "password_hash">>}
    /\ rev = 0 => tables = {} /\ columns = {}

(* Deleting a source, a posting or a job takes no other data of the user:  *)
(* resumes, their versions, preferences and usage stay, and applications   *)
(* with their history too.  Deleting the user leaves nothing but the usage, *)
(* which is no longer theirs (the ondelete and cascade settings of the     *)
(* models).                                                                *)
DeleteStaysInBounds ==
    rev' = rev =>
        IF "users" \in rows \ rows'
        THEN rows' \subseteq {"llm_usage"} /\ links' = {}
        ELSE rows \ rows' \subseteq {"job_sources", "job_postings", "jobs", "analysis_results"}
=============================================================================
