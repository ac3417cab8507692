------------------------------ MODULE Migration ------------------------------
(***************************************************************************)
(* Start of a server on a database: NewDB of internal/store/db.go and      *)
(* runMigrations of internal/store/migration.go, with the SQL files under  *)
(* internal/store/migrations.                                              *)
(*                                                                         *)
(* Every db.Exec and db.Query is a step of its own, no transaction holds   *)
(* them together, and a start may end between any two: main stops the      *)
(* process on the first error, and docker-compose.yml restarts it          *)
(* ("restart: unless-stopped").  Several servers may start on one          *)
(* database; nothing in runMigrations keeps them apart.                    *)
(*                                                                         *)
(* A table of 001, or a column a later file adds, is one element of the    *)
(* schema; descriptions and checksums, which nothing reads, are left out.  *)
(***************************************************************************)
EXTENDS Integers, Sequences

CONSTANTS
    Servers,      \* server processes
    Drivers,      \* the database drivers: "sqlite", "pgx"
    MaxFailures   \* bound: crashes and failed statements

ASSUME MigrationAssumption ==
    /\ Drivers \subseteq {"sqlite", "pgx"}
    /\ MaxFailures \in Nat

\* The files, sorted by name; the same names for both drivers.
migrations == <<"001", "003", "004", "006", "007", "008", "009">>

IDs == {migrations[i] : i \in DOMAIN migrations}

\* The statements of a file, in order, by what each of them adds.
Statements ==
    [id \in IDs |->
        CASE id = "001" -> <<"peers", "chunks", "signals">>
          [] id = "003" -> <<"persist">>
          [] id = "004" -> <<"confirmed">>
          [] id = "006" -> <<"readed">>
          [] id = "007" -> <<"created_at", "ttl">>
          [] id = "008" -> <<"updated_at">>
          [] id = "009" -> <<"login">>]

Tables == {"peers", "chunks", "signals"}

Adds(id) == {Statements[id][k] : k \in DOMAIN Statements[id]}

Schema == UNION {Adds(id) : id \in IDs}

VARIABLES
    driver,     \* which database it is
    schema,     \* what its tables and columns are
    recorded,   \* the ids in schema_version
    filled,     \* whether that database had peers before 009
    pc,         \* what each server is doing
    applied,    \* per server: the map applied
    next,       \* per server: the loop's index in migrations
    stmt,       \* per server: the statement of the file it is at
    failures    \* number of failures so far

mvars == <<driver, schema, recorded, filled, pc, applied, next, stmt, failures>>

database == <<driver, schema, recorded, filled>>

\* A database an earlier release left, with the files it knew and perhaps the
\* peers it registered: no file for a new database, and 009 not on SQLite,
\* where it cannot be executed.
MigrationInit ==
    /\ driver \in Drivers
    /\ \E k \in 0 .. (IF driver = "sqlite" THEN 6 ELSE 7) :
           /\ recorded = {migrations[i] : i \in 1 .. k}
           /\ schema = UNION {Adds(migrations[i]) : i \in 1 .. k}
           /\ filled \in IF k \in 1 .. 6 THEN BOOLEAN ELSE {FALSE}
    /\ pc = [s \in Servers |-> "down"]
    /\ applied = [s \in Servers |-> {}]
    /\ next = [s \in Servers |-> 1]
    /\ stmt = [s \in Servers |-> 1]
    /\ failures = 0

Current(s) == migrations[next[s]]

Goto(s, label) == pc' = [pc EXCEPT ![s] = label]

\* runMigrations returns: its locals are gone.
Return(s, label) ==
    /\ Goto(s, label)
    /\ applied' = [applied EXCEPT ![s] = {}]
    /\ next' = [next EXCEPT ![s] = 1]
    /\ stmt' = [stmt EXCEPT ![s] = 1]

-----------------------------------------------------------------------------
\* sql.Open and Ping.
Start(s) ==
    /\ pc[s] = "down"
    /\ Goto(s, "query")
    /\ UNCHANGED <<database, applied, next, stmt, failures>>

\* SELECT id FROM schema_version, after CREATE TABLE if there is none yet.
QueryApplied(s) ==
    /\ pc[s] = "query"
    /\ applied' = [applied EXCEPT ![s] = recorded]
    /\ Goto(s, "migrate")
    /\ UNCHANGED <<database, next, stmt, failures>>

\* The second SELECT fails, or the scan ends early: the error is not looked
\* at and the loop runs with the k rows that were read.  Both databases scan
\* schema_version in the order the rows were inserted, that of the ids.
QueryCutShort(s, k) ==
    /\ pc[s] = "query"
    /\ failures < MaxFailures
    /\ failures' = failures + 1
    /\ applied' = [applied EXCEPT ![s] = recorded \cap {migrations[i] : i \in 1 .. k}]
    /\ Goto(s, "migrate")
    /\ UNCHANGED <<database, next, stmt>>

Migrating(s) == pc[s] = "migrate" /\ next[s] <= Len(migrations)

Skip(s) ==
    /\ Migrating(s)
    /\ Current(s) \in applied[s]
    /\ next' = [next EXCEPT ![s] = @ + 1]
    /\ UNCHANGED <<database, pc, applied, stmt, failures>>

\* Mutant: the ALTER TABLE of the PostgreSQL files has no IF NOT EXISTS.
Accepts_Once(column) ==
    \/ column \in Tables
    \/ /\ column \notin schema
       /\ column = "login" => driver = "pgx" /\ ~filled

\* Whether the database takes the statement.  The tables are created IF NOT
\* EXISTS; so are the columns on PostgreSQL, where a NOT NULL column without a
\* default cannot be added to a table with rows; SQLite adds a column only
\* once, and does not parse the IF NOT EXISTS of file 009.  external.
Accepts(column) ==
    \/ column \in Tables
    \/ /\ driver = "pgx"
       /\ column = "login" => column \in schema \/ ~filled
    \/ /\ driver = "sqlite"
       /\ column \notin schema
       /\ column # "login"

Pending(s) == Migrating(s) /\ Current(s) \notin applied[s]

\* What the next step of db.Exec commits: PostgreSQL runs the file as one
\* transaction, SQLite one statement at a time.
Committed(s) ==
    IF driver = "pgx" THEN Adds(Current(s)) ELSE {Statements[Current(s)][stmt[s]]}

\* Mutant: the driver executes the first statement of a file only.
Exec_FirstOnly(s) ==
    /\ Pending(s)
    /\ \A column \in Committed(s) : Accepts(column)
    /\ schema' = schema \cup {Statements[Current(s)][1]}
    /\ Goto(s, "record")
    /\ UNCHANGED <<driver, recorded, filled, applied, next, stmt, failures>>

Exec(s) ==
    /\ Pending(s)
    /\ \A column \in Committed(s) : Accepts(column)
    /\ schema' = schema \cup Committed(s)
    /\ IF driver = "pgx" \/ stmt[s] = Len(Statements[Current(s)])
       THEN Goto(s, "record") /\ stmt' = [stmt EXCEPT ![s] = 1]
       ELSE UNCHANGED pc /\ stmt' = [stmt EXCEPT ![s] = @ + 1]
    /\ UNCHANGED <<driver, recorded, filled, applied, next, failures>>

\* Mutant: a file that fails is passed over.
ExecRefused_Continues(s) ==
    /\ Pending(s)
    /\ \E column \in Committed(s) : ~Accepts(column)
    /\ next' = [next EXCEPT ![s] = @ + 1]
    /\ stmt' = [stmt EXCEPT ![s] = 1]
    /\ UNCHANGED <<database, pc, applied, failures>>

\* An error: the start fails and the process ends.
ExecRefused(s) ==
    /\ Pending(s)
    /\ \E column \in Committed(s) : ~Accepts(column)
    /\ Return(s, "down")
    /\ UNCHANGED <<database, failures>>

\* INSERT INTO schema_version.
Record(s) ==
    /\ pc[s] = "record"
    /\ Current(s) \notin recorded
    /\ recorded' = recorded \cup {Current(s)}
    /\ next' = [next EXCEPT ![s] = @ + 1]
    /\ Goto(s, "migrate")
    /\ UNCHANGED <<driver, schema, filled, applied, stmt, failures>>

\* The primary key refuses a row another server, or an earlier start whose
\* rows were not all read, has inserted.
RecordRefused(s) ==
    /\ pc[s] = "record"
    /\ Current(s) \in recorded
    /\ Return(s, "down")
    /\ UNCHANGED <<database, failures>>

\* NewDB returns and main starts the server.
Serve(s) ==
    /\ pc[s] = "migrate"
    /\ next[s] > Len(migrations)
    /\ Return(s, "serving")
    /\ UNCHANGED <<database, failures>>

\* The process is stopped, or a statement fails for a reason of its own.
Fail(s) ==
    /\ pc[s] # "down"
    /\ failures < MaxFailures
    /\ failures' = failures + 1
    /\ Return(s, "down")
    /\ UNCHANGED database

-----------------------------------------------------------------------------
\* What a server does by itself.
StartStep(s) ==
    \/ Start(s)
    \/ QueryApplied(s)
    \/ Skip(s)
    \/ Exec(s)
    \/ ExecRefused(s)
    \/ Record(s)
    \/ RecordRefused(s)
    \/ Serve(s)

MigrationNext ==
    \/ \E s \in Servers : StartStep(s) \/ Fail(s)
    \/ \E s \in Servers, k \in 0 .. Len(migrations) : QueryCutShort(s, k)

MigrationSpec == MigrationInit /\ [][MigrationNext]_mvars

-----------------------------------------------------------------------------
\* Every variable has its type.
MigrationTypeOK ==
    /\ driver \in Drivers
    /\ schema \subseteq Schema
    /\ recorded \subseteq IDs
    /\ filled \in BOOLEAN
    /\ pc \in [Servers -> {"down", "query", "migrate", "record", "serving"}]
    /\ applied \in [Servers -> SUBSET IDs]
    /\ next \in [Servers -> 1 .. Len(migrations) + 1]
    /\ stmt \in [Servers -> Nat \ {0}]
    /\ failures \in 0 .. MaxFailures

\* schema_version never claims what the schema does not have: a crash, a
\* failed statement or another server's start between a file and its record
\* leaves a file that is executed and not recorded, never the reverse.  The
\* statements of a file that is recorded are all there.
RecordedApplied == \A id \in recorded : Adds(id) \subseteq schema

\* A server that serves finds every table and column its statements name,
\* although it trusted the ids it read before the first file ran and another
\* server may have been migrating since.
ServingComplete == \A s \in Servers : pc[s] = "serving" => schema = Schema
=============================================================================
