------------------------------ MODULE DbServer -------------------------------
(***************************************************************************)
(* Servers on one database, from start to crash: each migrates the schema  *)
(* (Migration), then serves the signal mailboxes (DbSignals), until it     *)
(* stops; its calls end with it and the tables stay.                       *)
(***************************************************************************)
EXTENDS Migration, DbSignals

CONSTANT On    \* the server each request goroutine belongs to

ASSUME OnAssumption == On \in [Calls -> Servers]

dvars == <<mvars, sgvars>>

DbServerInit == MigrationInit /\ SignalsInit

Starting(s) == StartStep(s) /\ UNCHANGED sgvars

CutShort(s) ==
    /\ \E k \in 0 .. Len(migrations) : QueryCutShort(s, k)
    /\ UNCHANGED sgvars

Crash(s) == Fail(s) /\ Break({c \in Calls : On[c] = s})

Serving(c) == pc[On[c]] = "serving" /\ CallStep(c) /\ UNCHANGED mvars

\* A peer registers at a server that serves; it goes by itself.
PeerStep(p) ==
    /\ \/ PeerKnown(p) /\ \E s \in Servers : pc[s] = "serving"
       \/ PeerGone(p)
    /\ UNCHANGED mvars

DbServerNext ==
    \/ \E s \in Servers : Starting(s) \/ CutShort(s) \/ Crash(s)
    \/ \E c \in Calls : Serving(c)
    \/ \E p \in PeerIDs : PeerStep(p)

DbServerSpec == DbServerInit /\ [][DbServerNext]_dvars

\* A process runs on until it ends, and the container is restarted.
FairDbServerSpec == DbServerSpec /\ \A s \in Servers : WF_dvars(Starting(s))

-----------------------------------------------------------------------------
\* A start on PostgreSQL gets through, however often it was interrupted, and
\* though other servers start on the same database: what it finds executed
\* and not recorded it executes again, and a record that is refused makes it
\* read the records once more.  (Two cases are out: peers registered before
\* file 009 knew their login, and SQLite, where a file that was executed and
\* not recorded can never be executed again.)
StartSucceeds ==
    \A s \in Servers :
        (driver = "pgx" /\ (filled => "login" \in schema) /\ pc[s] # "serving")
            ~> pc[s] = "serving"

\* README, on starting the server: every setting has a default, that of the
\* address :8080.  Without any, main takes the driver "sqlite"; such a server
\* comes to serve.
DefaultStartSucceeds ==
    \A s \in Servers :
        (driver = "sqlite" /\ pc[s] = "down") ~> pc[s] = "serving"
=============================================================================
