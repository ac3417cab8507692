---------------------------- MODULE DbServerProofs ---------------------------
(***************************************************************************)
(* Proofs about the start of a server on a database, for any number of     *)
(* servers and failures and whatever the servers that run do meanwhile.    *)
(***************************************************************************)
EXTENDS DbServer, TLAPS

-----------------------------------------------------------------------------
(***************************************************************************)
(* The files.                                                              *)
(***************************************************************************)
\* Every file is one of migrations and has at least one statement.
LEMMA Files ==
    /\ Len(migrations) = 7
    /\ DOMAIN migrations = 1 .. Len(migrations)
    /\ \A i \in 1 .. Len(migrations) : migrations[i] \in IDs
    /\ \A id \in IDs : \E i \in 1 .. Len(migrations) : id = migrations[i]
BY DEF migrations, IDs

LEMMA FileStatements ==
    ASSUME NEW id \in IDs
    PROVE  /\ Len(Statements[id]) \in Nat \ {0}
           /\ DOMAIN Statements[id] = 1 .. Len(Statements[id])
<1>1. id \in {"001", "003", "004", "006", "007", "008", "009"}
  BY DEF IDs, migrations
<1>2. CASE id = "001"
  <2>1. Statements[id] = <<"peers", "chunks", "signals">>
    BY <1>2 DEF Statements
  <2> QED
    BY <2>1
<1>3. CASE id = "003"
  <2>1. Statements[id] = <<"persist">>
    BY <1>3 DEF Statements
  <2> QED
    BY <2>1
<1>4. CASE id = "004"
  <2>1. Statements[id] = <<"confirmed">>
    BY <1>4 DEF Statements
  <2> QED
    BY <2>1
<1>5. CASE id = "006"
  <2>1. Statements[id] = <<"readed">>
    BY <1>5 DEF Statements
  <2> QED
    BY <2>1
<1>6. CASE id = "007"
  <2>1. Statements[id] = <<"created_at", "ttl">>
    BY <1>6 DEF Statements
  <2> QED
    BY <2>1
<1>7. CASE id = "008"
  <2>1. Statements[id] = <<"updated_at">>
    BY <1>7 DEF Statements
  <2> QED
    BY <2>1
<1>8. CASE id = "009"
  <2>1. Statements[id] = <<"login">>
    BY <1>8 DEF Statements
  <2> QED
    BY <2>1
<1> QED
  BY <1>1, <1>2, <1>3, <1>4, <1>5, <1>6, <1>7, <1>8

LEMMA FileAdds ==
    ASSUME NEW id \in IDs
    PROVE  /\ Adds(id) \subseteq Schema
           /\ \A k \in 1 .. Len(Statements[id]) : Statements[id][k] \in Adds(id)
           /\ \A column \in Adds(id) :
                  \E k \in 1 .. Len(Statements[id]) : column = Statements[id][k]
BY FileStatements DEF Adds, Schema

-----------------------------------------------------------------------------
(***************************************************************************)
(* The invariant.                                                          *)
(***************************************************************************)
\* Where a server is in the files: what it takes for applied is recorded, so
\* is every file it has passed, and what it has executed of the file it is at
\* is in the schema.
Progress(s) ==
    /\ applied[s] \subseteq recorded
    /\ \A i \in 1 .. next[s] - 1 : migrations[i] \in recorded
    /\ pc[s] = "record" =>
           /\ next[s] <= Len(migrations)
           /\ stmt[s] = 1
           /\ Adds(Current(s)) \subseteq schema
    /\ stmt[s] # 1 =>
           /\ Pending(s)
           /\ stmt[s] <= Len(Statements[Current(s)])
           /\ \A k \in 1 .. stmt[s] - 1 : Statements[Current(s)][k] \in schema

MigrationInv ==
    /\ MigrationTypeOK
    /\ RecordedApplied
    /\ ServingComplete
    /\ \A s \in Servers : Progress(s)

\* The locals of server t.
Same(t) ==
    /\ pc'[t] = pc[t]
    /\ applied'[t] = applied[t]
    /\ next'[t] = next[t]
    /\ stmt'[t] = stmt[t]

\* A server keeps its place while another one works: the tables only grow.
LEMMA ProgressKept ==
    ASSUME MigrationInv, NEW t \in Servers, Same(t),
           schema \subseteq schema', recorded \subseteq recorded'
    PROVE  Progress(t)'
<1>1. Progress(t)
  BY DEF MigrationInv
<1>2. Current(t)' = Current(t)
  BY DEF Current, Same
<1>3. Pending(t) => Pending(t)'
  BY <1>2 DEF Pending, Migrating, Same
<1> QED
  BY <1>1, <1>2, <1>3 DEF Progress, Same

\* A server that has returned from runMigrations, or has not begun it.
LEMMA ProgressAtStart ==
    ASSUME NEW s \in Servers, pc'[s] # "record", stmt'[s] = 1, next'[s] = 1,
           applied'[s] = {}
    PROVE  Progress(s)'
BY DEF Progress

\* A file a server is at is one of the files.
LEMMA CurrentFile ==
    ASSUME MigrationInv, NEW s \in Servers, next[s] <= Len(migrations)
    PROVE  Current(s) \in IDs
<1>1. next[s] \in 1 .. Len(migrations)
  BY Files DEF MigrationInv, MigrationTypeOK
<1> QED
  BY <1>1, Files DEF Current

-----------------------------------------------------------------------------
(***************************************************************************)
(* The steps.                                                              *)
(***************************************************************************)
LEMMA MigrationInitInv == MigrationInit => MigrationInv
<1> SUFFICES ASSUME MigrationInit PROVE MigrationInv
  OBVIOUS
<1>1. PICK k \in 0 .. (IF driver = "sqlite" THEN 6 ELSE 7) :
          /\ recorded = {migrations[i] : i \in 1 .. k}
          /\ schema = UNION {Adds(migrations[i]) : i \in 1 .. k}
          /\ filled \in IF k \in 1 .. 6 THEN BOOLEAN ELSE {FALSE}
  BY DEF MigrationInit
<1>f. filled \in BOOLEAN
  <2>1. CASE k \in 1 .. 6
    BY <1>1, <2>1
  <2>2. CASE k \notin 1 .. 6
    BY <1>1, <2>2
  <2> QED
    BY <2>1, <2>2
<1>k. k \in 0 .. 7
  OBVIOUS
<1>2. \A i \in 1 .. k : migrations[i] \in IDs
  BY <1>k, Files
<1>3. recorded \subseteq IDs /\ schema \subseteq Schema
  BY <1>1, <1>2, FileAdds
<1>4. MigrationTypeOK
  BY <1>f, <1>3, Files, MigrationAssumption DEF MigrationInit, MigrationTypeOK
<1>5. RecordedApplied
  BY <1>1 DEF RecordedApplied
<1>6. ServingComplete /\ \A s \in Servers : Progress(s)
  BY DEF MigrationInit, ServingComplete, Progress
<1> QED
  BY <1>4, <1>5, <1>6 DEF MigrationInv

\* A step that leaves the tables alone and moves one server to the beginning
\* keeps the invariant.
LEMMA ReturnKeeps ==
    ASSUME MigrationInv, NEW s \in Servers, NEW label \in {"down", "serving"},
           Return(s, label), UNCHANGED database,
           failures' \in 0 .. MaxFailures,
           label = "serving" => schema = Schema
    PROVE  MigrationInv'
<1>t. MigrationTypeOK
  BY DEF MigrationInv
<1>1. MigrationTypeOK'
  BY <1>t, Files DEF MigrationTypeOK, Return, Goto, database
<1>2. RecordedApplied'
  BY DEF MigrationInv, RecordedApplied, database
<1>3. ServingComplete'
  BY <1>t DEF MigrationInv, ServingComplete, MigrationTypeOK, Return, Goto, database
<1>4. ASSUME NEW t \in Servers PROVE Progress(t)'
  <2>1. CASE t = s
    BY <1>t, <2>1, ProgressAtStart DEF Return, Goto, MigrationTypeOK
  <2>2. CASE t # s
    <3>1. Same(t)
      BY <1>t, <2>2 DEF Same, Return, Goto, MigrationTypeOK
    <3> QED
      BY <3>1, ProgressKept DEF database
  <2> QED
    BY <2>1, <2>2
<1> QED
  BY <1>1, <1>2, <1>3, <1>4 DEF MigrationInv

LEMMA StartKeeps ==
    ASSUME MigrationInv, NEW s \in Servers, Start(s)
    PROVE  MigrationInv'
<1>t. MigrationTypeOK /\ Progress(s)
  BY DEF MigrationInv
<1>1. MigrationTypeOK'
  BY <1>t DEF MigrationTypeOK, Start, Goto, database
<1>2. RecordedApplied' /\ ServingComplete'
  BY <1>t DEF MigrationInv, RecordedApplied, ServingComplete, MigrationTypeOK,
              Start, Goto, database
<1>3. ASSUME NEW t \in Servers PROVE Progress(t)'
  <2>1. CASE t = s
    BY <1>t, <2>1 DEF Progress, Start, Goto, MigrationTypeOK, database, Pending, Migrating
  <2>2. CASE t # s
    <3>1. Same(t)
      BY <1>t, <2>2 DEF Same, Start, Goto, MigrationTypeOK
    <3> QED
      BY <3>1, ProgressKept DEF Start, database
  <2> QED
    BY <2>1, <2>2
<1> QED
  BY <1>1, <1>2, <1>3 DEF MigrationInv

\* Both ways of reading schema_version give ids that are in it.
LEMMA QueryKeeps ==
    ASSUME MigrationInv, NEW s \in Servers, NEW ids \in SUBSET recorded,
           pc[s] = "query", Goto(s, "migrate"),
           applied' = [applied EXCEPT ![s] = ids],
           failures' \in 0 .. MaxFailures,
           UNCHANGED <<database, next, stmt>>
    PROVE  MigrationInv'
<1>t. MigrationTypeOK /\ Progress(s)
  BY DEF MigrationInv
<1>1. MigrationTypeOK'
  BY <1>t DEF MigrationTypeOK, Goto, database
<1>2. RecordedApplied' /\ ServingComplete'
  BY <1>t DEF MigrationInv, RecordedApplied, ServingComplete, MigrationTypeOK,
              Goto, database
<1>3. ASSUME NEW t \in Servers PROVE Progress(t)'
  <2>1. CASE t = s
    BY <1>t, <2>1 DEF Progress, Goto, MigrationTypeOK, database, Pending, Migrating
  <2>2. CASE t # s
    <3>1. Same(t)
      BY <1>t, <2>2 DEF Same, Goto, MigrationTypeOK
    <3> QED
      BY <3>1, ProgressKept DEF database
  <2> QED
    BY <2>1, <2>2
<1> QED
  BY <1>1, <1>2, <1>3 DEF MigrationInv

LEMMA SkipKeeps ==
    ASSUME MigrationInv, NEW s \in Servers, Skip(s)
    PROVE  MigrationInv'
<1>t. MigrationTypeOK /\ Progress(s)
  BY DEF MigrationInv
<1>n. next[s] \in 1 .. Len(migrations)
  BY <1>t, Files DEF MigrationTypeOK, Skip, Migrating
<1>1. MigrationTypeOK'
  BY <1>t, <1>n, Files DEF MigrationTypeOK, Skip, database
<1>2. RecordedApplied' /\ ServingComplete'
  BY DEF MigrationInv, RecordedApplied, ServingComplete, Skip, database
<1>3. ASSUME NEW t \in Servers PROVE Progress(t)'
  <2>1. CASE t = s
    <3>1. next'[s] = next[s] + 1
      BY <1>t DEF Skip, MigrationTypeOK
    <3>2. stmt[s] = 1
      BY <1>t DEF Progress, Skip, Pending
    <3>3. migrations[next[s]] \in recorded
      BY <1>t DEF Progress, Skip, Current
    <3>4. \A i \in 1 .. next'[s] - 1 : migrations[i] \in recorded
      <4> SUFFICES ASSUME NEW i \in 1 .. next'[s] - 1 PROVE migrations[i] \in recorded
        OBVIOUS
      <4>1. i \in 1 .. next[s] - 1 \/ i = next[s]
        BY <1>n, <3>1, Files
      <4> QED
        BY <1>t, <3>3, <4>1 DEF Progress
    <3> QED
      BY <1>t, <2>1, <3>2, <3>4 DEF Progress, Skip, Migrating, database
  <2>2. CASE t # s
    <3>1. Same(t)
      BY <1>t, <2>2 DEF Same, Skip, MigrationTypeOK
    <3> QED
      BY <3>1, ProgressKept DEF Skip, database
  <2> QED
    BY <2>1, <2>2
<1> QED
  BY <1>1, <1>2, <1>3 DEF MigrationInv

\* What Exec adds is in the files, and is the statement the server is at.
LEMMA ExecAdds ==
    ASSUME MigrationInv, NEW s \in Servers, Pending(s)
    PROVE  /\ Current(s) \in IDs
           /\ stmt[s] \in 1 .. Len(Statements[Current(s)])
           /\ Committed(s) \subseteq Schema
           /\ Statements[Current(s)][stmt[s]] \in Committed(s)
           /\ driver = "pgx" => Committed(s) = Adds(Current(s))
           /\ \A k \in 1 .. stmt[s] - 1 : Statements[Current(s)][k] \in schema
<1>t. MigrationTypeOK /\ Progress(s)
  BY DEF MigrationInv
<1>1. Current(s) \in IDs
  BY CurrentFile DEF Pending, Migrating
<1>2. stmt[s] \in Nat \ {0} /\ Len(Statements[Current(s)]) \in Nat \ {0}
  BY <1>t, <1>1, FileStatements DEF MigrationTypeOK
<1>3. stmt[s] \in 1 .. Len(Statements[Current(s)])
  BY <1>t, <1>2 DEF Progress
<1>4. Statements[Current(s)][stmt[s]] \in Adds(Current(s)) /\ Adds(Current(s)) \subseteq Schema
  BY <1>1, <1>3, FileAdds
<1>5. \A k \in 1 .. stmt[s] - 1 : Statements[Current(s)][k] \in schema
  BY <1>t, <1>2 DEF Progress
<1> QED
  BY <1>1, <1>3, <1>4, <1>5 DEF Committed

LEMMA ExecKeeps ==
    ASSUME MigrationInv, NEW s \in Servers, Exec(s)
    PROVE  MigrationInv'
<1> DEFINE file == Statements[Current(s)]
           last == driver = "pgx" \/ stmt[s] = Len(file)
<1>t. MigrationTypeOK /\ Progress(s)
  BY DEF MigrationInv
<1>p. Pending(s) /\ pc[s] = "migrate" /\ next[s] <= Len(migrations)
  BY DEF Exec, Pending, Migrating
<1>c. /\ Current(s) \in IDs
      /\ stmt[s] \in 1 .. Len(file)
      /\ Committed(s) \subseteq Schema
      /\ file[stmt[s]] \in Committed(s)
      /\ driver = "pgx" => Committed(s) = Adds(Current(s))
      /\ \A k \in 1 .. stmt[s] - 1 : file[k] \in schema
  BY <1>p, ExecAdds
<1>l. Len(file) \in Nat \ {0}
  BY <1>c, FileStatements
<1>s. /\ schema' = schema \cup Committed(s)
      /\ UNCHANGED <<driver, recorded, filled, applied, next, failures>>
  BY DEF Exec
<1>e. \/ last /\ Goto(s, "record") /\ stmt' = [stmt EXCEPT ![s] = 1]
      \/ ~last /\ UNCHANGED pc /\ stmt' = [stmt EXCEPT ![s] = @ + 1]
  BY DEF Exec
<1> HIDE DEF last
<1>1. MigrationTypeOK'
  <2>1. schema' \subseteq Schema
    BY <1>t, <1>c, <1>s DEF MigrationTypeOK
  <2>2. pc' \in [Servers -> {"down", "query", "migrate", "record", "serving"}]
    BY <1>t, <1>e DEF MigrationTypeOK, Goto
  <2>3. stmt[s] + 1 \in Nat \ {0} /\ 1 \in Nat \ {0}
    BY <1>t DEF MigrationTypeOK
  <2>4. stmt' \in [Servers -> Nat \ {0}]
    BY <1>t, <1>e, <2>3 DEF MigrationTypeOK
  <2> QED
    BY <1>t, <1>s, <2>1, <2>2, <2>4 DEF MigrationTypeOK
<1>2. RecordedApplied'
  BY <1>s DEF MigrationInv, RecordedApplied
<1>3. ServingComplete'
  <2> SUFFICES ASSUME NEW t \in Servers, pc'[t] = "serving" PROVE schema' = Schema
    BY DEF ServingComplete
  <2>1. pc[t] = "serving"
    BY <1>t, <1>e DEF Goto, MigrationTypeOK
  <2> QED
    BY <1>s, <1>c, <2>1 DEF MigrationInv, ServingComplete
<1>4. ASSUME NEW t \in Servers PROVE Progress(t)'
  <2>1. CASE t = s /\ last
    <3>1. pc'[s] = "record" /\ stmt'[s] = 1
      BY <1>t, <1>e, <2>1 DEF Goto, MigrationTypeOK
    <3>2. Adds(Current(s)) \subseteq schema'
      <4>1. CASE driver = "pgx"
        BY <1>c, <1>s, <4>1
      <4>2. CASE driver # "pgx"
        <5>1. stmt[s] = Len(file)
          BY <2>1, <4>2 DEF last
        <5>2. \A k \in 1 .. Len(file) : file[k] \in schema'
          <6> TAKE k \in 1 .. Len(file)
          <6>1. k \in 1 .. stmt[s] - 1 \/ k = stmt[s]
            BY <1>l, <5>1
          <6> QED
            BY <1>c, <1>s, <6>1
        <5> QED
          BY <1>c, <5>2, FileAdds
      <4> QED
        BY <4>1, <4>2
    <3>3. Current(s)' = Current(s)
      BY <1>s DEF Current
    <3>4. Adds(Current(s))' = Adds(Current(s))
      BY <3>3 DEF Adds
    <3> QED
      BY <1>t, <1>p, <1>s, <2>1, <3>1, <3>2, <3>4 DEF Progress
  <2>2. CASE t = s /\ ~last
    <3>1. pc'[s] = "migrate" /\ stmt'[s] = stmt[s] + 1
      BY <1>t, <1>p, <1>e, <2>2 DEF MigrationTypeOK
    <3>2. stmt[s] + 1 <= Len(file)
      BY <1>c, <1>l, <2>2 DEF last
    <3>3. \A k \in 1 .. (stmt[s] + 1) - 1 : file[k] \in schema'
      <4> TAKE k \in 1 .. (stmt[s] + 1) - 1
      <4>1. k \in 1 .. stmt[s] - 1 \/ k = stmt[s]
        BY <1>c, <1>l
      <4> QED
        BY <1>c, <1>s, <4>1
    <3>4. Current(s)' = Current(s) /\ Pending(s)'
      BY <1>p, <1>s, <3>1 DEF Current, Pending, Migrating
    <3>5. Statements' = Statements
      BY DEF Statements, IDs, migrations
    <3> QED
      BY <1>t, <1>s, <2>2, <3>1, <3>2, <3>3, <3>4, <3>5 DEF Progress
  <2>3. CASE t # s
    <3>1. Same(t)
      BY <1>t, <1>s, <1>e, <2>3 DEF Same, Goto, MigrationTypeOK
    <3> QED
      BY <1>s, <3>1, ProgressKept
  <2> QED
    BY <2>1, <2>2, <2>3
<1> QED
  BY <1>1, <1>2, <1>3, <1>4 DEF MigrationInv

LEMMA RecordKeeps ==
    ASSUME MigrationInv, NEW s \in Servers, Record(s)
    PROVE  MigrationInv'
<1>t. MigrationTypeOK /\ Progress(s)
  BY DEF MigrationInv
<1>r. /\ pc[s] = "record" /\ next[s] <= Len(migrations) /\ stmt[s] = 1
      /\ Adds(Current(s)) \subseteq schema
  BY <1>t DEF Record, Progress
<1>c. Current(s) \in IDs
  BY <1>r, CurrentFile
<1>n. next[s] \in 1 .. Len(migrations) /\ next'[s] = next[s] + 1
  BY <1>t, <1>r, Files DEF MigrationTypeOK, Record
<1>1. MigrationTypeOK'
  <2>1. recorded' \subseteq IDs
    BY <1>t, <1>c DEF MigrationTypeOK, Record
  <2>2. next' \in [Servers -> 1 .. Len(migrations) + 1]
    BY <1>t, <1>n, Files DEF MigrationTypeOK, Record
  <2> QED
    BY <1>t, <2>1, <2>2 DEF MigrationTypeOK, Record, Goto
<1>2. RecordedApplied'
  BY <1>r DEF MigrationInv, RecordedApplied, Record
<1>3. ServingComplete'
  BY <1>t DEF MigrationInv, ServingComplete, MigrationTypeOK, Record, Goto
<1>4. ASSUME NEW t \in Servers PROVE Progress(t)'
  <2>1. CASE t = s
    <3>1. pc'[s] = "migrate" /\ stmt'[s] = 1 /\ applied'[s] = applied[s]
      BY <1>t, <1>r DEF Record, Goto, MigrationTypeOK
    <3>2. \A i \in 1 .. next'[s] - 1 : migrations[i] \in recorded'
      <4> TAKE i \in 1 .. next'[s] - 1
      <4>1. i \in 1 .. next[s] - 1 \/ i = next[s]
        BY <1>n, Files
      <4> QED
        BY <1>t, <4>1 DEF Progress, Record, Current
    <3> QED
      BY <1>t, <2>1, <3>1, <3>2 DEF Progress, Record
  <2>2. CASE t # s
    <3>1. Same(t)
      BY <1>t, <2>2 DEF Same, Record, Goto, MigrationTypeOK
    <3> QED
      BY <3>1, ProgressKept DEF Record
  <2> QED
    BY <2>1, <2>2
<1> QED
  BY <1>1, <1>2, <1>3, <1>4 DEF MigrationInv

LEMMA ServeKeeps ==
    ASSUME MigrationInv, NEW s \in Servers, Serve(s)
    PROVE  MigrationInv'
<1>t. MigrationTypeOK /\ Progress(s) /\ RecordedApplied
  BY DEF MigrationInv
<1>1. next[s] = Len(migrations) + 1
  BY <1>t, Files DEF Serve, MigrationTypeOK
<1>2. IDs \subseteq recorded
  BY <1>t, <1>1, Files DEF Progress
<1>3. Schema \subseteq schema
  BY <1>t, <1>2 DEF RecordedApplied, Schema
<1>4. schema = Schema
  BY <1>t, <1>3 DEF MigrationTypeOK
<1> QED
  BY <1>t, <1>4, ReturnKeeps DEF Serve, MigrationTypeOK

LEMMA MigrationNextInv == MigrationInv /\ [MigrationNext]_mvars => MigrationInv'
<1> SUFFICES ASSUME MigrationInv, [MigrationNext]_mvars PROVE MigrationInv'
  OBVIOUS
<1>t. MigrationTypeOK
  BY DEF MigrationInv
<1>1. CASE UNCHANGED mvars
  <2>1. /\ MigrationTypeOK' /\ RecordedApplied' /\ ServingComplete'
    BY <1>1 DEF MigrationInv, MigrationTypeOK, RecordedApplied, ServingComplete, mvars
  <2>2. ASSUME NEW t \in Servers PROVE Progress(t)'
    BY <1>1, ProgressKept DEF Same, mvars
  <2> QED
    BY <2>1, <2>2 DEF MigrationInv
<1>2. ASSUME NEW s \in Servers, StartStep(s) PROVE MigrationInv'
  <2>1. CASE Start(s)
    BY <2>1, StartKeeps
  <2>2. CASE QueryApplied(s)
    BY <1>t, <2>2, QueryKeeps DEF QueryApplied, MigrationTypeOK
  <2>3. CASE Skip(s)
    BY <2>3, SkipKeeps
  <2>4. CASE Exec(s)
    BY <2>4, ExecKeeps
  <2>5. CASE ExecRefused(s)
    BY <1>t, <2>5, ReturnKeeps DEF ExecRefused, MigrationTypeOK
  <2>6. CASE Record(s)
    BY <2>6, RecordKeeps
  <2>7. CASE RecordRefused(s)
    BY <1>t, <2>7, ReturnKeeps DEF RecordRefused, MigrationTypeOK
  <2>8. CASE Serve(s)
    BY <2>8, ServeKeeps
  <2> QED
    BY <1>2, <2>1, <2>2, <2>3, <2>4, <2>5, <2>6, <2>7, <2>8 DEF StartStep
<1>3. ASSUME NEW s \in Servers, Fail(s) PROVE MigrationInv'
  <2>1. failures' \in 0 .. MaxFailures
    BY <1>t, <1>3, MigrationAssumption DEF Fail, MigrationTypeOK
  <2> QED
    BY <1>3, <2>1, ReturnKeeps DEF Fail
<1>4. ASSUME NEW s \in Servers, NEW k \in 0 .. Len(migrations), QueryCutShort(s, k)
      PROVE  MigrationInv'
  <2>1. failures' \in 0 .. MaxFailures
    BY <1>t, <1>4, MigrationAssumption DEF QueryCutShort, MigrationTypeOK
  <2> DEFINE ids == recorded \cap {migrations[i] : i \in 1 .. k}
  <2>2. ids \in SUBSET recorded
    OBVIOUS
  <2>3. /\ pc[s] = "query" /\ Goto(s, "migrate")
        /\ applied' = [applied EXCEPT ![s] = ids]
        /\ UNCHANGED <<database, next, stmt>>
    BY <1>4 DEF QueryCutShort
  <2> HIDE DEF ids
  <2> QED
    BY <2>1, <2>2, <2>3, QueryKeeps
<1> QED
  BY <1>1, <1>2, <1>3, <1>4 DEF MigrationNext

-----------------------------------------------------------------------------
(***************************************************************************)
(* The signals table.                                                      *)
(***************************************************************************)
SignalsTypeOK ==
    /\ rows \subseteq Signals
    /\ stored \subseteq Signals
    /\ sent \subseteq Signals
    /\ missed \subseteq Signals
    /\ again \subseteq Signals
    /\ dropped \subseteq Signals
    /\ calls \in [Calls -> Call \cup {None}]
    /\ received \in [Signals -> Nat]

Carries(c, x) == (At(c, "poll") \/ At(c, "answer")) /\ x \in calls[c].sigs

\* What calls carry was sent, by one SetSignal and to the peer that polls;
\* what was stored before is not inserted again.
CallsSound ==
    /\ rows \subseteq stored
    /\ stored \subseteq sent
    /\ \A c \in Calls :
           /\ At(c, "set") => calls[c].sig \in sent \ stored
           /\ \A d \in Calls :
                  At(c, "set") /\ At(d, "set") /\ calls[c].sig = calls[d].sig => c = d
           /\ \A x \in Signals : Carries(c, x) => x \in stored
           /\ \A x \in Signals : At(c, "poll") /\ x \in calls[c].sigs => To[x] = calls[c].peer
    /\ \A x \in Signals : received[x] > 0 => x \in stored

\* What a poll's DELETE will remove it has selected, or it is known as missed;
\* and a signal that has left the table is in an answer: a poll before its
\* DELETE does not count, for it may break off.
NothingUnaccounted ==
    /\ \A c \in Calls, x \in rows :
           At(c, "poll") /\ calls[c].peer = To[x] /\ x \notin calls[c].sigs
               => x \in missed
    /\ \A x \in stored \ rows :
           \/ received[x] > 0
           \/ \E c \in Calls : At(c, "answer") /\ x \in calls[c].sigs
           \/ x \in missed
           \/ x \in dropped

\* Unless it is known to come again, a signal is carried by one call, and has
\* left the table when an answer carries it or a client has it, which then is
\* the only one.
OnceEach ==
    \A x \in Signals \ again :
        /\ \A c, d \in Calls : Carries(c, x) /\ Carries(d, x) => c = d
        /\ \A c \in Calls : At(c, "answer") /\ x \in calls[c].sigs => x \notin rows
        /\ received[x] > 0 =>
               /\ received[x] = 1
               /\ x \notin rows
               /\ \A c \in Calls : ~Carries(c, x)

SignalsInv == SignalsTypeOK /\ CallsSound /\ NothingUnaccounted /\ OnceEach

\* What a call carries has its type.
LEMMA CallTypes ==
    ASSUME SignalsTypeOK, NEW c \in Calls
    PROVE  /\ At(c, "set") => calls[c].sig \in Signals
           /\ At(c, "poll") => calls[c].peer \in PeerIDs /\ calls[c].sigs \subseteq Signals
           /\ At(c, "answer") => calls[c].sigs \subseteq Signals
<1>1. calls[c] # None => calls[c] \in Call
  BY DEF SignalsTypeOK
<1> QED
  BY <1>1 DEF At, Call

\* A call that is about to begin, to go on or to end, and the others.
LEMMA CallSet ==
    ASSUME SignalsTypeOK, NEW c \in Calls, NEW call \in Call \cup {None}, Set(c, call)
    PROVE  /\ calls' \in [Calls -> Call \cup {None}]
           /\ calls'[c] = call
           /\ \A d \in Calls : d # c => calls'[d] = calls[d]
BY DEF SignalsTypeOK, Set

LEMMA CallKinds ==
    /\ \A x \in Signals :
           /\ [op |-> "set", sig |-> x] \in Call
           /\ [op |-> "set", sig |-> x] # None
    /\ \A p \in PeerIDs, xs \in SUBSET Signals :
           /\ [op |-> "poll", peer |-> p, sigs |-> xs] \in Call
           /\ [op |-> "poll", peer |-> p, sigs |-> xs] # None
    /\ \A xs \in SUBSET Signals :
           /\ [op |-> "answer", sigs |-> xs] \in Call
           /\ [op |-> "answer", sigs |-> xs] # None
BY DbSignalsAssumption DEF Call

LEMMA SetSignalKeeps ==
    ASSUME SignalsInv, NEW c \in Calls, NEW x \in Signals, SetSignal(c, x)
    PROVE  SignalsInv'
<1> DEFINE call == [op |-> "set", sig |-> x]
<1>t. SignalsTypeOK
  BY DEF SignalsInv
<1>1. CASE UNCHANGED calls
  <2>1. UNCHANGED <<known, rows, calls, received, stored, missed, again, dropped>>
    BY <1>1 DEF SetSignal
  <2>2. sent \subseteq sent' /\ sent' \subseteq Signals
    BY <1>t DEF SetSignal, SignalsTypeOK
  <2>3. SignalsTypeOK' /\ NothingUnaccounted' /\ OnceEach'
    BY <2>1, <2>2 DEF SignalsInv, SignalsTypeOK, NothingUnaccounted, OnceEach,
                      Carries, At
  <2>4. CallsSound'
    BY <2>1, <2>2 DEF SignalsInv, CallsSound, Carries, At
  <2> QED
    BY <2>3, <2>4 DEF SignalsInv
<1>2. CASE Set(c, call)
  <2>1. /\ call \in Call /\ call # None
        /\ call.op = "set" /\ call.sig = x
    BY CallKinds
  <2> HIDE DEF call
  <2>2. /\ calls' \in [Calls -> Call \cup {None}]
        /\ calls'[c] = call
        /\ \A d \in Calls : d # c => calls'[d] = calls[d]
    BY <1>t, <1>2, <2>1, CallSet
  <2>3. /\ calls[c] = None /\ x \notin sent /\ sent' = sent \cup {x}
        /\ UNCHANGED <<known, rows, received, stored, missed, again, dropped>>
    BY DEF SetSignal
  <2>4. \A d \in Calls, y \in Signals :
            /\ At(d, "poll")' <=> At(d, "poll")
            /\ At(d, "answer")' <=> At(d, "answer")
            /\ (At(d, "poll") \/ At(d, "answer")) => calls'[d] = calls[d]
            /\ Carries(d, y)' <=> Carries(d, y)
    BY <2>1, <2>2, <2>3 DEF At, Carries
  <2>5. SignalsTypeOK'
    BY <1>t, <2>2, <2>3 DEF SignalsTypeOK
  <2>6. CallsSound'
    <3>1. \A d \in Calls : At(d, "set")' => d = c \/ (At(d, "set") /\ calls'[d] = calls[d])
      BY <2>2 DEF At
    <3> QED
      BY <2>1, <2>2, <2>3, <2>4, <3>1 DEF SignalsInv, CallsSound
  <2>7. NothingUnaccounted'
    BY <2>3, <2>4, <1>t DEF SignalsInv, NothingUnaccounted, SignalsTypeOK
  <2>8. OnceEach'
    BY <2>3, <2>4 DEF SignalsInv, OnceEach
  <2> QED
    BY <2>5, <2>6, <2>7, <2>8 DEF SignalsInv
<1> QED
  BY <1>1, <1>2 DEF SetSignal

LEMMA InsertSignalKeeps ==
    ASSUME SignalsInv, NEW c \in Calls, InsertSignal(c)
    PROVE  SignalsInv'
<1> DEFINE x == calls[c].sig
<1>t. SignalsTypeOK
  BY DEF SignalsInv
<1>1. /\ At(c, "set")
      /\ rows' = rows \cup {x} /\ stored' = stored \cup {x}
      /\ missed' = IF Open(To[x]) # {} THEN missed \cup {x} ELSE missed
      /\ Set(c, None)
      /\ UNCHANGED <<known, sent, received, again, dropped>>
  BY DEF InsertSignal
<1>2. /\ calls' \in [Calls -> Call \cup {None}]
      /\ calls'[c] = None
      /\ \A d \in Calls : d # c => calls'[d] = calls[d]
  BY <1>t, <1>1, CallSet
<1>3. x \in Signals /\ x \in sent /\ x \notin stored
  BY <1>t, <1>1, CallTypes DEF SignalsInv, CallsSound
<1>4. \A d \in Calls, y \in Signals :
          /\ At(d, "poll")' <=> At(d, "poll")
          /\ At(d, "answer")' <=> At(d, "answer")
          /\ (At(d, "poll") \/ At(d, "answer")) => calls'[d] = calls[d]
          /\ Carries(d, y)' <=> Carries(d, y)
          /\ ~Carries(d, x)
  <2>1. \A d \in Calls : ~Carries(d, x)
    BY <1>3 DEF SignalsInv, CallsSound
  <2> HIDE DEF x
  <2> QED
    BY <1>1, <1>2, <2>1 DEF At, Carries
<1>5. \A d \in Calls : At(d, "set")' => At(d, "set") /\ calls'[d] = calls[d] /\ d # c
  BY <1>2 DEF At
<1>6. missed \subseteq missed' /\ missed' \subseteq Signals
  BY <1>t, <1>1, <1>3 DEF SignalsTypeOK
<1>7. \A d \in Calls : At(d, "poll") /\ calls[d].peer = To[x] => x \in missed'
  BY <1>1 DEF Open
<1>8. received[x] = 0
  BY <1>t, <1>3 DEF SignalsInv, CallsSound, SignalsTypeOK
<1>9. SignalsTypeOK'
  BY <1>t, <1>1, <1>2, <1>3, <1>6 DEF SignalsTypeOK
<1>10. \A d \in Calls : At(d, "set")' => calls'[d].sig # x
  BY <1>1, <1>5 DEF SignalsInv, CallsSound
<1> HIDE DEF x
<1>11. CallsSound'
  BY <1>1, <1>3, <1>4, <1>5, <1>10 DEF SignalsInv, CallsSound
<1>12. NothingUnaccounted'
  <2>1. ASSUME NEW d \in Calls, NEW y \in rows',
               At(d, "poll")', calls'[d].peer = To[y], y \notin calls'[d].sigs
        PROVE  y \in missed'
    <3>1. At(d, "poll") /\ calls'[d] = calls[d]
      BY <1>3, <1>4, <2>1
    <3>2. y \in rows \/ y = x
      BY <1>1
    <3> QED
      BY <1>6, <1>7, <2>1, <3>1, <3>2 DEF SignalsInv, NothingUnaccounted
  <2>2. \A y \in stored' \ rows' : y \in stored \ rows /\ y \in Signals
    BY <1>1, <1>t DEF SignalsTypeOK
  <2> QED
    BY <1>1, <1>4, <1>6, <2>1, <2>2 DEF SignalsInv, NothingUnaccounted
<1>13. OnceEach'
  BY <1>1, <1>4, <1>8 DEF SignalsInv, OnceEach, Carries
<1> QED
  BY <1>9, <1>11, <1>12, <1>13 DEF SignalsInv

\* A poll that has selected the signals xs, all the peer's or those before a
\* scan that ended early.
LEMMA SelectKeeps ==
    ASSUME SignalsInv, NEW c \in Calls, NEW p \in PeerIDs, NEW xs \in SUBSET Of(p),
           calls[c] = None,
           missed' = missed \cup (Of(p) \ xs),
           again' = again \cup {x \in xs : \E d \in Open(p) : x \in calls[d].sigs},
           Set(c, [op |-> "poll", peer |-> p, sigs |-> xs]),
           UNCHANGED <<known, rows, sent, received, stored, dropped>>
    PROVE  SignalsInv'
<1> DEFINE call == [op |-> "poll", peer |-> p, sigs |-> xs]
<1>t. SignalsTypeOK
  BY DEF SignalsInv
<1>1. xs \subseteq rows /\ xs \subseteq Signals /\ Of(p) \subseteq Signals
  BY <1>t DEF Of, SignalsTypeOK
<1>2. /\ call \in Call /\ call # None
      /\ call.op = "poll" /\ call.peer = p /\ call.sigs = xs
  BY <1>1, CallKinds
<1>u. Set(c, call)
  OBVIOUS
<1> HIDE DEF call
<1>3. /\ calls' \in [Calls -> Call \cup {None}]
      /\ calls'[c] = call
      /\ \A d \in Calls : d # c => calls'[d] = calls[d]
  BY <1>t, <1>u, <1>2, CallSet
<1>4. /\ At(c, "poll")' /\ ~At(c, "poll") /\ ~At(c, "answer") /\ ~At(c, "answer")'
      /\ ~At(c, "set") /\ ~At(c, "set")'
  BY <1>2, <1>3 DEF At
<1>5. \A d \in Calls : d # c =>
          /\ At(d, "poll")' <=> At(d, "poll")
          /\ At(d, "answer")' <=> At(d, "answer")
          /\ At(d, "set")' <=> At(d, "set")
          /\ \A y \in Signals : Carries(d, y)' <=> Carries(d, y)
  BY <1>3 DEF At, Carries
<1>6. \A y \in Signals : Carries(c, y)' <=> y \in xs
  BY <1>2, <1>3, <1>4 DEF Carries
<1>7. \A y \in xs \ again', d \in Calls : ~Carries(d, y)
  <2> SUFFICES ASSUME NEW y \in xs \ again', NEW d \in Calls, Carries(d, y)
               PROVE  FALSE
    OBVIOUS
  <2>1. y \in Signals \ again /\ y \in rows /\ To[y] = p
    BY <1>1 DEF Of
  <2>2. ~At(d, "answer")
    BY <2>1 DEF Carries, SignalsInv, OnceEach
  <2>3. At(d, "poll") /\ calls[d].peer = p /\ y \in calls[d].sigs
    BY <2>1, <2>2 DEF Carries, SignalsInv, CallsSound
  <2> QED
    BY <2>3 DEF Open
<1>8. \A y \in Signals \ again' : y \in xs => received[y] = 0
  BY <1>1, <1>t DEF SignalsInv, OnceEach, SignalsTypeOK
<1>9. SignalsTypeOK'
  BY <1>t, <1>1, <1>3 DEF SignalsTypeOK
<1>10. CallsSound'
  <2>1. \A y \in xs : To[y] = p /\ y \in stored
    BY <1>1 DEF Of, SignalsInv, CallsSound
  <2>2. /\ rows \subseteq stored /\ stored \subseteq sent
        /\ \A x \in Signals : received[x] > 0 => x \in stored
    BY DEF SignalsInv, CallsSound
  <2>3. ASSUME NEW d \in Calls
        PROVE  /\ At(d, "set")' => calls'[d].sig \in sent \ stored
               /\ \A e \in Calls :
                      At(d, "set")' /\ At(e, "set")' /\ calls'[d].sig = calls'[e].sig => d = e
               /\ \A x \in Signals : Carries(d, x)' => x \in stored
               /\ \A x \in Signals : At(d, "poll")' /\ x \in calls'[d].sigs => To[x] = calls'[d].peer
    BY <1>2, <1>3, <1>4, <1>5, <1>6, <2>1 DEF SignalsInv, CallsSound
  <2> QED
    BY <2>2, <2>3 DEF CallsSound
<1>11. NothingUnaccounted'
  <2>1. ASSUME NEW d \in Calls, NEW y \in rows,
               At(d, "poll")', calls'[d].peer = To[y], y \notin calls'[d].sigs
        PROVE  y \in missed'
    BY <1>2, <1>3, <1>5, <2>1 DEF SignalsInv, NothingUnaccounted, Of
  <2>2. ASSUME NEW d \in Calls, At(d, "answer")
        PROVE  At(d, "answer")' /\ calls'[d] = calls[d]
    BY <1>3, <1>4, <1>5, <2>2
  <2> QED
    BY <2>1, <2>2 DEF SignalsInv, NothingUnaccounted
<1>12. OnceEach'
  <2> SUFFICES ASSUME NEW y \in Signals \ again'
               PROVE  /\ \A d, e \in Calls : Carries(d, y)' /\ Carries(e, y)' => d = e
                      /\ \A d \in Calls : At(d, "answer")' /\ y \in calls'[d].sigs => y \notin rows'
                      /\ received'[y] > 0 =>
                             /\ received'[y] = 1
                             /\ y \notin rows'
                             /\ \A d \in Calls : ~Carries(d, y)'
    BY DEF OnceEach
  <2>1. y \in Signals \ again
    OBVIOUS
  <2>2. \A d, e \in Calls : Carries(d, y)' /\ Carries(e, y)' => d = e
    BY <2>1, <1>5, <1>6, <1>7 DEF SignalsInv, OnceEach
  <2>3. \A d \in Calls : At(d, "answer")' /\ y \in calls'[d].sigs => y \notin rows'
    BY <2>1, <1>3, <1>4, <1>5 DEF SignalsInv, OnceEach
  <2>4. received'[y] > 0 => /\ received'[y] = 1
                            /\ y \notin rows'
                            /\ \A d \in Calls : ~Carries(d, y)'
    BY <2>1, <1>5, <1>6, <1>8 DEF SignalsInv, OnceEach
  <2> QED
    BY <2>2, <2>3, <2>4
<1> QED
  BY <1>9, <1>10, <1>11, <1>12 DEF SignalsInv

\* A poll goes from its DELETE to its answer, and the rows it leaves are those
\* of other peers; or the DELETE failed, and what it selected may come again.
LEMMA AnswerKeeps ==
    ASSUME SignalsInv, NEW c \in Calls, At(c, "poll"),
           Set(c, Answering(c)),
           \/ rows' = rows \ Of(calls[c].peer) /\ again' = again
           \/ rows' = rows /\ again' = again \cup calls[c].sigs,
           UNCHANGED <<known, sent, received, stored, missed, dropped>>
    PROVE  SignalsInv'
<1> DEFINE xs == calls[c].sigs
           call == [op |-> "answer", sigs |-> xs]
<1>t. SignalsTypeOK
  BY DEF SignalsInv
<1>1. xs \subseteq Signals /\ calls[c].peer \in PeerIDs
  BY <1>t, CallTypes
<1>2. /\ call \in Call /\ call # None
      /\ call.op = "answer" /\ call.sigs = xs
  BY <1>1, CallKinds
<1>u. Set(c, call)
  BY DEF Answering
<1>v. \A y \in xs : To[y] = calls[c].peer /\ y \in stored
  BY <1>1 DEF SignalsInv, CallsSound, Carries
<1>w. \A y \in rows : To[y] = calls[c].peer => y \in xs \/ y \in missed
  BY DEF SignalsInv, NothingUnaccounted
<1>x. \A y \in xs : Carries(c, y)
  BY DEF Carries
<1> HIDE DEF call
<1>3. /\ calls' \in [Calls -> Call \cup {None}]
      /\ calls'[c] = call
      /\ \A d \in Calls : d # c => calls'[d] = calls[d]
  BY <1>t, <1>u, <1>2, CallSet
<1>4. /\ ~At(c, "poll")' /\ At(c, "answer")' /\ ~At(c, "answer")
      /\ ~At(c, "set") /\ ~At(c, "set")'
  BY <1>2, <1>3 DEF At
<1>5. \A d \in Calls : d # c =>
          /\ At(d, "poll")' <=> At(d, "poll")
          /\ At(d, "answer")' <=> At(d, "answer")
          /\ At(d, "set")' <=> At(d, "set")
  BY <1>3 DEF At
<1>6. \A d \in Calls, y \in Signals : Carries(d, y)' <=> Carries(d, y)
  BY <1>2, <1>3, <1>4, <1>5 DEF Carries
<1>7. /\ rows' \subseteq rows /\ again \subseteq again' /\ again' \subseteq Signals
      /\ \A y \in rows \ rows' : To[y] = calls[c].peer
      /\ \A y \in xs \ again' : y \notin rows'
  BY <1>t, <1>1, <1>v DEF SignalsTypeOK, Of
<1> HIDE DEF xs
<1>9. SignalsTypeOK'
  BY <1>t, <1>3, <1>7 DEF SignalsTypeOK
<1>10. CallsSound'
  <2>1. ASSUME NEW d \in Calls
        PROVE  /\ At(d, "set")' => calls'[d].sig \in sent \ stored
               /\ \A e \in Calls :
                      At(d, "set")' /\ At(e, "set")' /\ calls'[d].sig = calls'[e].sig => d = e
               /\ \A x \in Signals : Carries(d, x)' => x \in stored
               /\ \A x \in Signals : At(d, "poll")' /\ x \in calls'[d].sigs => To[x] = calls'[d].peer
    BY <1>3, <1>4, <1>5, <1>6 DEF SignalsInv, CallsSound
  <2> QED
    BY <1>7, <2>1 DEF SignalsInv, CallsSound
<1>11. NothingUnaccounted'
  <2>1. ASSUME NEW d \in Calls, NEW y \in rows',
               At(d, "poll")', calls'[d].peer = To[y], y \notin calls'[d].sigs
        PROVE  y \in missed'
    BY <1>3, <1>4, <1>5, <1>7, <2>1 DEF SignalsInv, NothingUnaccounted
  <2>2. ASSUME NEW y \in stored \ rows'
        PROVE  \/ received[y] > 0
               \/ \E d \in Calls : At(d, "answer")' /\ y \in calls'[d].sigs
               \/ y \in missed
               \/ y \in dropped
    <3>1. CASE y \in rows
      BY <1>2, <1>3, <1>4, <1>7, <1>w, <3>1
    <3>2. CASE y \notin rows
      <4>1. ASSUME NEW d \in Calls, At(d, "answer"), y \in calls[d].sigs
            PROVE  At(d, "answer")' /\ y \in calls'[d].sigs
        BY <1>3, <1>4, <1>5, <4>1
      <4> QED
        BY <3>2, <4>1 DEF SignalsInv, NothingUnaccounted
    <3> QED
      BY <3>1, <3>2
  <2> QED
    BY <2>1, <2>2 DEF NothingUnaccounted
<1>12. OnceEach'
  <2> SUFFICES ASSUME NEW y \in Signals \ again'
               PROVE  /\ \A d, e \in Calls : Carries(d, y)' /\ Carries(e, y)' => d = e
                      /\ \A d \in Calls : At(d, "answer")' /\ y \in calls'[d].sigs => y \notin rows'
                      /\ received'[y] > 0 =>
                             /\ received'[y] = 1
                             /\ y \notin rows'
                             /\ \A d \in Calls : ~Carries(d, y)'
    BY DEF OnceEach
  <2>1. y \in Signals \ again
    BY <1>7
  <2>2. ASSUME NEW d \in Calls, At(d, "answer")', y \in calls'[d].sigs PROVE y \notin rows'
    <3>1. CASE d = c
      BY <1>2, <1>3, <1>7, <2>2, <3>1
    <3>2. CASE d # c
      BY <1>3, <1>5, <1>7, <2>1, <2>2, <3>2 DEF SignalsInv, OnceEach
    <3> QED
      BY <3>1, <3>2
  <2> QED
    BY <1>6, <1>7, <2>1, <2>2 DEF SignalsInv, OnceEach
<1> QED
  BY <1>9, <1>10, <1>11, <1>12 DEF SignalsInv

\* Calls that end take nothing with them but an answer, which a client has
\* received or which is dropped.
LEMMA EndKeeps ==
    ASSUME SignalsInv, NEW cs \in SUBSET Calls,
           calls' = [c \in Calls |-> IF c \in cs THEN None ELSE calls[c]],
           received' \in [Signals -> Nat],
           dropped \subseteq dropped' /\ dropped' \subseteq Signals,
           \A x \in Signals :
               \/ received'[x] = received[x]
               \/ /\ received'[x] = received[x] + 1
                  /\ \E c \in cs : At(c, "answer") /\ x \in calls[c].sigs,
           \A c \in cs, x \in Signals :
               At(c, "answer") /\ x \in calls[c].sigs
                   => received'[x] > 0 \/ x \in dropped',
           UNCHANGED <<known, rows, sent, stored, missed, again>>
    PROVE  SignalsInv'
<1>t. SignalsTypeOK
  BY DEF SignalsInv
<1>1. \A d \in Calls, op \in {"set", "poll", "answer"} :
          At(d, op)' <=> At(d, op) /\ d \notin cs
  BY DEF At
<1>2. \A d \in Calls : d \notin cs => calls'[d] = calls[d]
  OBVIOUS
<1>3. \A d \in Calls, y \in Signals : Carries(d, y)' <=> Carries(d, y) /\ d \notin cs
  BY <1>1, <1>2 DEF Carries
<1>4. \A x \in Signals : received'[x] > 0 => received[x] > 0 \/ x \in stored
  <2>1. \A c \in Calls, x \in Signals : Carries(c, x) => x \in stored
    BY DEF SignalsInv, CallsSound
  <2> QED
    BY <2>1 DEF Carries
<1>5. \A x \in Signals : received[x] > 0 => received'[x] > 0
  BY <1>t DEF SignalsTypeOK
<1>6. SignalsTypeOK'
  BY <1>t DEF SignalsTypeOK
<1>7. CallsSound'
  <2>1. ASSUME NEW d \in Calls
        PROVE  /\ At(d, "set")' => calls'[d].sig \in sent \ stored
               /\ \A e \in Calls :
                      At(d, "set")' /\ At(e, "set")' /\ calls'[d].sig = calls'[e].sig => d = e
               /\ \A x \in Signals : Carries(d, x)' => x \in stored
               /\ \A x \in Signals : At(d, "poll")' /\ x \in calls'[d].sigs => To[x] = calls'[d].peer
    BY <1>1, <1>2, <1>3 DEF SignalsInv, CallsSound
  <2> QED
    BY <1>4, <2>1 DEF SignalsInv, CallsSound
<1>8. NothingUnaccounted'
  <2>1. ASSUME NEW d \in Calls, NEW y \in rows,
               At(d, "poll")', calls'[d].peer = To[y], y \notin calls'[d].sigs
        PROVE  y \in missed
    BY <1>1, <1>2, <2>1 DEF SignalsInv, NothingUnaccounted
  <2>2. ASSUME NEW y \in stored \ rows
        PROVE  \/ received'[y] > 0
               \/ \E d \in Calls : At(d, "answer")' /\ y \in calls'[d].sigs
               \/ y \in missed
               \/ y \in dropped'
    <3>1. y \in Signals
      BY <1>t DEF SignalsTypeOK
    <3>2. CASE \E d \in Calls : At(d, "answer") /\ y \in calls[d].sigs
      BY <1>1, <1>2, <3>1, <3>2
    <3> QED
      BY <1>5, <3>1, <3>2 DEF SignalsInv, NothingUnaccounted
  <2> QED
    BY <2>1, <2>2 DEF NothingUnaccounted
<1>9. OnceEach'
  <2> SUFFICES ASSUME NEW y \in Signals \ again
               PROVE  /\ \A d, e \in Calls : Carries(d, y)' /\ Carries(e, y)' => d = e
                      /\ \A d \in Calls : At(d, "answer")' /\ y \in calls'[d].sigs => y \notin rows
                      /\ received'[y] > 0 =>
                             /\ received'[y] = 1
                             /\ y \notin rows
                             /\ \A d \in Calls : ~Carries(d, y)'
    BY DEF OnceEach
  <2>1. \A d, e \in Calls : Carries(d, y)' /\ Carries(e, y)' => d = e
    BY <1>3 DEF SignalsInv, OnceEach
  <2>2. \A d \in Calls : At(d, "answer")' /\ y \in calls'[d].sigs => y \notin rows
    BY <1>1, <1>2 DEF SignalsInv, OnceEach
  <2>3. CASE received'[y] = received[y]
    BY <1>3, <2>1, <2>2, <2>3 DEF SignalsInv, OnceEach
  <2>4. CASE received'[y] = received[y] + 1
    <3>1. PICK c \in cs : At(c, "answer") /\ y \in calls[c].sigs
      BY <1>t, <2>4 DEF SignalsTypeOK
    <3>2. Carries(c, y) /\ c \in Calls
      BY <3>1 DEF Carries
    <3>3. received[y] = 0 /\ y \notin rows
      BY <1>t, <3>1, <3>2 DEF SignalsInv, OnceEach, SignalsTypeOK
    <3>4. \A d \in Calls : ~Carries(d, y)'
      BY <1>3, <3>2 DEF SignalsInv, OnceEach
    <3> QED
      BY <2>1, <2>2, <2>4, <3>3, <3>4
  <2> QED
    BY <2>3, <2>4
<1> QED
  BY <1>6, <1>7, <1>8, <1>9 DEF SignalsInv

LEMMA AnsweredKeeps ==
    ASSUME SignalsInv, NEW c \in Calls, Answered(c)
    PROVE  SignalsInv'
<1>t. SignalsTypeOK
  BY DEF SignalsInv
<1>1. calls' = [d \in Calls |-> IF d \in {c} THEN None ELSE calls[d]]
  BY <1>t DEF Answered, Set, SignalsTypeOK
<1>2. received' \in [Signals -> Nat]
  BY <1>t DEF Answered, SignalsTypeOK
<1>3. \A x \in Signals :
          IF x \in calls[c].sigs THEN received'[x] = received[x] + 1
          ELSE received'[x] = received[x]
  BY DEF Answered
<1>4. /\ At(c, "answer")
      /\ UNCHANGED <<known, rows, sent, stored, missed, again, dropped>>
  BY DEF Answered
<1>5. \A x \in Signals : received[x] \in Nat
  BY <1>t DEF SignalsTypeOK
<1>6. \A d \in {c}, x \in Signals :
          At(d, "answer") /\ x \in calls[d].sigs => received'[x] > 0 \/ x \in dropped'
  BY <1>3, <1>5
<1>7. \A x \in Signals :
          \/ received'[x] = received[x]
          \/ /\ received'[x] = received[x] + 1
             /\ \E d \in {c} : At(d, "answer") /\ x \in calls[d].sigs
  BY <1>3, <1>4
<1>8. dropped \subseteq dropped' /\ dropped' \subseteq Signals
  BY <1>t, <1>4 DEF SignalsTypeOK
<1>9. {c} \in SUBSET Calls
  OBVIOUS
<1> QED
  BY <1>1, <1>2, <1>4, <1>6, <1>7, <1>8, <1>9, EndKeeps

LEMMA BreakKeeps ==
    ASSUME SignalsInv, NEW cs \in SUBSET Calls, Break(cs)
    PROVE  SignalsInv'
<1>t. SignalsTypeOK
  BY DEF SignalsInv
<1>1. Unanswered(cs) \subseteq Signals
  BY <1>t, CallTypes DEF Unanswered
<1>2. \A c \in cs, x \in Signals :
          At(c, "answer") /\ x \in calls[c].sigs => x \in dropped'
  BY DEF Break, Unanswered
<1>3. dropped \subseteq dropped' /\ dropped' \subseteq Signals
  BY <1>t, <1>1 DEF Break, SignalsTypeOK
<1>4. /\ calls' = [c \in Calls |-> IF c \in cs THEN None ELSE calls[c]]
      /\ UNCHANGED <<known, rows, sent, received, stored, missed, again>>
  BY DEF Break
<1>5. received' \in [Signals -> Nat]
  BY <1>t, <1>4 DEF SignalsTypeOK
<1> QED
  BY <1>2, <1>3, <1>4, <1>5, EndKeeps

LEMMA SignalsInitInv == SignalsInit => SignalsInv
<1> SUFFICES ASSUME SignalsInit PROVE SignalsInv
  OBVIOUS
<1>1. \A c \in Calls : calls[c] = None
  BY DEF SignalsInit
<1>2. SignalsTypeOK
  BY DEF SignalsInit, SignalsTypeOK
<1>3. CallsSound /\ NothingUnaccounted /\ OnceEach
  BY <1>1 DEF SignalsInit, CallsSound, NothingUnaccounted, OnceEach, Carries, At
<1> QED
  BY <1>2, <1>3 DEF SignalsInv

LEMMA SignalsUnchangedInv ==
    ASSUME SignalsInv, UNCHANGED <<rows, calls, sent, received, stored, missed,
                                   again, dropped>>
    PROVE  SignalsInv'
BY DEF SignalsInv, SignalsTypeOK, CallsSound, NothingUnaccounted, OnceEach,
       Carries, At

LEMMA CallStepKeeps ==
    ASSUME SignalsInv, NEW c \in Calls, CallStep(c)
    PROVE  SignalsInv'
<1>1. ASSUME NEW x \in Signals, SetSignal(c, x) PROVE SignalsInv'
  BY <1>1, SetSignalKeeps
<1>2. CASE InsertSignal(c)
  BY <1>2, InsertSignalKeeps
<1>3. ASSUME NEW p \in PeerIDs, PollSignals(c, p) PROVE SignalsInv'
  <2>1. missed' = missed \cup (Of(p) \ Of(p))
    BY <1>3 DEF PollSignals
  <2>2. Of(p) \in SUBSET Of(p)
    OBVIOUS
  <2> QED
    BY <1>3, <2>1, <2>2, SelectKeeps DEF PollSignals
<1>4. ASSUME NEW p \in PeerIDs, NEW xs \in SUBSET Signals, PollCutShort(c, p, xs)
      PROVE  SignalsInv'
  <2>1. xs \in SUBSET Of(p)
    BY <1>4 DEF PollCutShort
  <2> QED
    BY <1>4, <2>1, SelectKeeps DEF PollCutShort
<1>5. CASE DeleteSignals(c)
  BY <1>5, AnswerKeeps DEF DeleteSignals, Remaining
<1>6. CASE DeleteFailed(c)
  BY <1>6, AnswerKeeps DEF DeleteFailed
<1>7. CASE Answered(c)
  BY <1>7, AnsweredKeeps
<1>8. CASE Break({c})
  BY <1>8, BreakKeeps
<1> QED
  BY <1>1, <1>2, <1>3, <1>4, <1>5, <1>6, <1>7, <1>8 DEF CallStep

-----------------------------------------------------------------------------
(***************************************************************************)
(* The theorems.                                                           *)
(***************************************************************************)
\* To the migrations, a server that serves stands still.
LEMMA DbServerMigrates == [DbServerNext]_dvars => [MigrationNext]_mvars
BY DEF DbServerNext, Starting, CutShort, Crash, Serving, PeerStep, MigrationNext,
       dvars

LEMMA DbServerInv == DbServerSpec => []MigrationInv
<1>1. DbServerInit => MigrationInv
  BY MigrationInitInv DEF DbServerInit
<1>2. MigrationInv /\ [DbServerNext]_dvars => MigrationInv'
  BY MigrationNextInv, DbServerMigrates
<1> QED
  BY <1>1, <1>2, PTL DEF DbServerSpec

\* A file recorded in schema_version has been executed to its last statement,
\* for any number of servers, crashes and failed statements.
THEOREM RecordsCorrect == DbServerSpec => []RecordedApplied
<1>1. MigrationInv => RecordedApplied
  BY DEF MigrationInv
<1> QED
  BY <1>1, DbServerInv, PTL

\* A server does not serve before the whole schema is there.
THEOREM SchemaCorrect == DbServerSpec => []ServingComplete
<1>1. MigrationInv => ServingComplete
  BY DEF MigrationInv
<1> QED
  BY <1>1, DbServerInv, PTL

LEMMA DbSignalsInv == DbServerSpec => []SignalsInv
<1>1. DbServerInit => SignalsInv
  BY SignalsInitInv DEF DbServerInit
<1>2. SignalsInv /\ [DbServerNext]_dvars => SignalsInv'
  <2> SUFFICES ASSUME SignalsInv, [DbServerNext]_dvars PROVE SignalsInv'
    OBVIOUS
  <2>1. CASE UNCHANGED sgvars
    BY <2>1, SignalsUnchangedInv DEF sgvars
  <2>2. ASSUME NEW s \in Servers, Starting(s) \/ CutShort(s) PROVE SignalsInv'
    BY <2>1, <2>2 DEF Starting, CutShort
  <2>3. ASSUME NEW s \in Servers, Crash(s) PROVE SignalsInv'
    BY <2>3, BreakKeeps DEF Crash
  <2>4. ASSUME NEW c \in Calls, Serving(c) PROVE SignalsInv'
    BY <2>4, CallStepKeeps DEF Serving
  <2>5. ASSUME NEW p \in PeerIDs, PeerStep(p) PROVE SignalsInv'
    BY <2>5, SignalsUnchangedInv DEF PeerStep, PeerKnown, PeerGone
  <2> QED
    BY <2>1, <2>2, <2>3, <2>4, <2>5 DEF DbServerNext, dvars
<1> QED
  BY <1>1, <1>2, PTL DEF DbServerSpec

\* A stored signal is lost only between the two statements of a poll, by a
\* scan that ended early or with an answer nobody received, for any number of
\* servers, calls and signals.
THEOREM LossesKnown == DbServerSpec => []NoSilentLoss
<1>1. SignalsInv => NoSilentLoss
  BY DEF SignalsInv, NothingUnaccounted, NoSilentLoss, InFlight, At
<1> QED
  BY <1>1, DbSignalsInv, PTL

\* A signal is received twice only if two polls selected it or the DELETE of
\* one failed.
THEOREM RepeatsKnown == DbServerSpec => []NoRepeat
<1>1. SignalsInv => NoRepeat
  <2> SUFFICES ASSUME SignalsInv, NEW x \in Signals, received[x] > 1, x \notin again
               PROVE  FALSE
    BY DEF NoRepeat
  <2>1. received[x] \in Nat
    BY DEF SignalsInv, SignalsTypeOK
  <2>2. received[x] = 1
    BY <2>1 DEF SignalsInv, OnceEach
  <2> QED
    BY <2>1, <2>2
<1> QED
  BY <1>1, DbSignalsInv, PTL
=============================================================================
