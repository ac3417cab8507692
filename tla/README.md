# Muninn in TLA+

Muninn is a directory server for peer-to-peer nodes: nodes register under an id
and a key, register the hashes of file chunks they hold for a recipient, judge
each other's chunks, and exchange WebRTC signalling messages through the server.
This directory holds TLA+ models of it, the TLC configurations that check them
and the proofs that TLAPS checks. Line numbers refer to the repository's sources.

## 1. Inventory

| Component | State | Operations | Hard behaviour |
|---|---|---|---|
| Peer table and key index (`store/memory.go`) | `peers`, `logins` (key string -> slice of ids), guarded by `mu` | `Upsert`, `Delete`, `Heartbeat`, `Refresh`, `Get`, `GetByKey`, `List` | `Upsert` takes the time before the lock; the index must follow every login change; `Refresh` takes no lock at all |
| Chunk list and verdicts (`store/memory.go`) | `chunks` (slice), scores in `peers` | `SetChunkHash`, `ReportChunk`, `ConfirmChunk`, `ReadChunk`, `GetChunksByRecipient`, `GetChunksByFileID` | duplicates shadow each other; retries are judged again; keys are joined and split at `#` |
| Chunk cleaner (`api/server.go`) | a ticker | `DeleteExpiredChunks` | the clock is read before the lock; it must get to every expired chunk |
| Recipient polling (`GET /api/v1/recipient/chunks`) | the client's `date_from` | one query | second-grained dates, changes in the second of a query |
| Signal mailboxes (`store/memory.go`) | `signals` (peer id -> slice) | `SetSignal`, `PollSignals` | a poll deletes what it returns; the writer that follows may fail |
| WebRTC handler (`webrtc/handler.go`) | `wsConns`, one goroutine per connection | `HandleWebSocket`, `handleSignalRelay`, `handleConnectToPeer`, `sendNotification`, `sendResult`, `CloseAll` | reconnects, writes to dead connections, two writers of one connection, writes without a deadline, one map under two mutexes |
| HTTP handlers (`handler/phonebook.go`) | none | decode, call one store method (batches: several), encode | batches stop in the middle |
| Database store (`store/db.go`, `store/peer_store.go`) | tables `peers`, `chunks` | the same interface, several SQL statements per method | statements of two calls interleave; one of several fails |
| Signals table (`store/db.go`) | table `signals` | `SetSignal`, `PollSignals` | a poll is a `SELECT` and a `DELETE` by peer; errors of both are dropped |
| Migrations (`store/migration.go`) | the schema, `schema_version` | `NewDB`, `runMigrations` at start | a crash between a migration and its record; two servers on one database |
| Ranking (`store/store.go`, `GetBestPeers`) | none | `EffectiveScore`, sort, cut | integer width, negative scores |
| Signatures (`sign/sign.go`) | none | `Verify`, payloads | — |

The handlers call the store; the WebRTC handler calls the store's mailbox
methods under its own mutexes; the cleaner goroutine calls the store beside the
requests. Nothing else is shared. What makes each part correct, and the lines
where it can go wrong, is the `hazards` list of `PROJECT.json`; the properties
below are aimed at it.

## 2. Modules

| Module | Models | State |
|---|---|---|
| `PeerTypes` | `model/peer.go`, `store/hash.go`, `sign.Verify`, the helpers of `memory.go` | none: records and operators |
| `MemoryStore` | `store/memory.go` without `Refresh` and the mailboxes; the cleaner of `api/server.go` | `peers`, `logins`, `chunks`, `regs`, `now`, `upserts`, `cleaner`, ghost `verdicts` |
| `MemoryRefresh` | `MemoryStore` and the unlocked `Refresh` | and `refreshes` |
| `ChunkSync` | `MemoryStore` and a polling recipient | and `view`, `dateFrom` |
| `Batches` | `MemoryStore` and the batch endpoints of `handler/phonebook.go` | and `batch`, `answer`, ghost `slots` |
| `Ranking` | `EffectiveScore`, `List`, `GetBestPeers`, `GetBestThickPeers` over `MemoryStore` | none: queries of its state |
| `Signaling` | `webrtc/handler.go`, the mailboxes and their REST endpoints | sessions (`pc`, `peer`, `link`, `sig`, `conn`, `pending`), `wsConns`, `signals`, `registered`, `sweep` (the run of `CloseAll`), ghosts `place`, `received`, `overlap` |
| `DbStore` | `store/db.go`, `store/peer_store.go` without the signals table | `driver`, `peers`, `chunks`, `regs`, `now`, `ops` (what each request carries between two statements), ghost `verdicts` |
| `DbSignals` | the signals table of `store/db.go` | `known`, `rows`, `calls`, `sent`, `received`, ghosts `stored`, `missed`, `again`, `dropped` |
| `Migration` | `NewDB`, `store/migration.go`, the SQL files of both drivers | `driver`, `schema`, `recorded`, `filled`, and per server `pc`, `applied`, `next`, `stmt` |
| `DbServer` | servers that start (`Migration`), serve the mailboxes (`DbSignals`), crash and restart, on one database | both |
| `PeerDirectory` | what the `Store` interface promises of its peers, abstractly | `entries` |
| `MemoryDirectory`, `DbDirectory` | the refinement mappings of the two stores to `PeerDirectory` | |
| `PeerTypesProofs` | lemmas about the data both stores share | |
| `MemoryStoreProofs`, `ChunkSyncProofs`, `BatchesProofs`, `MemoryDirectoryProofs`, `SignalingProofs`, `DbStoreProofs`, `DbServerProofs` | theorems about the modules they extend; `MemoryDirectoryProofs` also about `Ranking`, `DbStoreProofs` also about `DbDirectory` | |
| `MC...` | constants for TLC | |

**How the code became actions.** A method that holds `mu` for its whole body is
one action. `Upsert` and `DeleteExpiredChunks` call `time.Now()` before
`s.mu.Lock()`: the sample (`UpsertBegin`, `CleanerTick`) and the critical
section (`UpsertInsert` or `UpsertMerge`, `DeleteExpiredChunks`) are separate
actions, and anything may happen between them. A call that returns an error
leaves the state alone and is not an action: its condition is a guard of the
action. Queries are operators of the state, used by the properties and by the
actions that call them. `Refresh` is four actions, one per access to a shared
map, because nothing makes it atomic. A batch handler calls the store once per
entry, so in `Batches` each entry is an action, the first refusal is the end of
the batch, and the same batch may be sent again at any time.

In `Signaling` each session's goroutine is a program counter; a session at
`flush`, `send` or `result` is inside `WriteMessage`, so two of them with one
`conn` are concurrent writers, and `WritePanic` is what gorilla/websocket may do
then. `CloseAll` holds `mu` and not `wsMu`, so it is a step per line: it comes to
an entry of the map (`CloseAllNext`; an entry made since it began may come up or
not, as Go's `range` has it), closes the connection it found (`CloseAllClose`)
and deletes whatever entry the id has by then (`CloseAllDelete`). Sessions
connect, look up and end in between, and wait where they need `mu` (`PollSignals`,
`Answer`). It runs once; the process goes on until `Exit`, after which another
one may start. In the database modules a SQL statement is an action, because the database
makes each atomic and nothing, but for `Upsert`'s transaction at the default
isolation level, holds them together. Any statement may fail (`Abort` in
`DbStore`, `Break` and `DeleteFailed` in `DbSignals`, `Fail` in `Migration`), and
where the code does not look at the error it goes on: `PollCutShort` and
`QueryCutShort` are result sets that end early, since `rows.Err` is never called.
Under SQLite a transaction that would update a row changed since its `SELECT` may
be refused, which is `Abort` too, so for SQLite the model allows more than the
database does.

**How the data is abstracted.** A string the code joins or splits at a separator
is the sequence of its parts: joining is concatenation, so the collisions of
`login + ":" + key` and of `file + "#" + index` are in the model (`KeyString`,
`chunkKey`, `parseChunkKey`). A hash is a digest and a case, which
`normalizeHash` removes. A signature is the key that made it. Surrounding blanks
and requests that a validity check refuses are left out; a blank login or key is
not (`Blank`). The index slices are bags: only the order of `GetByKey`'s output
depends on their order. A chunk keeps the slot it was registered in, so slot
order is list order and a deleted entry is `None`. A schema is the set of the
tables of file 001 and of the columns later files add.

**The clock.** `now` counts seconds and never goes back. `LastSeen` has
nanoseconds in the code; expiry is decided on whole seconds here, which moves an
expiry by less than a second. In `DbStore` the server and the database share it.

**Undefined behaviour.** An unsynchronised map access either works on what it
finds or stops the process: `Fatal` in `MemoryRefresh` (lines 103-107 of
`memory.go`) and in `Signaling` (`sendResult`, `sendError` and `CloseAll` use
`mu`, the others `wsMu`). After it the in-memory store is empty.

**The abstract specification.** `PeerDirectory` knows ids, an identity per
registered id, a score and two counters. Its steps are a registration with the
initial score, one verdict (on every peer that shares the judged key) and a
removal. Both stores implement it, with different identities: the in-memory
store may change a peer's login, the database store never writes it after the
`INSERT`. Expired peers stay entries, because both stores keep them and their
counters come back with the next registration.

**The composition.** `DbServer` joins `Migration` and `DbSignals`: calls run only
on a server that serves, a crash takes the calls of that server with it and
leaves the tables, and other servers go on. `DbStore` is not part of it: its state
space does not fit beside, and its statements touch neither table.

## 3. What is checked

| Run | Property | Shows |
|---|---|---|
| `directory` | `TypeOK`, `LookupExact` | `GetByKey`, through the index, and `peerByKey`, by scanning the table, find the same peers, each once, although the joined strings of different keys collide |
| | `VerdictLedger` | score and counters are exactly the verdicts since registration, which the ghost `verdicts` counts |
| | `BestByMerit` | no answer of the ranking queries prefers a peer to one with the same flag that was judged better; the signed powers keep the order of the scores |
| | `ImplementsDirectory` | the in-memory store implements `PeerDirectory` |
| `batches` | `BatchIsPrefix` | a batch leaves a prefix of its entries behind, complete when the answer is 204, incomplete when it is an error, whatever runs between two entries |
| | `FirstConfirmed` | a duplicate is shadowed and never confirmed before the first, batches and retries included |
| `chunk_sync` | `NothingMissed` | what a recipient has not seen of a present entry, its next query returns |
| | `ChunksRetained` | a step removes a chunk only when it is expired and not persistent, and flags and `UpdatedAt` only go forward |
| | `ExpiredChunksSwept` | every expired chunk goes in the end |
| `signaling` | `TypeOK`, `SignalConserved` | a signal is in exactly one place from the relay to the receiver, and is dropped only with an error to its sender, by a write on a dead connection, a panic, the end of the process, or a REST poll nobody heard |
| | `Reachable` | a serving session is the one `wsConns` has for its peer, unless the entry was in two hands at once: two sessions of the peer, or a session and `CloseAll` |
| | `NoClosedEntry` | the map never leads to another peer's connection, and to one the server closed only while `CloseAll` is between the `Close` and the `delete` of it |
| `session_liveness` | `RelayEnds`, `SessionEnds` | every relay returns to the read loop or ends its session, and a session whose client is gone ends, unless it is for ever inside a write to a client that stays connected and does not read |
| `db` | `VerdictLedger`, `SenderResolved` | the statements of two requests, any failing, with the peer deleted, registered anew or expired in between: no verdict is lost or doubled by `Upsert`'s select-then-update, and the row whose signature admitted a chunk is the row its verdicts are credited to, although joined keys collide |
| | `ImplementsDirectory` | the database store implements `PeerDirectory`, with the login in the identity |
| `db_server` | `RecordedApplied`, `ServingComplete` | a file in `schema_version` was executed to its last statement; a server that serves has the whole schema, whoever created it |
| | `NoSilentLoss`, `NoRepeat` | a stored signal is lost only when it was inserted between the two statements of a poll, was left out by a scan that ended early, or was in an answer nobody received; it is received twice only when two polls selected it or a `DELETE` failed |
| | `StartSucceeds` | a start on PostgreSQL gets through in the end, however often it was interrupted and though another server starts beside it |

`Reachable` excludes peers whose entry was in two hands because there the code
does what its `delete` says (`handler.go:107` and `241`): the first session to
end takes out the entry of the other, and `CloseAll` that of a peer which came
back after the `Close`; the session stays connected and its signals reach it
only through the mailbox. Without either exception TLC finds the property
violated. `RelayEnds` and `SessionEnds` name the write without a deadline
(`handler.go:101`, `199`, `218`, `232`) as the one thing that can keep a session.
`NoSilentLoss` and `NoRepeat` name the races of a poll
in the same way, and `BatchIsPrefix` says that a registered chunk is found under
its file only for file ids without `#`, which `parseChunkKey` splits at the wrong
place. `StartSucceeds` leaves out a PostgreSQL database that had peers before file
009, which adds a `NOT NULL` column without a default. Nothing in the repository
promises more, so these are the limits of the properties and not findings.

Runs that TLC must violate, each against a sentence of the repository:

| Run | Sentence | What TLC shows |
|---|---|---|
| `refresh_lookup` | README:26, lookup "по ключу (login + signature)"; tests expect a key the peer lacks not to be found | `Refresh` enters the id under the key the request names; `GetByKey` then returns a peer without that key |
| `refresh_race` | `memory.go:17`, "потокобезопасное in-memory хранилище" | a report between `Refresh`'s read and write is lost |
| `key_unique` | README:53, a pair "не может принадлежать двум разным пирам" | two peers register one pair; `ErrKeyTaken` is never returned |
| `db_purge` | README:16, "Интервал очистки просроченных записей"; `docker-compose.yml:30` and `32` set `postgres` with an interval | `NewDB` keeps the name `postgres`, `DeleteExpiredChunks` knows `sqlite` and `pgx`: the statement is empty and an expired chunk stays for ever under a fair cleaner |
| `sqlite_start` | README:13-16, a start without settings serves on `:8080`; `main.go:34-35` makes `sqlite` its driver | file 009 says `ADD COLUMN IF NOT EXISTS`, which SQLite does not parse: every start, restarted for ever, ends at it |

**Bounds, and why they are enough.**

* `directory`: two peers, so each can report on the other and on itself and two
  can share a key; logins `a`, `a:b` and keys `c`, `b:c`, two pairs of which join
  to one string; two digests for both outcomes; one verdict per registration,
  deletion and re-registration in between. The clock stands still (`StillSpec`)
  and one worker registers: a critical section is atomic and `UpsertBegin` only samples the
  clock, so with a fixed clock a second worker reaches no further table.
  `batches` and `chunk_sync` move the clock. Scores from -10 to 10 are compared
  in all three powers.
* `batches`: time up to 2 with TTL 1, so the peer and its chunks expire while a
  batch is under way and come back, and a stale sweep runs; two slots for
  duplicates; a batch that registers a chunk twice and one that confirms it
  twice, each of which is refused in the middle when the peer is deleted or
  expires, or the chunk is swept, between its two calls.
* `chunk_sync`: one entry (the entries do not interact), time up to 3 and every
  choice of the next date.
* `signaling`: three sessions, so a peer can overlap with itself, lose its entry
  and come back afterwards, or come back in the middle of `CloseAll`, while
  another session writes to it, and two signals for one target that meet in the
  mailbox and on the connection. `session_liveness`: two sessions, an offer and
  a signal that `SetSignal` refuses, for a target that is unknown, connected,
  stalled, gone or closed.
* `db`: one peer that is deleted and registered again under either of two logins,
  two requests, two digests for both outcomes, time up to 2 with TTL 1. SQLite
  only: its actions include all that PostgreSQL's empty statements leave out.
* `db_server`: two servers and a call on each, so two starts and two polls overlap;
  databases left by every earlier release, of both drivers; a signal for one of
  two peers, so the poll of another peer can touch it; one failure at any
  statement or between any two, and one failed `DELETE` per receipt.

Sessions, signals, slots, verdicts, failures, receipts and time are bounded by
constants that guard the actions (`Sessions`, `Signals`, `MaxChunks`,
`MaxVerdicts`, `MaxFailures`, `MaxReceipts`, `MaxTime`). Symmetry is over peers,
workers, sessions, signals and digests, in runs of invariants and of the
refinement (a safety property) only.

**Fairness.** `CleanerFairness`: the cleaner is a goroutine whose ticker never
stops and whose critical section waits only for calls that do bounded work under
the lock (Go's `RWMutex` does not starve writers), so `CleanerTick` and
`DeleteExpiredChunks` are weakly fair; `DbStore`'s `FairSpec` says the same of the
one statement the cleaner executes. `Serve(s)` while not `Stalled(s)`: a session's
goroutine that can go on does, since writes and reads on a dead connection return
in the end (TCP keep-alive, which net/http's listener sets). A write on a
connection whose client is there is not fair: no write has a deadline, and the
client need not read. `Sweep`: `CloseAll` goes on once it has begun, since closing
a connection does not block. `Starting(s)`: a process runs
on until it serves or ends, and `docker-compose.yml` restarts one that ended
(`restart: unless-stopped`); its failures are bounded, its tries are not. Clients,
the network, REST calls, shutdown and crashes are never obliged to act.

## 4. What is proved

For every value of the constants. About the in-memory store, from
`StringsAssumption`, `ScalarsAssumption`, `NoneAssumption`, `BoundsAssumption`
and `WatchedAssumption` (non-empty strings, integer TTLs, positive defaults,
`None` outside the types, bounds in `Nat`):

* `TypeCorrect` — `TypeOK` is inductive; one lemma per action group.
* `LookupCorrect` — `LookupExact` is not inductive: it speaks of unexpired peers
  and time hides entries. `IndexConsistent` (the index lists a peer once, under
  its present key, expired or not, and nothing else) is, and implies it.
* `VerdictsCorrect` — `VerdictLedger` with `TypeOK` is inductive: only `Judge`
  moves a counter, and it moves the ghost with it.
* `IdentityCorrect` — from the actions alone: only `UpsertMerge`, `Heartbeat`
  and `Judge` keep a peer in the table and change it. No run states it on its
  own: TLC checks it as part of `ImplementsDirectory`.
* `RetentionCorrect` — needs `TimesPast`: neither the stamps of an entry nor the
  cleaner's sample lie in the future, so a stale sample deletes less than the
  present time would, and a new `UpdatedAt` is not smaller.
* `ConfirmationCorrect` — needs `SlotsFree` (slots above `regs` are empty), so
  that a registration never puts an entry before a confirmed one.
* `SyncCorrect` — `NothingMissed` from `SyncInv`: an entry unlike the client's
  copy was stamped at `dateFrom` or later, and `dateFrom` is never after `now`.
  Its step rests on `ChangesStamped`: a step of the store that changes an entry
  stamps it with `now`.
* `DirectoryCorrect` — the refinement, with `AbsentAssumption` (`None` is no
  entry of the directory). `StepImplements` takes one step per action: under
  `TypeOK` an insertion is `Register`, a deletion `Remove`, a report or a
  confirmation `Judge` of the sender's peer, and everything else leaves `Entries`
  as it was.

* `RankingCorrect` — `BestByMerit` from `RankingAssumption` (finitely many peers
  and a natural `ScoreBound`) and, as invariants, `TypeOK` and `VerdictLedger`: a
  better balance of verdicts is a higher score (`MeritScores`), the signed powers
  keep the order of the scores, below zero included (`SignedGrows`), and a sorted
  answer that lists the worse peer lists the better one before it (`BestRanks`).
* `BatchesOnlyCall` — `BatchSpec => Spec`, from `BatchesAssumption` (the batches
  have their types, a request may lack its ttl): each entry of a batch is a call
  a client could make, so every theorem about `Spec` holds while batches run.
* `BatchesCorrect` — `BatchIsPrefix` does not say why a chunk an entry made is
  not another entry's later. `BatchInv` adds that the slots a batch has used are
  not above `regs`, that `done` does not pass the end, and `SlotsFree` and
  `TimesPast` of the store. `FreedStaysFree` (a deleted entry's slot is never
  filled again) and `StaysBehind` (what an entry left stays or expires) carry it
  over the steps of the others; `FirstIsUnique` makes the chunk the ghost names
  the one `ConfirmChunk` marked.

About `Signaling`, from `SignalingAssumption` (`None` is no session, peer or
signal), for any number of sessions, peers and signals:

* `TypeCorrect` — `TypeOK` is inductive.
* `EntriesCorrect` and `ReachableCorrect` — neither property is inductive alone.
  `MapInv` joins them and adds that an entry is of a session that has been
  entered in the map, that a session which has not been cannot be closed, and
  that two sessions of one peer at once are in `overlap`: so a session that ends
  and deletes its peer's entry deletes its own, unless the peer is there. Of
  `CloseAll` it adds `SweepInv`: the connection it found under an id is of that
  peer, is closed when the delete comes, and unless the peer is in `overlap` no
  other session serves it, so the delete takes out no entry of one that does.
* `SignalsConserved` — `SignalConserved` counts the places of a signal.
  `PlaceInv` relates the ghost `place` to them: a mailbox (`BoxesInv`) or a
  session (`HeldInv`, `RelayInv`) holds a signal once and only where `place`
  says, and what `place` says is so (`FoundInv`). Every action moves a signal
  and its `place` together.

About `DbStore`, from the assumptions of `PeerTypes`, `DbAssumption` and, for the
refinement, `AbsentAssumption`, for any number of requests that interleave
statement by statement:

* `TypeCorrect` — what a request carries from one statement to the next has its
  type. No run states it on its own.
* `VerdictsCorrect` — `VerdictLedger` with the types is inductive: the counters
  are only ever incremented in place, and no other statement writes them.
* `SendersResolved` — needs `SplitInv`: a sender that passed the signature check
  is one part of a login and one part of a key, since a key with `:` in it
  verifies nothing. It covers the chunks and the rows about to be inserted.
* `DirectoryCorrect` — the refinement, one case per statement, as for the
  in-memory store.

About `DbServer`, from `MigrationAssumption` and `DbSignalsAssumption`, for any
number of servers, calls and failures:

* `RecordsCorrect` and `SchemaCorrect` — neither property is inductive.
  `MigrationInv` adds `Progress(s)`: what server `s` has read or written as
  applied is recorded, the files before its index are recorded, and the
  statements of its file before the one it is at have been executed. So a file
  is executed when it is recorded, and all are recorded when the loop ends.
* `LossesKnown` and `RepeatsKnown` — `SignalsInv`: a row that an open poll has not
  selected is in `missed`, so its `DELETE` takes nothing unaccounted for
  (`NothingUnaccounted`), and a signal that is not in `again` is carried by one
  call at most and has left the table once an answer carries it (`OnceEach`).
  A crash of a server is a failure of all its calls.

Only model-checked: `ExpiredChunksSwept`, `RelayEnds`, `SessionEnds` and
`StartSucceeds`, since liveness under fairness is out of the prover's reach. Every
other property of a passing run is stated by a theorem. The runs that TLC must
violate are counterexamples and need no proof.

## 5. What is not modelled

* `dbStore.Refresh`: its `UPDATE` has a comma before `WHERE`
  (`peer_store.go:126`), so every call fails and changes nothing.
* The queries of the database store that only build an answer, its ranking
  among them: they change no state. A recipient that polls it does miss a row
  whose `updated_at` was taken before a slow `INSERT`, until a later change.
* Routing, environment variables, JSON and HTTP status codes: no property
  depends on them. `SetPeerScore` and `Sign` exist for tests.
* Integer overflow of TTLs and scores: numbers are unbounded here, and the
  products that overflow are beyond what TLC evaluates.
* The bytes two concurrent writers of a connection leave in gorilla/websocket's
  shared buffer: without a panic a frame may still arrive garbled, or one of the
  two twice. `SignalConserved` counts the frames that were written.
* The order of signals: a notification may overtake stored ones
  (`handler.go:85-88`), and nothing promises otherwise.
* Descriptions and checksums of `schema_version`: written and never read.
* What `DbStore` and `DbSignals` say of SQLite holds for a database whose schema
  was completed by other means (`sqlite_start`).

## 6. Plan

Done, in this order: `PeerTypes`, `MemoryStore` and its proofs, `MemoryRefresh`,
`ChunkSync` and its proofs, `Signaling`, `DbStore`; then `PeerDirectory`, its two
refinements and the proof of the first, `Ranking`, `Batches`, `Migration`,
`DbSignals`, `DbServer` and its proofs; then the proofs of `Ranking`, `Batches`,
`Signaling`, `DbStore`, the second refinement and `DbSignals`. Next:

1. The chunks of the database store: an action property like `ChunksRetained`,
   checked by the run `db` and proved from the lemma `ChunksChange` of
   `DbStoreProofs`.
2. The facts about `PeerDirectory` that the two refinement proofs state alike,
   once, in `PeerTypesProofs`.
3. What the liveness properties rest on and the prover reaches: that a sample of
   the cleaner taken after an expiry deletes the chunk, and that every step of a
   start moves it forward.
