# A TLA+ model of embyr

embyr is a Firestore-compatible server: gRPC, REST and WebChannel in front, a
SQLite or Postgres database behind. These modules model the parts in which
several requests, goroutines and connections meet (both storage adapters with
their optimistic transactions, real-time delivery to Listen streams, WebChannel
sessions, the life of the process) and the algorithms that turn a request into
what is read and stored (queries, aggregations, masks, transforms, REST
routes). `PROJECT.json` lists components, runs, mutants, the mapping from
definitions to source lines, findings, hazards and theorems.

## 1. Inventory

| Component | State | Operations | Meets others through |
|---|---|---|---|
| SQLite adapter, documents (`store/sqlite/sqlite.go`) | `documents` rows, one pooled connection | Create, Update (upsert, update, insert-only), Delete, `WithTransaction` | the connection; `notifySubscribers` after every write |
| SQLite adapter, transactions | `transactions` rows: read set as JSON, expiry | Begin, GetForTransaction, Commit, Rollback, Sweep | documents' versions; the sweeper's ticker |
| Postgres adapter (`store/postgres/`) | the same tables, a pool of connections, row locks | as SQLite | row locks; a trigger that notifies, a subscriber that reconnects |
| Queries in both adapters | none | filters, cursors, orders, pages, aggregation, as SQL text | the tables, one statement per page |
| RPC handlers (`server/handlers.go`, `transactions.go`, `aggregation.go`) | none of their own | Create/Update/DeleteDocument, Commit, Write, BatchWrite, BatchGetDocuments, RunQuery, listings | several adapter calls per RPC, with anything in between |
| Codec (`codec/`) | none | protos to queries and filters, filter matching in memory | called by handlers |
| Dispatcher (`server.go`) and registry (`listen/registry.go`) | adapter channel, a bounded channel and an overflow flag per stream | Subscribe, Dispatch, Overflowed, Cancel | fed by the adapter, drained by Listen handlers |
| Listen handler (`server/listen.go`) | targets of the stream | AddTarget, RemoveTarget, snapshot, fan-out, RESET | reads documents while they are written |
| WebChannel (`webchannel/`) | sessions, bridge channels, array-id counter, message log, seen request ids | opening POST, forward POST, back-channel GET, pump, Shutdown | runs the Listen or Write handler behind the bridge |
| REST gateway (`gen/.../firestore.pb.gw.go`, intercepts in `server.go`) | none | a URL becomes an RPC and its names | in front of the handlers |
| Process (`cmd/embyr/main.go`, `server.go`, `config.go`) | configuration, store, listeners, five goroutines | start, serve, sweep, shut down | owns everything above |
| Auth, health, migrations, tokens | keys, schema | checks, encoding | in front of or below everything |

What is hard here: a handler's database calls interleave with those of every
other handler; the commit reads its read set before it opens its SQL
transaction, and on Postgres others commit between its check and its writes;
the event of a write is sent after (or, in a SQLite batch, before) the write is
durable; several bounded queues sit between a write and a client, some of them
drop; snapshots and queries take several statements; one filter has three
evaluators; WebChannel numbers messages from several goroutines, and clients
retry, reconnect and vanish; a signal may come at any moment. The hazards in
`PROJECT.json` name the line of each.

What makes each part correct: commits validate what was read, connections and
locks are always returned, a request is one atomic step, nothing rolled back is
visible, abandoned transactions are reclaimed (stores); a subscriber's last word
on a document is right (Postgres feed); a client holds what its targets cover or
something is on its way to tell it (Listen); no message is numbered twice,
skipped, or handed over twice, and a session ends as a whole (WebChannel); a
query returns what matching in memory would, in order and once, a mask changes
the fields it names, a reported result is the stored one (requests); the process
ends, cleanly, and closes the store last (server).

## 2. Modules

| Module | Models | Extends |
|---|---|---|
| `DocTable` | rows of `documents`, the effect and the failure of one write, the change event | |
| `AtomicStore` | what `StorageAdapter` promises: the abstract specification | |
| `SqliteStore` | SQLite adapter and RPC handlers, one step per SQL statement | `DocTable` |
| `SqliteRefinement` | `SqliteStore` implements `AtomicStore`, isolated | `SqliteStore` |
| `PgFeed` | trigger, notifications, `Subscribe` with its reconnects | `DocTable` |
| `PostgresStore` | Postgres adapter and RPC handlers at READ COMMITTED | `PgFeed` |
| `PgRefinement` | `PostgresStore` implements `AtomicStore`, not isolated | `PostgresStore` |
| `ListenStream` | dispatcher, registry, Listen handler, the client's view | `SqliteStore` (the composed system) |
| `WebChannel` | one BrowserChannel session | |
| `QueryEval` | codec, filters in memory and in both SQL dialects, cursors, orders, placeholders, aggregation | |
| `FieldWrites` | masks, transforms, preconditions, write lists | `QueryEval` |
| `Gateway` | REST routes, their order, the names they bind | |
| `Requests` | one request and its handler, beside a writer | `FieldWrites`, `Gateway` |
| `ServerRun` | `main`, `Server.Run`, shutdown | |
| `DocTable_proofs`, `AtomicStore_proofs` | lemmas: rows descend from rows; what a list of writes reaches | the modules they are about, `TLAPS` |
| `SqliteStore_proofs` | theorems about `SqliteStore`, and that it implements `AtomicStore` | `SqliteRefinement`, `DocTable_proofs` |
| `ListenStream_proofs`, `WebChannel_proofs`, `ServerRun_proofs` | theorems about these modules | the modules they are about, `DocTable_proofs` |
| `PostgresStore_proofs` | theorems about `PostgresStore`, and that it implements `AtomicStore` | `PgRefinement`, `DocTable_proofs` |
| `Requests_proofs` | theorems about `Requests`: writes, listings, queries, counts, REST names, the sweep | `Requests`, `TLAPS` |
| `MCSqliteStore`, `MCListenStream`, `MCWebChannel`, `MCPostgresStore`, `MCRequests`, `MCServerRun` | instances for TLC | |

### DocTable and SqliteStore

A row is its `version` (0: no row), a `stamp` that names the write whose data
and update time it holds, and `epoch`, the number of times it was deleted.
`epoch` is history: no column holds it.

`calls[c]` is the program counter of an RPC in flight with what it carries from
one statement to the next. `conn` is the call whose SQL transaction holds the
pool's only connection (`SetMaxOpenConns(1)`): every statement outside it waits
for `conn = None`. `work` is the table that SQL transaction sees, `db` the
committed one. `hub` is the dispatcher's subscription to the adapter. `undone`,
`wrote` and `shown` are history.

| Action | Code |
|---|---|
| `RpcWrite`, `RpcMaskedWrite`, `PlainWrite`, `Notify` | Create/Update/DeleteDocument: the read of a masked update, the statement, the event |
| `BatchBegin`, `BatchWrite`, `BatchFail`, `BatchCommit` | `WithTransaction` around `applyWriteBatch` (Commit without a transaction, each request of a Write stream, each write of a BatchWrite) |
| `BeginTransaction`, `TxRead`, `TxRecord` | the two statements of `GetDocumentForTransaction` |
| `CommitLoad`, `CommitBegin`, `CommitWrite`, `CommitFinish` | `CommitTransaction`: load, `BeginTx` and OCC check, writes, delete of the row and commit |
| `RollbackTransaction`, `Expire`, `SweepExpiredTransactions` | rollback, time, the sweeper |
| `CancelCall` | a cancelled context or a failing statement, at any point before the end |
| `TakeChange` | the subscriber receives |

Abstractions: a document's data is its stamp, so masks and transforms are not
evaluated; an `update_time` precondition compares stamps, where the code
compares microseconds; a write inside a batch that fails for another reason
than its precondition (encoding, a missing name) is `CancelCall`; a
VerifyMutation does nothing in the code and is no write here; a random
transaction id is never drawn twice. A document path with a `.` or a `[` (in
`OddPaths`) is singled out, because `json_set` takes it for a JSON path: SQLite's
rules are finer than that, so what its statement does to the read set, nothing,
nesting it, or failing, is left open.

### ListenStream

`disp` is the dispatcher, which offers a change to one stream after the other
under the registry's read lock; the failed send and the raising of the flag are
two steps. `ch` and `overflowed` are the subscriptions, `strm` the program
counter of each Listen handler, `targets` its map. `view[s][g][p]` is what the
client holds of document `p` in target `g`: messages on a gRPC stream arrive in
order, so the view is updated when the handler sends. Every step of the store
is a step of the composition; every read of the handler waits for the
connection like any other statement.

Abstractions: a filter is the set of stamps that do not match, and MatchesFilter
and the SQL filter agree; queries are ordered by path and have neither limit
nor cursors; resume tokens, which the server ignores, CURRENT and NO_CHANGE
messages are left out. A documents target without paths makes the code panic (it
takes it for a query and has none, `listen.go:82`, `listen.go:109`);
`ListenAssumption` excludes it.

### WebChannel

One session (sessions share only the manager's map). The opening POST registers
the session, wires bridge, handler and pump, pushes its requests and sends the
connect chunk, in that order. The pump takes an array id and appends in two
steps; `early` (history) counts the responses it numbers before the connect
chunk. A back channel copies the log up to `upto`, writes it up to `idx`, then
waits. The Write channel is the same code with other message types, and
`OpenStep`, `PostStep`, `HandlerStep`, `PumpStep` and `BackStep` stand for its
functions too.

External assumptions: the client sends forward POSTs one after the other, and
may send one again; no copy of a POST arrives after `RidWindow` newer ones have
been sent; the client ignores array ids it has passed and resumes from the last
one it accepted. The handler behind the bridge speaks only after it has been
asked something (the Listen handler's own keep-alive comes after 30 seconds).

### AtomicStore and its two refinements

One step is one whole request: a plain write, a `WithTransaction` batch, a
`CommitTransaction`. `table` has versions and epochs, `sets[t]` the read sets
transaction `t` may still be committed with: the one in its row, and those that
commits in flight have loaded. The mapping takes the committed table, so the
statements of a SQL transaction are stutters and its COMMIT is the step. With
`Isolated`, a commit is validated in the step that applies it. SQLite's single
connection gives that. On Postgres a request is still one atomic step, because
row locks are held to the end, but what was validated may have been overwritten
by the time it is applied, and a delete that found no row may be overtaken by a
creation.

### PostgresStore and PgFeed

As `SqliteStore`, but every SQL transaction has a table of its own writes
(`mine[c]`), sees the latest committed rows for the rest (`View`), and
locks the rows it writes until it ends. A statement whose row another
transaction has locked waits; `WaitsFor` is the graph of these waits and
`DeadlockAbort` PostgreSQL's detection, which ends one call on a cycle. The OCC
check is one step per path (Go's map order is any order), then the writes.
`base` (history) is the table when the commit's SQL transaction began.
Write lists that delete a document and create it again are left out
(`NoRecreation`): a statement that waits for the old row does not find the new
one.

`PgFeed` has the trigger's notifications, sent at COMMIT in commit order
(`notes`), the one `Subscribe` is sending (`pend`), its channel (`chan`, a
blocking send), and the connection `feed`: down, connected, listening, closed.
A loss discards what was notified and not yet read; commits while the connection
does not LISTEN notify nobody (`missed`, history).

### QueryEval, FieldWrites, Gateway, Requests

Values are `[kind, is]` with kinds null, bool, int, double, string, time, array,
map; doubles are counted in halves, so that 1.5 exists; a string is its rank in
text order; a time is in hundredths of a second, with the texts that protojson
and `RFC3339Nano` give it. `matchFieldFilter` is the in-memory evaluator;
`sqliteFilterClause` and `pgFilterClause` say what the generated SQL finds, with
the members of the stored JSON, SQL's NULL and each database's type order. The
cursor, order and placeholder operators follow the functions they are named
after.

`FieldWrites` evaluates `applyMask`, `applyFieldTransforms`, `applyWriteBatch`,
`BatchWrite`, `UpdateDocument` and the transactional branch of `Commit` on
documents of nested fields. `Gateway` holds the patterns of the generated
gateway in the order in which they are registered (the last one registered is
tried first), the intercepts of `server.go`, and `CreateDocument`'s path. A
pattern without a verb takes the last component as it is spelled, a `:verb`
included (grpc-gateway v2.28), so a POST with a verb below the root is a
document's creation unless an intercept takes it.

`Requests` takes one request per behaviour from `Inputs`. `Decode`,
`QueryDocuments` (a page per step) and the listings interleave with
`OtherCreates` and `OtherDeletes`; `BatchWrite` takes a step per write; the
other handlers are one step, since what happens between their statements is the
stores' subject.

### ServerRun

`main` runs through load, open, migrate, new, listen, wait; `g` are the five
goroutines of `Run`; `calls` counts gRPC calls, streams, REST requests and
handlers that outlived their `TimeoutHandler`; `session` the WebChannel
sessions. Shutdown cancels sessions, stops gRPC and waits, shuts REST down and
waits for at most five seconds. Listening, opening, migrating and accepting may
fail at any time.

## 3. Runs

Every run's bounds are in its `.cfg`. `MaxStamp` bounds the number of writes
requested, `MaxMsgs` and `MaxNoops` what a session sends, `MaxLosses` the
connections lost, `MaxWrites` the writes beside a query, `MaxOut` the documents
a query sends before the model stops, `MaxCalls` the calls of a kind; requests
in flight always finish. `HubCap`, `SubCap`, `RecvCap`, `SendCap`, `RidWindow`,
`FeedCap` and `PageSize` are the code's 64, 64, 8, 64, 16, 64 and 300, made small
so that they are reached; `IntWidth` is 64 made small so that increments overflow.

| Run | Question | Result |
|---|---|---|
| `store_safety` | two calls, one transaction, three to four writes: a read, a foreign write, a delete, a re-creation and two commits all fit | `CommitValidated`, `RetrySafe`, `NoLeakedConnection`, `RolledBackInvisible` hold, and the store implements `AtomicStore` |
| `store_live` | clients may stop anywhere; a dotted path makes a read set unreadable; a batch with preconditions | transactions are reclaimed, the connection is returned |
| `listen_safety` | two streams come and go; creations and updates of two documents, a batch that rolls back, channels of one, pages of one | every committed write is shown or on its way; no send on a closed channel |
| `listen_removals` | deletes racing re-creations, plain and in transactions | no client keeps a deleted document with nothing on its way |
| `listen_live` | a registry channel and pages of one: changes are dropped, clients RESET and read again | clients catch up again and again, unless stranded by a flag raised too late |
| `wc_safety` | an opening POST whose request may be answered before the connect chunk; POSTs given up and sent again with a window of one id; two back channels, lost and reopened, with keep-alives, against the pump | array ids are unique from the connect chunk on, no response is passed over before the first keep-alive if none was numbered before the connect chunk, each request reaches the handler at most once |
| `wc_live` | opening with a request, cancellation at any time | no lost wake-up; sessions end as a whole |
| `pg_safety` | two connections, crossed batches, a transaction that writes two documents, deletes and re-creations | no lock is leaked, calls end in spite of deadlocks, the check covers what was committed before it began, and the store implements `AtomicStore` without isolation |
| `pg_feed` | two writers, a channel of one, one loss, cancellation | what the subscriber was told last is right unless it was lost; the feed comes back and catches up |
| `requests` | every filter on every pair of values, three documents in every order, cursors over two fields in every direction, five documents read in pages of two beside two writes, 125 columns against eight aggregations on each database, every mask with every list of transforms (all types of the API), pairs of writes, every method and verb at depths 0 to 5, nine times | the properties of `Requests` hold |
| `server` | nine configurations, two calls of each kind, two sessions, a signal and failures at any moment | the process ends, without an error unless something failed, with its ports released and the store closed under no request |

One run shows where the code does not do what the repository says:
`pg_lost_update`. `docs/COMPATIBILITY.md:74` promises "transaction isolation
backed by PostgreSQL/SQLite serializable transactions"; `CommitTransaction` runs
at the default level, checks versions without locking them
(`postgres.go:825`) and writes later, so a write committed in between is lost.

Deadlock is checked in `SqliteStore` and `ListenStream`. It is not where
behaviours really stop: sessions and processes end for good, a request is
answered, and `PostgresStore` comes to rest at its bound (that no call is stuck
there is `PgCallsEnd`).

Symmetry: calls, and where the cfg names them streams and connections, are
interchangeable model values; it is used in runs without liveness only.

### What the properties leave out

The conditions in the properties, and some choices in the cfgs, are there
because the code does not do more. The model shows each of these as soon as the
condition is dropped or the cfg changed.

Transactions and batches:

* `CommitValidated`, `RetrySafe` and `PgCommitValidated` except documents
  deleted in between: a row deleted and created again is back at version 1
  (`sqlite.go:939`).
* `RetrySafe` says nothing of a transaction that reads nothing it writes: two
  Commits in flight are then both applied (`sqlite.go:907`).
* A document reported missing is not recorded, so one created afterwards does
  not abort the commit (`sqlite.go:892`).
* A read of a path in `OddPaths` may leave the read set as it was, and then does
  not abort the commit, or make it undecodable, and then no commit of the
  transaction succeeds (`sqlite.go:896`). `CommitValidated` is checked without
  such paths.
* `CommitTransaction` takes only path, kind and data: a commit in a transaction
  ignores masks, transforms and preconditions (`handlers.go:213`). So
  `MaskExact`, `TransformsKept` and `ReportedIsStored` speak of commits without
  one.
* `UpdateDocument` and deletes take a precondition on the update time for
  "exists" (`handlers.go:106`, `handlers.go:386`).

Listening:

* `listen_safety` has no deletes. With `ChurnP`, a delete announced after the
  re-creation that followed it removes the new document (`sqlite.go:400`,
  `listen.go:256`), and a delete between two OFFSET pages makes a snapshot pass
  over a document (`sqlite.go:801`).
* A SQLite batch announces its writes before it commits (`sqlite.go:402`): a
  delete that is rolled back reaches clients, where `store/change.go:11` speaks
  of "a committed write". The batch of `listen_safety` has upserts only.
* `HubCap` is large: with 1, the adapter drops changes and no flag tells
  (`sqlite.go:160`).
* `Unmatched` is empty: with `{2}`, a document that stops matching stays with
  the client, because nothing is sent (`listen.go:281`).
* `ViewsCatchUp` excepts a `Stranded` stream: the flag is raised after the failed
  send (`registry.go:89`), so the handler may have emptied its channel in
  between, and then looks at the flag only with the next change
  (`listen.go:218`). If none comes, the client stays behind. `WritesArrive` and
  `RemovalsArrive` count a raised flag as "on its way" for the same reason.
* `FeedFaithful` excepts `missed`: nothing is read again after a lost LISTEN
  connection, and nobody is told (`postgres.go:966`).

WebChannel:

* With a request in the opening POST, as the SDK sends it, the handler may answer
  before `FormatConnectChunk` sets the counter to 2 (`session.go:193`). What it
  has numbered by then (`early`) keeps ids 0, 1, ... that the connect chunk and
  later chunks are given again, where `session.go:236` says "no two chunks in a
  session ever share a seq". `UniqueSeqs` is about everything numbered from the
  connect chunk on.
* `NoMessageSkipped` holds up to the first keep-alive and with `early = 0`:
  keep-alives take array ids but no log entry, and early responses log entries
  whose ids count from 0, so "log index = S-2" (`handler.go:200`) fails and a
  reopened back channel may skip a response.
* `RequestOnce` rests on the client: a copy of a POST that arrives after
  `RidWindow` newer ones would be taken for a new one.
* A request id is remembered before its requests are handed over
  (`handler.go:156`): the retry of a POST given up half way is answered 200 and
  the rest is lost. `RequestOnce` is the other direction.
* `Shutdown` passes over a session that has no cancel function yet
  (`session.go:111`), so only sessions whose context is cancelled are promised
  to end.

Queries (`Comparable`, `Sortable`, `WellKinded` and `Exact` in `Requests`):

* `== null` finds documents without the field in SQL and never matches in
  memory (`query.go:294`); any other operator with a null operand becomes
  `!= null` in SQL.
* Values of different kinds match `!=`, `<=`, `>=` and `not-in` in memory and
  not in SQL; SQLite does not compare integers with doubles; booleans have no
  order.
* SQLite's `in` and `array-contains` never find integers (they are stored as
  strings), so `not-in` always does; maps and doubles inside arrays differ too.
* Times are compared as texts, which do not sort like the times when fractions
  of the same second have different numbers of digits.
* Documents without the order field come first in SQLite and last in Postgres.
* An inclusive cursor over several fields returns more than it should
  (`sqlite.go:570`).
* A cursor ignores the page token (`sqlite.go:741`): without a limit and with
  more matches than a page, `RunQuery` repeats its first page for ever.
  `QueryEnds` leaves these queries out.
* Pages are offsets: a delete in between makes a reader miss a document, a
  creation makes it see one twice, and rows that tie may be missed or repeated.
* A Postgres aggregation with filters is rejected by the database: its
  placeholders are numbered one too high (`postgres.go:1041`). `AggregatesRight`
  speaks of aggregations that answer.
* Sums are truncated to integers; the sum of nothing is 0 or null by database;
  limit and cursors of the aggregated query are ignored.

Writes:

* A transform outside the mask is reported and not stored; two transforms of
  one field both start from the stored value; removing from a missing field is
  reported as an empty array and stores nothing; `appendMissingElements` keeps
  duplicates within its argument.
* The switch of `applyFieldTransforms` has no case for `maximum`, `minimum` and
  an unset type: they do nothing and add no result, so the results after them
  stand in the place of another, where `handlers.go:811` and
  `contract.md:184` have one entry per transform in input order. A server
  value other than the request time adds a nil entry. `ReportedIsStored` says
  where each result stands.
* `UpdateDocument` and a write with a mask take every error of reading the
  document for a missing one (`handlers.go:316`); no read fails in `Requests`.
* A masked `UpdateDocument` of a missing document stores all fields given, a
  masked Commit only the masked ones.

REST and process:

* GET of a document's URL meets a list route first: the gateway tries the route
  registered last, and its `**` may be empty, while `docs/COMPATIBILITY.md:24`
  has GetDocument at that URL. `RestNames` has no GET of a document.
* Below the root, POST `:listCollectionIds` and `:partitionQuery` reach
  `CreateDocument` with a collection called "c1:listCollectionIds"
  (`firestore.pb.gw.go:1659` is tried before 1699), where `contract.md:295`
  has ListCollectionIds at that URL; a POST with an unknown verb creates a
  document too. Only the intercepted queries and the verbs of the root's
  `documents` reach their RPC, and `RestNames` is about the intercepted ones.
* The sweep may be off by less than a second.
* A signal that comes before the gRPC server serves ends in an error; sessions
  opened after `wcMgr.Shutdown` make `restSrv.Shutdown` time out; handlers left
  behind by a `TimeoutHandler`, and those of vanished sessions that were opened
  late, may outlive the store's Close. `GracefulStop` waits for ever for a
  stream whose client stays.

## 4. Fairness

`SqliteStore!LiveSpec`: `database/sql` gives the connection to waiting goroutines
in order, so a call's steps are strongly fair; the clock and the sweeper's ticker
never stop. `ListenLiveSpec` adds the dispatcher and the handlers; Go's `select`
picks at random among ready cases, so a change that waits is received however
many requests arrive. `WcLiveSpec`: goroutines run, a handler whose context is
cancelled returns (the bridge's Send and Recv fail), and a back channel's
`select` takes a case that stays ready. `PostgresStore!LiveSpec`: a lock released
again and again reaches the call that waits in PostgreSQL's queue (strong
fairness), deadlocks are detected, `Subscribe` reconnects to a database that can
be reached, the dispatcher receives. `Requests`: the handler of a query goes on.
`ServerRun`: `main`, the goroutines and unary calls go on; the sweeper's
`select` takes `egCtx.Done` at some turn. Nothing is assumed of clients: they may
stop, abandon calls, keep streams open, and never commit or roll back; nor of
signals, losses and failures.

## 5. Theorems

Proved with TLAPS for every value of the constants. What is assumed of them is
named in the module that declares them (`ConstantsAssumption`,
`ListenAssumption`, `WebChannelAssumption`, `FeedAssumption`, `PgAssumption`,
`ServerAssumption`, `InputsAssumption`), and TLC evaluates it in every run: sets
have the right elements, capacities are positive, the handlers send plain kinds
of writes, transactions upsert and delete, requests of different POSTs have
different names (`DistinctNames`), on Postgres no list deletes a document and
creates it again (`NoRecreation`), a request's writes are about documents of the
table, with masks and transforms whose field paths are not empty, a URL has no
empty segments, what is listed or queried are finitely many numbers (a path
stands for its rank in the order of the index), and where a query looks (`Readable`)
there are typed values: in the fields it filters or orders by, in its cursors and
in its operands, whose lists are lists of one kind or of numbers.

### SQLite (`SqliteStore_proofs`)

* `TypeCorrect`, `ConnectionNeverLeaks`, `CommitsAreValidated`, `RetriesAreSafe`.
  `CommitValidated` is not inductive: that an equal version means an equal row
  follows only if every row anyone remembers is an ancestor of the committed
  one. `StoreInv` says so of recorded reads, of reads about to be recorded and
  of loaded read sets (`Older`), adds that a transaction that was applied is
  closed and that what it read of the documents it wrote is strictly older than
  they are (`Overwritten`), and that the open SQL transaction's rows descend
  from the committed ones. `Descends` and `Before` in `DocTable` are the
  ancestor relations; `DocTable_proofs` proves that writes respect them.
* `RollbacksLeaveNoTrace` (`RolledBackInvisible`). That no committed row comes
  from an undone statement holds because a row of the open SQL transaction that
  differs from the committed one carries a stamp drawn since it began, and no
  stamp is drawn twice: `UndoneInv` says so of every row the program knows, and
  keeps the stamps of what was committed apart from those of what was undone.

### SQLite implements AtomicStore (`SqliteStore_proofs`)

`SqliteImplementsAtomicStore`: `Spec => ImplementsAtomicStore`, for lists of
writes of any length. Besides `StoreInv` the mapping needs `MapInv`: a SQL
transaction has executed the first n writes of one of the requests' lists on the
committed table, and the table it has reached (`Partway`) is one of those that
`AtomicStore` says these n writes may reach. `Reached` is a recursive function;
`AtomicStore_proofs` proves its defining equations (`ReachedSteps`) by an
induction stated for sets of naturals (`NatSetInduction`), since the library's
induction theorem takes an operator. A statement then is a stutter, a COMMIT the
step of the whole list; a failed or cancelled call gives up a read set at most
(`Remember`).

### Postgres (`PostgresStore_proofs`)

Every step is of one of a few kinds (`StepKinds`: enters a SQL transaction,
checks a path, writes a row, continues, commits, undoes, writes plainly, stays
outside, rests), and the invariants are proved per kind.

* `PgTypeCorrect`; `LocksNeverLeak` (`LocksHeld`).
* `PgCommitsValidated`: `RowsInv` says that the rows a SQL transaction holds back
  descend from the committed ones (`MineDescends`, because nobody else can
  change a locked row), hence that committed rows only move on, and that for
  every path already checked the row at the beginning of the SQL transaction was
  not newer than the one read (`CheckHolds`).
* `FeedIsFaithful`: `FeedFaithful` speaks of the moment when nothing is on its
  way. `NotesInv` says more: at every moment the last word on its way about a
  document is right (`Faithful`), and the notifications a SQL transaction has
  gathered are about exactly the rows it has locked and say what it left there
  (`OutFaithful`), so a COMMIT appends right words only.
* `PgIsAtomic`: `Spec => PgImplementsAtomicStore`, for any number of connections
  and lists of any length. `MapInv` has one `Partway` for every open SQL
  transaction: it has executed the first n writes of a list, and its view is a
  table that `AtomicStore` says they may reach from the table committed *now*,
  not from the one it began on. What keeps this true while others commit is that
  each of these n writes has locked its row, or is a delete that found none
  (`Progress`); nobody changes a locked row (`Bystander`), and what a list
  reaches at the paths it has locked does not depend on the other paths, where a
  delete may also leave what it finds (`ReachedElsewhere` in
  `AtomicStore_proofs`; this is where `Isolated` must be FALSE). Statements and
  checks are then stutters, and a COMMIT is the step of the whole list.

### Listen (`ListenStream_proofs`)

* `ListenImplementsStore`: every behaviour of the composition is a behaviour of
  the store, so `CommitsBesideListeners` carries the store's theorems over.
* `ListenTypeCorrect`, with the bound on every registry channel, and
  `NeverSendsOnClosed`, which rests on subscribing and cancelling waiting for
  the dispatcher's read lock.
* `RemovalsAlwaysArrive`: `AlwaysMatches /\ ListenSpec /\ []HubHasRoom =>
  []RemovalsArrive`. `RemovalsInv` says of every client and document that what
  it holds exists in the committed table or its deletion is on its way, and the
  same of the table of the open SQL transaction, where the deletion may still be
  with the call (`Outgoing`): a batch announces before it commits, so both
  tables must be followed for a COMMIT and a ROLLBACK to keep it. "On its way"
  (`Coming`) follows the event through the dispatcher, the registry channel, the
  overflow flag and the handler's fan-out; the flag counts because a reset
  empties the view.
* `WritesAlwaysArrive`: `OnlyUpserts /\ AlwaysMatches /\ ListenSpec /\
  []HubHasRoom => []WritesArrive`. `WritesInv` has the same two halves for the
  data a client should hold; here a change of the document may be on its way or
  the snapshot may still come to it (`ToSnapshot`). The second part needs that a
  row not yet read never moves in front of the OFFSET: rows are only added, so
  the rank of a path in the listing only grows (`RankGrows`), and a row that is
  added in front of the OFFSET brings its own event. The handler reads a document
  again for every event, so an event of an earlier write, or of a batch rolled
  back, brings the newest committed row as well.

The hypotheses are the conditions of the runs, and section 3 has the behaviour
that breaks the property without each: the adapter's channel drops silently when
it is full (`HubHasRoom` says it is not), a document that stops matching is not
taken away (`AlwaysMatches`), a deletion may be announced late and moves rows in
front of the OFFSET (`OnlyUpserts`). Overflows of the registry's channels,
cancelled calls, rollbacks, pages and targets added and removed are all allowed.

### WebChannel (`WebChannel_proofs`)

* `WcTypeCorrect`, from `TypeInv`: pointers stay within the log.
* `RequestsHandedOverOnce`, whatever is sent again: `OnceInv` says that the ids
  accepted so far are 1 to n and the window holds the last of them, so an
  accepted id outside the window is too old to arrive again, and that what is
  left in a POST was not handed over yet.
* `ArrayIdsUnique` (`UniqueSeqs`) and `ResponsesNotSkipped` (`NoMessageSkipped`),
  for every session, whatever its opening POST carries. `NumberInv` says that
  until the opening POST is done everything in the log, and the chunk that the
  pump has just numbered, is early, and that no back channel runs; from then on
  the array ids of what is not early grow along the log, are at least 2, stay
  below the counter and are no keep-alive's. The reset of the counter
  (`session.go:193`) keeps this because it speaks of the later chunks only.
  `ReplayInv` says that, with no early response and before the first
  keep-alive, entry i of the log has id i + 1 and everything the client's last
  id or a live back channel has passed was heard.

### Requests (`Requests_proofs`)

For every document, of any depth, every mask, list of transforms and list of
writes, every query, every URL and any two times that `InputsAssumption` admits:
nothing of the instance's forty or so writes and three documents is left in these
theorems.

* The lemma `AlwaysServed` gives the inductive invariant: `ServedInv` says that a finished
  request has been answered by the operators of `FieldWrites`, `Gateway` and
  `QueryEval` applied to the documents it met, and (`SentGood`) that a BatchWrite
  has one result and one status for each SQL transaction so far, and has changed
  documents only through writes reported done.
* What these operators compute is proved by induction over the length of a field
  path, of a mask or of a list of writes: recursive functions again, whose
  defining equations are lemmas (`BatchSteps`, `TxSteps`, ...), and an induction
  over a set of naturals. The lemmas are about what a reader of the document
  sees: after `nestedSetValue`, at and below the path it set the value that was
  set, and at every unrelated path what was there; the same for several paths in
  turn, if no other of them is related to the one read.
* From these, `MaskAlwaysExact` (`MaskExact`), `TransformsAlwaysKeep`
  (`TransformsKept`) and `ReportsAreStored` (`ReportedIsStored`). The last needs
  both: the value reported is computed from the stored document, the one stored
  is written into the base fields and then, maybe, cut out by the mask. Where a
  result stands is the number of transforms up to it that the switch does not
  ignore (`ResultsPlaced`).
* `ResultsPerWrite` (`ResultPerWrite`): the lists may hold several writes of one
  document, and each of them may fail on its precondition.
* `RestNamesAgree` (`RestNames`): which of the routes that match was registered
  last is found by method and by whether the last component carries a verb
  (`RouteOff`), and `TrimParent` undoes what `**` adds to a parent that binds
  nothing (`Trimmed`).
* `SweepsRight` (`SweepRight`): the texts of two times in different seconds
  differ before the fraction, whose length varies.
* `ListingsComplete` states `PagesComplete` for ListDocuments and
  ListCollectionIds, whose pages resume at an OFFSET while others create and
  delete. The invariant `PagesInv` says where the OFFSET stands among the keys
  still to come: nothing unsent lies below it as long as nothing was deleted
  (`NothingMissed`), and all that was sent and is still there lies below it as
  long as nothing was created (`NothingTwice`). A creation or a deletion shifts
  every key by at most one place and never disturbs the promise that is still
  standing. `Ascending` numbers the keys by how many are smaller; that this
  is a bijection with `1..n` (`AscendingFacts`) is what makes "below" the same as
  "at an earlier place".
* `FiltersAgree`: for a value and an operand that can be compared (`Comparable`,
  section 3), `sqliteFilterClause` and `pgFilterClause` keep a row exactly if
  `matchFieldFilter` does, whatever the operator. Scalars are compared by the key
  that each database reads from the stored JSON (`KeysInMemory`, `KeysInSql`,
  `NumbersInPg`); a time's key is its text, and the texts of comparable times sort
  like the times (`TimesSort`); lists reduce to their elements (`ElementAgrees`).
* `QueriesRight` states `QueryRight` for the queries whose cursors are `Exact`: over
  one field, or exclusive. Three lemmas relate the statement to the reference:
  filters keep the same rows (`FiltersKeep`), cursor clauses cut at the same rows
  (`CursorsKeep`), and ORDER BY puts them in the order of the reference
  (`PrecedesAgrees`, `SortedPlaces`: the place of a row is the number of rows before
  it). The invariant `QueryInv` then says that what was sent are the rows at places
  0 up to the token, or (`Looping`) that a cursor keeps the handler on its first
  page for ever. For an inclusive cursor over several fields, the rows it selects
  are more than the reference has, `WellKinded` does not say that these do not tie,
  and two that tie are sent in any order: `QueryRight` is not true of every such
  table, only of those of the run.
* `ScansComplete` states `PagesComplete` for RunQuery without order or cursor, beside
  writers, from `ScanInv`: the argument of `ListingsComplete`, over the rows that
  the statement selects at each page, and `FiltersAgree` for what the client asked.
  With an order the theorem would be false: rows that tie at one page may change
  places before the next, and the tie may be gone, with one of them deleted, when
  the query ends. The run has no query with an order beside a writer.
* `CountsRight` states `AggregatesRight` for requests of counts alone: an answer under
  an alias of its own is the number of documents that match in memory. On
  PostgreSQL it speaks of requests without a filter, as the others get no answer.

### Process (`ServerRun_proofs`)

`StoreClosedUnderNobody` (`DbUsersGone`), `PortsReleased` (`NoListenerLeft`) and
`FailuresHaveACause` (`CleanShutdown`), from one invariant `ServerInv`: where
`main` is says which goroutines exist, how far the shutdown has come says which
calls are gone, a goroutine that has returned has closed its listener, and every
error has a cause that happened.

### Only model-checked

Liveness and fairness (the prover has no rules for them). Of `Requests`, what
the theorems above leave out: `QueryRight` with an inclusive cursor over several
fields, and sums and averages in `AggregatesRight`, where a fold over a sequence
is compared with a sum over a set: both come from the community modules, whose
recursion the prover cannot unfold. `PgSerializable` is the run that fails.

## 6. Not modelled, and the plan

Not modelled: the checks authentication makes on each call (stateless: a header
or certificate against a fixed key or a remote service), health, gRPC-Web and
CORS (they wrap requests), resume tokens (no code reads them), the encoding of
documents as JSON beyond how values compare, running migrations (a library), the
generated message types and client stubs. Reasons are in `components`.

Next, in this order:

1. An abstract specification of a Listen view, implemented by `ListenStream`
   under the conditions of the passing runs.
2. `ListenStream` over `PostgresStore`, with the feed in place of the hub.
