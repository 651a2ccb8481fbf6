# mongo-service in TLA+

A verification project for `mongo-service`, a TCP service that routes requests to
MongoDB, keeps a version history of every document it writes and a metric of
every request, and comes with a C++ client library.  The modules here model the
parts of the program where order, concurrency and failure matter, `.cfg` files
check them with TLC on small instances, and eight proof modules prove with TLAPS,
for every instance, the safety properties that TLC checks.

Paths of the program are written as in the repository (`src/service/...`,
`src/api/...`); `PROJECT.json` prefixes them with the directory of the checkout
(`src/src/service/...`, and `src/README.md` for the README of the repository) and
maps every definition to the lines it models.

## The system and its parts

```
 application threads                            io threads (--threads)
 api::execute ── Pool<Connection> ── TCP ── serve/respond/process ── db::process
                  (TTL thread)                                          │
            Connection: socket, streambuf            handlers of storage.cpp, transaction.cpp,
                                                     rename.cpp, drop.cpp
                                                        │            │             │
                                                 db::Pool of      version       MetricsCollector
                                                 MongoDB clients  history       batch → MongoDB or ILP
```

| part | state | operations | how it meets the others | what is hard | what makes it correct |
|---|---|---|---|---|---|
| client pool (`api/pool/pool.hpp`) | deque `available`, `total`, two mutexes, TTL thread | `acquire`, `Proxy`, `release`, `removeExpired` | `api::execute` leases a connection for each call | the limit is tested before the mutex is taken; the factory may throw; the scan lets go of the mutex between two erasures | a connection has one user; units of `total` are not lost; connections are closed when idle too long and not before |
| client connection (`api/impl/connection.cpp`) | socket, streambuf, `v` | `execute`, `socket` | TCP to a session; validity tells the pool to destroy it | errors come as codes or as exceptions, with different effects on buffer, socket and validity | a reply belongs to its request; nothing is executed twice; nothing is left for the next call |
| session (`server/service.cpp`) | bytes read | `respond`, `process`, `serve` | one coroutine for each connection, on the io threads | TCP cuts messages anywhere | it is at the start of a request whenever it waits for one |
| write handlers (`db/storage.cpp`) | none but the database | create, update (one, by filter, many), replace, delete, bulk | a MongoDB client; two or more calls per request, not in a transaction | other requests run between the calls; a call may fail after it was applied; the service may crash | a success has its version; versions are of documents that were stored; the newest version is the document |
| transaction (`db/internal/transaction.cpp`) | a `Result` outside the callback | create, update, delete items | the driver's `with_transaction` calls the handler's callback, again after transient errors | retries, conflicts, lost commits, items refused after others were written | all or nothing; documents and versions agree; the reply lists the versions |
| create, rename, drop (`db/internal/create.cpp`, `rename.cpp`, `drop.cpp`) | a client; the collections and the names in the version history | make, rename or drop the collection, then follow in the history on another thread | the `std::async` thread takes a second client while the handler holds one; other requests create documents meanwhile | nested use of a bounded pool; two calls that are not one transaction, the second one's failure only logged | it is answered; the versions of a collection bear its name, and it has no others |
| MongoDB client pool (`db/pool.cpp`) | clients of the driver's pool | `acquire` with a time limit | a thread that pops; the caller stops waiting after a second, the pop goes on | the client that comes late | no client is lost, no deadlock |
| metrics (`db/metricscollector.cpp`, `ilp/ilp.cpp`) | `vector`, mutex, ILP buffer and socket | `add`, save of a batch, `finish` | every handler ends with `add`; the batch is saved by a thread that the adder waits for, under the mutex | batches of several threads, failing sends, shutdown | no metric is forgotten without a trace |
| start and stop (`server/service.cpp`, `main.cpp`) | io threads | `run`, a signal | stops the io context, joins the threads, saves the rest | requests in progress, metrics collected | no metric is left behind when the service can save it |
| log (`log/NanoLog.cpp`) | a queue of buffers (guaranteed), or a ring of slots (not guaranteed) | `push`, `try_pop`, the loop and the shutdown of the writer | every thread logs, one writes the file | lock-free publication, laps, the life of a buffer | a slot has one writer; the lines of a thread are in order, each once; none is left at the end |
| reads, indexes, createTimeseries | none | one database call each | | | |
| model, options, repository, utilities, ILP formatting | none | conversions | | | |
| shell, genoid, clients in other languages, tests, vendored code | | | | | |

## Modules

| module | models | state and actions |
|---|---|---|
| `ConnectionLease` | what a pool promises: exclusive leases of connections that are made once and, once broken, never lent again | `lease`, `idle`, `broken`; take, give back, discard |
| `ConnectionPool` | `Pool<Connection>`, its proxies and its TTL thread | `available` (deque of connection and time), `total`, and a program counter and a lease for each thread; one action for each critical section: the unlocked test, the locked take, the factory's return or throw, the release, the wake-up of the TTL thread and each round of its loop |
| `Session` | `Connection::execute` and `socket`, the `execute` of `api.cpp`, TCP, and `respond`, `process` and `serve` | a message is a sequence of cells; the buffers, the streams and what each session has read are sequences of cells; one action for each `send`, `receive`, connect, `async_read_some`, execution and write |
| `Storage` | the write handlers of `storage.cpp`, the version history, `db::process` | `store`, `history`, and for each request the call it makes next, what it has read and what it is about to record; one action for each database call |
| `VersionedStore` | what the version history is for: documents and versions change together | `store`, `history`; one action, a change with its versions |
| `Transaction` | `transaction.cpp` and the driver's `with_transaction` | committed `store` and `history`, and for each request its session, its `Result`, the attempt and the item; one action for each item and for each end of callback and commit |
| `Collections` | `create.cpp`, `rename.cpp`, `drop.cpp` and what the creation of a document does under a name | the collections, the collection each document is in and the one its version names, and the call each request makes next; one action for each database call, which may fail before or after it was applied |
| `Service` | what requests share: io threads, client pool, rename and drop, metrics, ILP client, shutdown | who holds which client, where each request is and what its `std::async` thread does, and where each metric is; one action for each wait that ends |
| `LineLog` | what a logger promises that never drops a line | the lines each thread has logged, the file; log, write |
| `LogQueue` | `QueueBuffer`, `Buffer` and the writing thread, the guaranteed logger | the slots and the count of each buffer, the queue, both indices, the writer's mode, where each thread is in `push`; one action for each atomic operation |
| `LogRing` | `RingBuffer` and the writing thread, the other logger | the slots, both indices (unsigned, they wrap), the line in each thread's hand; one action for each use of an index or a slot |
| `MC*` | the instances for TLC | sets of requests and stores |
| `*Proofs` | theorems about `ConnectionPool`, `Session`, `Service`, `Storage`, `Transaction`, `Collections`, `LogQueue` and `LogRing` | |

`ConnectionPool` implements `ConnectionLease` (`ImplementsLease`, with `held` as the
leases and the deque, without its order and times, as the idle connections).
`LogQueue` implements `LineLog` with the same `sent` and `file`.  `Transaction`
implements `VersionedStore`, with the versions as a set and exempt the documents that
some request writes with `skipVersion`.  `Storage` does not: its write and its version
are two calls, so between them, and for ever after a crash, a document has no
version; what it promises instead are its invariants.
`Service` composes the client pool, the rename, the metrics and the shutdown, whose
interaction is the point.  `Storage` and `Transaction` each see the database as the
shared state of all requests, and take the threads of `Service` as a bound on how
many run at once.  The validity that `Session` gives a connection is the `invalid`
set that the environment of `ConnectionPool` chooses.  `Collections` looks at the
names in the history that `Storage` takes as fixed: its creates are the two calls
of `create()`, and the thread that follows in the history, for which the handler
waits, is a step of the request.

Three kinds of state in the modules are not in the code: program counters, which
stand for where a thread is; copies of what the database holds; and *history
variables*, which no guard reads and which the properties need (`seen` and `overlapped` in
`Storage`, `failures` in `ConnectionPool`, `dropped` in `Service`, `dirty` and
`tainted` in `Session`, `committed` in `Transaction`, `mixed` and `kept` in
`Collections`, `sent` and `late` in `LogQueue`, `clashed` in `LogRing`).
An operator marked "Mutant" next to the definition it replaces is a plausible bug that some property must find; no specification uses it.

### How the data is abstracted

- A document is an identity and a value, a filter the identities and values it
  selects, a version history document what it records.  `Storage` tells apart the
  values with a string property named `error`, because the code does.
- A connection, a client and a request are names.  A metric is the request it is of.
- A message is some cells, of which the first `Header` (5 bytes in the code) tell
  the size.  `ServerBuf` stands for 1024 bytes, `ClientBuf` for 4096.  Messages of
  8 MB and more, for which `respond` does not read on, are left out.
- A database call is atomic and ends.  One that fails was applied, was not, or was applied
  in part (`Partial`: some documents of an `update_many`, the first operations of a bulk
  write).  A write that is not acknowledged takes effect when it is sent, in whole or in
  part, or never: that it may take effect later, after the next call, is left out.
- The write concern of the MongoDB client is a choice for each request (`clientAck`), as is
  the one the request asks for its own write (`ack`): the insert of a version always has
  that of the client.
- `healthy` in `Service` is the environment: when it is true no client of MongoDB is waited
  for longer than a second and no save of a batch fails.
- The clock of `ConnectionPool` is a counter that only moves forward.
- A log line is its thread and its number, or in `LogRing` its place in the order of the
  indices.  The atomics of the log are modelled as sequentially consistent, although
  the code asks for acquire and release (`NanoLog.cpp:554`, `603`) and for relaxed
  operations on the indices (`487`, `593`, `641`): what only weaker orders allow is
  left out.
- A line that a thread counts in a buffer that the writer has freed is undefined
  behaviour: modelled are the outcomes that leave the process alive, that the memory
  still holds the counter, or that the count is lost.
- The memory past what a session has read (`Document` in `Session`) holds nothing
  useful or the end of another request: both are tried.

## What is checked

Every property is stated in its module under a comment.  `TypeOK` is the type
invariant of each.

| run | instance | what it shows |
|---|---|---|
| `ConnectionPool_leases` | two threads, four connections, `initialSize` 2, `maxPoolSize` 2, `maxConnections` 1, `maxIdleTime` 2, clock to 3, one failure of the factory | `total` overshoots by fewer than the number of threads and counts exactly the leases, creations and failures; leases are exclusive; the deque is sorted by idle time; nothing is closed early; what is idle too long leaves; the pool implements `ConnectionLease` |
| `Session_calls` | two calls, requests of 3 and 4 cells, replies of 5 and 2, two breaks, five connections | no request is executed twice; a connection on which no call threw and no request was torn gives each call its reply, is quiet between calls and always returns |
| `Session_stale` | the same | violated: after a failed reconnection the next call gets the reply to the previous request and its own is not executed (`connection.cpp:54`) |
| `Storage_requests` | two requests on two threads out of 39: of every handler, refused before the database, with the write or the client not acknowledged, editing the history; two documents, two start stores, failing calls, crashes | on an acknowledged client a success has its version; a version is of a document that was stored when it claims; when the two do not overlap, ask for versions and end well, the newest version of a document is the document, or says it was deleted |
| `Storage_lost` | two updates of one document | violated: both record the second one (`storage.cpp:622`) |
| `Storage_stale` | an update and a delete of one document | violated: the delete records the document it queried and removes another (`storage.cpp:1018`) |
| `Transaction_all` | two requests, two documents, two attempts, failures, lost commits, crashes | a transaction is committed in full, with its versions, or not at all; a success lists all its versions; the handler implements `VersionedStore` |
| `Collections_names` | three requests that create documents and make, rename and drop, three collections, three documents, failures before and after a call was applied | the versions of a collection that no two requests were at follow its documents through renames and drops; a collection has no versions of documents of another |
| `Service_pool` | four requests, two that rename, one that may skip its metric, two io threads, three clients, batches of two, MongoDB or ILP | no client leaks; no deadlock on clients; no metric is forgotten; batches are saved one at a time; every request is answered; at the end of a shutdown every metric is saved, unless a client of the pool or the metrics store was failing |
| `LogQueue_lines` | three threads, two lines each, buffers of two slots | a slot has one writer; lines are in order and written once; the shutdown writes what is left; every line is written unless a buffer was freed under the thread that fills it; the logger implements `LineLog` |
| `LogQueue_late` | two threads, three lines each, buffers of two slots | violated: a buffer is freed before its last slot was counted, no other is made, and lines are never written (`NanoLog.cpp:555`) |
| `LogRing_lines` | two threads, eight lines, a ring of three slots, indices modulo 4 | unless an index has the slot of an unread line, the lines are in the order of the indices and none is dropped; that happens only when the ring is full or the unread lines lie around the overflow of the index; the shutdown writes what is left unless a line was dropped |

Deadlock is checked in every run.  In the modules a state in which the program is
done, or in which a dirty connection keeps its caller for ever, stutters (`Done`,
`Stopped`).

### Bounds

Two actors of each kind and two documents are where every race of two steps shows:
each property relates at most two requests, or two connections, and the handlers
take no decision on the number of others.  The exceptions have their own instance:
`Service_pool` has four requests and batches of two, so that a batch fills, another
begins to fill and the rest is left to the shutdown, and three clients for two
threads, the smallest pool that has room for each thread and one more.
`ConnectionPool` needs as many connections as two leases and two replacements.
The clock of `ConnectionPool_leases` runs one tick past `maxIdleTime`, so that
connections of different ages meet in one scan.  `Session` sizes are the smallest
with a request that fits the server's buffer and one that does not, a reply that
fits the client's buffer and one that does not, and messages that can be cut
inside the header, after it and after a buffer; five connections are as many as two
calls with two breaks can use.  Three threads and buffers of two slots let
`LogQueue` fill a buffer, make the next and free the last while a third thread spins;
eight lines are two laps of the ring of three slots and more, and take its indices past
`Wrap` = 4, with unread lines on both sides.  As in the service's default ring (3 MB,
`main.cpp:22`, which `NanoLog.cpp:707` makes 12288 slots; the range of the index is 2^32)
the number of slots does not divide the range.
`Collections` has three names and three requests for the chains in which one renames
onto the name that another has just left, while a third creates documents.
`MaxAttempts` stands for the driver's limit of 120
seconds; one retry shows what a retry leaves behind.

### Fairness

Liveness is checked in `ConnectionPool`, `Session`, `Service` and `LogQueue`, under weak
fairness of what threads do by themselves: a free io thread takes a request, a callback
goes on, a connected client and its session go on, the TTL thread wakes up, a thread in
`push` is scheduled, and the writer of the log polls and, after its last line, ends.
`ConnectionPool` and `Service` need strong fairness where several threads compete for a
mutex or for a free client: a `std::mutex` and the driver's pool let a waiting thread in
eventually as long as they are released again and again.  There is no fairness on
failures, crashes, breaks, signals, new log lines, nor on the releases of an
application's lease.

## What is proved

TLAPS proves these theorems for every value of the constants that satisfies the
named assumption of the module (`PoolAssumption`, `SessionAssumption`,
`ServiceAssumption`, `StorageAssumption`, `TransactionAssumption`,
`CollectionAssumption`, `QueueAssumption`, `RingAssumption`).

`ConnectionPoolProofs`:

- `TypeCorrect`: `Spec => []TypeOK`.
- `TotalIsAccounted`: `Spec => []TotalAccounts`.  `TypeOK` and the equation are
  inductive together with the fact that a thread holds a connection exactly when it is
  leased; the cardinality of the users changes by one with each take and release.
- `TotalIsBounded`: `Spec => []TotalBounded`.  It is not inductive: a thread that
  was admitted counts itself later, without another test.  The invariant is that
  `total` *and the admitted threads together* stay below `maxConnections` plus the
  number of threads; the unlocked test can be passed only when `total` is below the
  maximum, and at most all threads have passed it.
- `LeasesAreExclusive`: `Spec => []Exclusive`.  `Exclusive` is preserved by every step
  of a well-typed state; the work is in what popping the front and pushing at the back
  do to the set of idle connections (`IdleOfTail`, `IdleOfPush`).
- `DequeIsSorted`: `Spec => []SortedByIdleTime`.  The invariant adds that no time in
  the deque, nor the one the scan uses, is later than the clock: a release appends the
  time of its own.
- `NoneIsClosedEarly`: `Spec => NeverClosedEarly`.  Of all steps only `TtlRemove` drops
  a connection that no thread gets; the clock is not before the reading the scan uses.
- `ImplementsTheLease`: `Spec => ImplementsLease`.  `TakeIdle` is `Reuse`, `CreateOk` is
  `Open`, `Invalidate` is `Fail`, `Release` is `Return`, `TtlRemove` and `Destroy` are
  `Close`, and the others change nothing the abstract specification sees.

`SessionProofs`, from two invariants:

- `TypeCorrect`.
- `RequestsExecutedOnce`: `[]ExecutedOnce`.  Counting executions is not inductive; what
  is, is that the first cell of a request is in one place at most (`OneCopy`, over
  `Streams`: the client's buffer, the two directions of each connection, and what each
  session has read), and nowhere once the request was executed or before it was made.
  Every action moves cells from one place to another, drops some, or adds those of a
  new request or an answer; a session that executes a request has its first cell and
  forgets it.  This holds on dirty connections too, where cells of a request may come
  back to the client as an echo and be sent again.
- `RepliesBelong` and `QuietWhenClean`: `[]RepliesMatch` and `[]QuietBetweenCalls`.  The
  invariant (`InStep`) is the course of a call on a connection that is not dirty: at rest
  between calls and until the request is sent; then the request is whole, on its way
  and in the session together (`Carried`), and nothing of an answer was written
  (`Waiting`); then it has been executed, and what is in the client's buffer and on its
  way begins the reply (`Answered`), of which a break can only take the end.  What
  begins a message announces the size of the message or, with less than a header, is no
  document (`BeginsFacts`, `NoHeader`), so a call that returns one returns the reply.

`ServiceProofs`:

- `TypeCorrect`, and `ClientInv`, the invariant all others rest on: where a request is
  and what its thread does fit together (`Coherent`), and the clients that are out are
  those of the places that use one.
- `NoClientLeaks`: `Spec => []ClientsInUse`, from `ClientInv`.
- `NoDeadlock`: `Spec => []NoHoldAndWait`, with `ActiveBounded` (never more requests
  in progress than io threads): if all of more clients than io threads are out, one
  of them is with a thread that needs no other, since the requests that hold one
  and wait are fewer.
- `SavedOneAtATime`: `Spec => []OneSaves`, with `FlushInv`: whoever saves a batch
  has the mutex.
- `NoMetricForgotten`: `Spec => []MetricsAreAccounted`, with `MetricInv`, which
  follows a metric through the vector, the batch, the buffer and the saved, and has
  a place for those of requests that are not done.

`StorageProofs`.  The base is `TypeInv`: the types together with `Stage`, which says for
every request what the call it makes next has at its disposal (a delete has something
left to delete, an insert of versions has versions, all of them its own).

- `TypeCorrect`.
- `SuccessHasVersion`: `[]SuccessIsVersioned`, for any number of concurrent requests, failing
  calls and crashes.  As long as no bulk request edits the history it only grows
  (`HistoryGrows`), and the only step that answers a single write with success is one that
  has just recorded it (`OkAnswers`); on a client that is acknowledged the insert that
  returned without an error has left its versions (`Landing`).
- `VersionsAreOfStored`: `[]VersionsWereStored`, which is about the requests that are `Plain`: that
  excludes the three kinds that record what was never stored.  The invariant follows every
  document such a request holds (`Watched`): what it has read was stored, and so are the
  versions it is about to insert.
- `DeletesRecordCurrent`: a delete that is not in `overlapped`, so that no other request ran at
  any time while it did, records what it removes.  Between its query and its deletes
  nothing else writes (`AloneInv`), and what is left to delete is stored.
  `Storage_stale` shows that one overlapping update is enough to lose it.
- `NewestIsStored`: `[]NewestVersionIsStored`, whose condition `Quiet` says that no request
  overlapped another, that all ended well, asked for versions and were `Restorable`: an
  update or a replacement by filter names one `_id` and selects what it writes, a
  replacement with an `_id` may upsert, an update of many does not upsert, and the filters
  of a bulk request name one `_id` each and select none of its inserts.  A request that
  breaks one of these conditions can leave, even alone, a document that the history does not
  show (TLC gives an example for each).  The invariant (`FollowInv`) says what the history
  lacks as a request goes on (`Follows`): nothing up to the write; after it the documents
  the request has still to read back (`Unread`), which its filter selects; then nothing once
  its versions are inserted.  For a bulk request it says which deletes the queries have
  gathered (`FoundAll`).  The lemmas `ShowsOlder` and `ShowsNewer` are what it means that
  versions are appended.
- `UpdatesAreVersioned`: `[]UpdateHasVersion(r)` for each request that is not in `overlapped`, for
  any failing calls and crashes, from `AskedInv`: what an update by `_id` has to read back
  is what it wrote, or no document.  `Storage_lost` shows that two requests that overlap
  are enough to lose it.

`TransactionProofs`, from one invariant (`Inv`): how far a request has come (`Phases`), open
sessions that write different documents (`Isolated`), snapshots that agree with the
store where the session has not written (`Snapshots`), and for each session that each
document it wrote has its version and each deletion its document (`Explained`,
`DeletesStored`), also across retries, conflicts and items that are refused.

- `TypeCorrect`.
- `ListsAreComplete`: `[]VersionsAreListed`.  Results only grow, also when an attempt is
  thrown away, so the list has every version that any attempt made.
- `CommitsAreFull`: `CommitsInFull`, from `Passed`: the items behind a request went well and
  have their versions.
- `ImplementsTheStore`: `ImplementsVersionedStore`.  The commit is the one step that changes
  store and history, and everything else a stutter.

`CollectionsProofs`:

- `TypeCorrect`.
- `HistoryFollows` and `HistoryBelongs`: `[]VersionsFollow` and `[]NoStrayVersions`.  Neither is
  inductive: between the rename and the update of the history the documents bear one
  name and the versions another.  The invariant says what each name is owed by the one
  request that is at it (`TakenAlong` after a rename, `Emptied` after a drop, `Recording`
  after an insert), and that a name two requests are at is mixed for ever (`Overlap`).

`LogQueueProofs`:

- `TypeCorrect`, `SlotsAreOwned`: `[]SlotIsOwned`.  A slot below the index is filled or has
  exactly one thread (`OwnSlots`, `FilledBelow`), the thread that counts the last slot is
  the only one that makes a buffer (`OneMakes`), and all buffers but the last are full.
- `ImplementsTheLog`: `ImplementsLineLog`.  Threads spin, so the order of their lines is
  not that of their calls: the invariant is that the lines of one thread are placed in
  increasing slots (`InOrder`), none is placed before it was logged or lost after it
  (`PlacedAreSent`, `SentArePlaced`), and what a thread is about to store lies behind
  what it stored before (`StoresBehind`); the writer reads slots in order (`FileIsRead`).
- `AllIsDrained`: `[]Drained`.  When no thread is left in `push` the slots in use have no
  gap (`NoGaps`), so that the writer, who stops at the first empty one, has read them all.

`LogRingProofs`, from one invariant (`Inv`): a line waits in the slot of its index
(`InItsSlot`), and is in one place: a producer's hand, a slot or the file (`Once`).

- `TypeCorrect`.  The type of `file` holds what is not obvious: however far the producers
  lap the writer, it reads at most as many lines as there were claims.
- `LinesAreInOrder`: `[]InOrderUnlessClash`, for every number of slots and every range of the
  index.  The invariant (`Window`) is that the lines not yet read have a slot each, and
  each is in it or in the hand of its thread; a store overwrites none of them and the
  writer finds the next one.
- `ClashesAreRare`: `ClashOnlyWhenFull`.  Fewer consecutive indices than there are slots have
  a slot each if the number of slots divides the range of the index (`SlotsDiffer`) or if
  the index does not overflow between them (`SlotsDifferInTurn`).  The default ring is not
  of the first kind, so around each overflow, every 2^32 lines, it may drop a line although it
  is not full.
- `RestIsWritten`: `[]DrainedUnlessDropped`.  If no line was dropped, the lines whose slot is
  the one the writer stops at are as many as it has read from that slot (they are
  counted, `AllIndicesAreRead`), so the writer's index is that of no line.

The proof that a step preserves an invariant has one step for each action of `Next`.

Only model-checked are the liveness properties (`ExpiredLeavesPool`, `RequestsAreAnswered`,
`StopSavesMetrics`, `CallsReturn` and `LinesAreWritten`), which are out of the prover's
reach, and of the four runs that end in a violation what they find, with counterexamples.

## Where code and documentation disagree

Four runs end in the violation of what a document or comment says; `PROJECT.json`
quotes each.  While the modules were written these were met as well, and the
modules show them as behaviours; no run is kept for them:

- `pool.hpp:113`: the limit is tested before the mutex is taken, so two threads hold two
  leases of a pool with maximum 1; `README.md:1164` says `nullopt` is returned once the
  maximum is reached.  `TotalBounded` is what holds.
- `pool.hpp:116`: the factory throws after `total` was counted, so a unit is lost and in
  the end `acquire` returns `nullopt` with no connection in use; `README.md:1164`
  gives the maximum as the only reason.
- `pool.hpp:169`: `removeExpired` does not look at `initialSize`; `README.md:1158` says
  a minimum is always kept (`test/integration/pool.cpp:181` expects an empty pool).
- `storage.cpp:75`: on a client that is not acknowledged (`w=0` in the connection string) the
  reply is a success with the id of a version whose insert may have been dropped;
  `README.md:85` says every document is versioned.  `SuccessIsVersioned` is stated for
  acknowledged clients.
- `storage.cpp:1034`: a delete that is not acknowledged is recorded and reported although
  MongoDB may have dropped it.
- `storage.cpp:902`, `1159`: an `update_many` or a bulk write that breaks off leaves what it
  has written without a version.
- `storage.cpp:783`: a replace with an `_id` records the replacement even when nothing
  matched.
- `storage.cpp:695`: an update by filter looks for the updated document with the same
  filter; when the update changes a property of the filter there is no version.
- `storage.cpp:624`: a stored document with a string property `error` is taken for an
  error and not versioned.
- `storage.cpp:895`: a document that `update_many` upserts is not versioned.
- `storage.cpp:1083`: a bulk request may write to the version history.
- `storage.cpp:1130`: a bulk remove deletes one document of each filter and records all it
  selects as deleted (`README.md:703`).
- `transaction.cpp:55`: a transaction that is refused half way replies as if it had been
  committed, and lists versions that do not exist (`README.md:823`).
- `transaction.cpp:168`: the counts and ids of an attempt that is retried stay in the
  result, so that the reply counts documents twice and lists versions that were rolled
  back (`README.md:820-828`).  No property here forbids it: `VersionsAreListed` says that no
  stored version is missing from the list, not that the list has no others.
- `transaction.cpp:109`: the ids of updates are listed as created, and there is no list
  of updated ones.
- `transaction.cpp:94`: an update that matches nothing is counted and recorded.
- `storage.cpp:1315`: a transaction without `database`, which `README.md:97` allows,
  is answered with an error after it was committed.
- `rename.cpp:115`: a rename holds its client while its thread acquires another.  With
  a pool no larger than the number of threads all clients can be with requests that
  wait for one more.  `README.md:937` says the second update is enqueued and the operation
  returns, but the destructor of the future waits for it.  `NoHoldAndWait` holds with
  one client more than threads.
- `rename.cpp:47`, `drop.cpp:39`: when the call that follows in the history fails, the reply
  is a success and the history is stale for ever, though `README.md:938` says stale
  for a short period of time.  A name this happened to counts as mixed in `Collections`.
- `NanoLog.cpp:750`: after a ring was lapped, the writer may stop at an empty slot with up
  to a ring less one of lines behind it.
- `NanoLog.cpp:487`: the index is an `unsigned int`; when the number of slots does not
  divide 2^32, two indices around the overflow meet in one slot and a line is dropped in a
  ring that is not full, though `NanoLog.hpp:150` says lines are dropped when it gets full.
  The service's default (`main.cpp:22`: 3 MB, 12288 slots) is such a ring.
  `ClashOnlyWhenFull` is what holds.

The properties that hold are stated for what is left: `NoEdits`, `clientAck`, `Plain` and
`Quiet` of the storage, `healthy` of the shutdown, `Settled` of the collections, `exempt` of
`VersionedStore`, and the history variables `overlapped`, `late`, `clashed`, `dirty` and
`tainted` name what they exclude.  What is excluded is modelled, and no property of those
that hold is about it.  In particular: a name at which two requests were at once, or one
of whose requests failed between its two calls, is exempt from `VersionsFollow` and
`NoStrayVersions`, and its versions may stay where they do not belong; a dirty connection
is exempt from `RepliesMatch`, `QuietBetweenCalls` and `CallsReturn`, and may keep its
caller for ever; metrics that a failing ILP server leaves in the client's buffer die with
the process.

## What is not modelled, and why

- **Reads, indexes, createTimeseries**: one database call whose result is copied; no
  state, no version.
- **Renaming or dropping the collection of the version history**: no test forbids it, and
  then no property of the history is left.
- **AsyncConnection**: like `Connection` without the reconnection; and sends that are
  short, which a blocking socket does not do.
- **Assigning over a lease** (`pool.hpp:77`): no code of the repository does.
- **Weak memory orders**, and the compiler's and processor's reorderings they allow: TLC
  and TLAPS see interleavings of atomic steps.
- **`--threads 0`** (`service.cpp:165`): `ServiceAssumption` asks for a thread.
- **Steps of the system clock** (`pool.hpp:160`): the clock of `ConnectionPool` moves forward.
- **Conversions** (`common/util`, `model`, `options`, `ilp/builder.cpp`): pure.
- **The encoding of a log line, the roll of the file, the console and the stack trace**: no
  state a line depends on.
- **The listener's failures and the start of the process**: no state besides the socket.
- **Other clients, shell, genoid**: separate programs.
- **Vendored code**: `simdjson`, `magic_enum`, `clara` and other headers are more than 200 000
  of the lines under `src/`; what the service calls of them is pure.  The map therefore
  names a small share of all lines.

## Plan

In the order of importance; what is done is marked.

1. *Done.* `ConnectionLease`, `ConnectionPool` and the refinement.
2. *Done.* `Storage`, the write handlers and the version history.
3. *Done.* `Transaction`.
4. *Done.* `Service`: client pool, rename, metrics and shutdown together.
5. *Done.* `Session`: the protocol between connection and session.
6. *Done.* Theorems about `ConnectionPool` and `Service`.
7. *Done.* `NanoLog`: the queue of buffers, with theorems and an abstract log, and the ring.
8. *Done.* `VersionedStore`, which `Transaction` implements.
9. *Done.* `Collections`: what rename and drop do to the history while writes go on.
10. *Done.* Theorems about `Storage`, `Transaction`, `Collections` and `LogQueue`.
11. *Done.* Theorems about `Session` and `LogRing`, and `NewestVersionIsStored` of `Storage`.
12. `Pipeline`: `ConnectionPool`, `Session` and `Storage` composed, for what a client
    that retries a failed call can rely on.
13. The removal of characters in ILP names and `Document::valid` as operators, against a
    reference definition.
