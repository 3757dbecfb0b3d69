# invmanr_api: specification, model checking and proofs

This directory is a TLA+ development of `invmanr_api`, a small C++ HTTP service
that keeps a tree of inventory objects in memory beside two MySQL tables, and of
the parts of Crow, the web framework in its source tree, that carry its
requests. The source paths below are relative to the root of the repository.

## 1. The system

```
 HTTP client --> Crow server --> connection --> parser --> router --> routes.cpp --> DataSyncMagnr --> MySQLDB --> MySQL
                 (acceptor,      (deadline                 |            ^             |  nodes, ObjectNode tree
                  workers)        timer)                   +-- JSON ----+
```

| Part | Source | State | Operations |
|---|---|---|---|
| main | `src/main.cpp` | the global `data` | constructs the manager before `main`, starts the server |
| routes | `src/routes.cpp`, `src/routes.h` | none of its own | `/api/add_node`, `/api/remove_node`, `/api/tree`, `/api/dev/verify`, `/api/helloWorld` |
| DataSyncMagnr | `include/DataSyncMagnr.{h,cpp}` | `nodes` (map of id to node), `superRoot`, `connection` | constructor (load), `addNode`, `removeNode`, `validate_tree` |
| ObjectNode | `include/ObjectNode.{h,cpp}` | id, name, vector of weak child pointers | `pushChild`, `removeChild`, getters, four setters nobody calls |
| MySQLDB | `include/MySQLDB.{h,cpp}` | one connection | `connect`, `disconnect`, `executeQuery`, `executeUpdate` |
| schema | `mySQLref.sql` | tables `objects`, `relationships` | keys, cascade, seed rows |
| Crow server | `include/crow/http_server.h`, `app.h` | acceptor, one `io_context`, timer and queue length for each worker, flags of the start and the stop | `run`, `do_accept`, `stop`, `wait_for_server_start` |
| Crow connection | `include/crow/http_connection.h`, `task_timer.h` | socket, parser, response, `close_connection_`, `add_keep_alive_`, `task_id_`; the tasks of the timer | `start`, `do_read`, `handle_url`, `handle_header`, `handle`, `complete_request`, `do_write_sync`, deadlines |
| Crow parser | `include/crow/http_parser_merged.h`, `parser.h` | state, flags, `content_length`, header under construction | `feed`, the callbacks |
| Crow routing | `include/crow/routing.h` | rules and a tree for each method | adding and compressing rules, `handle_initial`, `handle` |
| Crow JSON | `include/crow/json.h` | the buffer of a document, and what was read of it | `load`, `s`, `has`, `operator[]`, `dump` |
| Crow websocket | `include/crow/websocket.h` | socket, read state, fragments, buffers that wait or are sent | reading frames, `send_*`, `close`, deletion |
| Crow middlewares and sessions | `include/crow/middleware.h`, `middlewares/session.h`, `middlewares/cookie_parser.h` | the lists of local middlewares; the cache of sessions, their nodes, a store in memory or in files with times of expiration | calling middlewares around a request; `before_handle`, `after_handle`, `set`, `apply`, `remove`, `refresh_expiration`; `load`, `save`, `handle_expired` |
| Crow, the rest | `include/crow/*` | | templates, multipart, query strings: not used |
| MySQL connector | `mysql_connector_cpp` (vendored, binary) | session | statements |
| old manager, old main | `DataSyncMagnr.cpp`, the file named `\` | | not built (`CMakeLists.txt` does not name them) |

How the parts interact:

* **Calls.** A route parses its body and calls the manager synchronously. The
  manager sends its statements one at a time and waits for each. No statement
  is prepared, none is retried, and results are read only where an action below
  reads them.
* **Threads.** `crow::SimpleApp::run` uses the default concurrency of 2: one
  thread accepts and one worker thread runs the handlers. Handlers do not
  overlap, so in the program itself the interleavings that matter are those of a
  call with *failures*: a statement that fails, a session that is lost, a process
  that is killed. Inside Crow there are more: the worker's queue of completion
  handlers, its timer, the accepting thread, and whoever calls `stop()`.
* **Callbacks.** The parser calls the connection from inside `feed`: the URL, each
  header and the whole message are handled, and answered, before the read handler
  that fed the parser goes on and decides whether to read again.
* **Shared state.** The tree is stored twice. The tables are the durable copy;
  `nodes` and the vectors of children are a copy that is built once, when the
  process starts, and then maintained by hand by `addNode` and `removeNode`.
  Everything that is hard in this program is about these two copies.
* **Ownership.** `nodes` owns the nodes; a parent has weak pointers to its
  children. A child that leaves the map while a parent still has it is an
  expired pointer.
* **Transactions.** A call turns autocommit off, and its last statement turns it
  on again, which is also what commits. Early returns skip that.

### What is hard, and what should hold

| Part | What is hard | What makes it correct |
|---|---|---|
| MySQLDB | errors become `-1` or a null pointer that callers may ignore; no reconnect | a failed statement changes nothing; a lost session rolls back |
| DataSyncMagnr, load | rows become pointers; roots are what nobody has as a child | each node has one parent, no cycle below the super root, everything committed is shown |
| addNode | memory is changed between two INSERTs, the commit is not checked | what it returns is durable; a failed add is not shown |
| removeNode | memory is changed before the DELETEs; the check for children reads memory | no child is orphaned, no pointer dangles, one commit |
| both | failure, crash or a lost session between any two statements | committed tables change by whole operations only |
| routes | ids are narrowed, a blank string yields an unset variable, the result of a call is not looked at | what a client was told is true, now and after a restart |
| Crow server | the start and the stop of several threads; a counter that two threads write; a worker chosen before the client comes | connections are counted exactly and spread evenly, nobody waits for ever |
| Crow connection | pipelined requests answered inside the parser; deadlines with identifiers that are used again; flags of one request used in the next | answers once and in order, no socket left open that nobody serves, no deadline forgotten |
| Crow parser | buffers may end anywhere; numbers near the width of their counter | the handler sees what the client meant |
| Crow routing | one tree for rules that share beginnings, rewritten when it is compressed | a request gets what the rules, read one by one, give it |
| Crow JSON | a document is decoded in place, its strings later still | only whole documents are taken, and every reading is what was written |
| Crow websocket | an object that deletes itself; closes from both sides; fragments | deleted when idle and not before, messages whole and in order |
| Crow middlewares | lists merged from blueprints and rules; a middleware that answers or throws on the way | called in pairs, nested |
| Crow sessions | requests of one session on several workers share a node that is counted by hand; entries are moved between cache and store; times of expiration are written at the end of the process only | what was written last is what is read, until the session expires, and not earlier than promised |

The list of hazards, each with the line where it bites and the properties that
would catch it, is `hazards` in `PROJECT.json`.

## 2. Modules

| Module | What it is |
|---|---|
| `MySQLDB` | the session: class `MySQLDB` with the part of InnoDB the program relies on |
| `DataSyncMagnr` | the manager; EXTENDS `MySQLDB`; the specifications `Spec` and `FairSpec` |
| `InventoryStore` | an abstract store that changes by whole operations |
| `TreeProperties` | EXTENDS `DataSyncMagnr`: invariants, action properties, liveness, the refinement of `InventoryStore`, the inductive invariant |
| `Routes` | EXTENDS `TreeProperties`: bodies, conversions, answers; the specification `RoutesSpec` |
| `TreeProofs` | EXTENDS `TreeProperties`: theorems and proofs about the manager: the tree and the tables under all faults; transactions, and that `DataSyncMagnr` implements `InventoryStore`, when statements fail only with the session; memory as a cache of the tables, and what `/api/tree` shows of it |
| `RoutesProofs` | EXTENDS `Routes`, `TreeProofs`: what the routes do with the manager, and what clients were told |
| `MCTree`, `MCRoutes` | values for the constants that a `.cfg` cannot write |
| `TaskTimer` | the timer wheel of a worker: tasks and their identifiers |
| `HttpConnection` | EXTENDS `TaskTimer`: the connections of one worker, their reads, answers and deadlines |
| `HttpService` | an abstract connection: requests are answered once and in order |
| `HttpProperties` | EXTENDS `HttpConnection`: its invariants, action properties, liveness, the refinement of `HttpService` |
| `MCConnection` | requests and chunks for `HttpConnection` |
| `HttpServer` | the threads of a server from `run()` to its return, with its properties |
| `HttpMessages` | what a client sends and what it means by it: the reference for the parser |
| `HttpParser` | EXTENDS `HttpMessages`: the parser and its callbacks, fed with buffers |
| `MCParser` | clients for the parser and its properties |
| `WebSocket` | one websocket, with its properties |
| `MCWebSocket` | frames for `WebSocket` |
| `Router` | rules, their trees, compressing, finding, the answer to a request |
| `MCRouter` | rules and URLs, and the reference: the rules read one by one |
| `Json` | the writer and the in-place reader of JSON |
| `MCJson` | documents, the ways to write them, and the properties |
| `Middleware` | which middlewares are called for a request, in which order |
| `Sessions` | EXTENDS `Middleware`: connections, contexts, the cache of sessions and its two stores, with its properties |
| `MCSessions` | requests for `Sessions` |
| `ServerProofs`, `ConnectionProofs`, `ParserProofs`, `WebSocketProofs`, `SessionProofs` | theorems and proofs about these parts; the last one also about the calls of the middlewares |
| `Recursions` | lemmas that these proofs share: induction over a number, and that functions defined by recursion over a number exist |

### MySQLDB

`stored` is what is committed, `pending` what the session sees; they differ
while a transaction is open. A row of `relationships` is the pair
`<<parent_id, child_id>>`, its primary key. `autoInc` is InnoDB's counter: it
never goes back, not even on a rollback, and a rolled back INSERT wastes its id.
`link` is `"open"` from `connect()` until the session is lost, which it is for
good because nobody reconnects.

Every statement that changes rows has two outcomes. `Write` takes effect, and
commits by itself when autocommit is on. `Fails` leaves everything as it is,
and is possible when the session is lost, or when `"statement"` is one of the
`Faults` (a full disk, a lock wait, a killed query). `Refused` is the same for
a constraint. The transaction statements (SET AUTOCOMMIT, COMMIT, ROLLBACK) are
assumed to work on a healthy session; on a lost one they do nothing, and the
program does not notice, because it never looks at what they return.

A session that is lost after a statement took effect but before its answer came
is the statement followed by `LoseConnection`: inside a transaction the effect
is rolled back with it, and for the statement that commits the program ignores
the answer anyway.

### DataSyncMagnr

`pc` names the statement that comes next. An action is **one statement and the
memory updates that follow it up to the next statement**: the process is
sequential there, nobody can observe the map in between, and a process that
dies in between has lost its memory anyway.

| Action | Code (`include/DataSyncMagnr.cpp`) |
|---|---|
| `Start`, `StartFails`, `LoadObjects`, `LoadRelationships`, `LoadFails` | constructor, 9-64 |
| `CallAddNode`, `AddBegin`, `AddInsert`, `AddLastId`, `AddRelate`, `AddRollback`, `AddCommit` | `addNode`, 75-130 |
| `CallRemoveNode`, `RemoveBegin`, `RemoveSelect`, `RemoveRelationships`, `RemoveObject`, `RemoveRollback`, `RemoveCommit`, `RemoveRestore` | `removeNode`, 132-207 |
| `Stop` | SIGINT or SIGTERM: the worker ends its handler, then static destructors run |
| `Crash`, `ConnectionLost` | the environment |

Details that a reader may look for:

* `SUPER_ROOT_ID` is `UINT_MAX` and the map has `int` keys, so its key is -1,
  which is also the "no parent" of `addNode`. `Keys` is the ids and -1; every
  other int behaves alike and is `NoId`.
* `children` is a set for each key. The vector's order is that of a SELECT
  without ORDER BY, and no id can be in it twice (`UniqueParent`, and rows have a
  primary key). A weak pointer has expired exactly when its id left `nodes`.
* The node enters `nodes` in `AddLastId`, before its relationship is inserted,
  and stays there when that fails.
* `RemoveRelationships` deletes `WHERE parent_id = ...`, the rows of all the
  parent's children.
* `RemoveSelect` returns when there is no parent row: a node below the super
  root is never removed.
* The branch of `removeNode` for a parent that is not in the map (170-175) is
  modelled. `RowsAreCached` shows that it is never taken as long as nobody else
  writes the tables.
* A connection that fails ends the process: the constructor ignores the result
  and dereferences a null pointer. The `else` of `main.cpp:22` never runs.

### Routes

`Routes` turns bodies into calls. A field is absent, null, a number, a string of
digits, another string, a blank string, or a value of another type. `.i()`
reads a number from a string too; a number that does not fit saturates at the
ends of `int64_t` (`Saturated`) and is narrowed to an int (`Narrow`); from a
blank string `lexical_cast` returns a variable it never set, which is a choice
among all ints. Exceptions in a handler are the 500 that Crow answers.
`reply` is the last answer. `acked` is a history variable: the ids that a 201 of
`add_node` gave to a client, minus those whose removal was asked for (the id as
the handler read it).

### InventoryStore

What a client would like to think: an add reserves an id and then, in one step,
makes object and relationship durable, or is abandoned; a removal takes away one
object that has no children, in one step. The detail that the siblings' rows go
too is part of the abstract removal, because it is what the code does.
`StoreSpec` in `TreeProperties` maps `objects` and `rels` to the committed
tables, `reserved` to what the open transaction has and the tables do not, and
`nextId` to the counter.

### HttpConnection and TaskTimer

`events` is the queue of a worker's `io_context`; an action of `Worker` is **one
completion handler**, with everything it calls. `reading` holds the connections
with an `async_read_some` outstanding, which completes with data, with the end of
the stream, or, when a deadline closed the socket, with an error.

| Action | Code |
|---|---|
| `Accept`, `Start` | `Server::do_accept`, `Connection::start` |
| `Receive`, `ReadFails`, `Hangup` | the network and the client |
| `ReadContinues`, `ReadEnds` | the handler of `do_read`: feed, then read again or end |
| `HandleRequest` and what it is made of | `handle_url`, `handle_header`, `handle`, `complete_request`, `do_write_sync`, inside `feed` |
| `TimerExpires`, `Tick` | the wait of `task_timer` and its `tick_handler` |

A client's bytes are abstracted to the requests they complete: a chunk is the
sequence of the requests whose last byte it carries. A request is a record with
the few things that change the way a connection goes on. An exception that
`remote_endpoint` throws in `handle` unwinds to the worker's loop; the connection
is then held only by its deadline, and the destructor closes the socket
(`Released`).

### HttpServer

One action for each step of a thread that another thread can see: the thread of
`run()`, the workers, `stop()` called from a signal (which runs on the accepting
thread: `stopper.by`) or from any thread, and `wait_for_server_start()`.
`accepting` is the worker of the connection that waits in `async_accept`; `live`
counts what the code does not keep, the `Connection` objects of each worker, to
compare `task_queue_length_pool_` with.

### HttpMessages and HttpParser

A token stands for the bytes between two places where a buffer's end matters. A
message is cut into tokens (`Wire`), the tokens into buffers (`Feed(n)`), and
`Execute` runs `http_parser_execute` over one buffer, calling back as the code
does, also at the end of the buffer with what is marked (`Leftover`). `Width` is
the width of `content_length` (64 in the code). The parser's `out` is what the
handler was given so far (`delivered`). `cutURL` and `cutUpgrade` are history
variables for two places where the code is sensitive to the cut. What the stream
should have given is said in two ways: by what the client meant (`Meant`), and by the
same parser fed with all that was read (`Consumed`) as one buffer.

### WebSocket

One action for each completion handler and each posted task; `send_*` and `close`
post tasks, from any thread. `op` is an outstanding read, `sending` the buffers
of an outstanding write, `alive` whether the object exists. `BuildHeader` and the
reading of the two-byte header are modelled by what they do to the numbers. The
header is read with `async_read_some`, which may give one of the two bytes:
`OneByteArrives` is that read. The missing byte stays 0, so the frame loses its mask
and its length, and the second byte begins whatever the reader takes the rest of the
stream for, one of `Misreadings`. `split` remembers that it happened, and `meant` what
the client had sent.

### Router

A tree is a record with its children; `AddTo` and `OptimizeNode` are `Trie::add`
and `Trie::optimizeNode`, `FindFrom` is `Trie::find`. Rules are added in any order
until `Validate`, which compresses the trees; then one request is answered.

### Json

Bytes are numbers and the buffer is a sequence, because the reader works in place:
the closing quote becomes 0, the opening quote says whether there are escapes, and
the first reading of a string replaces it (`InPlace`). The first `has` or `operator[]`
of an object sorts its members by their keys (`Ordered`, the flag is `cached`), as
signed chars compare, and then halves them (`LowerBound`). `MCJson` writes documents
in the styles that JSON allows, and with raw control characters, which it does not;
cuts them, adds to them or puts a zero byte behind them; takes every text of up to
five characters of numbers for a number; looks keys up and reads strings at any
time, and sends what `dump` writes through the reader again.

### Middleware and Sessions

An application is a list of `AppSize` middlewares, of which those in `Local` are
local; the first two are the cookies and the sessions, which are global. `Middleware`
says what is called: a rule's list is its own and that of
its blueprint, packed (`Indices`); a criterion walks along the application's
middlewares and its list (`Enabled`); a middleware that completes the response ends
the way, and those that were called are called again, backwards (`Turned`).

`Sessions` puts connections with their contexts around `SessionMiddleware`. `node` is
the heap of `CachedSession` objects (a shared pointer that nobody holds is a node
that is free again: `Counted`), `cache` is `cache_`, `stored` the store, `queue` the
`ExpirationTracker` and `index` the file of the times. `store` is one of the two
stores, chosen in `Init`. Every operation of the middleware takes its mutex, and
every operation on a node takes the node's, so each is one step.

| Action | Code |
|---|---|
| `Begin` (`BeginRefused`, `BeginPage`, `BeginUpgrade`) | `Connection::handle` up to the handler: the global middlewares, then `Router::handle_rule` |
| `Apply`, `Set`, `RemoveKey`, `RefreshExpiration`, `Mutex` | what a handler does with its `context` |
| `Finish` | `response::end`, `complete_request`, from whichever thread |
| `Missing` | `handle_url` of an unknown URL: `complete_request` without `handle` |
| `Reconnect` | the connection is freed, with its context |
| `Tick`, `Restart`, `Crash` | the clock; `~FileStore` and `FileStore`; a kill |

`truth`, `due`, `issued`, `fate` and `served` are history: what was written last, until
when a cookie promised the session, which ids clients have, what befell a session
(given back twice, never given back, expired, lost by a kill), and what was called
for the request that was answered last. A session holds one key, a number. The ids
of new sessions are taken in order, as they are random and do not repeat.

## 3. Properties

| Property | Kind | In words |
|---|---|---|
| `NoDangling` | invariant | no child pointer is expired; `validate_tree` always says "tree good" |
| `UniqueParent` | invariant | nobody is the child of two nodes |
| `TreeTerminates` | invariant | the recursion of `nodeToJson` ends, though a node may be made its own parent |
| `EdgesAgree` | invariant | memory and tables never name different parents of a node |
| `RowsAreCached` | invariant | the ends of every row the session sees are in the map |
| `TreeInv` | invariant | the inductive invariant of the proofs; its first part, `TypeOK`, is the type invariant |
| `CallsReturn` | liveness | a call ends, or the process does |
| `TransactionInv` | invariant | between calls nothing is uncommitted (`NoOpenTransaction`), and an open transaction holds the work of one call, which leaves no child without its parent |
| `RemovalOrphansNothing` | action | no commit takes away an object that has children |
| `StoreSpec` | refinement | the committed tables behave as `InventoryStore` |
| `CacheCoversDatabase` | invariant | between calls, as long as the session is there, what is committed is in memory with its edges |
| `ShownIsCommitted` | invariant | likewise, `/api/tree` shows what is committed and no more; and no less, but for what is below a node that is its own parent |
| `AddReturnsDurable` | action | likewise, a returned id is committed with its relationship |
| `AcknowledgedSurvive` | invariant | what a client was given stays until its removal is asked for |
| `AnswersInOrder` | refinement | a connection behaves as `HttpService`: answers once, in order, none after the close |
| `RequestsAreAnswered` | liveness and action | a request that arrived is answered or its connection ends; and a connection ends before only by its deadline, by its client, behind a request that asked to close or has no rule, or in front of an upgrade that is refused |
| `OpenIsServed` | invariant | an open socket is being read or has a handler queued; never is it kept by its deadline only |
| `NoForgottenDeadline` | invariant | a deadline in the timer is the one its connection would cancel |
| `CloseIsHonoured` | action | a connection is read again, or is over, as its last request asked |
| `LengthCounts` | invariant | the counter of a worker is the number of its connections |
| `LoadsStayClose` | invariant | while no connection has ended, no worker has more than two connections more than another |
| `StartedMeansAccepting` | invariant | after the start was announced clients are accepted |
| `FailureIsReported` | liveness | a failed start releases whoever waits for it |
| `StopEndsRun` | liveness | `stop()` ends `run()` |
| `CutsAreInvisible` | invariant | wherever buffers end, the handler sees what the client meant |
| `CutsChangeNothing` | invariant | wherever buffers end, the handler was given what one buffer with all of it would have given |
| `LengthIsTrue` | invariant | what is left of a body is the number that was sent less what came |
| `MessagesAsSent` | invariant | messages come whole, once and in order, unless a read got half a header |
| `NothingOutstanding` | invariant | a websocket is deleted only when no read or write is outstanding |
| `CloseIsReported` | invariant | it is not deleted before its close handler was called; a clean close is reported once |
| `FramesAreSized` | invariant | the header of a frame tells its size |
| `GoneIsDeleted` | liveness | a websocket whose client is gone is deleted, but for one case that is named |
| `AnswerIsDue` | invariant | a request gets what the rules, read one by one, would give it |
| `OnlyWholeTexts` | invariant | a body is loaded exactly when it is one whole document, not nested too deep; anything may follow a zero byte, control characters may stand in strings, digits may lack behind a point or the sign of an exponent, and an exponent directly after a zero is refused |
| `ReadsAreMeant` | invariant | every reading of a string gives what was written, and a key is found exactly if it is there |
| `SessionsAreKept` | invariant | a session holds what was last written to it, in the cache or in the store, unless it expired, was lost by a kill, or a 404 gave it back twice |
| `CachedWhileInUse` | invariant | requests of one session share one node, which is in the cache while one of them uses it, and no longer, but for references that an upgrade or an exception never gave back |
| `ExpiryIsKept` | action | the file of a session is deleted only after the time its last cookie promised |
| `CallsAreNested` | invariant | whoever answers, the middlewares that are called before are called after, once, the other way round |

Two more are stated by a text of the repository and violated by the code
(`findings` in `PROJECT.json`): `SiblingsKeepParent` and `IgnoredUpgradeKeepsBody`.

Every property of a passing run has a mutant: a changed definition, as a
plausible bug would change it (the commit is forgotten, the cascade is missing,
the check for children is dropped, the child is not unlinked, every node is
taken for a root, the id is off by one, there is no rollback; a deadline is not
cancelled, a flag is cleared too early, an overflow is not checked, a connection
is deleted while it reads), under which TLC finds it violated. The mutated forms stand before the definitions they change.

## 4. Runs

| Run | Faults | Start | What it shows |
|---|---|---|---|
| `tree` | all three | empty, 4 ids | the tree and the tables are well formed and agree, whatever fails; calls end |
| `store` | connection, crash | the rows of `mySQLref.sql`, 7 ids | the tables change by whole operations, nothing is left open; memory, `/api/tree` and tables agree between calls, and adds are durable, while the session is there |
| `routes` | crash, statement | empty, 3 ids | what clients were told survives, with bodies of every shape |
| `siblings` | none | a family of three | *violated*: a removal detaches the siblings |
| `connection` | clients vanish, deadlines | two connections, up to 3 chunks | answers, deadlines and closing, in every interleaving of clients, handlers and timer |
| `server` | start fails, accepts fail | 3 workers, 4 clients | counting, spreading, starting, stopping |
| `parser` | buffers end anywhere | 7 messages alone, 7 x 24 pairs | the handler sees what was meant, and what it would see without the cuts; lengths |
| `websocket` | client vanishes, half headers | 5 scripts, 2 messages out | reading, closing, deletion |
| `routing` | | up to 3 of 10 rules in any order, 15 URLs, 4 methods | the compressed trees answer as the rules do |
| `json` | texts cut or extended, bad numbers | 9 documents in 12 styles, 9330 numerals | looking up, reading and writing |
| `sessions` | kills, restarts, exceptions, clients that go | 2 connections, 2 sessions, 3 requests, either store, 5 middlewares of which 2 are local, with a global one between them | sessions that requests share, their stores and expiration; the order of middlewares |
| `upgrade` | buffers end anywhere | as `parser` | *violated*: a buffer that ends after the h of `Upgrade: h2c` |

Why the fault sets differ: each property is checked under the largest set of
faults under which it holds. A statement that fails on a healthy session breaks
`TransactionInv` (after LAST_INSERT_ID) and `RemovalOrphansNothing` (after
`removeChild`); a lost session breaks what says that memory has nothing the
tables do not have, because the commit is not checked (`CacheCoversDatabase`,
`ShownIsCommitted` and `AddReturnsDurable` speak of the time before that). The two runs
marked *violated* show the shortest histories in which the code does otherwise than a
message or a comment of its own says (`findings` in `PROJECT.json`).

**Bounds.** `MaxId` bounds the AUTO_INCREMENT counter (the guard of
`CallAddNode`); nothing else is bounded. Four ids allow a grandparent, a parent
and two children, with one add failed between; the faults may come at every
statement, any number of times, since a process can be restarted without limit.
Seven ids from the five seed rows leave two adds and every order of removals.
Two names are enough, one that MySQL accepts and one that it refuses; the routes also
see the empty one. `SerialRules` is what MySQL may make of a row without a serial; the
runs have all three (strict mode refuses it, otherwise its serial is blank and the next
such row is refused, or the column has values of its own), and any INSERT may meet any of
them. `IntBits`
and `LongBits` (4 and 6) are small so that narrowing and saturation occur among
the `Numbers`: 17 narrows to 1, 100 and -100 saturate.

For Crow: `MaxChunks` bounds what a client sends; one connection sends two chunks
that hold up to two requests each (pages with and without body, a missing route,
a missing Host, 100-continue, a streamed body, an upgrade), the other one a
static file, which is enough for identifiers to be given to the second connection
while the first still holds them. `Timeout` is 1 tick, so that deadlines fire at
every point. `MaxConns` is one more than the workers, so that a second connection
has to be placed. `Width` is 8, so that lengths of three digits are at, below and
above what the counter holds. `MaxPayload` and `BufferSize` (200 and 128) put a
payload on either side of the buffer and of the limit; `Sizes` are those on both sides of
where the header changes. A half header comes at most once, and what the rest is
then taken for is one sequence of frames, a message that nobody sent and a close
that is too long; the theorems are for any `Misreadings`. `MaxRules` is 3: a prefix, an extension and a parameter that
competes with both. One request is made for each set of rules, since a request
changes nothing in the router. `MaxDepth` is 5, which allows two levels, as the
code counts each level twice, and refuses three. `NumberLength` is 5, enough for every
pair of a sign, a zero, a point and an exponent with or without digits. Three requests in all let two
overlap on one session that a first one created, and let a connection that has
used a session go on to an unknown URL; the connections are symmetric. `Lifetime` is
1 and `MaxTime` 2, so that a session expires, is refreshed just before, and meets a
restart on either side; `MaxEvictions` is 1 (the code's is 3), so that not all that
has expired goes at once. `MaxValue` is 2, so that two writes can be told apart.

**Deadlock** is checked in the runs of the tree and of the routes: a served
process can always be stopped and a stopped one started. The runs of Crow end:
clients have sent all they may, the server has returned, the stream is read, the
clock has reached its bound. Where they wait for anything, the liveness properties say that they do not end too early.

**Fairness.** `FairSpec` asks for weak fairness of `Work`, the steps that the
worker thread takes by itself once it has a call or is loading. The code
justifies it: a handler runs to its end on a thread of its own, no step waits
for another client, and the connector returns from each statement with a result
or an exception. It is *not* assumed that clients call, that a process that
ended is started, or that anything fails. A server that keeps the connection
open without ever answering is outside this assumption.

`HttpConnection` asks for weak fairness of `Worker` (the thread runs whatever is
queued) and of nothing else: not of clients, the network or the clock.
`HttpServer` asks that every thread goes on: the one of `run()`, each worker that
can start or exit, a `stop()` that was called, a waiter that was notified.
`WebSocket` asks that the `io_context` runs what is ready; that a write or a read on
a socket whose peer is gone completes is TCP's promise.

## 5. Proofs

`TreeProofs` proves, for every `MaxId`, every seed that is a forest, every set of
names and **every set of faults**:

| Theorem | Statement |
|---|---|
| `InvariantHolds` | `Spec => []TreeInv` |
| `TypeCorrect` | `Spec => []TypeOK` |
| `NeverDangling` | `Spec => []NoDangling` |
| `NeverTwoParents` | `Spec => []UniqueParent` |
| `RowsStayWellFormed` | `Spec => []OneParentRow` |
| `TreeAgreesWithTables` | `Spec => []EdgesAgree` |

The assumptions are those on the constants: `MaxIdAssumption` (a positive
bound), `FaultsAssumption`, `NamesAssumption` and `SeedAssumption` (the seed is a
forest on the first ids; a table with two parent rows for an object would make
the claims false at once, and the schema does not exclude it).

**The argument.** None of the properties is inductive by itself. `NoDangling`
needs, when `RemoveObject` takes a node out of the map, that nobody has it as a
child. `removeChild` unlinked it from *one* parent, the one of the row; that it
had no other is `EdgesAgree`: a child in memory that has a row has that row's
parent. `EdgesAgree` survives an add because the id is new, neither in a row nor
a child (`UnusedIds`, carried through the phases by `PhaseOK`), and a reload
because a child has one row (`OneParentRow`). `TreeInv` is the conjunction, with
`PhaseOK` saying what each statement finds when it runs.

**The layout.** First, what the four statements that change rows keep
(`ObjectInserted` ... `ObjectDeleted`). Then two lemmas that carry most actions:
`SessionStepShrinks` and `DeleteShrinks` (a step that adds no row, `TablesShrink`)
and `ForestShrinks` (with no new row, node or edge the forest stays a forest).
Then a lemma for each action that adds something, for the removal steps and for
loading, and `NextKeepsTreeInv`, which puts them together.

**Transactions.** `TreeProofs` also proves, for every `MaxId`, seed and set of
names, under `NoStatementFails` (a statement fails only when its session is lost;
connections may be lost and the process killed anywhere):

| Theorem | Statement |
|---|---|
| `TransactionsHold` | `Spec => []TransactionInv` |
| `NothingLeftOpen` | `Spec => []NoOpenTransaction` |
| `NothingOrphaned` | `Spec => RemovalOrphansNothing` |

The assumption cannot be dropped: with `"statement"` among the faults the DELETE
may fail after the child was unlinked in memory, and the parent, which then has no
children in memory, can be removed while it has one in the tables. `TransactionInv` says what the open transaction
holds in each phase, and that every committed row is linked in memory while the
session is there, but for the edge of the child that is being removed. That is
why the check for children, which reads memory, is enough: a row that named the
node as a parent would be a child of it in memory (`RemoveSelect`). That the
DELETE `WHERE parent_id = ...` does not bring the tables and memory apart needs
`OneParentRow` of `TreeInv`: the rows that it leaves are not those of the child.
Once the session is lost, all that is left to say is that nothing is open; memory
may then lack edges for good, until the process is restarted.

**The store.** Under the same assumption, `StoreIsImplemented` is `Spec =>
Store!Safety`. `TransactionShape` says what the open
transaction makes of the committed tables after each statement (one object more, then
at most one row more; one family of rows less, then one object less); with it the
statement that commits is `CommitAdd` or `CommitRemove` of the store. Every other step
leaves the committed tables and either keeps the reserved id or gives it up
(`NothingCommitted`). The fairness of the store stays with TLC.

**Memory as a cache.** The first two of these theorems hold for all faults, the others
under `NoStatementFails`:

| Theorem | Statement |
|---|---|
| `RowsAlwaysCached` | `Spec => []RowsAreCached` |
| `ReadingTerminates` | `Spec => []TreeTerminates` |
| `CacheIsComplete` | `Spec => []CacheCoversDatabase` |
| `AddsAreDurable` | `Spec => AddReturnsDurable` |
| `TreeShowsTheTables` | `Spec => []ShownIsCommitted` |

`RowsInv` follows rows through the two windows in which they may join ids that are
not in the map: a removal takes the node out of the map before its COMMIT, and
`addNode` inserts the row before it looks for the parent in the map (when the parent
is missing there the row is rolled back). `ObjectsInv` does the same for objects, and
carries from the INSERT to the last statement of `addNode` what that statement is
about to commit.

That the recursion of `nodeToJson` ends rests on `ParentsOlder`: `addNode` takes any
int for a parent, also that of a node which does not exist yet, but such a row is
refused or rolled back; so a parent below the super root is older than its child, or
the child itself. `TreeShowsTheTables` needs besides that the super root is in the map
(`RootInv`), and that the edges in memory join what is committed or about to be, and
leave out nothing of it but the object that is being removed (`LinksInv`).

**The routes.** `RoutesProofs` proves:

| Theorem | Statement | Under |
|---|---|---|
| `RoutesUseTheManager` | `RoutesSpec => Spec` | no assumption |
| `AcknowledgedStays` | `RoutesSpec => []AcknowledgedSurvive` | `SessionLasts` |

The first carries every theorem about `Spec` over to what clients can do. The second
assumes that the session lasts as long as the process, because the routes answer 201
for an id whose COMMIT was lost with the session; statements may fail and the process
may be killed. `AckInv` says that what was acknowledged is committed and has not left the
open transaction either, that the id of a removal in progress is acknowledged no more,
and that an add has its object in the transaction from the id it reads to the COMMIT.

**Crow.** Five modules, each for every value of its constants (any number of
workers, connections, requests, chunks, streams, scripts, sizes):

| Theorem | Statement | Module |
|---|---|---|
| `QueuesAreCounted` | `Spec => []LengthCounts` | `ServerProofs` |
| `SpreadsTheLoad` | `Spec => []LoadsStayClose` | `ServerProofs` |
| `AnnouncedIsAccepting` | `Spec => []StartedMeansAccepting` | `ServerProofs` |
| `DeadlinesAreHeld` | `Spec => []NoForgottenDeadline` | `ConnectionProofs` |
| `ConnectionInvHolds` | `Spec => []ConnectionInv` | `ConnectionProofs` |
| `OpenAlwaysServed` | `Spec => []OpenIsServed` | `ConnectionProofs` |
| `ClosesAreHonoured` | `Spec => CloseIsHonoured` | `ConnectionProofs` |
| `ServiceIsImplemented` | `Spec => AnswersInOrder` | `ConnectionProofs` |
| `CutsAreHarmless` | `Spec => []CutsChangeNothing` | `ParserProofs` |
| `DeletedWhenIdle` | `Spec => []NothingOutstanding` | `WebSocketProofs` |
| `ClosesAreReported` | `Spec => []CloseIsReported` | `WebSocketProofs` |
| `FramesTellTheirSize` | `Spec => []FramesAreSized` | `WebSocketProofs` |
| `MessagesArrive` | `Spec => []MessagesAsSent` | `WebSocketProofs` |
| `SessionsAreShared` | `Spec => []CachedWhileInUse` | `SessionProofs` |
| `WritesAreKept` | `Spec => []SessionsAreKept` | `SessionProofs` |
| `PromisesAreKept` | `Spec => ExpiryIsKept` | `SessionProofs` |
| `CallsNest` | `Spec => []CallsAreNested` | `SessionProofs` |

Their assumptions say what the constants are: there is a worker
(`WorkersAssumption`), the timeout is a number (`TimeoutAssumption`), chunks are
sequences of requests (`ChunksAssumption`), what a client sends is a sequence of
tokens (`ClientsAssumption`), scripts are sequences of frames, and the
sizes that the program sends and its limit fit a `size_t` (`WebSocketAssumption`; what
follows half a header are frames too, because any bytes are),
connections are finitely many and bounds are numbers (`SessionsAssumption`), an
application begins with the cookies and the session and its local middlewares come
after them (`MiddlewaresAssumption`), rules name local middlewares and only the cookies
or a local one answers instead of the handler (`RequestsAssumption`: `push` asserts the
first, and the second is what the code of the two modelled middlewares does). A frame
of a client (`ClientFrames`) states a length that its field can hold; a length in the
header *is* what the field holds, so no frame is left out.

*Server.* `LengthCounts` needs `StartOrder`: a worker that has not yet set its counter
to 0 means that nobody accepts yet. `LoadsStayClose` rests on `PickIsLeast`: the loop of
`pick_io_context_idx`, a function of the workers it has looked at, keeps the shortest
queue so far (by induction), and its early end, at a queue of length 0, leaves out nothing
shorter. The queue it finds is that of the time of the choice, when a connection whose
accept failed may still be counted, so `Spread` says that the chosen worker has at
most one connection more than another, and two after the client came. That
connections have ended is told by the sum of the queues (`SumOfOneMore`).
`StartedMeansAccepting` needs what `stop()`
has done by each of its steps (`StopOrder`).

*Connection.* `NoForgottenDeadline` is inductive with the types of the timer
(`DeadlineInv`): the reset of the identifiers is harmless because it comes only when no
task is left. It is also what keeps sockets from being left open: a connection whose
reading ends holds the identifier of its own deadline, if any, and of no other.
`ConnectionInv` adds that a connection waits for one handler at a time, its read or a
queued event (`OneHandler`), and that an open one is between two messages and has
answered all that it has read, while what has arrived beyond is in the event that it
waits for (`AnswersInv`). What one read does to a whole chunk is the function `Feed`;
the proof unfolds it one request at a time, with what holds between two requests. From
it come the steps of `HttpService`: the answers to a chunk are the requests of the chunk
in their order, all of them or, when the connection closes, the first of them.

*Parser.* `CutsChangeNothing` compares two parsers: the one that was left at the end of
every buffer and entered again, and one that reads the same tokens in one buffer.
Neither what the client sends nor what it means by it restricts the theorem: the tokens
may come in any order, good or bad. Within a buffer the two go token by token, `Alike`:
equal in every member, except that of a name or a value in progress the first one has
reported a part already, and has it in `field` or `value` where the other still has it
marked. That the callbacks join the parts again is `FieldJoins` and `ValueJoins`; that
the two then take like steps is shown state by state (`Shape` says of the uncut parser,
and `Well` of either, what each state keeps: only in a URL, a name or a value is
anything marked, and `header_building_state` of the uncut one tells in every state
which of the two comes next). The next token in the buffer, which is missing at a cut,
matters after the h of an Upgrade and nowhere else (`NextMatters`): this is
`cutUpgrade`. What is reported at the end of a buffer keeps the
two alike (`LeftoverStaysAlike`), except in a URL: this is `cutURL`. Behind an upgrade
the uncut parser reads no further and what the other is given only grows (`Grows`), so
that there one is a prefix of the other. `IInv` is: what was read is the beginning of
the stream (`ReadsInOrder`), the parser is well between two buffers (`KeepsWell`), and
the two are alike, or the uncut one is past an upgrade, or the stream is over, inside a
URL perhaps, and both have given out the same (`ReadsAsUncut`).
It carries over a buffer by induction on the number of its tokens (`BufferIsRead`).

*Websocket.* `NothingOutstanding` needs `Held`: an outstanding read is counted in
`is_reading`, and either a read or a write keeps the connection alive; its lemmas go
through the functions of the connection one by one. `FrameInv` says of the members what
the other two theorems need. `Reported`: whoever deletes the connection has called the
close handler, or it was called before, and a code that means a clean close sets
`is_close_handler_called_`. `SizedFrames`: whatever waits or is sent has a header that
tells its size. That holds of `build_header` for sizes below 2^64 only, and the client
chooses the size of a pong and of the answer to a close; so `Limited` and `Bounded`
follow `remaining_length_` and the fragment from the header that announces them, past
the check against `max_payload_bytes_`, to the frame that is sent back.

`MessagesAsSent` compares the messages that the program was given with what the client
means by its script: `Messages(n)` are those that end by the n-th frame, `Content` the
frames with data of one of them. A script is of any length and its frames are read in
any pieces, so the invariant says where the reader is in it: `MessageInv` is that
whatever was handed over is exactly `Messages(next - 1)`, that `message_` is the
content since the last frame that ended one, and that the fragment is the part of the
frame that has been read (`Begun`), unless the connection stopped reading. The proof
that a frame takes `Messages(n)` to `Messages(n + 1)` goes through `Those`, the
ascending list of a set of numbers: what it is for one number more is its definition,
and that numbers above its end do not change it is proved by induction. A frame that is
over the limit is never handed over, nor is anything behind it (`Readable`). After half a
header (`split`) the theorem claims nothing of the messages, and TLC shows at once
why (without `~split` the property is violated); the other theorems of the module hold then, too: to them the frames that the
reader makes of the rest are frames like others.

*Sessions.* The reference count is the heart. `HeapInv` says that a request in progress
uses the node that the cache has for its session (`UsedIsCached`), that the referrers of
this node are as many as those requests (`ReferrersCount`), and that a new session, which
has no id and is not in the cache, belongs to one request (`NewIsUnshared`). When the
last referrer takes the node out of the cache, another user of it would make two of them,
against a count of at most one. `HeapStep` is the step of one connection in general,
and says what is left to show of a particular one; sharing, loading, leaving, giving
back, issuing an id, changing and dropping are its seven cases. The two fates are what
they have to be: after a 404 spoiled a session none of this holds of it, after an
upgrade or an exception leaked it the count is too high, and the session stays in the
cache for good. That there is a free place in the heap for a new node is counted in
`FreeNodeIsFree`. `Keeps` then says where the value of a session is: in its node while it
has one; else in the store; and in both, when the store is a file and the node is not
dirty, because a clean node is not written. `QueuedAsDue` says that the tracker has the
promised times.

*Middlewares.* `CallsAreNested` is about the calls of a finished request: they pair like
parentheses. The proof has two halves. One is about lists. A set of numbers has exactly
one ascending list (`AscendingLists`), so that `InOrder` is well defined, and the slider
of `middleware_call_criteria_dynamic`, which compares only the *next* entry of its list,
lets through the whole of an ascending list when it walks forwards along the application
and the whole of the reversed list when it walks backwards: that is where `pack()` is
needed, and the mutant that only merges the lists breaks it. So the calls of
`before_handle` and those of `after_handle` come from the same list, cut at the same
place. The other half is about nests: surrounding a nest with the calls of one list and
their mirror makes a nest, and so does one nest after another, which is how a middleware
that answers (`Turned`) and the two helpers, global and local, compose. `CallsInv` adds
what a request in progress has called: the global middlewares and those of its rule, up
to where it is.

**Only model-checked:** liveness, and the fairness part of the refinement of
`InventoryStore`; what the parser makes of a stream (`CutsAreInvisible`, `LengthIsTrue`;
that it does not depend on the cuts is proved): they compare it with what the client
meant, which is put together from messages, headers and chunks by folds; and the router
(`AnswerIsDue`) and JSON (`OnlyWholeTexts`, `ReadsAreMeant`), whose
operators are recursive over the structure of their input: the nodes of a tree, the
values in a value. A recursive *function* of a number or of a set
(the levels of the tree, `Feed`, `Execute`, the slider, `Those`) can be reasoned about: that it
exists, and then its values by well-founded induction over a set of numbers
(`Recursions`). RECURSIVE operators and the folds of the community modules cannot,
because the theorems about them take an operator as a parameter.

## 6. Observed, without a run

In the program:

* After a refused INSERT, or a removal of a node without a parent row, a call
  returns with autocommit off (the comment at `include/DataSyncMagnr.cpp:126`
  speaks of re-enabling it). `NoOpenTransaction` shows why this does no harm by
  itself: the next call starts by turning it off.
* A refused add leaves its node in the map for good. `NoDangling` and
  `ShownIsCommitted` show that it is never seen; the map grows.
* A removal whose DELETE fails leaves the edge out of memory: the parent may then
  be removed although it has a child in the tables.
* `main.cpp:23` reports a "server error" when there is no connection, but the
  constructor, which runs before `main`, has then already dereferenced a null
  pointer.
* `/api/add_node` and `/api/remove_node` answer 201 whatever the call returned, and
  an id of an add whose COMMIT was lost with the session is given out all the same.
* `mySQLref.sql` gives `objects` a column `serial` that is NOT NULL UNIQUE and has no
  default; `addNode` inserts a name only. On that schema no add succeeds in MySQL's
  strict mode, and outside it only while no other row has a blank serial
  (`SerialAccepted`). The client is told "Node added successfully" all the same, with
  id -1. The theorems hold for any `SerialRules`. (The file is no SQL as it stands: its
  blanks are missing.)
* A number that does not fit an int is narrowed without notice, so that a request
  may act on another node than the one it names. No text of the repository says
  which numbers are accepted.

In Crow, as modelled:

* Connection. A deadline that has fired leaves its identifier with its connection,
  which may later cancel another connection's deadline. After a 404 for an unknown
  URL the connection ends. HTTP/1.1 with `Connection: close` is answered with a
  Keep-Alive header. A request pipelined behind one that asked to close overwrites
  `close_connection_`. A HEAD request without Host leaves `skip_body` for the next
  request. A HEAD request for a static file or a missing route gets a body.
* Server. `stop()` before the workers exist leaves `run()` waiting for them, and
  before there is a server does nothing. `wait_for_server_start` reports a failed
  start as it reports a successful one.
* Parser. A URL that is split over two reads is answered with 404 (`cutURL`). A
  header with an empty value is dropped unless it is the last. The first of two
  trailers ends among the headers.
* Websocket. The close handler may be called more than once for a connection that
  is lost. A message that is too long leaves `is_reading` set, and the connection is
  never deleted. A read that gets one byte of a header makes the program be given
  messages that nobody sent, or lose some: `OneByteArrives`, which `MessagesAsSent`
  excludes by name. The code expects two bytes, "asio bug?" (`websocket.h:386`), but
  checks it only with `CROW_ENABLE_DEBUG`.
* Router. OPTIONS always lists HEAD ("HEAD is always allowed", `routing.h:1601` and
  `:1630`), also for a URL that only POST has, where HEAD gets 404 (`:1582`). A rule
  that is registered for OPTIONS is never called; a rule that redirects
  goes before any other.
* Sessions. A request for an unknown URL runs `after_handle` with the context of the
  connection's previous request, which is only replaced in `handle()`
  (`http_connection.h:119` and `:145`). The session of that request is then saved a
  second time: the store in memory loses its entries, which were moved out by the
  first saving, and the store in files writes old entries over newer ones. The
  comments at `session.h:443` and `:446` say "A load is always followed by a save, no
  loads happen consecutively" and "load & stores happen sequentially, so moving is
  safe". `SessionsAreKept` excludes these sessions by name. An upgrade, and a local
  middleware that throws, never give their session back: it stays in the cache and
  is not saved again, and in the second case the request is never answered, because
  `handle_rule` has replaced the handler that would do it (`routing.h:1731`).
* Sessions in files. A session that is written again after its file was evicted has
  a file without a time, which is never deleted. The times are those of a
  `steady_clock` and are kept across restarts of the machine. `next_id()`, which would
  look whether an id is taken, is never called, and nothing sets
  `requested_session_id`.
* JSON. What `OnlyWholeTexts` names: behind a zero byte a body may go on with anything,
  `1.` and `1e-` are accepted as numbers and `0e5` is not, control characters are
  accepted in strings. A surrogate pair becomes two sequences of three bytes.

## 7. Not modelled

* **Crow connection:** handlers that complete their response later, from another
  thread (no rule of the program does), and with them the streamed response that
  waits; TLS and unix sockets; compression.
* **Crow parser:** responses, folded header lines, the limit on the size of headers,
  which characters a token may have.
* **Crow websocket:** the choice of a subprotocol, the masks, the handshake's hash. The
  program registers no websocket, so `stop()` closes none.
* **Crow routing:** blueprints, and the templates that turn parameters into arguments;
  rules added after `validate()`.
* **Crow JSON:** how a double is written; copies of a value that share its buffer;
  duplicate keys, which the first lookup may put in either order; `has` of a list, which
  sorts it by keys it does not have; comparison and iteration.
* **Crow middlewares:** CORS and UTF-8, which set headers; the attributes of cookies
  and the parsing of their text; errors of the file system and the JSON of a
  session's file.
* **The rest of Crow**, which the program does not use: mustache templates, multipart
  bodies, query strings. They are sequential transformations of text.
* **The connector and MySQL** beyond `MySQLDB.tla`: other sessions (nobody else
  writes the tables), deadlocks and isolation between sessions, a crash of the
  database server. More than half of the repository's lines are the connector's
  headers (`mysql_connector_cpp/include`): declarations of a library of which the
  program uses one class of JDBC, and none of the X DevAPI, and whose code is
  binary. There is no behaviour in them to model.
* **Names**: what a quote or a backslash in a name does to the statement is
  abstracted to "accepted" or "refused"; that the stored text may differ from the
  text in memory is not modelled.
* **Environment variables** that are missing, memory exhaustion, log output.
* The two files that are not built.

## 8. Plan

Done: 1 `MySQLDB`, 2 `DataSyncMagnr` with `TreeProperties`, 3 `InventoryStore` and
its refinement, 4 `Routes`, 5 `TreeProofs` and
`RoutesProofs`, 6 `HttpConnection`
with its timer, its abstract service and `ConnectionProofs`, 7 `HttpServer` and
`ServerProofs`, 8 `HttpParser` and
`ParserProofs`, 9 `WebSocket` and `WebSocketProofs`, 10 `Router`,
11 `Json`, 12 `Middleware`, `Sessions` and `SessionProofs`.

Next, in this order:

1. `CutsAreInvisible` for any messages. After `CutsAreHarmless` it is left to show for a
   stream in one buffer, with an invariant that relates the state of the parser to its
   place among the tokens of the stream.
2. A second session that writes the tables (an operator who runs SQL by hand):
   the branches that `RowsAreCached` shows to be dead come to life.
3. Names as data: the text that MySQL stores for a quoted name and the text in
   memory, and what a reload shows.
4. Query strings and multipart bodies, as readers checked against a writer like `Json`.
