----------------------------- MODULE HttpServer -----------------------------
(***************************************************************************)
(* crow::Server (crow/http_server.h) under crow::Crow (crow/app.h): one     *)
(* thread runs the application, each worker has an io_context and a thread *)
(* of its own, another thread may wait for the start, and stop() comes      *)
(* from a signal, in the thread that accepts, or from any thread.          *)
(***************************************************************************)
EXTENDS Integers, FiniteSets

CONSTANTS WorkerCount,     \* worker_thread_count, concurrency_ - 1
          MaxConns         \* bound: connections accepted in all

ASSUME WorkersAssumption == WorkerCount \in Nat \ {0}

Workers == 1 .. WorkerCount
None    == 0              \* no worker
Main    == 0              \* the context that accepts, among the contexts

VARIABLES
  run,               \* where run() is
  startup_failed,    \* startup_failed_, set by the constructor of Server
  app_started,       \* server_started_ of Crow
  server_started,    \* server_started_ of Server
  worker,            \* each worker's thread: "none", "created", "running", "exited"
  length,            \* task_queue_length_pool_: unsigned, one for each worker
  accepting,         \* the worker of the connection that waits in async_accept
  live,              \* Connection objects that have been accepted, by worker
  accepted,          \* how many there have been
  shutting_down, acceptor_open, stopped,   \* stopped: io_contexts that were stopped
  stopper,           \* where stop() is; who calls it
  waiter             \* where wait_for_server_start is

startVars == <<startup_failed, app_started, server_started>>
loadVars  == <<length, accepting, live, accepted>>
stopVars  == <<shutting_down, acceptor_open, stopped, stopper>>
vars      == <<run, worker, waiter, startVars, loadVars, stopVars>>

Init ==
  /\ run = "called" /\ waiter = "waiting" /\ stopper = [at |-> "idle", by |-> "none"]
  /\ startup_failed = FALSE /\ app_started = FALSE /\ server_started = FALSE
  /\ worker = [w \in Workers |-> "none"]
  /\ length = [w \in Workers |-> 0] /\ live = [w \in Workers |-> 0]
  /\ accepting = None /\ accepted = 0
  /\ shutting_down = FALSE /\ acceptor_open = FALSE /\ stopped = {}
-----------------------------------------------------------------------------
(* The thread of run().                                                     *)

\* Crow::run: an address that cannot be read ends it before there is a server.
BadAddress ==
  /\ run = "called" /\ run' = "returned"
  /\ UNCHANGED <<worker, waiter, startVars, loadVars, stopVars>>

\* Server::Server, any of whose calls on the acceptor may fail.
Construct ==
  /\ run = "called" /\ run' = "constructed"
  /\ startup_failed' \in BOOLEAN /\ acceptor_open' = ~startup_failed'
  /\ app_started' = TRUE
  /\ UNCHANGED <<server_started, worker, waiter, loadVars, shutting_down, stopped, stopper>>

RunAborts ==
  /\ run = "constructed" /\ startup_failed /\ run' = "returned"
  /\ UNCHANGED <<worker, waiter, startVars, loadVars, stopVars>>

\* The contexts and the threads of the workers.
CreateWorkers ==
  /\ run = "constructed" /\ ~startup_failed /\ run' = "created"
  /\ worker' = [w \in Workers |-> "created"]
  /\ UNCHANGED <<waiter, startVars, loadVars, stopVars>>

\* pick_io_context_idx: a later worker takes the place of the best so far if its
\* queue is shorter, until the best has none.
PickBusiest ==
  LET best[w \in Workers] ==
        IF w = 1 THEN 1
        ELSE LET b == best[w - 1]
             IN  IF length[b] > 0 /\ length[w] > length[b] THEN w ELSE b
  IN  best[WorkerCount]
PickWorker ==
  LET best[w \in Workers] ==
        IF w = 1 THEN 1
        ELSE LET b == best[w - 1]
             IN  IF length[b] > 0 /\ length[w] < length[b] THEN w ELSE b
  IN  best[WorkerCount]

Minus(counts, w) == IF w = None THEN counts ELSE [counts EXCEPT ![w] = @ - 1]

\* do_accept: the connection exists, and is counted, before it is accepted.  A
\* connection that the handler still holds is freed when the handler returns.
DoAccept(held) ==
  IF shutting_down
  THEN accepting' = None /\ length' = Minus(length, held)
  ELSE /\ accepting' = PickWorker
       /\ length' = Minus([length EXCEPT ![PickWorker] = @ + 1], held)

\* The spinning on init_count, and the first do_accept.
NotWaiting == run = "created"
AllInitialised == \A w \in Workers : worker[w] # "created"
StartAccepting ==
  /\ run = "created" /\ AllInitialised /\ run' = "accepting"
  /\ DoAccept(None)
  /\ UNCHANGED <<worker, waiter, startVars, live, accepted, stopVars>>

ReadyEarly == run \in {"created", "accepting"}
Ready == run = "accepting"
NotifyStart ==
  /\ Ready /\ ~server_started /\ server_started' = TRUE
  /\ UNCHANGED <<run, worker, waiter, startup_failed, app_started, loadVars, stopVars>>

Looping == run = "accepting" /\ server_started /\ Main \notin stopped

\* async_accept completes with a client: it is given to its worker ...
AcceptClient ==
  /\ Looping /\ accepting # None /\ acceptor_open /\ stopper.by # "signal"
  /\ accepted < MaxConns /\ accepted' = accepted + 1
  /\ live' = [live EXCEPT ![accepting] = @ + 1]
  /\ DoAccept(None)
  /\ UNCHANGED <<run, worker, waiter, startVars, stopVars>>

\* ... or with an error, and the connection is destroyed.
AcceptFails ==
  /\ Looping /\ accepting # None /\ stopper.by # "signal"
  /\ DoAccept(accepting)
  /\ UNCHANGED <<run, worker, waiter, startVars, live, accepted, stopVars>>

\* io_context_.run returns, and the futures of the workers are waited for.
RunReturns ==
  /\ run = "accepting" /\ server_started /\ Main \in stopped
  /\ stopper.by # "signal" \/ stopper.at = "done"
  /\ \A w \in Workers : worker[w] = "exited"
  /\ run' = "returned"
  /\ UNCHANGED <<worker, waiter, startVars, loadVars, stopVars>>
-----------------------------------------------------------------------------
(* The workers.                                                             *)

WorkerStarts(w) ==
  /\ worker[w] = "created" /\ worker' = [worker EXCEPT ![w] = "running"]
  /\ length' = [length EXCEPT ![w] = 0]
  /\ UNCHANGED <<run, waiter, startVars, accepting, live, accepted, stopVars>>

\* The last reference to a connection goes: ~Connection.
ConnectionEnds(w) ==
  /\ worker[w] = "running" /\ w \notin stopped /\ live[w] > 0
  /\ live' = [live EXCEPT ![w] = @ - 1]
  /\ length' = [length EXCEPT ![w] = @ - 1]
  /\ UNCHANGED <<run, worker, waiter, startVars, accepting, accepted, stopVars>>

\* The timer keeps run() of a worker busy until its context is stopped.
WorkerExits(w) ==
  /\ worker[w] = "running" /\ w \in stopped
  /\ worker' = [worker EXCEPT ![w] = "exited"]
  /\ UNCHANGED <<run, waiter, startVars, loadVars, stopVars>>
-----------------------------------------------------------------------------
(* stop() and wait_for_server_start().                                      *)

\* Crow::stop does nothing while there is no server.
StopCalled(by) ==
  /\ stopper.at = "idle" /\ run # "called"
  /\ by = "signal" => Looping
  /\ stopper' = [at |-> "flag", by |-> by]
  /\ UNCHANGED <<run, worker, waiter, startVars, loadVars, shutting_down, acceptor_open, stopped>>

StopStep(from, to) ==
  /\ stopper.at = from /\ stopper' = [stopper EXCEPT !.at = to]
  /\ UNCHANGED <<run, worker, waiter, startVars, loadVars>>

StopFlag == /\ StopStep("flag", "acceptor") /\ shutting_down' = TRUE
            /\ UNCHANGED <<acceptor_open, stopped>>
StopAcceptor == /\ StopStep("acceptor", "workers") /\ acceptor_open' = FALSE
                /\ UNCHANGED <<shutting_down, stopped>>
\* io_context_pool_ holds the contexts that run() has created by now.
StopNoWorkers == /\ StopStep("workers", "main") /\ UNCHANGED <<shutting_down, acceptor_open, stopped>>
StopWorkers == /\ StopStep("workers", "main")
               /\ stopped' = stopped \cup {w \in Workers : worker[w] # "none"}
               /\ UNCHANGED <<shutting_down, acceptor_open>>
StopMain == /\ StopStep("main", "done") /\ stopped' = stopped \cup {Main}
            /\ UNCHANGED <<shutting_down, acceptor_open>>

WaitApp == /\ waiter = "waiting" /\ app_started /\ waiter' = "server"
           /\ UNCHANGED <<run, worker, startVars, loadVars, stopVars>>
StartedOnly == server_started
StartKnown == server_started \/ startup_failed
WaitServer == /\ waiter = "server" /\ StartKnown /\ waiter' = "no_timeout"
              /\ UNCHANGED <<run, worker, startVars, loadVars, stopVars>>
WaitTimeout == /\ waiter \in {"waiting", "server"} /\ waiter' = "timeout"
               /\ UNCHANGED <<run, worker, startVars, loadVars, stopVars>>

Stopping == StopFlag \/ StopAcceptor \/ StopWorkers \/ StopMain
Running  == \/ BadAddress \/ Construct \/ RunAborts \/ CreateWorkers \/ StartAccepting
            \/ NotifyStart \/ RunReturns
Next ==
  \/ Running \/ AcceptClient \/ AcceptFails
  \/ \E w \in Workers : WorkerStarts(w) \/ ConnectionEnds(w) \/ WorkerExits(w)
  \/ \E by \in {"signal", "thread"} : StopCalled(by)
  \/ Stopping \/ WaitApp \/ WaitServer \/ WaitTimeout

\* Every thread goes on; clients, callers of stop() and the clock need not.
Spec == /\ Init /\ [][Next]_vars
        /\ WF_vars(Running) /\ WF_vars(Stopping) /\ WF_vars(WaitApp \/ WaitServer)
        /\ \A w \in Workers : WF_vars(WorkerStarts(w)) /\ WF_vars(WorkerExits(w))
-----------------------------------------------------------------------------
\* The counter by which connections are spread is the number of Connection
\* objects of the worker: it is unsigned, and one decrement too many would make
\* the worker look the busiest for ever (task_queue_length_pool_, which the
\* worker sets to 0 as it starts, while the main thread counts up).
LengthCounts ==
  \A w \in Workers : length[w] = live[w] + (IF accepting = w THEN 1 ELSE 0)

\* As long as no connection has ended, no worker has more than two connections
\* more than another (pick_io_context_idx): two and not one, because a connection
\* whose accept failed is still counted when do_accept chooses the next worker.
Total == LET upTo[w \in 0 .. WorkerCount] == IF w = 0 THEN 0 ELSE upTo[w - 1] + live[w]
         IN  upTo[WorkerCount]
LoadsStayClose == Total = accepted => \A v, w \in Workers : live[v] <= live[w] + 2

\* Whoever waited for the start and was not told of a timeout can connect,
\* unless the start failed or the server is being stopped.
StartedMeansAccepting ==
  waiter = "no_timeout" /\ ~startup_failed /\ ~shutting_down => accepting # None

\* A failed start does not leave the waiter hanging, although the server will
\* never be started (wait_for_start, startup_failed_).
FailureIsReported ==
  waiter \in {"waiting", "server"} /\ startup_failed ~> waiter \in {"no_timeout", "timeout"}

\* stop() on a started server ends run(): every worker's thread, none of which
\* ends by itself, is joined.
StopEndsRun == stopper.at = "flag" /\ server_started ~> run = "returned"
=============================================================================
