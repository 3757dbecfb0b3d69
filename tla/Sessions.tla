------------------------------ MODULE Sessions ------------------------------
(***************************************************************************)
(* SessionMiddleware over CookieParser (crow/middlewares), with either of  *)
(* its stores, between the connections of several workers: sessions are    *)
(* shared while requests use them, saved by the last one, and expire.      *)
(***************************************************************************)
EXTENDS Middleware

CONSTANTS
  Connections,   \* each is served by a worker of its own
  MaxIds,        \* bound: sessions that are ever created
  MaxValue,      \* bound: what a session holds, a number under one key
  Lifetime,      \* expiration_seconds_
  MaxTime,       \* bound: the clock
  MaxEvictions,  \* handle_expired deletes at most 3
  MaxRequests,   \* bound: requests in all
  Requests       \* [kind, rule, stop, throws]

ASSUME SessionsAssumption ==
  /\ {MaxIds, MaxValue, Lifetime, MaxTime, MaxEvictions, MaxRequests} \subseteq Nat
  /\ MaxEvictions > 0
  /\ IsFiniteSet(Connections)

(* Of the middlewares, the cookies and the local ones may answer.           *)
ASSUME RequestsAssumption ==
  Requests \subseteq [kind : {"page", "upgrade"},
                      rule : [own : Seq(Local), blueprint : Seq(Local)],
                      stop : Local \cup {Nobody, Cookies}, throws : BOOLEAN]

Ids     == 1 .. MaxIds
NoId    == 0
NoEntry == -1
Values  == 0 .. MaxValue    \* 0: the key is not there
Never   == -1
Null    == 0
NodeIds == 1 .. (Cardinality(Connections) + MaxIds)

VARIABLES
  store,    \* "memory" or "file"
  stored,   \* the entries of a session in the store; NoEntry if it has none
  queue,    \* ExpirationTracker: pairs of a time and an id
  index,    \* the file .expirations, written when the store is destroyed
  now,
  node,     \* CachedSession, by place in the heap
  cache,    \* cache_: the node of an id
  conn,     \* each connection: what it does, its context's node, its request,
            \* and the middlewares that were called for it
  served,   \* history: the request that the last step answered, with its calls
  issued,   \* ids that clients were given in a cookie
  truth,    \* history: what was last written to a session
  due,      \* history: the time until which a session was last promised
  fate,     \* history: what befell a session, see Fates
  requests  \* how many there have been

storeVars == <<stored, queue, index>>
heapVars  == <<node, cache, conn, served>>
history   == <<issued, truth, due, fate>>
vars      == <<store, storeVars, now, heapVars, history, requests>>

(* A request whose answer never ran after_handle ("leaked"), one whose      *)
(* answer ran it without before_handle ("spoiled"), the end of the session  *)
(* ("expired"), and what a crash forgot ("lost").                           *)
Fates == {"leaked", "spoiled", "expired", "lost"}

NoNode == [session |-> NoId, entries |-> 0, dirty |-> FALSE, refresh |-> FALSE,
           referrers |-> 0]
NoRequest == [kind |-> "none", rule |-> Rule(<<>>, <<>>), stop |-> Nobody,
              throws |-> FALSE]
Idle == [phase |-> "idle", node |-> Null, request |-> NoRequest, calls |-> <<>>]
Served(r, calls) == [request |-> r, calls |-> calls]
Unserved == Served(NoRequest, <<>>)

Init ==
  /\ store \in {"memory", "file"}
  /\ stored = [i \in Ids |-> NoEntry]
  /\ queue = {} /\ index = {} /\ now = 0
  /\ node = [n \in NodeIds |-> NoNode]
  /\ cache = [i \in Ids |-> Null]
  /\ conn = [c \in Connections |-> Idle]
  /\ served = Unserved
  /\ issued = {}
  /\ truth = [i \in Ids |-> 0] /\ due = [i \in Ids |-> Never]
  /\ fate = [i \in Ids |-> {}]
  /\ requests = 0

With(fates, ids, f) == [i \in Ids |-> IF i \in ids THEN fates[i] \cup {f} ELSE fates[i]]

(* shared_ptr: a node is gone when no context and no cache entry holds it.  *)
Held(conns, caches) ==
  {conns[c].node : c \in Connections} \cup {caches[i] : i \in Ids}
Counted(nodes, conns, caches) ==
  [n \in NodeIds |-> IF n \in Held(conns, caches) THEN nodes[n] ELSE NoNode]
FreeNode == CHOOSE n \in NodeIds :
              /\ n \notin Held(conn, cache)
              /\ \A m \in NodeIds \ Held(conn, cache) : n <= m
-----------------------------------------------------------------------------
(* The stores *)

(* ExpirationTracker::add takes out what it had for the key.                *)
AddedBeside(i, t) == queue \cup {<<t, i>>}
Added(i, t) == {p \in queue : p[2] # i} \cup {<<t, i>>}

Sooner(p, q) == p[1] < q[1] \/ (p[1] = q[1] /\ p[2] < q[2])

(* FileStore::handle_expired: the soonest of those that have expired.       *)
Expired == {p \in queue : now > p[1]}
Evicted ==
  {p \in Expired : Cardinality({q \in Expired : Sooner(q, p)}) < MaxEvictions}
Without(ids) == [i \in Ids |-> IF i \in ids THEN NoEntry ELSE stored[i]]
IdsOf(pairs) == {p[2] : p \in pairs}

(* store_.load for a session the store contains.  InMemoryStore moves the   *)
(* entries out; FileStore may find that it has just deleted the file, and   *)
(* throws.                                                                  *)
LoadMemory(i) ==
  /\ stored' = [stored EXCEPT ![i] = 0]
  /\ UNCHANGED <<queue, fate>>
LoadFile ==
  /\ queue' = queue \ Evicted
  /\ stored' = Without(IdsOf(Evicted))
  /\ fate' = With(fate, IdsOf(Evicted), "expired")
Throws(i) == store = "file" /\ i \in IdsOf(Evicted)

(* store_.save.  InMemoryStore moves the entries out of the node, which may *)
(* still be held by a context; FileStore writes only what has changed.      *)
SaveMemory(n, i, nodes) ==
  /\ stored' = [stored EXCEPT ![i] = nodes[n].entries]
  /\ node' = Counted([nodes EXCEPT ![n].entries = 0], conn', cache')
  /\ queue' = queue
SaveFile(n, i, nodes) ==
  /\ queue' = IF nodes[n].refresh THEN Added(i, now + Lifetime) ELSE queue
  /\ stored' = IF nodes[n].dirty THEN [stored EXCEPT ![i] = nodes[n].entries] ELSE stored
  /\ node' = Counted(nodes, conn', cache')
Save(n, i, nodes) ==
  IF store = "memory" THEN SaveMemory(n, i, nodes) ELSE SaveFile(n, i, nodes)
-----------------------------------------------------------------------------
(* The middleware *)

Phase(c) == conn[c].phase
NodeOf(c) == conn[c].node

(* before_handle of the session: shared if it is in use, else loaded.       *)
Loaded(i) == [NoNode EXCEPT !.session = i, !.entries = stored[i], !.referrers = 1]
FindNothing(i) == Null
Find(i) == cache[i]

Enter(c, next) == conn' = [conn EXCEPT ![c] = next]

BeforeHandle(c, i, next) ==
  \/ /\ i # NoId /\ Find(i) # Null
     /\ Enter(c, [next EXCEPT !.node = Find(i)])
     /\ node' = Counted([node EXCEPT ![Find(i)].referrers = @ + 1], conn', cache)
     /\ UNCHANGED <<stored, queue, cache, fate>>
  \/ /\ i # NoId /\ Find(i) = Null /\ stored[i] # NoEntry
     /\ IF store = "memory" THEN LoadMemory(i) ELSE LoadFile
     /\ IF Throws(i)
          THEN /\ Enter(c, next)
               /\ node' = Counted(node, conn', cache)
               /\ cache' = cache
          ELSE LET n == FreeNode
               IN  /\ Enter(c, [next EXCEPT !.node = n])
                   /\ cache' = [cache EXCEPT ![i] = n]
                   /\ node' = Counted([node EXCEPT ![n] = Loaded(i)], conn', cache')
  \/ /\ IF i = NoId THEN TRUE ELSE Find(i) = Null /\ stored[i] = NoEntry
     /\ Enter(c, next)
     /\ node' = Counted(node, conn', cache)
     /\ UNCHANGED <<stored, queue, cache, fate>>

(* after_handle of the session: the last one that refers to a node saves    *)
(* it, and takes it out of the cache.  A session without an id is given one *)
(* (utility::random_alphanum: never one that was given before).             *)
LastReferrer(n) == node[n].referrers - 1 <= 0
Newborn(n) == node[n].session = NoId

AfterHandle(c, next) ==
  LET n == NodeOf(c)
      down == [node EXCEPT ![n].referrers = @ - 1]
  IN
  \/ /\ n = Null
     /\ Enter(c, next)
     /\ UNCHANGED <<stored, queue, node, cache, issued, truth, due>>
  \/ /\ n # Null /\ ~LastReferrer(n)
     /\ Enter(c, next)
     /\ node' = Counted(down, conn', cache)
     /\ UNCHANGED <<stored, queue, cache, issued, truth, due>>
  \/ /\ n # Null /\ LastReferrer(n)
     /\ \E i \in IF Newborn(n) THEN Ids \ issued ELSE {node[n].session} :
          LET nodes == [down EXCEPT ![n].session = i, ![n].refresh = @ \/ Newborn(n)]
          IN  /\ \A j \in Ids \ issued : Newborn(n) => i <= j
              /\ Enter(c, next)
              /\ cache' = IF Newborn(n) THEN cache ELSE [cache EXCEPT ![i] = Null]
              /\ Save(n, i, nodes)
              /\ issued' = IF nodes[n].refresh THEN issued \cup {i} ELSE issued
              /\ truth' = IF Newborn(n) THEN [truth EXCEPT ![i] = node[n].entries] ELSE truth
              /\ due' = IF nodes[n].refresh THEN [due EXCEPT ![i] = now + Lifetime] ELSE due
-----------------------------------------------------------------------------
(* The way of a request through the connection *)

(* A page: the global middlewares, then those of its rule.  One that answers *)
(* ends the way; a local one that throws leaves the response without the    *)
(* handler that would complete it (Router::handle_rule).                    *)
LocalCalls(r) ==
  IF r.throws THEN Befores(UpTo(Locals(r.rule), r.stop))
              ELSE CallHelper(Locals(r.rule), r.stop)
Answered(r) == Contains(Locals(r.rule), r.stop)

(* CookieParser answers a request with two Cookie headers: nobody else is   *)
(* called.                                                                  *)
BeginRefused(c, r) ==
  /\ r.kind = "page" /\ r.stop = Cookies
  /\ Enter(c, Idle)
  /\ node' = Counted(node, conn', cache)
  /\ served' = Served(r, CallHelper(Globals, Cookies))
  /\ UNCHANGED <<stored, queue, cache, fate>>

PhaseAfter(r) ==
  CASE ~Answered(r) -> "handling" [] r.throws -> "stuck" [] OTHER -> "answered"

BeginPage(c, r, i) ==
  /\ r.kind = "page" /\ r.stop # Cookies
  /\ BeforeHandle(c, i, [phase |-> PhaseAfter(r), node |-> Null, request |-> r,
                         calls |-> CallHelper(Globals, r.stop) \o LocalCalls(r)])
  /\ served' = Unserved

(* An upgrade: the socket goes to the websocket, and the connection with    *)
(* its context is freed.  Nothing calls after_handle.                       *)
BeginUpgrade(c, r, i) ==
  /\ r.kind = "upgrade"
  /\ BeforeHandle(c, i, [Idle EXCEPT !.phase = "upgraded"])
  /\ served' = Unserved

(* A client sends the cookie it was given, or none.                         *)
Begin(c) ==
  /\ Phase(c) = "idle" /\ requests < MaxRequests
  /\ requests' = requests + 1
  /\ \E r \in Requests, i \in issued \cup {NoId} :
       BeginRefused(c, r) \/ BeginPage(c, r, i) \/ BeginUpgrade(c, r, i)
  /\ UNCHANGED <<store, index, now, issued, truth, due>>

(* handle_url of an unknown URL completes the request with the context of   *)
(* the connection's previous one, and without handle().  The connection     *)
(* then ends.                                                               *)
Missing(c) ==
  /\ Phase(c) = "idle" /\ requests < MaxRequests
  /\ requests' = requests + 1
  /\ AfterHandle(c, Idle)
  /\ served' = Served(NoRequest, Afters(GlobalsBack))
  /\ fate' = IF NodeOf(c) = Null THEN fate
               ELSE With(fate, {node[NodeOf(c)].session}, "spoiled")
  /\ UNCHANGED <<store, index, now>>

(* What a handler does with its session, under the session's mutex.         *)
CheckNode(c) == IF NodeOf(c) = Null THEN FreeNode ELSE NodeOf(c)

NewSessions == {c \in Connections : NodeOf(c) # Null /\ Newborn(NodeOf(c))}
MayHaveNode(c) ==
  NodeOf(c) # Null \/ Cardinality(NewSessions) < Cardinality(Ids \ issued)

Change(c, n, changed) ==
  /\ Enter(c, [conn[c] EXCEPT !.node = n])
  /\ node' = [node EXCEPT ![n] = changed]
  /\ truth' = IF changed.session = NoId THEN truth
                ELSE [truth EXCEPT ![changed.session] = changed.entries]
  /\ served' = Unserved
  /\ UNCHANGED <<store, storeVars, now, cache, issued, due, fate, requests>>

(* apply: read, change and write in one go.                                 *)
AppliedUnmarked(m) == [m EXCEPT !.entries = @ + 1]
Applied(m) == [m EXCEPT !.entries = @ + 1, !.dirty = TRUE]
Apply(c) ==
  /\ Phase(c) = "handling" /\ MayHaveNode(c)
  /\ node[CheckNode(c)].entries < MaxValue
  /\ Change(c, CheckNode(c), Applied(node[CheckNode(c)]))

(* set: write, whatever was there.                                          *)
Set(c) ==
  /\ Phase(c) = "handling" /\ MayHaveNode(c)
  /\ \E v \in 1 .. MaxValue :
       Change(c, CheckNode(c), [node[CheckNode(c)] EXCEPT !.entries = v, !.dirty = TRUE])

RemoveKey(c) ==
  /\ Phase(c) = "handling" /\ NodeOf(c) # Null
  /\ Change(c, NodeOf(c), [node[NodeOf(c)] EXCEPT !.entries = 0, !.dirty = TRUE])

RefreshExpiration(c) ==
  /\ Phase(c) = "handling" /\ NodeOf(c) # Null
  /\ Change(c, NodeOf(c), [node[NodeOf(c)] EXCEPT !.refresh = TRUE])

(* mutex(): a session comes to be that holds nothing.                       *)
Mutex(c) ==
  /\ Phase(c) = "handling" /\ NodeOf(c) = Null /\ MayHaveNode(c)
  /\ Change(c, FreeNode, NoNode)

(* response::end, from the worker or from any thread: the local middlewares *)
(* that were not called yet, then the global ones, then the answer.         *)
Finish(c) ==
  /\ Phase(c) \in {"handling", "answered"}
  /\ AfterHandle(c, [Idle EXCEPT !.node = NodeOf(c)])
  /\ served' = Served(conn[c].request,
                      conn[c].calls
                        \o (IF Phase(c) = "answered" THEN <<>>
                             ELSE Afters(LocalsBack(conn[c].request.rule)))
                        \o Afters(GlobalsBack))
  /\ UNCHANGED <<store, index, now, fate, requests>>

(* The client is gone, or was upgraded: another one connects.               *)
Reconnect(c) ==
  /\ Phase(c) \in {"idle", "stuck", "upgraded"} /\ conn[c] # Idle
  /\ Enter(c, Idle)
  /\ node' = Counted(node, conn', cache)
  /\ fate' = IF Phase(c) = "idle" \/ NodeOf(c) = Null \/ Newborn(NodeOf(c)) THEN fate
               ELSE With(fate, {node[NodeOf(c)].session}, "leaked")
  /\ served' = Unserved
  /\ UNCHANGED <<store, storeVars, now, cache, issued, truth, due, requests>>
-----------------------------------------------------------------------------
(* The process and the clock *)

Tick ==
  /\ now < MaxTime /\ now' = now + 1
  /\ served' = Unserved
  /\ UNCHANGED <<store, storeVars, node, cache, conn, history, requests>>

(* FileStore::FileStore: what has expired is deleted, what is not there is  *)
(* not tracked.                                                             *)
Overdue(times) == {p \in times : now > p[1]}

Start(times, lost) ==
  /\ conn' = [c \in Connections |-> Idle]
  /\ served' = Unserved
  /\ node' = [n \in NodeIds |-> NoNode]
  /\ cache' = [i \in Ids |-> Null]
  /\ index' = times
  /\ IF store = "memory"
       THEN /\ stored' = [i \in Ids |-> NoEntry]
            /\ queue' = {}
            /\ fate' = With(fate, Ids, "lost")
       ELSE /\ stored' = Without(IdsOf(Overdue(times)))
            /\ queue' = {p \in times \ Overdue(times) : stored[p[2]] # NoEntry}
            /\ fate' = With(With(fate, IdsOf(Overdue(times)), "expired"), lost, "lost")
  /\ UNCHANGED <<store, now, issued, truth, due, requests>>

Cached == {i \in Ids : cache[i] # Null}

(* The server has stopped, and no request is being handled.  What is still  *)
(* in the cache was never given back, and is not saved.                     *)
Restart ==
  /\ \A c \in Connections : Phase(c) = "idle"
  /\ Start(IF store = "file" THEN queue ELSE {}, Cached)

(* The process is killed: the file of the times is that of the last start,  *)
(* and what was not saved is lost.                                          *)
Forgotten == IdsOf((queue \ index) \cup (index \ queue))
Crash == Start(index, Cached \cup Forgotten)

Next ==
  \/ \E c \in Connections :
       \/ Begin(c) \/ Missing(c) \/ Finish(c) \/ Reconnect(c)
       \/ Apply(c) \/ Set(c) \/ RemoveKey(c) \/ RefreshExpiration(c) \/ Mutex(c)
  \/ Tick \/ Restart \/ Crash

Spec == Init /\ [][Next]_vars

-----------------------------------------------------------------------------
(* What a request that comes with the cookie of a session finds in it.      *)
Visible(i) ==
  IF cache[i] # Null THEN node[cache[i]].entries
  ELSE IF stored[i] # NoEntry THEN stored[i] ELSE 0

(* A session holds what was last written to it, by whichever request, in    *)
(* the cache or in the store, until it expires or the process is killed.    *)
(* The one exception, a 404 on a connection that used the session before,   *)
(* is named "spoiled".                                                      *)
SessionsAreKept ==
  \A i \in issued :
    fate[i] \cap {"spoiled", "expired", "lost"} = {} => Visible(i) = truth[i]

(* Requests of one session that overlap share one node, which is in the     *)
(* cache; and a node in the cache is in use, or its reference was never     *)
(* given back, as after an upgrade or a middleware that threw.              *)
InUse(c) == Phase(c) \in {"handling", "answered", "stuck", "upgraded"}

CachedWhileInUse ==
  /\ \A c \in Connections :
       InUse(c) /\ NodeOf(c) # Null /\ ~Newborn(NodeOf(c)) =>
         \/ cache[node[NodeOf(c)].session] = NodeOf(c)
         \/ "spoiled" \in fate[node[NodeOf(c)].session]
  /\ \A i \in Ids : cache[i] # Null =>
       \/ \E c \in Connections : InUse(c) /\ NodeOf(c) = cache[i]
       \/ fate[i] \cap {"leaked", "spoiled"} # {}

(* A session's file is deleted only after the time its last cookie promised *)
(* ("Expiration refreshes are automatically picked up"), unless the process *)
(* was killed before it wrote the times down.                               *)
ExpiryIsKept ==
  [][ \A i \in Ids :
        store = "file" /\ stored[i] # NoEntry /\ stored'[i] = NoEntry =>
          now > due[i] \/ "lost" \in fate'[i] ]_vars

(* Whatever a rule and its blueprint name, in whatever order, and whichever *)
(* middleware answers: those that are called before are called after, once  *)
(* and the other way round.                                                 *)
Called(r) ==
  LET way == InOrder(ToSet(All) \ Local)
               \o InOrder(ToSet(r.rule.own) \cup ToSet(r.rule.blueprint))
  IN  SubSeq(way, 1, IF \E k \in DOMAIN way : way[k] = r.stop
                       THEN CHOOSE k \in DOMAIN way : way[k] = r.stop
                       ELSE Len(way))

CallsAreNested ==
  served.request.kind = "page" =>
    served.calls = Befores(Called(served.request))
                     \o Afters(Reverse(Called(served.request)))

=============================================================================
