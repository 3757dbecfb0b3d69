--------------------------- MODULE HttpConnection ---------------------------
(***************************************************************************)
(* crow::Connection (crow/http_connection.h) on one worker of the server:  *)
(* the asynchronous reads, the synchronous writes and the deadline timer,  *)
(* interleaved with the clients.  A worker runs one completion handler at  *)
(* a time, in the order in which asio queued them, so one handler is one   *)
(* action.  The handlers of the rules are synchronous, as every rule of    *)
(* src/src/routes.cpp is: the response is complete when handle() returns.  *)
(* A client sends chunks; a chunk is the sequence of the requests whose    *)
(* last byte it carries, and the empty chunk completes none.               *)
(***************************************************************************)
EXTENDS TaskTimer, Sequences, SequencesExt

CONSTANTS Conns,       \* connections of this worker
          Chunks,      \* what each client may send at once: sequences of requests
          MaxChunks    \* bound: how many chunks each client sends

Requests == UNION {UNION {Range(chunk) : chunk \in Chunks[c]} : c \in Conns}

ASSUME ChunksAssumption == \A c \in Conns : Chunks[c] \subseteq Seq(Requests)

VARIABLES conn,        \* the members of each Connection
          reading,     \* connections with an async_read_some outstanding
          events,      \* completion handlers queued on the io_context, in order
          task_id,     \* task_id_ of each connection
          sent,        \* requests that have arrived from each client
          client,      \* "none", "open", "closed" or "reset"
          chunksLeft   \* what is left of the bound

connVars   == <<conn, reading, events, task_id>>
clientVars == <<sent, client, chunksLeft>>
vars       == <<connVars, clientVars, timerVars>>

\* HTTPParser::set_connection_parameters.
KeepAlive(r) == r.version = "1.1" \/ (r.version = "1.0" /\ r.header = "keep-alive")
CloseConnection(r) == \/ r.version = "1.1" /\ r.header = "close"
                      \/ r.version = "1.0" /\ r.header # "keep-alive"

NewConnection ==
  [open |-> TRUE, close |-> FALSE, addKeep |-> FALSE, skip |-> FALSE,
   complete |-> FALSE, continue |-> FALSE, feed |-> "ok", wire |-> <<>>]

Init ==
  /\ EmptyTimer
  /\ conn = [c \in Conns |-> [NewConnection EXCEPT !.open = FALSE]]
  /\ reading = {}
  /\ events = <<>>
  /\ task_id = [c \in Conns |-> 0]
  /\ sent = [c \in Conns |-> <<>>]
  /\ client = [c \in Conns |-> "none"]
  /\ chunksLeft = MaxChunks
-----------------------------------------------------------------------------
(* What a request does to the connection, all of it inside parser_.feed.    *)

\* do_write_sync: bytes reach the client if the socket takes them; the parser
\* is cleared for the next message unless this was the interim response.
StaysInterim(k, response) ==
  LET w == IF k.open THEN [k EXCEPT !.wire = Append(@, response)] ELSE k
  IN  IF k.continue THEN w ELSE [w EXCEPT !.complete = FALSE]
WritesToClosed(k, response) ==
  [k EXCEPT !.wire = Append(@, response), !.continue = FALSE, !.complete = FALSE]
WriteSync(k, response) ==
  LET w == IF k.open THEN [k EXCEPT !.wire = Append(@, response)] ELSE k
  IN  IF k.continue THEN [w EXCEPT !.continue = FALSE]
                    ELSE [w EXCEPT !.complete = FALSE]

Response(k, r, body) ==
  [to |-> r, interim |-> FALSE, body |-> body, keep |-> k.addKeep]

\* handle_url when no rule matches: done() leaves the parser in an error that
\* clear() does not reset, so the feed that is running fails after the answer.
HandleUrl(k, r) == [WriteSync(k, Response(k, r, TRUE)) EXCEPT !.feed = "error"]

\* handle_header: 100-continue.
HandleHeader(k, r) ==
  IF r.expect /\ r.version = "1.1"
  THEN WriteSync([k EXCEPT !.continue = TRUE],
                 [to |-> r, interim |-> TRUE, body |-> FALSE, keep |-> FALSE])
  ELSE k

\* complete_request for a response that response::end completed: a static file
\* is written whatever the method, a body at the threshold is streamed, and
\* both of these close the socket themselves when they have to.
ForgetsClose(k, r) ==
  [WriteSync(k, Response(k, r, r.route = "file" \/ ~k.skip)) EXCEPT
     !.skip = FALSE, !.close = FALSE]
CompleteRequest(k, r) ==
  LET body    == r.route = "file" \/ ~k.skip
      streams == r.route = "file" \/ (r.route = "big" /\ ~k.skip)
  IN  [WriteSync(k, Response(k, r, body)) EXCEPT
         !.skip = FALSE, !.open = @ /\ ~(streams /\ k.close)]

\* handle: the Host check answers without response::end; an upgrade on a rule
\* that is no websocket completes a response nobody writes.
HandleMessage(k, r) ==
  LET h == [k EXCEPT !.complete = TRUE, !.skip = @ \/ r.head,
                     !.addKeep = KeepAlive(r), !.close = CloseConnection(r)]
  IN  CASE r.version = "1.1" /\ ~r.host    -> WriteSync(h, Response(h, r, TRUE))
        [] r.version = "1.1" /\ r.host /\ r.route = "upgrade"
                                           -> [h EXCEPT !.close = TRUE]
        [] OTHER                           -> CompleteRequest(h, r)

\* remote_endpoint() throws in handle() once the socket or the peer is gone.
HandleRequest(k, r, gone) ==
  CASE k.complete \/ k.feed # "ok" -> k
    [] ~k.complete /\ k.feed = "ok" /\ r.route = "missing" -> HandleUrl(k, r)
    [] OTHER -> LET h == HandleHeader(k, r)
                IN  IF gone \/ ~k.open THEN [h EXCEPT !.feed = "thrown"]
                                       ELSE HandleMessage(h, r)

Feed(c, chunk) ==
  LET after[n \in 0 .. Len(chunk)] ==
        IF n = 0 THEN conn[c]
                 ELSE HandleRequest(after[n - 1], chunk[n], client[c] = "reset")
  IN  after[Len(chunk)]
-----------------------------------------------------------------------------
(* The client and the reactor.                                              *)

\* do_accept: the connection is accepted and its start() posted to the worker.
Accept(c) ==
  /\ client[c] = "none"
  /\ client' = [client EXCEPT ![c] = "open"]
  /\ conn' = [conn EXCEPT ![c] = NewConnection]
  /\ events' = Append(events, [type |-> "start", conn |-> c])
  /\ UNCHANGED <<reading, task_id, sent, chunksLeft, timerVars>>

Hangup(c, how) ==
  /\ client[c] = "open"
  /\ client' = [client EXCEPT ![c] = how]
  /\ UNCHANGED <<connVars, sent, chunksLeft, timerVars>>

ReadEvent(c, error, chunk) ==
  [type |-> "read", conn |-> c, error |-> error, chunk |-> chunk]

\* The outstanding read completes with what the client has sent ...
Receive(c, chunk) ==
  /\ c \in reading /\ client[c] # "reset" /\ chunksLeft[c] > 0
  /\ chunksLeft' = [chunksLeft EXCEPT ![c] = @ - 1]
  /\ sent' = [sent EXCEPT ![c] = @ \o chunk]
  /\ reading' = reading \ {c}
  /\ events' = Append(events, ReadEvent(c, FALSE, chunk))
  /\ UNCHANGED <<conn, task_id, client, timerVars>>

\* ... or with the end of the stream.
ReadFails(c) ==
  /\ c \in reading /\ client[c] \in {"closed", "reset"}
  /\ reading' = reading \ {c}
  /\ events' = Append(events, ReadEvent(c, TRUE, <<>>))
  /\ UNCHANGED <<conn, task_id, clientVars, timerVars>>

\* The wait of task_timer ends; the next one starts in tick_handler.
TimerExpires ==
  /\ DOMAIN tasks # {}
  /\ \A i \in DOMAIN events : events[i].type # "tick"
  /\ events' = Append(events, [type |-> "tick"])
  /\ UNCHANGED <<conn, reading, task_id, clientVars, timerVars>>
-----------------------------------------------------------------------------
(* The worker runs the handler at the head of its queue.                    *)

Next1(type) == events # <<>> /\ Head(events).type = type

\* start_deadline and do_read.
AwaitRequest(c) ==
  /\ Reschedule(task_id[c], c)
  /\ task_id' = [task_id EXCEPT ![c] = highest_id']
  /\ reading' = reading \cup {c}

\* start: the adaptor starts at once, the parser is clear.
Start(c) ==
  /\ Next1("start") /\ Head(events).conn = c
  /\ events' = Tail(events)
  /\ AwaitRequest(c)
  /\ UNCHANGED <<conn, clientVars>>

Closed(k) == [k EXCEPT !.open = FALSE]

\* The handler held the connection; unless a deadline still does, its
\* destructor closes the socket.
Released(k, c) ==
  [k EXCEPT !.open = @ /\ \E i \in DOMAIN tasks' : tasks'[i].owner = c]

\* The completion handler of do_read when it keeps the connection ...
ReadContinues(c) ==
  /\ Next1("read") /\ Head(events).conn = c /\ ~Head(events).error
  /\ events' = Tail(events)
  /\ LET k == Feed(c, Head(events).chunk)
     IN  /\ k.feed = "ok" /\ k.open /\ ~k.close
         /\ conn' = [conn EXCEPT ![c] = k]
  /\ AwaitRequest(c)
  /\ UNCHANGED clientVars

\* ... and when it ends it: an error, a closed socket, an exception (caught by
\* the worker's loop), or a request that asked to close.
ReadEnds(c) ==
  /\ Next1("read") /\ Head(events).conn = c
  /\ events' = Tail(events)
  /\ CancelTask(task_id[c])
  /\ LET k == IF Head(events).error THEN [conn[c] EXCEPT !.feed = "error"]
                                    ELSE Feed(c, Head(events).chunk)
     IN  /\ k.feed # "ok" \/ ~k.open \/ k.close
         /\ conn' = [conn EXCEPT ![c] = IF k.feed = "error" THEN Closed(k)
                                                            ELSE Released(k, c)]
  /\ UNCHANGED <<reading, task_id, clientVars>>

\* process_tasks runs the expired tasks in the order of their identifiers; the
\* read outstanding on a socket that one of them closes ends with an error.
Interrupted ==
  LET upTo[n \in 0 .. highest_id] ==
        IF n = 0 THEN <<>>
        ELSE IF n \in Expired /\ tasks[n].owner \in reading
        THEN Append(upTo[n - 1], ReadEvent(tasks[n].owner, TRUE, <<>>))
        ELSE upTo[n - 1]
  IN  upTo[highest_id]

\* tick_handler: the expired deadlines close their sockets.
Tick ==
  /\ Next1("tick")
  /\ events' = Tail(events) \o Interrupted
  /\ LET late == {tasks[i].owner : i \in Expired}
     IN  /\ conn' = [c \in Conns |-> IF c \in late THEN Closed(conn[c]) ELSE conn[c]]
         /\ reading' = reading \ late
  /\ ProcessTasks
  /\ UNCHANGED <<task_id, clientVars>>

Worker == Tick \/ \E c \in Conns : Start(c) \/ ReadContinues(c) \/ ReadEnds(c)

Next ==
  \/ Worker
  \/ TimerExpires
  \/ \E c \in Conns : \/ Accept(c)
                      \/ \E chunk \in Chunks[c] : Receive(c, chunk)
                      \/ \E how \in {"closed", "reset"} : Hangup(c, how)
                      \/ ReadFails(c)

\* The worker's thread runs whatever is queued; nothing is asked of the
\* clients, of the network or of the clock.
Fairness == WF_vars(Worker)

Spec == Init /\ [][Next]_vars /\ Fairness
=============================================================================
