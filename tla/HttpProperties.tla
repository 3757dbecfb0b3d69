--------------------------- MODULE HttpProperties ---------------------------
(* What crow::Connection promises, stated over HttpConnection.              *)
EXTENDS HttpConnection

\* The requests that the final responses of a wire answer, in order.
Answered(wire) ==
  LET upTo[n \in 0 .. Len(wire)] ==
        IF n = 0 THEN <<>>
        ELSE IF wire[n].interim THEN upTo[n - 1]
        ELSE Append(upTo[n - 1], wire[n].to)
  IN  upTo[Len(wire)]

Queued(c) == \E i \in DOMAIN events : events[i].type # "tick" /\ events[i].conn = c

\* A deadline in the timer is the one its connection would cancel: however the
\* identifiers are reset and given out again (process_tasks), no connection
\* leaves an older deadline behind that closes its socket in the middle of a
\* later request (start_deadline).
NoForgottenDeadline ==
  \A i \in DOMAIN tasks : i <= highest_id /\ task_id[tasks[i].owner] = i

\* An open socket belongs to a connection that is reading or has a handler
\* queued.  One kept only by its deadline would leave its client waiting for
\* an answer or a close that do_read has already decided (http_connection.h:
\* cancel_deadline_timer on every path that ends the reading).
OpenIsServed ==
  \A c \in Conns : conn[c].open => c \in reading \/ Queued(c)

\* After a read whose requests were all for pages, the connection is read again
\* if none of them asked to close and is over if the last one did: what
\* handle() copied from the parser survives the clearing of the parser.
CloseIsHonoured ==
  [][\A c \in Conns :
       LET chunk == Head(events).chunk
       IN  /\ Next1("read") /\ events' = Tail(events)
           /\ Head(events).conn = c /\ ~Head(events).error
           /\ conn[c].open /\ client[c] # "reset" /\ chunk # <<>>
           /\ \A r \in Range(chunk) : r.route # "missing" /\ r.route # "upgrade"
                                      /\ (r.host \/ r.version = "1.0")
           => /\ (\A r \in Range(chunk) : ~CloseConnection(r)) => c \in reading'
              /\ CloseConnection(Last(chunk)) => ~conn'[c].open
    ]_vars

\* The connection implements the promise made to an HTTP client.
Service == INSTANCE HttpService WITH
  phase    <- [c \in Conns |-> IF client[c] = "none" THEN "new"
                               ELSE IF conn[c].open THEN "open" ELSE "closed"],
  answered <- [c \in Conns |-> Answered(conn[c].wire)]

AnswersInOrder == Service!Spec

\* The requests that the server itself leaves unanswered: an upgrade that no
\* rule takes (the response that handle() completes is written by
\* nobody), and what comes in the same chunk behind a page that does not exist
\* or behind a request that asked to close.
GivenUp(c) ==
  LET n == Len(Answered(conn[c].wire))
  IN  \/ sent[c][n + 1].route = "upgrade"
      \/ n > 0 /\ (sent[c][n].route = "missing" \/ CloseConnection(sent[c][n]))

\* A request that reaches an open connection is answered, unless its client
\* hangs up or the connection is closed first; and a connection is closed with
\* a request unanswered only by its deadline, after its client hung up, or in
\* front of a request that the server gives up.
RequestsAreAnswered ==
  /\ \A c \in Conns :
       LET answered == Answered(conn[c].wire)
       IN  Len(answered) < Len(sent[c]) ~>
             Len(answered) = Len(sent[c]) \/ ~conn[c].open \/ client[c] # "open"
  /\ [][\A c \in Conns :
          /\ conn[c].open /\ ~conn'[c].open /\ client[c] = "open" /\ ~Next1("tick")
          /\ Len(Answered(conn'[c].wire)) < Len(sent[c])
          => GivenUp(c)']_vars
-----------------------------------------------------------------------------
(* The inductive invariants behind the answers.                             *)

Chunk(e) == IF e.type = "read" THEN e.chunk ELSE <<>>

\* A parser between two messages: cleared, and never in an error.
Clear(k) == k.feed = "ok" /\ ~k.complete /\ ~k.continue

\* A connection waits for one handler at a time, the outstanding read or a
\* queued event, and before it is accepted nothing has happened at it.
OneHandler ==
  /\ \A i, j \in DOMAIN events :
       events[i].type # "tick" /\ events[j].type # "tick"
       /\ events[i].conn = events[j].conn => i = j
  /\ \A c \in reading : ~Queued(c)
  /\ \A c \in Conns : client[c] = "none" =>
       /\ ~conn[c].open /\ conn[c].wire = <<>> /\ sent[c] = <<>>
       /\ c \notin reading /\ ~Queued(c)

\* An open connection is between two messages, has answered all that it has
\* read, and what has arrived beyond that is in the event it waits for; a closed
\* one has answered the first of what has arrived.
AnswersInv ==
  /\ \A c \in Conns : /\ IsPrefix(Answered(conn[c].wire), sent[c])
                      /\ conn[c].open => Clear(conn[c])
  /\ \A c \in reading : conn[c].open => Answered(conn[c].wire) = sent[c]
  /\ \A i \in DOMAIN events :
       events[i].type # "tick" /\ conn[events[i].conn].open =>
         Answered(conn[events[i].conn].wire) \o Chunk(events[i])
           = sent[events[i].conn]

=============================================================================
