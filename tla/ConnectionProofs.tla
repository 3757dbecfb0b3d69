-------------------------- MODULE ConnectionProofs --------------------------
(***************************************************************************)
(* Proofs about crow::Connection on one worker, for any number of           *)
(* connections, any requests, any chunks of them and any timeout.          *)
(*                                                                         *)
(* The timer gives its identifiers out again from 1 whenever it is empty,   *)
(* and a connection cancels whatever task carries the identifier it holds.  *)
(* That no task is ever forgotten rests on one fact: each task carries the  *)
(* identifier that its owner holds now (DeadlineInv).  It follows that a    *)
(* connection whose reading ends is closed, and ConnectionInv, that every   *)
(* open connection has one handler to come and has answered all it has read, *)
(* is inductive.  What a whole read does is proved request by request,      *)
(* along the recursion of Feed.                                             *)
(***************************************************************************)
EXTENDS HttpProperties, SequenceTheorems, Recursions, TLAPS

-----------------------------------------------------------------------------
(* The requests that a wire answers.                                        *)

Responses == [to : Requests, interim : BOOLEAN, body : BOOLEAN, keep : BOOLEAN]

AnsweredUpTo(f, w) ==
  f = [n \in 0..Len(w) |->
         IF n = 0 THEN <<>>
         ELSE IF w[n].interim THEN f[n - 1] ELSE Append(f[n - 1], w[n].to)]

LEMMA AnsweredIsDefined ==
  ASSUME NEW w \in Seq(Responses)
  PROVE  \E f : AnsweredUpTo(f, w) /\ f \in [0..Len(w) -> Seq(Requests)]
                /\ Answered(w) = f[Len(w)]
  <1> DEFINE T == Seq(Requests)
             step == [x \in (1..Len(w)) \X T |->
                        IF w[x[1]].interim THEN x[2] ELSE Append(x[2], w[x[1]].to)]
  <1>0. Len(w) \in Nat /\ \A n \in 1..Len(w) : w[n] \in Responses
    OBVIOUS
  <1>1. step \in [(1..Len(w)) \X T -> T]
    BY <1>0 DEF Responses
  <1>2. <<>> \in T
    OBVIOUS
  <1>3. PICK f : Builds(f, Len(w), T, <<>>, step)
    <2> HIDE DEF T, step
    <2> QED
      BY <1>0, <1>1, <1>2, Recursion
  <1>4. f \in [0..Len(w) -> T] /\ f[0] = <<>>
    BY <1>3 DEF Builds
  <1>5. ASSUME NEW n \in 1..Len(w)
        PROVE  f[n] = IF w[n].interim THEN f[n - 1] ELSE Append(f[n - 1], w[n].to)
    <2>1. n - 1 \in 0..Len(w) /\ f[n - 1] \in T
      BY <1>0, <1>4
    <2> QED
      BY <1>3, <2>1 DEF Builds
  <1>6. AnsweredUpTo(f, w)
    <2> HIDE DEF step, T
    <2>1. \A n \in 0..Len(w) : n = 0 \/ n \in 1..Len(w)
      BY <1>0
    <2> QED
      BY <1>4, <1>5, <2>1 DEF AnsweredUpTo
  <1> DEFINE g == CHOOSE g : AnsweredUpTo(g, w)
  <1>7. AnsweredUpTo(g, w)
    BY <1>6
  <1>8. Answered(w) = g[Len(w)]
    BY DEF Answered, AnsweredUpTo
  <1> HIDE DEF g, step, T
  <1>9. ASSUME NEW n \in Nat PROVE n <= Len(w) => g[n] = f[n]
    <2> DEFINE Same == {k \in Nat : k <= Len(w) => g[k] = f[k]}
    <2>1. 0 \in Same
      BY <1>0, <1>4, <1>7 DEF AnsweredUpTo
    <2>2. ASSUME NEW k \in Nat, k \in Same PROVE k + 1 \in Same
      <3> SUFFICES ASSUME k + 1 <= Len(w) PROVE g[k + 1] = f[k + 1]
        OBVIOUS
      <3>1. k + 1 \in 1..Len(w) /\ k + 1 \in 0..Len(w) /\ k + 1 # 0 /\ (k + 1) - 1 = k
        BY <1>0
      <3>2. g[k] = f[k]
        BY <1>0, <2>2
      <3>3. g[k + 1] = IF w[k + 1].interim THEN g[k] ELSE Append(g[k], w[k + 1].to)
        BY <1>7, <3>1 DEF AnsweredUpTo
      <3> QED
        BY <1>5, <3>1, <3>2, <3>3
    <2> HIDE DEF Same
    <2>3. n \in Same
      BY <2>1, <2>2, Induction
    <2> QED
      BY <2>3 DEF Same
  <1>10. Answered(w) = f[Len(w)]
    BY <1>0, <1>8, <1>9
  <1> QED
    BY <1>4, <1>6, <1>10 DEF T

LEMMA AnsweredGrows ==
  /\ Answered(<<>>) = <<>>
  /\ \A w \in Seq(Responses), r \in Responses :
       /\ Answered(w) \in Seq(Requests)
       /\ Answered(Append(w, r)) = IF r.interim THEN Answered(w)
                                                ELSE Append(Answered(w), r.to)
  <1>1. ASSUME NEW w \in Seq(Responses), NEW r \in Responses
        PROVE  /\ Answered(w) \in Seq(Requests)
               /\ Answered(Append(w, r)) = IF r.interim THEN Answered(w)
                                                ELSE Append(Answered(w), r.to)
    <2> DEFINE v == Append(w, r)
               N == Len(w)
    <2>1. /\ N \in Nat /\ v \in Seq(Responses) /\ Len(v) = N + 1
          /\ v[N + 1] = r /\ \A k \in 1..N : v[k] = w[k]
      OBVIOUS
    <2> HIDE DEF v
    <2>2. PICK f : AnsweredUpTo(f, w) /\ f \in [0..N -> Seq(Requests)]
                   /\ Answered(w) = f[N]
      BY AnsweredIsDefined
    <2>3. PICK g : AnsweredUpTo(g, v) /\ Answered(v) = g[N + 1]
      BY <2>1, AnsweredIsDefined
    <2> DEFINE Same == {k \in Nat : k <= N => g[k] = f[k]}
    <2>4. 0 \in Same
      <3>1. 0 \in 0..N /\ 0 \in 0..N + 1
        BY <2>1
      <3> QED
        BY <2>1, <2>2, <2>3, <3>1 DEF AnsweredUpTo
    <2>5. ASSUME NEW k \in Nat, k \in Same PROVE k + 1 \in Same
      <3> SUFFICES ASSUME k + 1 <= N PROVE g[k + 1] = f[k + 1]
        OBVIOUS
      <3>1. /\ k + 1 \in 1..N /\ k + 1 \in 0..N /\ k + 1 \in 0..Len(v)
            /\ k + 1 # 0 /\ (k + 1) - 1 = k
        BY <2>1
      <3>2. g[k] = f[k]
        BY <2>1, <2>5
      <3>3. g[k + 1] = IF v[k + 1].interim THEN g[k] ELSE Append(g[k], v[k + 1].to)
        BY <2>3, <3>1 DEF AnsweredUpTo
      <3>4. f[k + 1] = IF w[k + 1].interim THEN f[k] ELSE Append(f[k], w[k + 1].to)
        BY <2>2, <3>1 DEF AnsweredUpTo
      <3> QED
        BY <2>1, <3>1, <3>2, <3>3, <3>4
    <2> HIDE DEF Same
    <2>6. N \in Same
      BY <2>1, <2>4, <2>5, Induction
    <2>7. g[N] = Answered(w)
      BY <2>1, <2>2, <2>6 DEF Same
    <2>8. g[N + 1] = IF r.interim THEN g[N] ELSE Append(g[N], r.to)
      <3>1. N + 1 \in 0..N + 1 /\ N + 1 # 0 /\ (N + 1) - 1 = N
        BY <2>1
      <3> QED
        BY <2>1, <2>3, <3>1 DEF AnsweredUpTo
    <2>9. Answered(w) \in Seq(Requests)
      BY <2>1, <2>2
    <2> QED
      BY <2>3, <2>7, <2>8, <2>9 DEF v
  <1>2. Answered(<<>>) = <<>>
    <2>1. PICK f : AnsweredUpTo(f, <<>>) /\ Answered(<<>>) = f[Len(<<>>)]
      <3>1. <<>> \in Seq(Responses)
        OBVIOUS
      <3> QED
        BY <3>1, AnsweredIsDefined
    <2> QED
      BY <2>1 DEF AnsweredUpTo
  <1> QED
    BY <1>1, <1>2

LEMMA AnsweredIsTyped ==
  ASSUME NEW w \in Seq(Responses)
  PROVE  Answered(w) \in Seq(Requests)
  <1>1. PICK f : f \in [0..Len(w) -> Seq(Requests)] /\ Answered(w) = f[Len(w)]
    BY AnsweredIsDefined
  <1> QED
    BY <1>1

-----------------------------------------------------------------------------
(* What the handling of a request does to the connection.                   *)

Feeds == {"ok", "error", "thrown"}

Connections ==
  [open : BOOLEAN, close : BOOLEAN, addKeep : BOOLEAN, skip : BOOLEAN,
   complete : BOOLEAN, continue : BOOLEAN, feed : Feeds, wire : Seq(Responses)]

LEMMA WriteSyncWrites ==
  ASSUME NEW k \in Connections, NEW w \in Responses
  PROVE  /\ WriteSync(k, w) \in Connections
         /\ WriteSync(k, w).wire = IF k.open THEN Append(k.wire, w) ELSE k.wire
         /\ ~WriteSync(k, w).continue
         /\ WriteSync(k, w).complete = IF k.continue THEN k.complete ELSE FALSE
         /\ WriteSync(k, w).open = k.open
         /\ WriteSync(k, w).close = k.close
         /\ WriteSync(k, w).feed = k.feed
  <1> DEFINE x == IF k.open THEN [k EXCEPT !.wire = Append(@, w)] ELSE k
  <1>1. /\ x \in Connections
        /\ x.wire = IF k.open THEN Append(k.wire, w) ELSE k.wire
        /\ x.open = k.open /\ x.close = k.close /\ x.feed = k.feed
        /\ x.complete = k.complete /\ x.continue = k.continue
    BY DEF Connections
  <1>2. WriteSync(k, w) = IF k.continue THEN [x EXCEPT !.continue = FALSE]
                                        ELSE [x EXCEPT !.complete = FALSE]
    BY DEF WriteSync
  <1> HIDE DEF x
  <1>3. k.continue \in BOOLEAN
    BY DEF Connections
  <1> QED
    BY <1>1, <1>2, <1>3 DEF Connections

LEMMA ResponseIsFinal ==
  ASSUME NEW k \in Connections, NEW r \in Requests, NEW body \in BOOLEAN
  PROVE  /\ Response(k, r, body) \in Responses
         /\ ~Response(k, r, body).interim /\ Response(k, r, body).to = r
  BY DEF Response, Responses, Connections

\* A connection that a request may still be answered at.
Live(k) == k.open /\ Clear(k)

\* One at which nothing is answered any more: handle_url or an exception ended
\* the feed, the socket is closed, or a completed request has upgraded nothing.
Over(k) == k.feed # "ok" \/ ~k.open \/ (k.complete /\ k.close)

LEMMA OverStays ==
  ASSUME NEW k \in Connections, NEW r \in Requests, NEW gone \in BOOLEAN, Over(k)
  PROVE  LET h == HandleRequest(k, r, gone)
         IN  /\ h \in Connections /\ Over(h) /\ h.wire = k.wire
             /\ ~k.open => ~h.open
  <1> DEFINE h == HandleRequest(k, r, gone)
  <1>1. CASE k.complete \/ k.feed # "ok"
    BY <1>1 DEF HandleRequest
  <1>2. CASE ~k.complete /\ k.feed = "ok" /\ r.route = "missing"
    <2>1. ~k.open
      BY <1>2 DEF Over
    <2>2. h = HandleUrl(k, r)
      BY <1>2 DEF HandleRequest
    <2>3. Response(k, r, TRUE) \in Responses
      BY ResponseIsFinal
    <2>4. /\ WriteSync(k, Response(k, r, TRUE)) \in Connections
          /\ WriteSync(k, Response(k, r, TRUE)).wire = k.wire
          /\ WriteSync(k, Response(k, r, TRUE)).open = k.open
      BY <2>1, <2>3, WriteSyncWrites
    <2> HIDE DEF h
    <2>5. h \in Connections /\ h.feed = "error" /\ h.wire = k.wire /\ h.open = k.open
      BY <2>2, <2>4 DEF HandleUrl, Connections, Feeds
    <2> QED
      BY <2>5 DEF h, Over
  <1>3. CASE ~k.complete /\ k.feed = "ok" /\ r.route # "missing"
    <2>1. ~k.open
      BY <1>3 DEF Over
    <2>2. h = [HandleHeader(k, r) EXCEPT !.feed = "thrown"]
      <3>1. ~HandleHeader(k, r).open
        BY <2>1 DEF HandleHeader, WriteSync, Connections
      <3> QED
      BY <1>3, <2>1 , <3>1 DEF HandleRequest
    <2>3. /\ HandleHeader(k, r) \in Connections /\ HandleHeader(k, r).wire = k.wire
          /\ ~HandleHeader(k, r).open
      BY <2>1 DEF HandleHeader, WriteSync, Connections
    <2> QED
      BY <2>2, <2>3 DEF Over, Connections, Feeds
  <1> QED
    BY <1>1, <1>2, <1>3

\* A request for a page, whatever it says about its connection.
Plain(r) == r.route # "missing" /\ r.route # "upgrade" /\ (r.host \/ r.version = "1.0")

LEMMA HeaderIsInterim ==
  ASSUME NEW k \in Connections, NEW r \in Requests, Live(k)
  PROVE  LET h == HandleHeader(k, r)
         IN  h \in Connections /\ Live(h) /\ Answered(h.wire) = Answered(k.wire)
  <1> DEFINE w == [to |-> r, interim |-> TRUE, body |-> FALSE, keep |-> FALSE]
             x == [k EXCEPT !.continue = TRUE]
  <1>1. w \in Responses /\ w.interim
    BY DEF Responses
  <1>2. /\ x \in Connections /\ x.open /\ x.continue /\ ~x.complete
        /\ x.feed = "ok" /\ x.wire = k.wire
    BY DEF Connections, Live, Clear
  <1>3. k.wire \in Seq(Responses)
    BY DEF Connections
  <1>4. Answered(Append(k.wire, w)) = Answered(k.wire)
    BY <1>1, <1>3, AnsweredGrows
  <1>5. HandleHeader(k, r) = IF r.expect /\ r.version = "1.1" THEN WriteSync(x, w) ELSE k
    BY DEF HandleHeader
  <1> HIDE DEF w, x
  <1> DEFINE h == WriteSync(x, w)
  <1>6. /\ h \in Connections /\ h.open = x.open /\ h.feed = x.feed
        /\ ~h.continue /\ h.complete = IF x.continue THEN x.complete ELSE FALSE
        /\ h.wire = IF x.open THEN Append(x.wire, w) ELSE x.wire
    BY <1>1, <1>2, WriteSyncWrites
  <1> HIDE DEF h
  <1>7. h \in Connections /\ Live(h) /\ Answered(h.wire) = Answered(k.wire)
    BY <1>2, <1>4, <1>6 DEF Live, Clear
  <1> QED
    BY <1>5, <1>7 DEF h

LEMMA MessageIsAnswered ==
  ASSUME NEW k \in Connections, NEW r \in Requests, Live(k)
  PROVE  LET h == HandleMessage(k, r)
         IN  /\ h \in Connections
             /\ \/ Over(h) /\ h.wire = k.wire
                \/ /\ Live(h) \/ Over(h)
                   /\ Answered(h.wire) = Append(Answered(k.wire), r)
             /\ Plain(r) => \/ ~h.open /\ CloseConnection(r)
                            \/ Live(h) /\ h.close = CloseConnection(r)
  <1> DEFINE x == [k EXCEPT !.complete = TRUE, !.skip = @ \/ r.head,
                            !.addKeep = KeepAlive(r), !.close = CloseConnection(r)]
             h == HandleMessage(k, r)
             Closes == CloseConnection(r)
  <1>0. Closes \in BOOLEAN /\ KeepAlive(r) \in BOOLEAN
    BY DEF CloseConnection, KeepAlive
  <1>1. /\ x \in Connections /\ x.open /\ x.complete /\ ~x.continue
        /\ x.feed = "ok" /\ x.wire = k.wire /\ x.close = Closes
    BY <1>0 DEF Connections, Live, Clear
  <1>2. ASSUME NEW body \in BOOLEAN
        PROVE  LET w == WriteSync(x, Response(x, r, body))
               IN  /\ w \in Connections /\ Live(w) /\ w.close = Closes
                   /\ Answered(w.wire) = Append(Answered(k.wire), r)
    <2>1. /\ Response(x, r, body) \in Responses
          /\ ~Response(x, r, body).interim /\ Response(x, r, body).to = r
      BY <1>1, ResponseIsFinal
    <2>2. Answered(Append(k.wire, Response(x, r, body))) = Append(Answered(k.wire), r)
      <3>1. k.wire \in Seq(Responses)
        BY DEF Connections
      <3> QED
        BY <2>1, <3>1, AnsweredGrows
    <2> DEFINE y == Response(x, r, body)
               w == WriteSync(x, y)
    <2>5. x \in Connections /\ y \in Responses /\ ~y.interim
      BY <1>1, <2>1
    <2> HIDE DEF h, x, y, Closes
    <2>3. /\ w \in Connections /\ w.open = x.open /\ w.feed = x.feed
          /\ w.close = x.close /\ ~w.continue
          /\ w.complete = IF x.continue THEN x.complete ELSE FALSE
          /\ w.wire = IF x.open THEN Append(x.wire, y) ELSE x.wire
      BY ONLY <2>5, WriteSyncWrites
    <2> HIDE DEF w
    <2>4. /\ w \in Connections /\ Live(w) /\ w.close = Closes
          /\ Answered(w.wire) = Append(Answered(k.wire), r)
      BY <1>1, <2>2, <2>3 DEF Live, Clear, y
    <2> QED
      BY <2>4 DEF w, y
  <1>3. CASE r.version = "1.1" /\ ~r.host
    <2>1. h = WriteSync(x, Response(x, r, TRUE))
      BY <1>3 DEF HandleMessage
    <2>2. ~Plain(r)
      BY <1>3 DEF Plain
    <2> HIDE DEF h, x
    <2> QED
      BY <1>2, <2>1, <2>2 DEF h
  <1>4. CASE r.version = "1.1" /\ r.host /\ r.route = "upgrade"
    <2>1. h = [x EXCEPT !.close = TRUE]
      BY <1>4 DEF HandleMessage
    <2>2. ~Plain(r)
      BY <1>4 DEF Plain
    <2> HIDE DEF h, x
    <2>3. h \in Connections /\ h.complete /\ h.close /\ h.wire = k.wire
      BY <1>1, <2>1 DEF Connections
    <2> QED
      BY <2>2, <2>3 DEF h, Over
  <1>5. CASE ~(r.version = "1.1" /\ ~r.host) /\ ~(r.version = "1.1" /\ r.host /\ r.route = "upgrade")
    <2> DEFINE body    == r.route = "file" \/ ~x.skip
               streams == r.route = "file" \/ (r.route = "big" /\ ~x.skip)
               w       == WriteSync(x, Response(x, r, body))
    <2>1. h = CompleteRequest(x, r)
      BY <1>5 DEF HandleMessage
    <2>2. CompleteRequest(x, r)
            = [w EXCEPT !.skip = FALSE, !.open = @ /\ ~(streams /\ x.close)]
      BY DEF CompleteRequest
    <2>3. body \in BOOLEAN /\ streams \in BOOLEAN
      OBVIOUS
    <2>4. /\ w \in Connections /\ Live(w) /\ w.close = Closes
          /\ Answered(w.wire) = Append(Answered(k.wire), r)
      BY <1>2, <2>3
    <2> HIDE DEF h, x, w, body, streams, Closes
    <2>5. /\ h \in Connections /\ h.open = ~(streams /\ Closes)
          /\ h.close = Closes /\ Clear(h) /\ h.wire = w.wire
      BY <1>0, <1>1, <2>1, <2>2, <2>3, <2>4 DEF Connections, Live, Clear
    <2> QED
      BY <2>4, <2>5 DEF h, Over, Live, Closes
  <1> QED
    BY <1>3, <1>4, <1>5

LEMMA RequestIsHandled ==
  ASSUME NEW k \in Connections, NEW r \in Requests, NEW gone \in BOOLEAN, Live(k)
  PROVE  LET h == HandleRequest(k, r, gone)
         IN  /\ h \in Connections
             /\ \/ Over(h) /\ Answered(h.wire) = Answered(k.wire)
                \/ /\ Live(h) \/ Over(h)
                   /\ Answered(h.wire) = Append(Answered(k.wire), r)
             /\ Plain(r) /\ ~gone => \/ ~h.open /\ CloseConnection(r)
                                     \/ Live(h) /\ h.close = CloseConnection(r)
  <1> DEFINE h == HandleRequest(k, r, gone)
  <1>0. ~k.complete /\ k.feed = "ok"
    BY DEF Live, Clear
  <1>1. CASE r.route = "missing"
    <2> DEFINE w == WriteSync(k, Response(k, r, TRUE))
    <2>1. h = [w EXCEPT !.feed = "error"]
      BY <1>0, <1>1 DEF HandleRequest, HandleUrl
    <2>2. /\ Response(k, r, TRUE) \in Responses
          /\ ~Response(k, r, TRUE).interim /\ Response(k, r, TRUE).to = r
      BY ResponseIsFinal
    <2>3. w \in Connections /\ w.wire = Append(k.wire, Response(k, r, TRUE))
      <3>1. k.open
        BY DEF Live
      <3>2. w \in Connections
        BY <2>2, WriteSyncWrites
      <3>3. w.wire = IF k.open THEN Append(k.wire, Response(k, r, TRUE)) ELSE k.wire
        BY <2>2, WriteSyncWrites
      <3> QED
        BY <3>1, <3>2, <3>3
    <2>4. Answered(w.wire) = Append(Answered(k.wire), r)
      BY <2>2, <2>3, AnsweredGrows DEF Connections
    <2> HIDE DEF h, w
    <2>5. h \in Connections /\ h.feed = "error" /\ h.wire = w.wire
      BY <2>1, <2>3 DEF Connections, Feeds
    <2> QED
      BY <1>1, <2>4, <2>5 DEF h, Over, Plain
  <1>2. CASE r.route # "missing"
    <2> DEFINE x == HandleHeader(k, r)
    <2>1. x \in Connections /\ Live(x) /\ Answered(x.wire) = Answered(k.wire)
      BY HeaderIsInterim
    <2>2. h = IF gone \/ ~k.open THEN [x EXCEPT !.feed = "thrown"] ELSE HandleMessage(x, r)
      BY <1>0, <1>2 DEF HandleRequest
    <2> HIDE DEF h, x
    <2>3. CASE gone
      <3>1. h \in Connections /\ h.feed = "thrown" /\ h.wire = x.wire
        BY <2>1, <2>2, <2>3 DEF Connections, Feeds
      <3> QED
        BY <2>1, <2>3, <3>1 DEF h, Over
    <2>4. CASE ~gone
      <3>1. h = HandleMessage(x, r)
        BY <2>2, <2>4 DEF Live
      <3>2. /\ h \in Connections
            /\ \/ Over(h) /\ h.wire = x.wire
               \/ /\ Live(h) \/ Over(h)
                  /\ Answered(h.wire) = Append(Answered(x.wire), r)
            /\ Plain(r) => \/ ~h.open /\ CloseConnection(r)
                           \/ Live(h) /\ h.close = CloseConnection(r)
        BY <2>1, <3>1, MessageIsAnswered
      <3> QED
        BY <2>1, <3>2 DEF h
    <2> QED
      BY <2>3, <2>4
  <1> QED
    BY <1>1, <1>2

-----------------------------------------------------------------------------
(* What the requests of one read do.                                        *)

States == {k \in Connections : Live(k) \/ Over(k)}

FeedUpTo(f, c, chunk) ==
  f = [n \in 0..Len(chunk) |->
         IF n = 0 THEN conn[c]
         ELSE HandleRequest(f[n - 1], chunk[n], client[c] = "reset")]

LEMMA FeedIsDefined ==
  ASSUME NEW c \in Conns, NEW chunk \in Seq(Requests), conn[c] \in States
  PROVE  \E f : /\ f[0] = conn[c] /\ Feed(c, chunk) = f[Len(chunk)]
                /\ f \in [0..Len(chunk) -> States]
                /\ \A n \in Nat : n + 1 <= Len(chunk) =>
                     f[n + 1] = HandleRequest(f[n], chunk[n + 1], client[c] = "reset")
  <1> DEFINE N == Len(chunk)
             gone == client[c] = "reset"
             step == [x \in (1..N) \X States |->
                        HandleRequest(x[2], chunk[x[1]], gone)]
  <1>0. N \in Nat /\ gone \in BOOLEAN /\ \A n \in 1..N : chunk[n] \in Requests
    OBVIOUS
  <1>1. ASSUME NEW k \in States, NEW r \in Requests
        PROVE  HandleRequest(k, r, gone) \in States
    <2>1. CASE Live(k)
      <3>1. k \in Connections
        BY DEF States
      <3> HIDE DEF gone
      <3> QED
        BY <1>0, <2>1, <3>1, RequestIsHandled DEF States
    <2>2. CASE Over(k)
      <3>1. k \in Connections
        BY DEF States
      <3> HIDE DEF gone
      <3> QED
        BY <1>0, <2>2, <3>1, OverStays DEF States
    <2> QED
      BY <2>1, <2>2 DEF States
  <1>2. step \in [(1..N) \X States -> States]
    BY <1>0, <1>1
  <1>3. PICK f : Builds(f, N, States, conn[c], step)
    <2> HIDE DEF step, N
    <2> QED
      BY <1>0, <1>2, Recursion
  <1>4. f \in [0..N -> States] /\ f[0] = conn[c]
    BY <1>3 DEF Builds
  <1>5. ASSUME NEW n \in 1..N
        PROVE  f[n] = HandleRequest(f[n - 1], chunk[n], gone)
    <2>1. n - 1 \in 0..N /\ f[n - 1] \in States
      BY <1>0, <1>4
    <2> QED
      BY <1>3, <2>1 DEF Builds
  <1>6. FeedUpTo(f, c, chunk)
    <2> HIDE DEF step
    <2>1. \A n \in 0..N : n = 0 \/ n \in 1..N
      BY <1>0
    <2> QED
      BY <1>4, <1>5, <2>1 DEF FeedUpTo
  <1> DEFINE g == CHOOSE g : FeedUpTo(g, c, chunk)
  <1>7. FeedUpTo(g, c, chunk)
    BY <1>6
  <1>8. Feed(c, chunk) = g[N]
    BY DEF Feed, FeedUpTo
  <1> HIDE DEF g, step
  <1>9. g[0] = conn[c]
    BY <1>0, <1>7 DEF FeedUpTo
  <1>10. ASSUME NEW n \in Nat, n + 1 <= N
         PROVE  g[n + 1] = HandleRequest(g[n], chunk[n + 1], gone)
    <2>1. n + 1 \in 0..N /\ n + 1 # 0 /\ (n + 1) - 1 = n
      BY <1>0, <1>10
    <2> QED
      BY <1>7, <2>1 DEF FeedUpTo
  <1> DEFINE Typed == {n \in Nat : n <= N => g[n] \in States}
  <1>11. 0 \in Typed
    BY <1>4, <1>9
  <1>12. ASSUME NEW n \in Nat, n \in Typed PROVE n + 1 \in Typed
    <2> SUFFICES ASSUME n + 1 <= N PROVE g[n + 1] \in States
      OBVIOUS
    <2>1. g[n] \in States /\ chunk[n + 1] \in Requests
      BY <1>0, <1>12
    <2> QED
      BY <1>1, <1>10, <2>1
  <1>13. \A n \in Nat : n <= N => g[n] \in States
    <2> HIDE DEF Typed
    <2>1. Nat \subseteq Typed
      BY <1>11, <1>12, Induction
    <2> QED
      BY <2>1 DEF Typed
  <1>14. g \in [0..N -> States]
    <2>1. g = [n \in 0..N |-> g[n]]
      BY <1>7 DEF FeedUpTo
    <2> QED
      BY <1>0, <1>13, <2>1
  <1> QED
    BY <1>8, <1>9, <1>10, <1>14

\* The requests of a chunk are answered from the first; all of them are if the
\* connection is still live, none if it was closed already.
LEMMA FeedAnswers ==
  ASSUME NEW c \in Conns, NEW chunk \in Seq(Requests), conn[c] \in States
  PROVE  LET k == Feed(c, chunk)
         IN  /\ k \in States
             /\ \E m \in 0..Len(chunk) :
                  /\ Answered(k.wire) = Answered(conn[c].wire) \o SubSeq(chunk, 1, m)
                  /\ Live(k) => m = Len(chunk) /\ Live(conn[c])
                  /\ m # 0 => Live(conn[c])
  <1> DEFINE N == Len(chunk)
             gone == client[c] = "reset"
  <1>0. N \in Nat /\ gone \in BOOLEAN /\ \A n \in 1..N : chunk[n] \in Requests
    OBVIOUS
  <1>1. PICK f : /\ f[0] = conn[c] /\ Feed(c, chunk) = f[N]
                 /\ f \in [0..N -> States]
                 /\ \A n \in Nat : n + 1 <= N =>
                      f[n + 1] = HandleRequest(f[n], chunk[n + 1], gone)
    BY FeedIsDefined
  <1> HIDE DEF gone
  <1> DEFINE first == Answered(conn[c].wire)
             Upto(n) == SubSeq(chunk, 1, n)
             AllOf(n) == /\ Live(f[n]) /\ Live(f[0])
                         /\ Answered(f[n].wire) = first \o Upto(n)
             SomeOf(n) == /\ Over(f[n])
                          /\ \E m \in 0..n : /\ Answered(f[n].wire) = first \o Upto(m)
                                             /\ m # 0 => Live(f[0])
             Good(n) == n <= N => AllOf(n) \/ SomeOf(n)
             Fine == {n \in Nat : Good(n)}
  <1>2. first \in Seq(Requests)
    BY AnsweredIsTyped DEF States, Connections
  <1>3. Upto(0) = <<>> /\ first \o Upto(0) = first
    <2> HIDE DEF first
    <2> QED
      BY <1>2
  <1>4. ASSUME NEW n \in Nat, n + 1 <= N
        PROVE  Append(first \o Upto(n), chunk[n + 1]) = first \o Upto(n + 1)
    <2>1. n + 1 \in 1..N /\ chunk[n + 1] \in Requests
      BY <1>0, <1>4
    <2>2. Upto(n) \in Seq(Requests) /\ Upto(n + 1) = Append(Upto(n), chunk[n + 1])
      BY <2>1
    <2>3. Append(first \o Upto(n), chunk[n + 1]) = first \o Append(Upto(n), chunk[n + 1])
      <3> DEFINE e == chunk[n + 1]
                 u == Upto(n)
      <3>1. first \in Seq(Requests) /\ u \in Seq(Requests) /\ e \in Requests
        BY <1>2, <2>1, <2>2
      <3> HIDE DEF first, e, u
      <3>2. Append(first \o u, e) = first \o Append(u, e)
        BY <3>1
      <3> QED
        BY <3>2 DEF e, u
    <2> QED
      BY <2>2, <2>3
  <1> HIDE DEF Upto, first
  <1>5. 0 \in Fine
    <2>1. f[0] \in States /\ Answered(f[0].wire) = first \o Upto(0)
      BY <1>1, <1>3 DEF first
    <2>2. 0 \in 0..0
      OBVIOUS
    <2>3. AllOf(0) \/ SomeOf(0)
      BY <2>1, <2>2 DEF States
    <2> HIDE DEF AllOf, SomeOf
    <2> QED
      BY <2>3
  <1>6. ASSUME NEW n \in Nat, Good(n) PROVE Good(n + 1)
    <2> SUFFICES ASSUME n + 1 <= N PROVE AllOf(n + 1) \/ SomeOf(n + 1)
      OBVIOUS
    <2>1. AllOf(n) \/ SomeOf(n)
      <3> HIDE DEF AllOf, SomeOf
      <3> QED
        BY <1>0, <1>6
    <2> DEFINE r == chunk[n + 1]
    <2>2. /\ f[n] \in Connections /\ r \in Requests
          /\ f[n + 1] = HandleRequest(f[n], r, gone)
      BY <1>0, <1>1 DEF States
    <2> HIDE DEF r
    <2>3. CASE AllOf(n)
      <3>1. \/ Over(f[n + 1]) /\ Answered(f[n + 1].wire) = Answered(f[n].wire)
            \/ /\ Live(f[n + 1]) \/ Over(f[n + 1])
               /\ Answered(f[n + 1].wire) = Append(Answered(f[n].wire), r)
        BY <1>0, <2>2, <2>3, RequestIsHandled
      <3>2. n \in 0..n + 1 /\ n + 1 \in 0..n + 1
        OBVIOUS
      <3> QED
        BY <1>4, <2>3, <3>1, <3>2 DEF r
    <2>4. CASE SomeOf(n)
      <3>1. Over(f[n + 1]) /\ f[n + 1].wire = f[n].wire
        BY <1>0, <2>2, <2>4, OverStays
      <3>2. 0..n \subseteq 0..n + 1
        OBVIOUS
      <3> QED
        BY <2>4, <3>1, <3>2
    <2> QED
      BY <2>1, <2>3, <2>4
  <1> HIDE DEF Good
  <1>7. N \in Fine
    <2>1. \A n \in Nat : n \in Fine => n + 1 \in Fine
      BY <1>6
    <2> HIDE DEF Fine
    <2> QED
      BY <1>0, <1>5, <2>1, Induction
  <1>8. AllOf(N) \/ SomeOf(N)
    <2> HIDE DEF AllOf, SomeOf
    <2> QED
      BY <1>0, <1>7 DEF Good
  <1>9. ~(Live(f[N]) /\ Over(f[N]))
    BY DEF Live, Over, Clear
  <1>10. f[N] \in States /\ N \in 0..N
    BY <1>0, <1>1
  <1> QED
    BY <1>1, <1>8, <1>9, <1>10 DEF Upto, first

\* What is left of the connection after requests for pages only: the last of
\* them decides, unless a streamed response has closed the socket before.
LEMMA FeedCloses ==
  ASSUME NEW c \in Conns, NEW chunk \in Seq(Requests), chunk # <<>>,
         conn[c] \in Connections, Live(conn[c]), client[c] # "reset",
         \A n \in 1..Len(chunk) : Plain(chunk[n])
  PROVE  LET k == Feed(c, chunk)
         IN  \/ Live(k) /\ k.close = CloseConnection(chunk[Len(chunk)])
             \/ ~k.open /\ \E n \in 1..Len(chunk) : CloseConnection(chunk[n])
  <1> DEFINE N == Len(chunk)
  <1>0. N \in Nat /\ N # 0 /\ \A n \in 1..N : chunk[n] \in Requests
    OBVIOUS
  <1>1. PICK f : /\ f[0] = conn[c] /\ Feed(c, chunk) = f[N]
                 /\ f \in [0..N -> States]
                 /\ \A n \in Nat : n + 1 <= N =>
                      f[n + 1] = HandleRequest(f[n], chunk[n + 1], FALSE)
    <2>1. conn[c] \in States /\ (client[c] = "reset") = FALSE
      BY DEF States
    <2> QED
      BY <2>1, FeedIsDefined
  <1> DEFINE Open(n) == Live(f[n]) /\ (n # 0 => f[n].close = CloseConnection(chunk[n]))
             Shut(n) == ~f[n].open /\ \E m \in 1..n : CloseConnection(chunk[m])
             Good(n) == n <= N => Open(n) \/ Shut(n)
             Fine == {n \in Nat : Good(n)}
  <1>2. 0 \in Fine
    <2>1. Open(0)
      BY <1>1
    <2> HIDE DEF Open, Shut
    <2> QED
      BY <2>1
  <1>3. ASSUME NEW n \in Nat, Good(n) PROVE Good(n + 1)
    <2> SUFFICES ASSUME n + 1 <= N PROVE Open(n + 1) \/ Shut(n + 1)
      OBVIOUS
    <2>1. Open(n) \/ Shut(n)
      <3> HIDE DEF Open, Shut
      <3> QED
        BY <1>0, <1>3
    <2> DEFINE r == chunk[n + 1]
    <2>2. n + 1 \in 1..N /\ n \in 0..N /\ n + 1 # 0
      BY <1>0
    <2>3. f[n] \in Connections /\ r \in Requests /\ Plain(r)
      BY <1>0, <1>1, <2>2 DEF States
    <2>4. f[n + 1] = HandleRequest(f[n], r, FALSE)
      BY <1>1
    <2> HIDE DEF r
    <2>5. CASE Open(n)
      <3>1. \/ ~f[n + 1].open /\ CloseConnection(r)
            \/ Live(f[n + 1]) /\ f[n + 1].close = CloseConnection(r)
        BY <2>3, <2>4, <2>5, RequestIsHandled
      <3>2. n + 1 \in 1..n + 1
        OBVIOUS
      <3> QED
        BY <3>1, <3>2 DEF r
    <2>6. CASE Shut(n)
      <3>1. ~f[n + 1].open
        BY <2>3, <2>4, <2>6, OverStays DEF Over
      <3>2. 1..n \subseteq 1..n + 1
        OBVIOUS
      <3> QED
        BY <2>6, <3>1, <3>2
    <2> QED
      BY <2>1, <2>5, <2>6
  <1> HIDE DEF Good
  <1>4. N \in Fine
    <2>1. \A n \in Nat : n \in Fine => n + 1 \in Fine
      BY <1>3
    <2> HIDE DEF Fine
    <2> QED
      BY <1>0, <1>2, <2>1, Induction
  <1>5. Open(N) \/ Shut(N)
    <2> HIDE DEF Open, Shut
    <2> QED
      BY <1>0, <1>4 DEF Good
  <1> QED
    BY <1>0, <1>1, <1>5

-----------------------------------------------------------------------------
(* The deadlines.                                                           *)

DeadlineInv ==
  /\ highest_id \in Nat
  /\ DOMAIN tasks \subseteq Nat
  /\ tasks \in [DOMAIN tasks -> [owner : Conns, left : Int]]
  /\ task_id \in [Conns -> Nat]
  /\ NoForgottenDeadline

-----------------------------------------------------------------------------
(* cancel: the task of the connection goes, and no other connection's.      *)
LEMMA CancelKeepsDeadlines ==
  ASSUME DeadlineInv, NEW c \in Conns, CancelTask(task_id[c]), UNCHANGED task_id
  PROVE  /\ DeadlineInv'
         /\ \A i \in DOMAIN tasks' : tasks'[i].owner # c
  BY DEF DeadlineInv, NoForgottenDeadline, CancelTask, Without, Restrict

(* start_deadline: the new task is the only one of its connection.          *)
LEMMA AwaitKeepsDeadlines ==
  ASSUME DeadlineInv, NEW c \in Conns, AwaitRequest(c)
  PROVE  DeadlineInv'
  <1> DEFINE kept == Without(task_id[c])
  <1>1. /\ DOMAIN kept \subseteq DOMAIN tasks
        /\ \A i \in DOMAIN kept : kept[i] = tasks[i] /\ kept[i].owner # c
    BY DEF DeadlineInv, NoForgottenDeadline, Without, Restrict
  <1>2. /\ highest_id' = highest_id + 1
        /\ tasks' = Scheduled(kept, highest_id', c)
        /\ task_id' = [task_id EXCEPT ![c] = highest_id']
    BY DEF AwaitRequest, Reschedule
  <1>3. /\ DOMAIN tasks' = DOMAIN kept \cup {highest_id'}
        /\ tasks'[highest_id'] = [owner |-> c, left |-> Timeout]
        /\ \A i \in DOMAIN kept : tasks'[i] = tasks[i]
    BY <1>1, <1>2 DEF Scheduled, DeadlineInv, NoForgottenDeadline
  <1>4. DeadlineInv'
    <2>1. \A i \in DOMAIN kept : i # highest_id' /\ i <= highest_id' /\ i \in Nat
      BY <1>1, <1>2 DEF DeadlineInv, NoForgottenDeadline
    <2>2. /\ highest_id' \in Nat /\ DOMAIN tasks' \subseteq Nat
          /\ task_id' \in [Conns -> Nat]
      BY <1>2, <1>3, <2>1 DEF DeadlineInv
    <2>3. \A i \in DOMAIN tasks' : tasks'[i] \in [owner : Conns, left : Int]
      BY <1>1, <1>3, TimeoutAssumption DEF DeadlineInv
    <2>4. tasks' = [i \in DOMAIN tasks' |-> tasks'[i]]
      BY <1>2 DEF Scheduled
    <2>5. \A i \in DOMAIN tasks' : i <= highest_id' /\ task_id'[tasks'[i].owner] = i
      BY <1>1, <1>2, <1>3, <2>1 DEF DeadlineInv, NoForgottenDeadline
    <2> QED
      BY <2>2, <2>3, <2>4, <2>5 DEF DeadlineInv, NoForgottenDeadline
  <1> QED
    BY <1>4

(* process_tasks: identifiers start again only when no task is left.        *)
LEMMA ProcessKeepsDeadlines ==
  ASSUME DeadlineInv, ProcessTasks, UNCHANGED task_id
  PROVE  DeadlineInv'
  <1>1. /\ DOMAIN tasks' = DOMAIN tasks \ Expired
        /\ \A i \in DOMAIN tasks' : /\ tasks'[i] \in [owner : Conns, left : Int]
                                    /\ tasks'[i].owner = tasks[i].owner
    BY DEF DeadlineInv, ProcessTasks
  <1>2. DOMAIN tasks' = {} \/ highest_id' = highest_id
    BY <1>1 DEF ProcessTasks
  <1>3. highest_id' \in Nat
    BY DEF DeadlineInv, ProcessTasks
  <1>4. tasks' = [i \in DOMAIN tasks' |-> tasks'[i]]
    BY DEF ProcessTasks
  <1> QED
    BY <1>1, <1>2, <1>3, <1>4 DEF DeadlineInv, NoForgottenDeadline

LEMMA NextKeepsDeadlines ==
  ASSUME DeadlineInv, [Next]_vars
  PROVE  DeadlineInv'
  <1>1. CASE Tick
    BY <1>1, ProcessKeepsDeadlines DEF Tick
  <1>2. ASSUME NEW c \in Conns, Start(c) \/ ReadContinues(c)
        PROVE  DeadlineInv'
    BY <1>2, AwaitKeepsDeadlines DEF Start, ReadContinues
  <1>3. ASSUME NEW c \in Conns, ReadEnds(c)
        PROVE  DeadlineInv'
    BY <1>3, CancelKeepsDeadlines DEF ReadEnds
  <1> USE DEF timerVars, DeadlineInv, NoForgottenDeadline
  <1>4. CASE TimerExpires
    BY <1>4 DEF TimerExpires
  <1>5. ASSUME NEW c \in Conns, 
               \/ Accept(c) \/ ReadFails(c)
               \/ \E chunk \in Chunks[c] : Receive(c, chunk)
               \/ \E how \in {"closed", "reset"} : Hangup(c, how)
        PROVE  DeadlineInv'
    BY <1>5 DEF Accept, ReadFails, Receive, Hangup, connVars
  <1>6. CASE UNCHANGED vars
    BY <1>6 DEF vars, connVars
  <1> QED
    BY <1>1, <1>2, <1>3, <1>4, <1>5, <1>6 DEF Next, Worker

(* No connection leaves a deadline behind that it can no longer cancel,     *)
(* however often the timer starts its identifiers again (process_tasks,     *)
(* start_deadline).                                                        *)
THEOREM DeadlinesAreHeld == Spec => []NoForgottenDeadline
  <1>1. Init => DeadlineInv
    BY DEF Init, EmptyTimer, DeadlineInv, NoForgottenDeadline
  <1>2. DeadlineInv /\ [Next]_vars => DeadlineInv'
    BY NextKeepsDeadlines
  <1>3. DeadlineInv => NoForgottenDeadline
    BY DEF DeadlineInv
  <1> QED
    BY <1>1, <1>2, <1>3, PTL DEF Spec

-----------------------------------------------------------------------------
(* The queue of handlers.                                                   *)

Events == [type : {"start"}, conn : Conns]
            \cup [type : {"read"}, conn : Conns, error : BOOLEAN, chunk : Seq(Requests)]
            \cup [type : {"tick"}]

ConnectionTypeOK ==
  /\ conn \in [Conns -> Connections]
  /\ reading \subseteq Conns
  /\ events \in Seq(Events)
  /\ sent \in [Conns -> Seq(Requests)]
  /\ client \in [Conns -> {"none", "open", "closed", "reset"}]

\* An event that a connection waits for.
Handler(e) == e.type # "tick"

\* No two events of the queue are handlers of one connection.
Apart(q) ==
  \A i, j \in DOMAIN q : Handler(q[i]) /\ Handler(q[j]) /\ q[i].conn = q[j].conn => i = j

LEMMA TailShifts ==
  ASSUME NEW q \in Seq(Events), q # <<>>
  PROVE  /\ Tail(q) \in Seq(Events) /\ Head(q) \in Events
         /\ \A i \in DOMAIN Tail(q) : i + 1 \in DOMAIN q /\ Tail(q)[i] = q[i + 1]
         /\ \A i \in DOMAIN q : i = 1 \/ (i - 1 \in DOMAIN Tail(q) /\ Tail(q)[i - 1] = q[i])
         /\ 1 \in DOMAIN q /\ q[1] = Head(q)
         /\ DOMAIN q \subseteq Nat
  OBVIOUS

\* The handler at the head of the queue is the only one of its connection.
LEMMA HeadIsAlone ==
  ASSUME NEW q \in Seq(Events), q # <<>>, Apart(q), Handler(Head(q))
  PROVE  /\ Apart(Tail(q))
         /\ \A i \in DOMAIN Tail(q) : Handler(Tail(q)[i]) => Tail(q)[i].conn # Head(q).conn
  <1>1. Apart(Tail(q))
    <2> SUFFICES ASSUME NEW i \in DOMAIN Tail(q), NEW j \in DOMAIN Tail(q),
                        Handler(Tail(q)[i]), Handler(Tail(q)[j]),
                        Tail(q)[i].conn = Tail(q)[j].conn
                 PROVE  i = j
      BY DEF Apart
    <2>1. i + 1 = j + 1
      BY TailShifts DEF Apart
    <2> QED
      BY <2>1, TailShifts
  <1>2. ASSUME NEW i \in DOMAIN Tail(q), Handler(Tail(q)[i])
        PROVE  Tail(q)[i].conn # Head(q).conn
    <2>1. i + 1 # 1
      BY TailShifts
    <2> QED
      BY <1>2, <2>1, TailShifts DEF Apart
  <1> QED
    BY <1>1, <1>2

LEMMA AppendedIsLast ==
  ASSUME NEW q \in Seq(Events), NEW e \in Events
  PROVE  /\ Append(q, e) \in Seq(Events)
         /\ \A i \in DOMAIN Append(q, e) :
              i = Len(q) + 1 \/ (i \in DOMAIN q /\ Append(q, e)[i] = q[i])
         /\ \A i \in DOMAIN q : i \in DOMAIN Append(q, e) /\ Append(q, e)[i] = q[i]
         /\ Append(q, e)[Len(q) + 1] = e /\ Len(q) + 1 \in DOMAIN Append(q, e)
  OBVIOUS

-----------------------------------------------------------------------------
(* The invariant of the connections.                                        *)

ConnectionInv ==
  DeadlineInv /\ ConnectionTypeOK /\ OpenIsServed /\ OneHandler /\ AnswersInv

LEMMA PrefixOfConcat ==
  ASSUME NEW S, NEW s \in Seq(S), NEW t \in Seq(S), NEW m \in 0..Len(t)
  PROVE  /\ IsPrefix(s, s \o SubSeq(t, 1, m))
         /\ IsPrefix(s \o SubSeq(t, 1, m), s \o t)
         /\ s \o SubSeq(t, 1, m) \in Seq(S)
  <1> DEFINE u == SubSeq(t, 1, m)
  <1>1. u \in Seq(S) /\ Len(u) = m /\ \A i \in 1..m : u[i] = t[i]
    OBVIOUS
  <1>2. /\ s \o u \in Seq(S) /\ Len(s \o u) = Len(s) + m
        /\ \A i \in 1..Len(s) + m : (s \o u)[i] = IF i <= Len(s) THEN s[i] ELSE u[i - Len(s)]
    BY <1>1, ConcatProperties
  <1>3. /\ s \o t \in Seq(S) /\ Len(s \o t) = Len(s) + Len(t)
        /\ \A i \in 1..Len(s) + Len(t) :
             (s \o t)[i] = IF i <= Len(s) THEN s[i] ELSE t[i - Len(s)]
    BY ConcatProperties
  <1> HIDE DEF u
  <1>4. SubSeq(s, 1, Len(s)) = SubSeq(s \o u, 1, Len(s))
    BY <1>2
  <1>5. SubSeq(s \o u, 1, Len(s) + m) = SubSeq(s \o t, 1, Len(s) + m)
    <2>1. \A i \in 1..Len(s) + m : (s \o u)[i] = (s \o t)[i]
      BY <1>1, <1>2, <1>3
    <2> QED
      BY <1>2, <1>3, <2>1
  <1> QED
    BY <1>2, <1>3, <1>4, <1>5 DEF IsPrefix, u

\* A read whose event is at the head of the queue.
Takes(c) == events # <<>> /\ Handler(Head(events)) /\ Head(events).conn = c

LEMMA ReadAnswers ==
  ASSUME ConnectionInv, NEW c \in Conns, Takes(c),
         Head(events).type = "read", ~Head(events).error
  PROVE  LET k == Feed(c, Head(events).chunk)
         IN  /\ k \in Connections /\ (Live(k) \/ Over(k))
             /\ IsPrefix(Answered(conn[c].wire), Answered(k.wire))
             /\ IsPrefix(Answered(k.wire), sent[c])
             /\ ~conn[c].open => Answered(k.wire) = Answered(conn[c].wire)
             /\ Live(k) => Answered(k.wire) = sent[c] /\ conn[c].open
  <1> DEFINE k == Feed(c, Head(events).chunk)
             chunk == Head(events).chunk
             first == Answered(conn[c].wire)
  <1>1. /\ conn[c] \in Connections /\ Head(events) \in Events /\ sent[c] \in Seq(Requests)
        /\ 1 \in DOMAIN events /\ events[1] = Head(events)
    BY TailShifts DEF ConnectionInv, ConnectionTypeOK, Takes
  <1>2. chunk \in Seq(Requests) /\ Chunk(Head(events)) = chunk
    BY <1>1 DEF Events, Chunk
  <1>3. first \in Seq(Requests) /\ IsPrefix(first, sent[c])
    BY <1>1, AnsweredIsTyped DEF Connections, ConnectionInv, AnswersInv
  <1>4. conn[c].open => Live(conn[c]) /\ first \o chunk = sent[c]
    BY <1>1, <1>2 DEF ConnectionInv, AnswersInv, Takes, Handler, Live
  <1>5. conn[c] \in States
    BY <1>1, <1>4 DEF States, Over
  <1> HIDE DEF chunk
  <1>6. k = Feed(c, chunk)
    BY DEF chunk
  <1> HIDE DEF k
  <1>7. PICK m \in 0..Len(chunk) :
           /\ Answered(k.wire) = first \o SubSeq(chunk, 1, m)
           /\ Live(k) => m = Len(chunk) /\ Live(conn[c])
           /\ m # 0 => Live(conn[c])
    BY <1>2, <1>5, <1>6, FeedAnswers
  <1>8. k \in States
    BY <1>2, <1>5, <1>6, FeedAnswers
  <1> HIDE DEF first
  <1>9. CASE conn[c].open
    <2>1. first \o chunk = sent[c]
      BY <1>4, <1>9
    <2>2. IsPrefix(first, Answered(k.wire)) /\ IsPrefix(Answered(k.wire), sent[c])
      BY <1>2, <1>3, <1>7, <2>1, PrefixOfConcat
    <2>3. Live(k) => Answered(k.wire) = sent[c]
      BY <1>2, <1>7, <2>1
    <2> QED
      BY <1>8, <1>9, <2>2, <2>3 DEF k, chunk, first, States
  <1>10. CASE ~conn[c].open
    <2>1. m = 0 /\ ~Live(k)
      BY <1>7, <1>10 DEF Live
    <2>2. Answered(k.wire) = first
      BY <1>2, <1>3, <1>7, <2>1
    <2>3. IsPrefix(first, first)
      BY <1>3 DEF IsPrefix
    <2> QED
      BY <1>3, <1>8, <1>10, <2>1, <2>2, <2>3 DEF k, chunk, first, States
  <1> QED
    BY <1>9, <1>10

(* The handler at the head of the queue leaves its connection closed, or    *)
(* reading with all that has arrived answered.                              *)
LEMMA HandlerKeepsAnswers ==
  ASSUME ConnectionInv, NEW c \in Conns, Takes(c), NEW k \in Connections,
         events' = Tail(events), conn' = [conn EXCEPT ![c] = k],
         UNCHANGED <<sent, client>>, IsPrefix(Answered(k.wire), sent[c]),
         \/ /\ reading' = reading \cup {c}
            /\ k.open => Clear(k) /\ Answered(k.wire) = sent[c]
         \/ reading' = reading /\ ~k.open
  PROVE  ConnectionTypeOK' /\ OpenIsServed' /\ OneHandler' /\ AnswersInv'
  <1> USE DEF Handler
  <1>1. /\ events \in Seq(Events) /\ events # <<>> /\ Apart(events)
        /\ Handler(Head(events)) /\ Head(events).conn = c
    BY DEF ConnectionInv, ConnectionTypeOK, OneHandler, Apart, Takes
  <1>2. /\ events' \in Seq(Events) /\ Apart(events')
        /\ \A i \in DOMAIN events' : i + 1 \in DOMAIN events /\ events'[i] = events[i + 1]
        /\ \A i \in DOMAIN events :
             i = 1 \/ (i - 1 \in DOMAIN events' /\ events'[i - 1] = events[i])
        /\ 1 \in DOMAIN events /\ events[1] = Head(events)
        /\ \A i \in DOMAIN events' : Handler(events'[i]) => events'[i].conn # c
    BY <1>1, TailShifts, HeadIsAlone
  <1>3. ~Queued(c)' /\ Queued(c) /\ c \notin reading /\ client[c] # "none"
    <2>1. ~Queued(c)'
      BY <1>2 DEF Queued
    <2>2. Queued(c)
      BY <1>1, <1>2 DEF Queued
    <2> QED
      BY <2>1, <2>2 DEF ConnectionInv, OneHandler
  <1>4. ASSUME NEW d \in Conns, d # c
        PROVE  Queued(d)' <=> Queued(d)
    <2>1. Queued(d)' => Queued(d)
      BY <1>2 DEF Queued
    <2>2. ASSUME NEW i \in DOMAIN events, Handler(events[i]), events[i].conn = d
          PROVE  Queued(d)'
      <3>1. i # 1
        BY <1>1, <1>2, <1>4, <2>2
      <3>2. i - 1 \in DOMAIN events' /\ events'[i - 1] = events[i]
        BY <1>2, <3>1
      <3> QED
        BY <2>2, <3>2 DEF Queued
    <2> QED
      BY <2>1, <2>2 DEF Queued
  <1>5. /\ conn'[c] = k /\ conn' \in [Conns -> Connections]
        /\ \A d \in Conns : d # c => conn'[d] = conn[d]
    BY DEF ConnectionInv, ConnectionTypeOK
  <1>6. ConnectionTypeOK'
    BY <1>2, <1>5 DEF ConnectionInv, ConnectionTypeOK
  <1>7. OpenIsServed'
    BY <1>4, <1>5 DEF ConnectionInv, OpenIsServed
  <1>8. OneHandler'
    <2>1. Apart(events)'
      BY <1>2
    <2>2. \A d \in reading' : ~Queued(d)'
      BY <1>3, <1>4 DEF ConnectionInv, OneHandler, ConnectionTypeOK
    <2>3. ASSUME NEW d \in Conns, client'[d] = "none"
          PROVE  /\ ~conn'[d].open /\ conn'[d].wire = <<>> /\ sent'[d] = <<>>
                 /\ d \notin reading' /\ ~Queued(d)'
      <3>1. d # c
        BY <1>3, <2>3
      <3> QED
        BY <1>4, <1>5, <2>3, <3>1 DEF ConnectionInv, OneHandler
    <2> QED
      BY <2>1, <2>2, <2>3 DEF OneHandler, Apart
  <1>9. AnswersInv'
    <2>1. ASSUME NEW d \in Conns
          PROVE  /\ IsPrefix(Answered(conn'[d].wire), sent'[d])
                 /\ conn'[d].open => Clear(conn'[d])
      BY <1>5 DEF ConnectionInv, AnswersInv
    <2>2. ASSUME NEW d \in reading', conn'[d].open
          PROVE  Answered(conn'[d].wire) = sent'[d]
      <3>1. d = c \/ (d \in Conns /\ d \in reading /\ d # c)
        BY DEF ConnectionInv, ConnectionTypeOK
      <3> QED
        BY <1>3, <1>5, <2>2, <3>1 DEF ConnectionInv, AnswersInv
    <2>3. ASSUME NEW i \in DOMAIN events', Handler(events'[i]),
                 conn'[events'[i].conn].open
          PROVE  Answered(conn'[events'[i].conn].wire) \o Chunk(events'[i])
                   = sent'[events'[i].conn]
      <3>1. /\ events'[i].conn # c /\ events'[i] = events[i + 1]
            /\ i + 1 \in DOMAIN events
        BY <1>2, <2>3
      <3>2. events'[i].conn \in Conns
        BY <1>2, <2>3 DEF Events
      <3> QED
        BY <1>5, <2>3, <3>1, <3>2 DEF ConnectionInv, AnswersInv
    <2> QED
      BY <2>1, <2>2, <2>3 DEF AnswersInv
  <1> QED
    BY <1>6, <1>7, <1>8, <1>9

(* An event is queued for a connection that has none: nothing but the read  *)
(* that it ends was outstanding.                                            *)
LEMMA EventKeepsAnswers ==
  ASSUME ConnectionInv, NEW c \in Conns, NEW e \in Events, NEW k \in Connections,
         Handler(e), e.conn = c, ~Queued(c),
         events' = Append(events, e), reading' = reading \ {c},
         conn' = [conn EXCEPT ![c] = k],
         client' \in [Conns -> {"none", "open", "closed", "reset"}], client'[c] # "none",
         sent' \in [Conns -> Seq(Requests)],
         \A d \in Conns : d # c => client'[d] = client[d] /\ sent'[d] = sent[d],
         IsPrefix(Answered(k.wire), sent'[c]),
         k.open => Clear(k) /\ Answered(k.wire) \o Chunk(e) = sent'[c]
  PROVE  ConnectionTypeOK' /\ OpenIsServed' /\ OneHandler' /\ AnswersInv'
  <1> USE DEF Handler
  <1>1. /\ events \in Seq(Events) /\ Apart(events)
        /\ \A i \in DOMAIN events : Handler(events[i]) => events[i].conn # c
    BY DEF ConnectionInv, ConnectionTypeOK, OneHandler, Apart, Queued
  <1>2. /\ events' \in Seq(Events)
        /\ \A i \in DOMAIN events' :
              i = Len(events) + 1 \/ (i \in DOMAIN events /\ events'[i] = events[i])
        /\ \A i \in DOMAIN events : i \in DOMAIN events' /\ events'[i] = events[i]
        /\ events'[Len(events) + 1] = e /\ Len(events) + 1 \in DOMAIN events'
    BY <1>1, AppendedIsLast
  <1>3. Queued(c)'
    BY <1>2 DEF Queued
  <1>4. ASSUME NEW d \in Conns, d # c
        PROVE  Queued(d)' <=> Queued(d)
    <2>1. Queued(d) => Queued(d)'
      BY <1>2 DEF Queued
    <2>2. Queued(d)' => Queued(d)
      BY <1>2, <1>4 DEF Queued
    <2> QED
      BY <2>1, <2>2
  <1>5. /\ conn'[c] = k /\ conn' \in [Conns -> Connections]
        /\ \A d \in Conns : d # c => conn'[d] = conn[d]
    BY DEF ConnectionInv, ConnectionTypeOK
  <1>6. ConnectionTypeOK'
    BY <1>2, <1>5 DEF ConnectionInv, ConnectionTypeOK
  <1>7. OpenIsServed'
    BY <1>3, <1>4, <1>5 DEF ConnectionInv, OpenIsServed
  <1>8. OneHandler'
    <2>1. Apart(events)'
      <3> SUFFICES ASSUME NEW i \in DOMAIN events', NEW j \in DOMAIN events',
                          Handler(events'[i]), Handler(events'[j]),
                          events'[i].conn = events'[j].conn
                   PROVE  i = j
        BY DEF Apart
      <3>1. CASE i \in DOMAIN events /\ j \in DOMAIN events
        BY <1>1, <1>2, <3>1 DEF Apart
      <3>2. CASE i = Len(events) + 1 /\ j \in DOMAIN events
        BY <1>1, <1>2, <3>2
      <3>3. CASE j = Len(events) + 1 /\ i \in DOMAIN events
        BY <1>1, <1>2, <3>3
      <3> QED
        BY <1>2, <3>1, <3>2, <3>3
    <2>2. \A d \in reading' : ~Queued(d)'
      BY <1>4 DEF ConnectionInv, OneHandler, ConnectionTypeOK
    <2>3. ASSUME NEW d \in Conns, client'[d] = "none"
          PROVE  /\ ~conn'[d].open /\ conn'[d].wire = <<>> /\ sent'[d] = <<>>
                 /\ d \notin reading' /\ ~Queued(d)'
      <3>1. d # c
        BY <2>3
      <3> QED
        BY <1>4, <1>5, <2>3, <3>1 DEF ConnectionInv, OneHandler
    <2> QED
      BY <2>1, <2>2, <2>3 DEF OneHandler, Apart
  <1>9. AnswersInv'
    <2>1. ASSUME NEW d \in Conns
          PROVE  /\ IsPrefix(Answered(conn'[d].wire), sent'[d])
                 /\ conn'[d].open => Clear(conn'[d])
      BY <1>5 DEF ConnectionInv, AnswersInv
    <2>2. ASSUME NEW d \in reading', conn'[d].open
          PROVE  Answered(conn'[d].wire) = sent'[d]
      <3>1. d \in Conns /\ d \in reading /\ d # c
        BY DEF ConnectionInv, ConnectionTypeOK
      <3> QED
        BY <1>5, <2>2, <3>1 DEF ConnectionInv, AnswersInv
    <2>3. ASSUME NEW i \in DOMAIN events', Handler(events'[i]),
                 conn'[events'[i].conn].open
          PROVE  Answered(conn'[events'[i].conn].wire) \o Chunk(events'[i])
                   = sent'[events'[i].conn]
      <3>1. CASE i = Len(events) + 1
        BY <1>2, <1>5, <2>3, <3>1
      <3>2. CASE i \in DOMAIN events
        <4>1. events'[i] = events[i] /\ events[i].conn # c
          BY <1>1, <1>2, <2>3, <3>2
        <4>2. events'[i].conn \in Conns
          BY <1>2, <2>3 DEF Events
        <4>3. /\ conn'[events[i].conn] = conn[events[i].conn]
              /\ sent'[events[i].conn] = sent[events[i].conn]
          BY <1>5, <4>1, <4>2
        <4>4. Answered(conn[events[i].conn].wire) \o Chunk(events[i])
                = sent[events[i].conn]
          BY <2>3, <3>2, <4>1, <4>3 DEF ConnectionInv, AnswersInv
        <4> QED
          BY <4>1, <4>3, <4>4
      <3> QED
        BY <1>2, <3>1, <3>2
    <2> QED
      BY <2>1, <2>2, <2>3 DEF AnswersInv
  <1> QED
    BY <1>6, <1>7, <1>8, <1>9

LEMMA WorkerKeepsAnswers ==
  ASSUME ConnectionInv, NEW c \in Conns, Start(c) \/ ReadContinues(c) \/ ReadEnds(c)
  PROVE  ConnectionTypeOK' /\ OpenIsServed' /\ OneHandler' /\ AnswersInv'
  <1>1. /\ Takes(c) /\ events' = Tail(events) /\ UNCHANGED <<sent, client>>
        /\ events[1] = Head(events) /\ 1 \in DOMAIN events
    <2>1. Takes(c) /\ events' = Tail(events) /\ UNCHANGED <<sent, client>>
      BY DEF Start, ReadContinues, ReadEnds, Next1, Takes, Handler, clientVars
    <2> QED
      BY <2>1, TailShifts DEF ConnectionInv, ConnectionTypeOK, Takes
  <1>2. /\ conn[c] \in Connections /\ conn \in [Conns -> Connections]
        /\ IsPrefix(Answered(conn[c].wire), sent[c])
    BY DEF ConnectionInv, ConnectionTypeOK, AnswersInv
  <1>3. CASE Start(c)
    <2>1. Chunk(Head(events)) = <<>> /\ Head(events).type = "start"
      BY <1>3 DEF Start, Next1, Chunk
    <2>2. conn[c].open => Clear(conn[c]) /\ Answered(conn[c].wire) = sent[c]
      <3>1. Answered(conn[c].wire) \in Seq(Requests)
        BY <1>2, AnsweredIsTyped DEF Connections
      <3>2. conn[c].open => Clear(conn[c]) /\ Answered(conn[c].wire) \o <<>> = sent[c]
        BY <1>1, <2>1 DEF ConnectionInv, AnswersInv, Takes, Handler
      <3> QED
        BY <3>1, <3>2
    <2>3. conn' = [conn EXCEPT ![c] = conn[c]] /\ reading' = reading \cup {c}
      BY <1>2, <1>3 DEF Start, AwaitRequest
    <2> QED
      BY <1>1, <1>2, <2>2, <2>3, HandlerKeepsAnswers
  <1>4. CASE ReadContinues(c)
    <2> DEFINE k == Feed(c, Head(events).chunk)
    <2>1. /\ Head(events).type = "read" /\ ~Head(events).error
          /\ k.feed = "ok" /\ k.open /\ ~k.close
          /\ conn' = [conn EXCEPT ![c] = k] /\ reading' = reading \cup {c}
      BY <1>4 DEF ReadContinues, Next1, AwaitRequest
    <2>2. /\ k \in Connections /\ (Live(k) \/ Over(k))
          /\ IsPrefix(Answered(k.wire), sent[c])
          /\ Live(k) => Answered(k.wire) = sent[c]
      BY <1>1, <2>1, ReadAnswers
    <2> HIDE DEF k
    <2>3. Live(k)
      BY <2>1, <2>2 DEF Over
    <2> QED
      BY <1>1, <2>1, <2>2, <2>3, HandlerKeepsAnswers DEF Live
  <1>5. CASE ReadEnds(c)
    <2> DEFINE k == IF Head(events).error THEN [conn[c] EXCEPT !.feed = "error"]
                                          ELSE Feed(c, Head(events).chunk)
               after == IF k.feed = "error" THEN Closed(k) ELSE Released(k, c)
    <2>1. /\ Head(events).type = "read" /\ CancelTask(task_id[c])
          /\ conn' = [conn EXCEPT ![c] = after]
          /\ UNCHANGED <<reading, task_id>>
      BY <1>5 DEF ReadEnds, Next1
    <2>2. k \in Connections /\ IsPrefix(Answered(k.wire), sent[c])
      <3>1. CASE Head(events).error
        BY <1>2, <3>1 DEF Connections, Feeds
      <3>2. CASE ~Head(events).error
        BY <1>1, <2>1, <3>2, ReadAnswers
      <3> QED
        BY <3>1, <3>2
    <2>3. \A i \in DOMAIN tasks' : tasks'[i].owner # c
      BY <2>1, CancelKeepsDeadlines DEF ConnectionInv
    <2> HIDE DEF k
    <2>4. after \in Connections /\ ~after.open /\ after.wire = k.wire
      BY <2>2, <2>3 DEF Closed, Released, Connections
    <2> HIDE DEF after
    <2> QED
      BY <1>1, <2>1, <2>2, <2>4, HandlerKeepsAnswers
  <1> QED
    BY <1>3, <1>4, <1>5

LEMMA NetworkKeepsAnswers ==
  ASSUME ConnectionInv, NEW c \in Conns,
         \/ Accept(c) \/ ReadFails(c)
         \/ \E chunk \in Chunks[c] : Receive(c, chunk)
         \/ \E how \in {"closed", "reset"} : Hangup(c, how)
  PROVE  ConnectionTypeOK' /\ OpenIsServed' /\ OneHandler' /\ AnswersInv'
  <1>1. /\ conn[c] \in Connections /\ conn \in [Conns -> Connections]
        /\ IsPrefix(Answered(conn[c].wire), sent[c]) /\ sent[c] \in Seq(Requests)
        /\ Answered(conn[c].wire) \in Seq(Requests)
        /\ conn[c].open => Clear(conn[c])
        /\ c \in reading => ~Queued(c) /\ client[c] # "none"
        /\ c \in reading /\ conn[c].open => Answered(conn[c].wire) = sent[c]
        /\ sent \in [Conns -> Seq(Requests)]
        /\ client \in [Conns -> {"none", "open", "closed", "reset"}]
    <2>1. conn \in [Conns -> Connections] /\ conn[c] \in Connections
      BY DEF ConnectionInv, ConnectionTypeOK
    <2>2. Answered(conn[c].wire) \in Seq(Requests)
      BY <2>1, AnsweredIsTyped DEF Connections
    <2> QED
      BY <2>1, <2>2 DEF ConnectionInv, ConnectionTypeOK, AnswersInv, OneHandler
  <1>2. CASE Accept(c)
    <2> DEFINE e == [type |-> "start", conn |-> c]
    <2>1. e \in Events /\ Handler(e) /\ e.conn = c /\ Chunk(e) = <<>>
      BY DEF Events, Handler, Chunk
    <2>2. /\ client[c] = "none" /\ client' = [client EXCEPT ![c] = "open"]
          /\ conn' = [conn EXCEPT ![c] = NewConnection]
          /\ events' = Append(events, e) /\ UNCHANGED <<reading, sent>>
      BY <1>2 DEF Accept
    <2>3. ~Queued(c) /\ sent[c] = <<>> /\ c \notin reading
      BY <2>2 DEF ConnectionInv, OneHandler
    <2>4. /\ NewConnection \in Connections /\ NewConnection.wire = <<>>
          /\ Clear(NewConnection)
      BY DEF NewConnection, Connections, Feeds, Clear
    <2>5. Answered(<<>>) = <<>> /\ IsPrefix(<<>>, <<>>) /\ <<>> \o <<>> = <<>>
      BY AnsweredGrows DEF IsPrefix
    <2>6. /\ reading' = reading \ {c} /\ client'[c] # "none"
          /\ client' \in [Conns -> {"none", "open", "closed", "reset"}]
          /\ \A d \in Conns : d # c => client'[d] = client[d] /\ sent'[d] = sent[d]
          /\ sent' \in [Conns -> Seq(Requests)] /\ sent'[c] = <<>>
      BY <1>1, <2>2, <2>3
    <2> HIDE DEF e
    <2>7. /\ IsPrefix(Answered(NewConnection.wire), sent'[c])
          /\ Answered(NewConnection.wire) \o Chunk(e) = sent'[c]
      BY <2>1, <2>4, <2>5, <2>6
    <2> QED
      BY <2>1, <2>2, <2>3, <2>4, <2>6, <2>7, EventKeepsAnswers
  <1>3. ASSUME NEW chunk \in Chunks[c], Receive(c, chunk)
        PROVE  ConnectionTypeOK' /\ OpenIsServed' /\ OneHandler' /\ AnswersInv'
    <2> DEFINE e == ReadEvent(c, FALSE, chunk)
    <2>0. chunk \in Seq(Requests)
      BY ChunksAssumption
    <2>1. e \in Events /\ Handler(e) /\ e.conn = c /\ Chunk(e) = chunk
      BY <2>0 DEF ReadEvent, Events, Handler, Chunk
    <2>2. /\ c \in reading /\ reading' = reading \ {c}
          /\ sent' = [sent EXCEPT ![c] = @ \o chunk]
          /\ events' = Append(events, e) /\ UNCHANGED <<conn, client>>
      BY <1>3 DEF Receive
    <2>3. ~Queued(c) /\ client'[c] # "none" /\ conn' = [conn EXCEPT ![c] = conn[c]]
      BY <1>1, <2>2
    <2>4. sent'[c] = sent[c] \o chunk /\ sent' \in [Conns -> Seq(Requests)]
      BY <1>1, <2>0, <2>2
    <2>5. IsPrefix(Answered(conn[c].wire), sent'[c])
      BY <1>1, <2>0, <2>4, ConcatProperties DEF IsPrefix
    <2>6. conn[c].open => Clear(conn[c]) /\ Answered(conn[c].wire) \o Chunk(e) = sent'[c]
      BY <1>1, <2>1, <2>2, <2>4
    <2>7. /\ client' \in [Conns -> {"none", "open", "closed", "reset"}]
          /\ \A d \in Conns : d # c => client'[d] = client[d] /\ sent'[d] = sent[d]
      BY <1>1, <2>2
    <2> HIDE DEF e
    <2> QED
      BY <1>1, <2>1, <2>2, <2>3, <2>4, <2>5, <2>6, <2>7, EventKeepsAnswers
  <1>4. CASE ReadFails(c)
    <2> DEFINE e == ReadEvent(c, TRUE, <<>>)
    <2>1. e \in Events /\ Handler(e) /\ e.conn = c /\ Chunk(e) = <<>>
      BY DEF ReadEvent, Events, Handler, Chunk
    <2>2. /\ c \in reading /\ reading' = reading \ {c}
          /\ events' = Append(events, e) /\ UNCHANGED <<conn, client, sent>>
      BY <1>4 DEF ReadFails, clientVars
    <2>3. ~Queued(c) /\ client'[c] # "none" /\ conn' = [conn EXCEPT ![c] = conn[c]]
      BY <1>1, <2>2
    <2>4. conn[c].open => Clear(conn[c]) /\ Answered(conn[c].wire) \o Chunk(e) = sent'[c]
      <3>1. Answered(conn[c].wire) \o <<>> = Answered(conn[c].wire)
        BY <1>1
      <3> HIDE DEF e
      <3> QED
        BY <1>1, <2>1, <2>2, <3>1
    <2>5. /\ client' \in [Conns -> {"none", "open", "closed", "reset"}]
          /\ sent' \in [Conns -> Seq(Requests)]
          /\ \A d \in Conns : d # c => client'[d] = client[d] /\ sent'[d] = sent[d]
          /\ IsPrefix(Answered(conn[c].wire), sent'[c])
      BY <1>1, <2>2
    <2> HIDE DEF e
    <2> QED
      BY <1>1, <2>1, <2>2, <2>3, <2>4, <2>5, EventKeepsAnswers
  <1>5. ASSUME NEW how \in {"closed", "reset"}, Hangup(c, how)
        PROVE  ConnectionTypeOK' /\ OpenIsServed' /\ OneHandler' /\ AnswersInv'
    <2>1. /\ UNCHANGED <<conn, reading, events, sent>> /\ client[c] = "open"
          /\ client' = [client EXCEPT ![c] = how]
      BY <1>5 DEF Hangup, connVars
    <2>2. client' \in [Conns -> {"none", "open", "closed", "reset"}]
      BY <1>1, <2>1
    <2>3. \A d \in Conns : client'[d] = "none" => client[d] = "none"
      BY <1>1, <2>1
    <2> QED
      BY <2>1, <2>2, <2>3 DEF ConnectionInv, ConnectionTypeOK, OpenIsServed, OneHandler,
                        AnswersInv, Queued, Handler
  <1> QED
    BY <1>2, <1>3, <1>4, <1>5

LEMMA TimerKeepsAnswers ==
  ASSUME ConnectionInv, TimerExpires
  PROVE  ConnectionTypeOK' /\ OpenIsServed' /\ OneHandler' /\ AnswersInv'
  <1> DEFINE e == [type |-> "tick"]
  <1>1. e \in Events /\ e.type = "tick"
    BY DEF Events
  <1>2. /\ events \in Seq(Events) /\ events' = Append(events, e)
        /\ UNCHANGED <<conn, reading, sent, client>>
    BY DEF TimerExpires, ConnectionInv, ConnectionTypeOK, clientVars
  <1> HIDE DEF e
  <1>3. /\ events' \in Seq(Events)
        /\ \A i \in DOMAIN events' :
              events'[i].type # "tick" => i \in DOMAIN events /\ events'[i] = events[i]
        /\ \A i \in DOMAIN events : i \in DOMAIN events' /\ events'[i] = events[i]
    BY <1>1, <1>2, AppendedIsLast
  <1>4. \A d : Queued(d)' <=> Queued(d)
    BY <1>3 DEF Queued
  <1>5. ConnectionTypeOK' /\ OpenIsServed'
    BY <1>2, <1>3, <1>4 DEF ConnectionInv, ConnectionTypeOK, OpenIsServed
  <1>6. OneHandler'
    BY <1>2, <1>3, <1>4 DEF ConnectionInv, OneHandler
  <1>7. AnswersInv'
    <2>1. ASSUME NEW i \in DOMAIN events', events'[i].type # "tick",
                 conn'[events'[i].conn].open
          PROVE  Answered(conn'[events'[i].conn].wire) \o Chunk(events'[i])
                   = sent'[events'[i].conn]
      <3>1. i \in DOMAIN events /\ events'[i] = events[i] /\ conn' = conn /\ sent' = sent
        BY <1>2, <1>3, <2>1
      <3> QED
        BY <2>1, <3>1 DEF ConnectionInv, AnswersInv
    <2> QED
      BY <1>2, <2>1 DEF ConnectionInv, AnswersInv
  <1> QED
    BY <1>5, <1>6, <1>7

-----------------------------------------------------------------------------
(* A tick of the timer.                                                     *)

Late == {tasks[i].owner : i \in Expired}

\* The events of the reads that deadlines up to the identifier n have ended.
Ended(q, n) ==
  /\ q \in Seq(Events) /\ Apart(q)
  /\ \A i \in DOMAIN q : /\ q[i].type = "read" /\ Chunk(q[i]) = <<>>
                         /\ q[i].conn \in Conns \cap reading \cap Late
                         /\ task_id[q[i].conn] <= n

LEMMA EndsOneMore ==
  ASSUME ConnectionInv, NEW q, NEW n \in Nat, Ended(q, n), n + 1 \in Expired,
         tasks[n + 1].owner \in reading
  PROVE  Ended(Append(q, ReadEvent(tasks[n + 1].owner, TRUE, <<>>)), n + 1)
  <1> DEFINE c == tasks[n + 1].owner
             e == ReadEvent(c, TRUE, <<>>)
             longer == Append(q, e)
  <1>1. /\ c \in Conns /\ c \in reading /\ c \in Late /\ task_id[c] = n + 1
        /\ task_id \in [Conns -> Nat]
    BY DEF ConnectionInv, DeadlineInv, NoForgottenDeadline, Expired, Late
  <1>2. /\ e \in Events /\ e.type = "read" /\ e.conn = c /\ Chunk(e) = <<>>
    BY <1>1 DEF ReadEvent, Events, Chunk
  <1> HIDE DEF e, c
  <1>3. /\ longer \in Seq(Events)
        /\ \A i \in DOMAIN longer : i = Len(q) + 1 \/ (i \in DOMAIN q /\ longer[i] = q[i])
        /\ longer[Len(q) + 1] = e
    BY <1>2, AppendedIsLast DEF Ended
  <1> HIDE DEF longer
  <1>4. ASSUME NEW i \in DOMAIN q PROVE q[i].conn # c /\ task_id[q[i].conn] <= n + 1
    BY <1>1, <1>4 DEF Ended
  <1>5. Apart(longer)
    <2> SUFFICES ASSUME NEW i \in DOMAIN longer, NEW j \in DOMAIN longer,
                        Handler(longer[i]), Handler(longer[j]),
                        longer[i].conn = longer[j].conn
                 PROVE  i = j
      BY DEF Apart
    <2>1. CASE i \in DOMAIN q /\ j \in DOMAIN q
      BY <1>3, <2>1 DEF Apart, Ended
    <2>2. CASE i = Len(q) + 1 \/ j = Len(q) + 1
      BY <1>2, <1>3, <1>4, <2>2
    <2> QED
      BY <1>3, <2>1, <2>2
  <1>6. ASSUME NEW i \in DOMAIN longer
        PROVE  /\ longer[i].type = "read" /\ Chunk(longer[i]) = <<>>
               /\ longer[i].conn \in Conns \cap reading \cap Late
               /\ task_id[longer[i].conn] <= n + 1
    <2>1. CASE i = Len(q) + 1
      BY <1>1, <1>2, <1>3, <2>1
    <2>2. CASE i \in DOMAIN q
      BY <1>3, <1>4, <2>2 DEF Ended
    <2> QED
      BY <1>3, <2>1, <2>2
  <1>7. Ended(longer, n + 1)
    BY <1>3, <1>5, <1>6 DEF Ended
  <1> QED
    BY <1>7 DEF longer, e, c

Then(q, n) == IF n \in Expired /\ tasks[n].owner \in reading
              THEN Append(q, ReadEvent(tasks[n].owner, TRUE, <<>>)) ELSE q

InterruptedUpTo(f) ==
  f = [n \in 0..highest_id |-> IF n = 0 THEN <<>> ELSE Then(f[n - 1], n)]

LEMMA InterruptedIsEnded ==
  ASSUME ConnectionInv
  PROVE  Ended(Interrupted, highest_id)
  <1> DEFINE N == highest_id
             step == [x \in (1..N) \X Seq(Events) |-> Then(x[2], x[1])]
  <1>0. N \in Nat /\ \A n \in Expired : tasks[n].owner \in Conns
    BY DEF ConnectionInv, DeadlineInv, Expired
  <1>1. ASSUME NEW q \in Seq(Events), NEW n \in 1..N PROVE Then(q, n) \in Seq(Events)
    <2>1. n \in Expired => ReadEvent(tasks[n].owner, TRUE, <<>>) \in Events
      BY <1>0 DEF ReadEvent, Events
    <2> QED
      BY <2>1, AppendedIsLast DEF Then
  <1>2. step \in [(1..N) \X Seq(Events) -> Seq(Events)]
    BY <1>1
  <1>3. PICK f : Builds(f, N, Seq(Events), <<>>, step)
    <2>1. <<>> \in Seq(Events)
      OBVIOUS
    <2> HIDE DEF step, N
    <2> QED
      BY <1>0, <1>2, <2>1, Recursion
  <1>4. f \in [0..N -> Seq(Events)] /\ f[0] = <<>>
    BY <1>3 DEF Builds
  <1>5. ASSUME NEW n \in 1..N PROVE f[n] = Then(f[n - 1], n)
    <2>1. n - 1 \in 0..N /\ f[n - 1] \in Seq(Events)
      BY <1>0, <1>4
    <2> QED
      BY <1>3, <2>1 DEF Builds
  <1>6. InterruptedUpTo(f)
    <2> HIDE DEF step
    <2>1. \A n \in 0..N : n = 0 \/ n \in 1..N
      BY <1>0
    <2> QED
      BY <1>4, <1>5, <2>1 DEF InterruptedUpTo
  <1> DEFINE g == CHOOSE g : InterruptedUpTo(g)
  <1>7. InterruptedUpTo(g)
    BY <1>6
  <1>8. Interrupted = g[N]
    BY DEF Interrupted, InterruptedUpTo, Then
  <1> HIDE DEF g, step
  <1> DEFINE Good == {n \in Nat : n <= N => Ended(g[n], n)}
  <1>9. 0 \in Good
    <2>1. g[0] = <<>>
      BY <1>0, <1>7 DEF InterruptedUpTo
    <2>2. Ended(<<>>, 0)
      <3>1. <<>> \in Seq(Events) /\ DOMAIN <<>> = {}
        OBVIOUS
      <3> QED
        BY <3>1 DEF Ended, Apart
    <2> QED
      BY <2>1, <2>2
  <1>10. ASSUME NEW n \in Nat, n \in Good PROVE n + 1 \in Good
    <2> SUFFICES ASSUME n + 1 <= N PROVE Ended(g[n + 1], n + 1)
      OBVIOUS
    <2>1. Ended(g[n], n)
      BY <1>0, <1>10
    <2>2. g[n + 1] = Then(g[n], n + 1)
      <3>1. n + 1 \in 0..N /\ n + 1 # 0 /\ (n + 1) - 1 = n
        BY <1>0
      <3> QED
        BY <1>7, <3>1 DEF InterruptedUpTo
    <2>3. CASE n + 1 \in Expired /\ tasks[n + 1].owner \in reading
      BY <2>1, <2>2, <2>3, EndsOneMore DEF Then
    <2>4. CASE ~(n + 1 \in Expired /\ tasks[n + 1].owner \in reading)
      <3>1. g[n + 1] = g[n]
        BY <2>2, <2>4 DEF Then
      <3>2. \A i \in DOMAIN g[n] : task_id[g[n][i].conn] \in Nat
        BY <2>1 DEF Ended, ConnectionInv, DeadlineInv
      <3>3. \A i \in DOMAIN g[n] : task_id[g[n][i].conn] <= n + 1
        BY <2>1, <3>2 DEF Ended
      <3> QED
        BY <2>1, <3>1, <3>3 DEF Ended
    <2> QED
      BY <2>3, <2>4
  <1> HIDE DEF Good
  <1>11. N \in Good
    BY <1>0, <1>9, <1>10, Induction
  <1> QED
    BY <1>0, <1>8, <1>11 DEF Good

LEMMA TickKeepsAnswers ==
  ASSUME ConnectionInv, Tick
  PROVE  ConnectionTypeOK' /\ OpenIsServed' /\ OneHandler' /\ AnswersInv'
  <1> USE DEF Handler
  <1> DEFINE rest == Tail(events)
             ended == Interrupted
  <1>1. /\ events \in Seq(Events) /\ events # <<>> /\ Head(events).type = "tick"
        /\ events' = rest \o ended /\ reading' = reading \ Late
        /\ conn' = [c \in Conns |-> IF c \in Late THEN Closed(conn[c]) ELSE conn[c]]
        /\ UNCHANGED <<sent, client>>
    BY DEF Tick, Next1, Late, ConnectionInv, ConnectionTypeOK, clientVars
  <1>2. Ended(ended, highest_id)
    BY InterruptedIsEnded
  <1> HIDE DEF ended
  <1>3. /\ rest \in Seq(Events)
        /\ \A i \in DOMAIN rest : i + 1 \in DOMAIN events /\ rest[i] = events[i + 1]
        /\ \A i \in DOMAIN events : i = 1 \/ (i - 1 \in DOMAIN rest /\ rest[i - 1] = events[i])
        /\ 1 \in DOMAIN events /\ events[1] = Head(events)
    BY <1>1, TailShifts
  <1> HIDE DEF rest
  <1>4. /\ events' \in Seq(Events)
        /\ \A i \in DOMAIN events' :
              \/ i \in DOMAIN rest /\ events'[i] = rest[i]
              \/ i - Len(rest) \in DOMAIN ended /\ events'[i] = ended[i - Len(rest)]
        /\ \A i \in DOMAIN rest : i \in DOMAIN events' /\ events'[i] = rest[i]
    BY <1>1, <1>2, <1>3, ConcatProperties DEF Ended
  <1>5. Apart(rest)
    <2> SUFFICES ASSUME NEW i \in DOMAIN rest, NEW j \in DOMAIN rest,
                        Handler(rest[i]), Handler(rest[j]), rest[i].conn = rest[j].conn
                 PROVE  i = j
      BY DEF Apart
    <2>1. i + 1 = j + 1
      BY <1>3 DEF ConnectionInv, OneHandler
    <2>2. i \in Nat /\ j \in Nat
      BY <1>3
    <2> QED
      BY <2>1, <2>2
  <1>6. \A i \in DOMAIN rest : Handler(rest[i]) => rest[i].conn \notin reading
    BY <1>3 DEF ConnectionInv, OneHandler, Queued
  <1>7. /\ conn' \in [Conns -> Connections]
        /\ \A c \in Conns : /\ conn'[c].wire = conn[c].wire
                            /\ c \in Late => ~conn'[c].open
                            /\ c \notin Late => conn'[c] = conn[c]
                            /\ conn'[c].open => conn[c].open /\ c \notin Late
    BY <1>1 DEF ConnectionInv, ConnectionTypeOK, Closed, Connections
  <1>8. ConnectionTypeOK'
    BY <1>1, <1>4, <1>7 DEF ConnectionInv, ConnectionTypeOK
  <1>9. ASSUME NEW c \in Conns, Queued(c) PROVE Queued(c)'
    <2>1. PICK i \in DOMAIN events : events[i].type # "tick" /\ events[i].conn = c
      BY <1>9 DEF Queued
    <2>2. i - 1 \in DOMAIN rest /\ rest[i - 1] = events[i]
      BY <1>1, <1>3, <2>1
    <2> QED
      BY <1>4, <2>1, <2>2 DEF Queued
  <1>10. ASSUME NEW c \in Conns, Queued(c)' PROVE Queued(c) \/ c \in reading \cap Late
    <2>1. PICK i \in DOMAIN events' : events'[i].type # "tick" /\ events'[i].conn = c
      BY <1>10 DEF Queued
    <2>2. CASE i \in DOMAIN rest /\ events'[i] = rest[i]
      BY <1>3, <2>1, <2>2 DEF Queued
    <2>3. CASE i - Len(rest) \in DOMAIN ended /\ events'[i] = ended[i - Len(rest)]
      BY <1>2, <2>1, <2>3 DEF Ended
    <2> QED
      BY <1>4, <2>2, <2>3
  <1>11. OpenIsServed'
    BY <1>1, <1>7, <1>9 DEF ConnectionInv, OpenIsServed
  <1>12. OneHandler'
    <2>1. Apart(events)'
      <3> SUFFICES ASSUME NEW i \in DOMAIN events', NEW j \in DOMAIN events',
                          Handler(events'[i]), Handler(events'[j]),
                          events'[i].conn = events'[j].conn
                   PROVE  i = j
        BY DEF Apart
      <3>1. CASE i \in DOMAIN rest /\ events'[i] = rest[i]
                 /\ j \in DOMAIN rest /\ events'[j] = rest[j]
        BY <1>5, <3>1 DEF Apart
      <3>2. CASE i - Len(rest) \in DOMAIN ended /\ events'[i] = ended[i - Len(rest)]
                 /\ j - Len(rest) \in DOMAIN ended /\ events'[j] = ended[j - Len(rest)]
        <4>1. i - Len(rest) = j - Len(rest)
          BY <1>2, <3>2 DEF Apart, Ended
        <4>2. i \in Nat /\ j \in Nat /\ Len(rest) \in Nat
          BY <1>3, <1>4
        <4> QED
          BY <4>1, <4>2
      <3>3. CASE i \in DOMAIN rest /\ events'[i] = rest[i]
                 /\ j - Len(rest) \in DOMAIN ended /\ events'[j] = ended[j - Len(rest)]
        BY <1>2, <1>6, <3>3 DEF Ended
      <3>4. CASE j \in DOMAIN rest /\ events'[j] = rest[j]
                 /\ i - Len(rest) \in DOMAIN ended /\ events'[i] = ended[i - Len(rest)]
        BY <1>2, <1>6, <3>4 DEF Ended
      <3> QED
        BY <1>4, <3>1, <3>2, <3>3, <3>4
    <2>2. \A c \in reading' : ~Queued(c)'
      BY <1>1, <1>10 DEF ConnectionInv, OneHandler, ConnectionTypeOK
    <2>3. ASSUME NEW c \in Conns, client'[c] = "none"
          PROVE  /\ ~conn'[c].open /\ conn'[c].wire = <<>> /\ sent'[c] = <<>>
                 /\ c \notin reading' /\ ~Queued(c)'
      BY <1>1, <1>7, <1>10, <2>3 DEF ConnectionInv, OneHandler
    <2> QED
      BY <2>1, <2>2, <2>3 DEF OneHandler, Apart
  <1>13. AnswersInv'
    <2>1. ASSUME NEW c \in Conns
          PROVE  /\ IsPrefix(Answered(conn'[c].wire), sent'[c])
                 /\ conn'[c].open => Clear(conn'[c])
      BY <1>1, <1>7 DEF ConnectionInv, AnswersInv
    <2>2. ASSUME NEW c \in reading', conn'[c].open
          PROVE  Answered(conn'[c].wire) = sent'[c]
      <3>1. c \in Conns /\ c \in reading
        BY <1>1 DEF ConnectionInv, ConnectionTypeOK
      <3> QED
        BY <1>1, <1>7, <2>2, <3>1 DEF ConnectionInv, AnswersInv
    <2>3. ASSUME NEW i \in DOMAIN events', Handler(events'[i]),
                 conn'[events'[i].conn].open
          PROVE  Answered(conn'[events'[i].conn].wire) \o Chunk(events'[i])
                   = sent'[events'[i].conn]
      <3> DEFINE c == events'[i].conn
      <3>1. c \in Conns
        BY <1>4, <2>3 DEF Events
      <3>2. c \notin Late /\ conn'[c] = conn[c] /\ conn[c].open
        BY <1>7, <2>3, <3>1
      <3>3. i \in DOMAIN rest /\ events'[i] = rest[i]
        BY <1>2, <1>4, <3>2 DEF Ended
      <3>4. i + 1 \in DOMAIN events /\ events'[i] = events[i + 1]
        BY <1>3, <3>3
      <3>5. Answered(conn[c].wire) \o Chunk(events[i + 1]) = sent[c]
        BY <2>3, <3>2, <3>4 DEF ConnectionInv, AnswersInv
      <3> QED
        BY <1>1, <3>2, <3>4, <3>5
    <2> QED
      BY <2>1, <2>2, <2>3 DEF AnswersInv
  <1> QED
    BY <1>8, <1>11, <1>12, <1>13

-----------------------------------------------------------------------------
(* The theorems about the connections.                                      *)

LEMMA ConnectionsStart == Init => ConnectionInv
  <1> SUFFICES ASSUME Init PROVE ConnectionInv
    OBVIOUS
  <1> DEFINE k == [NewConnection EXCEPT !.open = FALSE]
  <1>1. k \in Connections /\ ~k.open /\ k.wire = <<>>
    <2>1. NewConnection \in Connections /\ NewConnection.wire = <<>>
      BY DEF NewConnection, Connections, Feeds
    <2> QED
      BY <2>1 DEF Connections
  <1> HIDE DEF k
  <1>2. /\ conn = [c \in Conns |-> k] /\ reading = {} /\ events = <<>>
        /\ sent = [c \in Conns |-> <<>>] /\ client = [c \in Conns |-> "none"]
    BY DEF Init, k
  <1>3. DeadlineInv
    BY DEF Init, EmptyTimer, DeadlineInv, NoForgottenDeadline
  <1>4. <<>> \in Seq(Events) /\ <<>> \in Seq(Requests) /\ DOMAIN <<>> = {}
    OBVIOUS
  <1>5. ConnectionTypeOK
    BY <1>1, <1>2, <1>4 DEF ConnectionTypeOK
  <1>6. OpenIsServed /\ OneHandler
    BY <1>1, <1>2, <1>4 DEF OpenIsServed, OneHandler, Queued
  <1>7. AnswersInv
    <2>1. Answered(<<>>) = <<>> /\ IsPrefix(<<>>, <<>>)
      BY AnsweredGrows DEF IsPrefix
    <2> QED
      BY <1>1, <1>2, <1>4, <2>1 DEF AnswersInv
  <1> QED
    BY <1>3, <1>5, <1>6, <1>7 DEF ConnectionInv

LEMMA NextKeepsConnections ==
  ConnectionInv /\ [Next]_vars => ConnectionInv'
  <1> SUFFICES ASSUME ConnectionInv, [Next]_vars PROVE ConnectionInv'
    OBVIOUS
  <1>1. DeadlineInv'
    BY NextKeepsDeadlines DEF ConnectionInv
  <1>2. ConnectionTypeOK' /\ OpenIsServed' /\ OneHandler' /\ AnswersInv'
    <2>1. CASE Next
      BY <2>1, TickKeepsAnswers, WorkerKeepsAnswers, NetworkKeepsAnswers,
         TimerKeepsAnswers DEF Next, Worker
    <2>2. CASE UNCHANGED vars
      BY <2>2 DEF vars, connVars, clientVars, ConnectionInv, ConnectionTypeOK,
                  OpenIsServed, OneHandler, AnswersInv, Queued, Handler
    <2> QED
      BY <2>1, <2>2
  <1> QED
    BY <1>1, <1>2 DEF ConnectionInv

(* ConnectionInv holds throughout: a connection has at most one handler to  *)
(* come and, while it is open, has answered all the requests of the reads   *)
(* it has handled (do_read, start, process_tasks).                          *)
THEOREM ConnectionInvHolds == Spec => []ConnectionInv
  BY ConnectionsStart, NextKeepsConnections, PTL DEF Spec

(* An open socket always belongs to a connection that is reading or has a   *)
(* handler queued: every end of the reading in do_read cancels the one      *)
(* deadline that could still hold the connection.                           *)
THEOREM OpenAlwaysServed == Spec => []OpenIsServed
  <1>1. ConnectionInv => OpenIsServed
    BY DEF ConnectionInv
  <1> QED
    BY <1>1, ConnectionInvHolds, PTL

(* What the last request of a read said about its connection is what        *)
(* do_read does with it, however the parser is cleared in between.          *)
THEOREM ClosesAreHonoured == Spec => CloseIsHonoured
  <1> DEFINE Honoured(c) ==
        LET chunk == Head(events).chunk
        IN  /\ Next1("read") /\ events' = Tail(events)
            /\ Head(events).conn = c /\ ~Head(events).error
            /\ conn[c].open /\ client[c] # "reset" /\ chunk # <<>>
            /\ \A r \in Range(chunk) : r.route # "missing" /\ r.route # "upgrade"
                                       /\ (r.host \/ r.version = "1.0")
            => /\ (\A r \in Range(chunk) : ~CloseConnection(r)) => c \in reading'
               /\ CloseConnection(Last(chunk)) => ~conn'[c].open
  <1>1. ConnectionInv /\ [Next]_vars => [\A c \in Conns : Honoured(c)]_vars
    <2> SUFFICES ASSUME ConnectionInv, Next, NEW c \in Conns PROVE Honoured(c)
      OBVIOUS
    <2> DEFINE chunk == Head(events).chunk
               k == Feed(c, chunk)
    <2> SUFFICES ASSUME Next1("read"), events' = Tail(events),
                        Head(events).conn = c, ~Head(events).error,
                        conn[c].open, client[c] # "reset", chunk # <<>>,
                        \A r \in Range(chunk) : r.route # "missing" /\ r.route # "upgrade"
                                                /\ (r.host \/ r.version = "1.0")
                 PROVE  /\ (\A r \in Range(chunk) : ~CloseConnection(r)) => c \in reading'
                        /\ CloseConnection(Last(chunk)) => ~conn'[c].open
      OBVIOUS
    <2>1. /\ events \in Seq(Events) /\ events # <<>> /\ Head(events).type = "read"
          /\ Head(events) \in Events /\ Takes(c)
          /\ conn[c] \in Connections /\ conn \in [Conns -> Connections]
      BY TailShifts DEF ConnectionInv, ConnectionTypeOK, Next1, Takes, Handler
    <2>2. ReadContinues(c) \/ ReadEnds(c)
      <3>1. events' # events /\ \A e : events' # Append(events, e)
        <4>1. Len(events') = Len(events) - 1 /\ Len(events) \in Nat
          BY <2>1
        <4>2. \A e : Len(Append(events, e)) = Len(events) + 1
          BY <2>1
        <4> QED
          BY <4>1, <4>2
      <3>2. ~TimerExpires /\ \A d \in Conns : ~Accept(d) /\ ~ReadFails(d)
        BY <3>1 DEF TimerExpires, Accept, ReadFails
      <3>3. \A d \in Conns : /\ \A x \in Chunks[d] : ~Receive(d, x)
                             /\ \A how \in {"closed", "reset"} : ~Hangup(d, how)
        BY <3>1 DEF Receive, Hangup, connVars
      <3>4. ~Tick /\ \A d \in Conns : ~Start(d)
        BY <2>1 DEF Tick, Start, Next1
      <3>5. \A d \in Conns : ReadContinues(d) \/ ReadEnds(d) => d = c
        BY DEF ReadContinues, ReadEnds
      <3> QED
        BY <3>2, <3>3, <3>4, <3>5 DEF Next, Worker
    <2>3. chunk \in Seq(Requests) /\ Len(chunk) \in 1..Len(chunk)
      BY <2>1 DEF Events
    <2>4. Live(conn[c])
      BY DEF ConnectionInv, AnswersInv, Live
    <2>5. /\ \A n \in 1..Len(chunk) : chunk[n] \in Range(chunk) /\ Plain(chunk[n])
          /\ Last(chunk) = chunk[Len(chunk)]
      <3> HIDE DEF chunk
      <3>1. \A n \in 1..Len(chunk) : chunk[n] \in Range(chunk)
        BY <2>3 DEF Range
      <3> QED
        BY <3>1 DEF Plain, Last
    <2> HIDE DEF chunk
    <2>6. \/ Live(k) /\ k.close = CloseConnection(Last(chunk))
          \/ ~k.open /\ \E n \in 1..Len(chunk) : CloseConnection(chunk[n])
      BY <2>1, <2>3, <2>4, <2>5, FeedCloses
    <2> HIDE DEF k
    <2>7. ASSUME ReadContinues(c) PROVE k.open /\ ~k.close /\ c \in reading'
      BY <2>7 DEF ReadContinues, AwaitRequest, k, chunk
    <2>8. ASSUME ReadEnds(c)
          PROVE  (k.feed # "ok" \/ ~k.open \/ k.close) /\ ~conn'[c].open
      <3>1. /\ CancelTask(task_id[c]) /\ UNCHANGED task_id
            /\ k.feed # "ok" \/ ~k.open \/ k.close
            /\ conn' = [conn EXCEPT ![c] = IF k.feed = "error" THEN Closed(k)
                                                               ELSE Released(k, c)]
        BY <2>8 DEF ReadEnds, k, chunk
      <3>2. \A i \in DOMAIN tasks' : tasks'[i].owner # c
        BY <3>1, CancelKeepsDeadlines DEF ConnectionInv
      <3>3. k \in Connections
        BY <2>1, ReadAnswers DEF k, chunk
      <3> QED
        BY <2>1, <3>1, <3>2, <3>3 DEF Closed, Released, Connections
    <2>9. ASSUME \A r \in Range(chunk) : ~CloseConnection(r) PROVE c \in reading'
      <3>1. Live(k) /\ ~k.close
        BY <2>3, <2>5, <2>6, <2>9
      <3> QED
        BY <2>2, <2>7, <2>8, <3>1 DEF Live, Clear
    <2>10. ASSUME CloseConnection(Last(chunk)) PROVE ~conn'[c].open
      BY <2>2, <2>6, <2>7, <2>8, <2>10
    <2> QED
      BY <2>9, <2>10 DEF chunk
  <1> QED
    BY <1>1, ConnectionInvHolds, PTL DEF CloseIsHonoured, Spec
-----------------------------------------------------------------------------
(* The refinement of HttpService.                                           *)

Phase == [c \in Conns |-> IF client[c] = "none" THEN "new"
                          ELSE IF conn[c].open THEN "open" ELSE "closed"]

AnsweredBy == [c \in Conns |-> Answered(conn[c].wire)]

ServiceVars == <<Phase, sent, AnsweredBy>>

LEMMA PrefixesAgree ==
  ASSUME NEW s, NEW t
  PROVE  /\ Service!IsPrefix(s, t) <=> IsPrefix(s, t)
         /\ Service!IsStrictPrefix(s, t) <=> IsStrictPrefix(s, t)
  BY DEF Service!IsPrefix, IsPrefix, Service!IsStrictPrefix, IsStrictPrefix

LEMMA ReadKeepsOrder ==
  ASSUME ConnectionInv, NEW c \in Conns, ReadContinues(c) \/ ReadEnds(c)
  PROVE  /\ UNCHANGED <<sent, client>> /\ client[c] # "none"
         /\ \A d \in Conns : d # c => conn'[d] = conn[d]
         /\ IsPrefix(Answered(conn[c].wire), Answered(conn'[c].wire))
         /\ IsPrefix(Answered(conn'[c].wire), sent[c])
         /\ conn'[c].open => conn[c].open
         /\ ~conn[c].open => Answered(conn'[c].wire) = Answered(conn[c].wire)
  <1>1. /\ Takes(c) /\ UNCHANGED <<sent, client>> /\ Head(events).type = "read"
        /\ 1 \in DOMAIN events /\ events[1] = Head(events)
    <2>1. Takes(c) /\ UNCHANGED <<sent, client>> /\ Head(events).type = "read"
      BY DEF ReadContinues, ReadEnds, Next1, Takes, Handler, clientVars
    <2> QED
      BY <2>1, TailShifts DEF ConnectionInv, ConnectionTypeOK, Takes
  <1>2. client[c] # "none"
    BY <1>1 DEF ConnectionInv, OneHandler, Queued, Takes, Handler
  <1>3. /\ conn \in [Conns -> Connections] /\ conn[c] \in Connections
        /\ IsPrefix(Answered(conn[c].wire), sent[c])
        /\ IsPrefix(Answered(conn[c].wire), Answered(conn[c].wire))
    <2>1. conn \in [Conns -> Connections] /\ conn[c] \in Connections
      BY DEF ConnectionInv, ConnectionTypeOK
    <2>2. Answered(conn[c].wire) \in Seq(Requests)
      BY <2>1, AnsweredIsTyped DEF Connections
    <2> QED
      BY <2>1, <2>2 DEF ConnectionInv, AnswersInv, IsPrefix
  <1>4. CASE ReadContinues(c)
    <2> DEFINE k == Feed(c, Head(events).chunk)
    <2>1. /\ ~Head(events).error /\ k.feed = "ok" /\ k.open /\ ~k.close
          /\ conn' = [conn EXCEPT ![c] = k]
      BY <1>4 DEF ReadContinues
    <2>2. /\ Live(k) \/ Over(k)
          /\ IsPrefix(Answered(conn[c].wire), Answered(k.wire))
          /\ IsPrefix(Answered(k.wire), sent[c])
          /\ Live(k) => conn[c].open
      BY <1>1, <2>1, ReadAnswers
    <2> HIDE DEF k
    <2>3. Live(k)
      BY <2>1, <2>2 DEF Over
    <2> QED
      BY <1>1, <1>2, <1>3, <2>1, <2>2, <2>3
  <1>5. CASE ReadEnds(c)
    <2> DEFINE k == IF Head(events).error THEN [conn[c] EXCEPT !.feed = "error"]
                                          ELSE Feed(c, Head(events).chunk)
               after == IF k.feed = "error" THEN Closed(k) ELSE Released(k, c)
    <2>1. /\ CancelTask(task_id[c]) /\ conn' = [conn EXCEPT ![c] = after]
          /\ UNCHANGED task_id
      BY <1>5 DEF ReadEnds
    <2>2. /\ k \in Connections
          /\ IsPrefix(Answered(conn[c].wire), Answered(k.wire))
          /\ IsPrefix(Answered(k.wire), sent[c])
          /\ ~conn[c].open => Answered(k.wire) = Answered(conn[c].wire)
      <3>1. CASE Head(events).error
        BY <1>3, <3>1 DEF Connections, Feeds
      <3>2. CASE ~Head(events).error
        BY <1>1, <3>2, ReadAnswers
      <3> QED
        BY <3>1, <3>2
    <2>3. \A i \in DOMAIN tasks' : tasks'[i].owner # c
      BY <2>1, CancelKeepsDeadlines DEF ConnectionInv
    <2> HIDE DEF k
    <2>4. ~after.open /\ after.wire = k.wire
      BY <2>2, <2>3 DEF Closed, Released, Connections
    <2> HIDE DEF after
    <2>5. conn'[c] = after /\ \A d \in Conns : d # c => conn'[d] = conn[d]
      BY <1>3, <2>1
    <2> QED
      BY <1>1, <1>2, <2>2, <2>4, <2>5
  <1> QED
    BY <1>4, <1>5

LEMMA ReadServes ==
  ASSUME ConnectionInv, NEW c \in Conns, ReadContinues(c) \/ ReadEnds(c)
  PROVE  [Service!Next]_ServiceVars
  <1>1. /\ UNCHANGED <<sent, client>> /\ client[c] # "none"
        /\ \A d \in Conns : d # c => conn'[d] = conn[d]
        /\ IsPrefix(Answered(conn[c].wire), Answered(conn'[c].wire))
        /\ IsPrefix(Answered(conn'[c].wire), sent[c])
        /\ conn'[c].open => conn[c].open
        /\ ~conn[c].open => Answered(conn'[c].wire) = Answered(conn[c].wire)
    BY ReadKeepsOrder
  <1>2. /\ Phase' = [Phase EXCEPT ![c] = Phase'[c]]
        /\ AnsweredBy' = [AnsweredBy EXCEPT ![c] = AnsweredBy'[c]]
        /\ Phase[c] = (IF conn[c].open THEN "open" ELSE "closed")
        /\ Phase'[c] = (IF conn'[c].open THEN "open" ELSE "closed")
        /\ AnsweredBy[c] = Answered(conn[c].wire)
        /\ AnsweredBy'[c] = Answered(conn'[c].wire)
    BY <1>1 DEF Phase, AnsweredBy
  <1>3. CASE Answered(conn'[c].wire) # Answered(conn[c].wire)
    <2>1. conn[c].open
      BY <1>1, <1>3
    <2>2. /\ Phase[c] = "open" /\ Phase'[c] \in {"open", "closed"}
          /\ Service!IsStrictPrefix(AnsweredBy[c], AnsweredBy'[c])
          /\ Service!IsPrefix(AnsweredBy'[c], sent[c])
      BY <1>1, <1>2, <1>3, <2>1, PrefixesAgree DEF IsStrictPrefix
    <2>3. Service!Answer(c)
      BY <1>1, <1>2, <2>2 DEF Service!Answer, Phase, AnsweredBy
    <2> QED
      BY <2>3 DEF Service!Next
  <1>4. CASE Answered(conn'[c].wire) = Answered(conn[c].wire) /\ Phase'[c] = Phase[c]
    <2>1. UNCHANGED ServiceVars
      BY <1>1, <1>2, <1>4 DEF ServiceVars, Phase, AnsweredBy
    <2> QED
      BY <2>1
  <1>5. CASE Answered(conn'[c].wire) = Answered(conn[c].wire) /\ Phase'[c] # Phase[c]
    <2>1. Phase[c] = "open" /\ Phase'[c] = "closed"
      BY <1>1, <1>2, <1>5
    <2>2. AnsweredBy' = AnsweredBy
      BY <1>2, <1>5 DEF AnsweredBy
    <2>3. Phase' = [d \in Conns |-> IF d \in {c} THEN "closed" ELSE Phase[d]]
      BY <1>2, <2>1 DEF Phase
    <2>4. Service!Close({c})
      BY <1>1, <2>1, <2>2, <2>3 DEF Service!Close, Phase, AnsweredBy
    <2> QED
      BY <2>4 DEF Service!Next
  <1> QED
    BY <1>3, <1>4, <1>5

LEMMA NetworkServes ==
  ASSUME ConnectionInv, NEW c \in Conns,
         \/ Accept(c) \/ ReadFails(c) \/ Start(c)
         \/ \E chunk \in Chunks[c] : Receive(c, chunk)
         \/ \E how \in {"closed", "reset"} : Hangup(c, how)
  PROVE  [Service!Next]_ServiceVars
  <1>1. /\ client \in [Conns -> {"none", "open", "closed", "reset"}]
        /\ conn \in [Conns -> Connections] /\ sent \in [Conns -> Seq(Requests)]
        /\ reading \subseteq Conns
    BY DEF ConnectionInv, ConnectionTypeOK
  <1>2. CASE Accept(c)
    <2>1. /\ client[c] = "none" /\ client' = [client EXCEPT ![c] = "open"]
          /\ conn' = [conn EXCEPT ![c] = NewConnection] /\ sent' = sent
      BY <1>2 DEF Accept
    <2>2. conn[c].wire = <<>> /\ NewConnection.wire = <<>> /\ NewConnection.open
      BY <2>1 DEF ConnectionInv, OneHandler, NewConnection
    <2>3. Phase[c] = "new" /\ Phase' = [Phase EXCEPT ![c] = "open"]
      BY <1>1, <2>1, <2>2 DEF Phase
    <2>4. AnsweredBy' = AnsweredBy
      BY <1>1, <2>1, <2>2 DEF AnsweredBy
    <2>5. Service!Connect(c)
      BY <2>1, <2>3, <2>4 DEF Service!Connect, Phase, AnsweredBy
    <2> QED
      BY <2>5 DEF Service!Next
  <1>3. CASE ReadFails(c) \/ Start(c)
    <2>1. UNCHANGED <<conn, client, sent>>
      BY <1>3 DEF ReadFails, Start, clientVars
    <2> QED
      BY <2>1 DEF ServiceVars, Phase, AnsweredBy
  <1>4. ASSUME NEW how \in {"closed", "reset"}, Hangup(c, how)
        PROVE  [Service!Next]_ServiceVars
    <2>1. /\ UNCHANGED <<conn, sent>> /\ client[c] = "open"
          /\ client' = [client EXCEPT ![c] = how]
      BY <1>4 DEF Hangup, connVars
    <2> QED
      BY <1>1, <2>1 DEF ServiceVars, Phase, AnsweredBy
  <1>5. ASSUME NEW chunk \in Chunks[c], Receive(c, chunk)
        PROVE  [Service!Next]_ServiceVars
    <2>1. /\ UNCHANGED <<conn, client>> /\ c \in reading
          /\ sent' = [sent EXCEPT ![c] = @ \o chunk]
      BY <1>5 DEF Receive
    <2>2. Phase' = Phase /\ AnsweredBy' = AnsweredBy /\ Phase[c] # "new"
      BY <2>1 DEF Phase, AnsweredBy, ConnectionInv, OneHandler
    <2>3. chunk \in Seq(Requests) /\ sent[c] \in Seq(Requests)
      BY <1>1, ChunksAssumption
    <2>4. sent'[c] = sent[c] \o chunk
      BY <1>1, <2>1
    <2>5. CASE chunk = <<>>
      <3>1. sent[c] \o <<>> = sent[c]
        BY <2>3
      <3>2. sent' = sent
        BY <1>1, <2>1, <2>5, <3>1
      <3> QED
        BY <2>2, <3>2 DEF ServiceVars
    <2>6. CASE chunk # <<>>
      <3>1. Service!IsStrictPrefix(sent[c], sent'[c])
        <4>1. Len(chunk) \in 0..Len(chunk) /\ SubSeq(chunk, 1, Len(chunk)) = chunk
          BY <2>3
        <4>2. IsPrefix(sent[c], sent[c] \o chunk)
          BY <2>3, <4>1, PrefixOfConcat
        <4>3. sent[c] \o chunk # sent[c]
          BY <2>3, <2>6, ConcatEqualIffEmpty
        <4> QED
          BY <2>4, <4>2, <4>3, PrefixesAgree DEF IsStrictPrefix
      <3>2. sent' = [sent EXCEPT ![c] = sent'[c]]
        BY <1>1, <2>1
      <3>3. Service!Ask(c)
        BY <2>2, <3>1, <3>2 DEF Service!Ask, Phase, AnsweredBy
      <3> QED
        BY <3>3 DEF Service!Next
    <2> QED
      BY <2>5, <2>6
  <1> QED
    BY <1>2, <1>3, <1>4, <1>5

LEMMA TickServes ==
  ASSUME ConnectionInv, Tick
  PROVE  [Service!Next]_ServiceVars
  <1> DEFINE closing == {c \in Conns : Phase[c] = "open" /\ c \in Late}
  <1>1. /\ UNCHANGED <<sent, client>> /\ conn \in [Conns -> Connections]
        /\ conn' = [c \in Conns |-> IF c \in Late THEN Closed(conn[c]) ELSE conn[c]]
    BY DEF Tick, Late, ConnectionInv, ConnectionTypeOK, clientVars
  <1>2. \A c \in Conns : /\ conn'[c].wire = conn[c].wire
                         /\ c \in Late => ~conn'[c].open
                         /\ c \notin Late => conn'[c] = conn[c]
    BY <1>1 DEF Closed, Connections
  <1>3. AnsweredBy' = AnsweredBy
    BY <1>2 DEF AnsweredBy
  <1>4. Phase' = [c \in Conns |-> IF c \in closing THEN "closed" ELSE Phase[c]]
    BY <1>1, <1>2 DEF Phase
  <1>5. CASE closing = {}
    <2>1. Phase' = Phase
      BY <1>4, <1>5 DEF Phase
    <2> QED
      BY <1>1, <1>3, <2>1 DEF ServiceVars
  <1>6. CASE closing # {}
    <2>1. PICK S : S = closing
      OBVIOUS
    <2>2. /\ S # {} /\ S \in SUBSET Conns /\ \A c \in S : Phase[c] = "open"
          /\ Phase' = [c \in Conns |-> IF c \in S THEN "closed" ELSE Phase[c]]
      BY <1>4, <1>6, <2>1
    <2>3. Service!Close(S)
      BY <1>1, <1>3, <2>2 DEF Service!Close, Phase, AnsweredBy
    <2> QED
      BY <2>2, <2>3 DEF Service!Next
  <1> QED
    BY <1>5, <1>6

(* The connection keeps the promise of HttpService: what it has answered is *)
(* always the first of what was sent to it, each once and in order, and     *)
(* nothing is answered after the close (complete_request, do_write_sync).   *)
THEOREM ServiceIsImplemented == Spec => AnswersInOrder
  <1>1. Init => Service!Init
    <2> SUFFICES ASSUME Init PROVE Service!Init
      OBVIOUS
    <2>1. /\ client = [c \in Conns |-> "none"] /\ sent = [c \in Conns |-> <<>>]
          /\ \A c \in Conns : conn[c].wire = <<>>
      BY DEF Init, NewConnection
    <2>2. Answered(<<>>) = <<>>
      BY AnsweredGrows
    <2> QED
      BY <2>1, <2>2 DEF Service!Init
  <1>2. ConnectionInv /\ [Next]_vars => [Service!Next]_ServiceVars
    <2> SUFFICES ASSUME ConnectionInv, [Next]_vars PROVE [Service!Next]_ServiceVars
      OBVIOUS
    <2>1. CASE Worker
      BY <2>1, TickServes, ReadServes, NetworkServes DEF Worker
    <2>2. CASE TimerExpires \/ UNCHANGED vars
      <3>1. UNCHANGED <<conn, client, sent>>
        BY <2>2 DEF TimerExpires, vars, connVars, clientVars
      <3> QED
        BY <3>1 DEF ServiceVars, Phase, AnsweredBy
    <2>3. CASE \E c \in Conns : \/ Accept(c)
                                \/ \E chunk \in Chunks[c] : Receive(c, chunk)
                                \/ \E how \in {"closed", "reset"} : Hangup(c, how)
                                \/ ReadFails(c)
      BY <2>3, NetworkServes
    <2> QED
      BY <2>1, <2>2, <2>3 DEF Next
  <1> QED
    BY <1>1, <1>2, ConnectionInvHolds, PTL
    DEF AnswersInOrder, Service!Spec, Spec, ServiceVars, Phase, AnsweredBy
=============================================================================
