--------------------------- MODULE WebSocketProofs ---------------------------
(***************************************************************************)
(* Proofs about crow::websocket::Connection, for any client, any messages   *)
(* and any sizes.  First its deletion: the handlers of a read and of a      *)
(* write use its members, so it must not be deleted before them             *)
(* (check_destroy).  The invariant Held says what check_destroy looks at:   *)
(* an outstanding read is counted in is_reading, an outstanding write has   *)
(* its buffers, and either keeps the connection alive.  Then what is told   *)
(* of its end (LifeInv), and what is written to it (FrameInv).              *)
(*                                                                          *)
(* Last, what is read: the message handler gets what the client means.      *)
(* MessageInv says that the messages handed over, and the message so far,   *)
(* are those of the frames before the one being read, and that what is      *)
(* known of that frame (Begun) is what its header says.  The messages that  *)
(* a client means are recursive functions of the number of frames; lemmas   *)
(* say what one more frame adds to them, and that the first do not depend   *)
(* on those behind: half a header changes only what has not been read.      *)
(***************************************************************************)
EXTENDS WebSocket, SequenceTheorems, Recursions, TLAPS

\* A connection that was started, with the members that decide when it is deleted.
Members == {"alive", "op", "reading", "sending", "started"}
IsStarted(k) == Members \subseteq DOMAIN k /\ k.started

Held(k) ==
  /\ IsStarted(k)
  /\ k.op => k.alive /\ k.reading
  /\ k.sending # <<>> => k.alive

\* What the functions below that are no end of the connection leave alone.
Unmoved(k, r) ==
  IsStarted(r) /\ r.alive = k.alive /\ r.op = k.op /\ r.reading = k.reading

-----------------------------------------------------------------------------
(* Queueing and writing do not touch the life of the connection.            *)
LEMMA WritesUnmoved ==
  ASSUME NEW k, IsStarted(k)
  PROVE  /\ Unmoved(k, DoWrite(k))
         /\ \A op, size : Unmoved(k, Queue(k, op, size))
         /\ \A size, status : Unmoved(k, CloseTask(k, size, status))
  <1>1. \A r : IsStarted(r) => Unmoved(r, DoWrite(r))
    BY DEF IsStarted, Members, Unmoved, DoWrite
  <1>2. \A r, op, size : IsStarted(r) => Unmoved(r, Queue(r, op, size))
    <2> SUFFICES ASSUME NEW r, NEW op, NEW size, IsStarted(r)
                 PROVE  Unmoved(r, Queue(r, op, size))
      OBVIOUS
    <2> DEFINE q == [r EXCEPT !.waiting = Append(@, [header |-> BuildHeader(op, size), size |-> size])]
    <2>1. IsStarted(q) /\ q.alive = r.alive /\ q.op = r.op /\ q.reading = r.reading
      BY DEF IsStarted, Members
    <2>2. Unmoved(q, DoWrite(q))
      BY <2>1, <1>1
    <2> QED
      BY <2>1, <2>2 DEF Unmoved, Queue
  <1>3. ASSUME NEW size, NEW status
        PROVE  Unmoved(k, CloseTask(k, size, status))
    <2> DEFINE told == IF k.recvClose /\ ~k.called
                       THEN [k EXCEPT !.called = TRUE, !.closes = Append(@, status)] ELSE k
               t == [told EXCEPT !.sentClose = TRUE]
    <2>1. IsStarted(told) /\ told.alive = k.alive /\ told.op = k.op /\ told.reading = k.reading
      BY DEF IsStarted, Members
    <2> HIDE DEF told
    <2>2. IsStarted(t) /\ t.alive = k.alive /\ t.op = k.op /\ t.reading = k.reading
      BY <2>1 DEF IsStarted, Members
    <2>3. CloseTask(k, size, status) = Queue(t, 8, size + 2)
      BY DEF CloseTask, told
    <2> HIDE DEF t
    <2>4. Unmoved(t, Queue(t, 8, size + 2))
      BY <2>2, <1>2
    <2> QED
      BY <2>2, <2>3, <2>4 DEF Unmoved
  <1> QED
    BY <1>1, <1>2, <1>3

(* check_destroy keeps what is outstanding.                                 *)
LEMMA CheckDestroyHolds ==
  ASSUME NEW k, NEW code, IsStarted(k), k.op => k.reading
  PROVE  Held(CheckDestroy(k, code))
  <1> DEFINE told == IF k.called THEN k ELSE [k EXCEPT !.closes = Append(@, code)]
  <1>1. IsStarted(told) /\ (told.op => told.reading)
    BY DEF IsStarted, Members
  <1>2. CheckDestroy(k, code) = [told EXCEPT !.alive = told.sending # <<>> \/ told.reading]
    BY DEF CheckDestroy, IsStarted, Members
  <1> HIDE DEF told
  <1> QED
    BY <1>1, <1>2 DEF Held, IsStarted, Members

(* do_read, from a handler of a live connection with no read outstanding.   *)
LEMMA DoReadHolds ==
  ASSUME NEW k, IsStarted(k), k.alive, ~k.op
  PROVE  Held(DoRead(k))
  <1> DEFINE r == [k EXCEPT !.reading = TRUE]
  <1>1. IsStarted(CloseSocket(k)) /\ ~CloseSocket(k).op
    BY DEF IsStarted, Members, CloseSocket
  <1>2. IsStarted(r) /\ IsStarted(CloseSocket(r)) /\ ~CloseSocket(r).op /\ r.alive /\ r.reading
    BY DEF IsStarted, Members, CloseSocket
  <1>3. Held(CheckDestroy(CloseSocket(k), ClosedAbnormally))
    BY <1>1, CheckDestroyHolds
  <1>4. Held(CheckDestroy(CloseSocket(r), MessageTooBig))
    BY <1>2, CheckDestroyHolds
  <1>5. ASSUME NEW state PROVE Held([r EXCEPT !.op = TRUE, !.state = state])
    BY <1>2 DEF Held, IsStarted, Members
  <1>6. \/ DoRead(k) = CheckDestroy(CloseSocket(k), ClosedAbnormally)
        \/ DoRead(k) = CheckDestroy(CloseSocket(r), MessageTooBig)
        \/ \E state : DoRead(k) = [r EXCEPT !.op = TRUE, !.state = state]
    BY DEF DoRead
  <1> QED
    BY <1>3, <1>4, <1>5, <1>6

LEMMA ReadOnHolds ==
  ASSUME NEW k, IsStarted(k), k.alive, ~k.op
  PROVE  Held(ReadOn(k))
  <1> DEFINE r == [k EXCEPT !.state = "MiniHeader", !.fragment = <<>>, !.bytes = 0]
  <1>1. IsStarted(r) /\ r.alive /\ ~r.op
    BY DEF IsStarted, Members
  <1> HIDE DEF r
  <1>2. Held(DoRead(r))
    BY <1>1, DoReadHolds
  <1> QED
    BY <1>2 DEF ReadOn, r

(* A whole frame: a message goes on, a close frame may be the end.          *)
LEMMA HandleFragmentHolds ==
  ASSUME NEW k, IsStarted(k), k.alive, ~k.op, ~k.reading
  PROVE  Held(HandleFragment(k))
  <1>1. Held(ReadOn(k))
    BY ReadOnHolds
  <1>2. Held(ReadOn(DataFrame(k)))
    <2>1. IsStarted(DataFrame(k)) /\ DataFrame(k).alive /\ ~DataFrame(k).op
      BY DEF DataFrame, IsStarted, Members
    <2> QED
      BY <2>1, ReadOnHolds
  <1>3. ASSUME NEW size PROVE Held(CloseFrame(k, size))
    <2> DEFINE r == [k EXCEPT !.recvClose = TRUE]
               status == IF size >= 2 THEN NormalClosure ELSE NoStatusCodePresent
               told == IF r.called THEN r
                       ELSE [r EXCEPT !.called = TRUE, !.closes = Append(@, status)]
               answer == CloseTask(r, IF size >= 2 THEN size - 2 ELSE size, status)
    <2>1. IsStarted(r) /\ r.alive /\ ~r.op /\ ~r.reading
      BY DEF IsStarted, Members
    <2>2. IsStarted(CloseSocket(told)) /\ ~CloseSocket(told).op
      BY <2>1 DEF IsStarted, Members, CloseSocket
    <2>3. Held(CheckDestroy(CloseSocket(told), ClosedAbnormally))
      BY <2>2, CheckDestroyHolds
    <2> HIDE DEF r, status
    <2>4. Unmoved(r, answer)
      BY <2>1, WritesUnmoved
    <2> HIDE DEF answer
    <2>5. IsStarted(answer) /\ answer.alive /\ ~answer.op
      BY <2>1, <2>4 DEF Unmoved
    <2>6. Held(ReadOn(answer))
      BY <2>5, ReadOnHolds
    <2> QED
      BY <2>3, <2>6 DEF CloseFrame, answer, r, status
  <1> QED
    BY <1>1, <1>2, <1>3 DEF HandleFragment

-----------------------------------------------------------------------------
(* A completed read finds its connection alive.                             *)
LEMMA DoneIsAlive ==
  ASSUME Held(ws), ws.op
  PROVE  IsStarted(Done) /\ Done.alive /\ ~Done.op /\ ~Done.reading
  BY DEF Held, IsStarted, Members, Done

LEMMA ReadHolds ==
  ASSUME Held(ws), Read
  PROVE  Held(ws')
  <1> USE DEF Reads
  <1>1. CASE ReadMiniHeader
    <2> DEFINE h == MiniHeader(script[next])
               k == [Done EXCEPT !.header = h, !.mask = HasMask(h)]
               m == CASE Len7(h) = 127 -> [k EXCEPT !.state = "Len64"]
                      [] Len7(h) = 126 -> [k EXCEPT !.state = "Len16"]
                      [] OTHER         -> [k EXCEPT !.state = "Mask", !.remaining = Len7(h)]
    <2>1. ws.op /\ ws' = DoRead(m)
      BY <1>1 DEF ReadMiniHeader
    <2>2. IsStarted(k) /\ k.alive /\ ~k.op
      BY <2>1, DoneIsAlive DEF IsStarted, Members
    <2> HIDE DEF k
    <2>3. IsStarted(m) /\ m.alive /\ ~m.op
      BY <2>2 DEF IsStarted, Members
    <2> HIDE DEF m
    <2> QED
      BY <2>1, <2>3, DoReadHolds
  <1>2. CASE ReadLength
    <2> DEFINE k == [Done EXCEPT !.state = "Mask", !.remaining = script[next].len]
    <2>1. ws.op /\ ws' = DoRead(k)
      BY <1>2 DEF ReadLength
    <2>2. IsStarted(k) /\ k.alive /\ ~k.op
      BY <2>1, DoneIsAlive DEF IsStarted, Members
    <2> QED
      BY <2>1, <2>2, DoReadHolds
  <1>3. CASE ReadMask
    <2> DEFINE k == [Done EXCEPT !.state = "Payload"]
    <2>1. ws.op /\ ws' = DoRead(k)
      BY <1>3 DEF ReadMask
    <2>2. IsStarted(k) /\ k.alive /\ ~k.op
      BY <2>1, DoneIsAlive DEF IsStarted, Members
    <2> QED
      BY <2>1, <2>2, DoReadHolds
  <1>4. ASSUME NEW n, ReadPayload(n)
        PROVE  Held(ws')
    <2> DEFINE k == [Done EXCEPT !.remaining = @ - n,
                                 !.fragment = Grown(@, next, n),
                                 !.bytes = @ + n]
    <2>1. ws.op /\ (ws' = DoRead(k) \/ ws' = HandleFragment(k))
      BY <1>4 DEF ReadPayload
    <2>2. IsStarted(k) /\ k.alive /\ ~k.op /\ ~k.reading
      BY <2>1, DoneIsAlive DEF IsStarted, Members
    <2> HIDE DEF k
    <2> QED
      BY <2>1, <2>2, DoReadHolds, HandleFragmentHolds
  <1>5. CASE ReadFails
    <2>1. ws.op /\ ws' = CheckDestroy(CloseSocket(Done), ClosedAbnormally)
      BY <1>5 DEF ReadFails
    <2>2. IsStarted(CloseSocket(Done)) /\ ~CloseSocket(Done).op
      BY <2>1, DoneIsAlive DEF IsStarted, Members, CloseSocket
    <2> QED
      BY <2>1, <2>2, CheckDestroyHolds
  <1> QED
    BY <1>1, <1>2, <1>3, <1>4, <1>5 DEF Read

(* The end of a write, which may start the next one.                        *)
LEMMA WrittenHolds ==
  ASSUME Held(ws), NEW ok, Written(ok)
  PROVE  Held(ws')
  <1> DEFINE k == [ws EXCEPT !.sending = <<>>]
             dead == [k EXCEPT !.closing = TRUE]
             next_ == DoWrite(k)
  <1>1. /\ ws.alive
        /\ \/ ws' = [next_ EXCEPT !.closing = @ \/ k.sentClose]
           \/ ws' = CheckDestroy(dead, ClosedAbnormally)
    BY DEF Written, Held
  <1>2. IsStarted(k) /\ k.alive /\ (k.op => k.reading)
    BY <1>1 DEF Held, IsStarted, Members
  <1> HIDE DEF k
  <1>3. IsStarted(dead) /\ (dead.op => dead.reading)
    BY <1>2 DEF IsStarted, Members
  <1>4. IsStarted(next_) /\ next_.alive /\ (next_.op => next_.reading)
    BY <1>2, WritesUnmoved DEF Unmoved
  <1> HIDE DEF dead, next_
  <1>5. Held([next_ EXCEPT !.closing = @ \/ k.sentClose])
    BY <1>4 DEF Held, IsStarted, Members
  <1>6. Held(CheckDestroy(dead, ClosedAbnormally))
    BY <1>3, CheckDestroyHolds
  <1> QED
    BY <1>1, <1>5, <1>6

(* A posted task does nothing to a connection that is gone.                 *)
LEMMA TaskHolds ==
  ASSUME Held(ws), RunTask
  PROVE  Held(ws')
  <1>1. CASE ~ws.alive
    BY <1>1 DEF RunTask
  <1>2. CASE ws.alive
    <2>1. \/ ws' = CloseTask(ws, Head(posted).size, NormalClosure)
          \/ ws' = Queue(ws, Head(posted).op, Head(posted).size)
      BY <1>2 DEF RunTask
    <2>2. Unmoved(ws, ws')
      BY <2>1, WritesUnmoved DEF Held
    <2> QED
      BY <1>2, <2>2 DEF Unmoved, Held
  <1> QED
    BY <1>1, <1>2

(* The constructor writes the answer and starts the first read.             *)
Fresh == Members \subseteq DOMAIN ws /\ ~ws.op /\ ws.sending = <<>> /\ posted = <<>>

LEMMA StartHolds ==
  ASSUME Fresh, Start
  PROVE  Held(ws')
  <1> DEFINE k == [ws EXCEPT !.started = TRUE, !.waiting = <<[header |-> <<101>>, size |-> 0]>>]
  <1>1. IsStarted(k) /\ k.alive /\ ~k.op
    BY DEF Start, Fresh, IsStarted, Members
  <1>2. ws' = DoRead(DoWrite(k))
    BY DEF Start
  <1> HIDE DEF k
  <1>3. IsStarted(DoWrite(k)) /\ DoWrite(k).alive /\ ~DoWrite(k).op
    BY <1>1, WritesUnmoved DEF Unmoved
  <1> QED
    BY <1>2, <1>3, DoReadHolds

LifeInv == Held(ws) \/ (Fresh /\ ~ws.started)

LEMMA NextKeepsLifeInv ==
  ASSUME LifeInv, [Next]_vars
  PROVE  LifeInv'
  <1>1. CASE UNCHANGED <<ws, posted>>
    BY <1>1 DEF LifeInv, Held, IsStarted, Fresh
  <1>2. ASSUME NEW op, NEW size, Call(op, size)
        PROVE  LifeInv'
    BY <1>2 DEF Call, LifeInv, Held, IsStarted, Fresh
  <1>3. CASE Thread
    <2>1. CASE Fresh /\ ~ws.started
      <3>1. CASE Start
        BY <2>1, <3>1, StartHolds DEF LifeInv
      <3>2. CASE Refuse
        BY <2>1, <3>2 DEF Refuse, CloseSocket, LifeInv, Fresh, Members
      <3>3. ~Read /\ ~Written(TRUE) /\ ~Written(FALSE) /\ ~RunTask
        BY <2>1 DEF Fresh, Read, ReadMiniHeader, ReadLength, ReadMask, ReadPayload, Reads,
                    ReadFails, Written, RunTask
      <3> QED
        BY <1>3, <3>1, <3>2, <3>3 DEF Thread
    <2>2. CASE Held(ws)
      <3>1. ~Start /\ ~Refuse
        BY <2>2 DEF Start, Refuse, Held, IsStarted
      <3> QED
        BY <1>3, <2>2, <3>1, ReadHolds, WrittenHolds, TaskHolds DEF Thread, LifeInv
    <2> QED
      BY <2>1, <2>2 DEF LifeInv
  <1> QED
    BY <1>1, <1>2, <1>3 DEF Next, Program, OneByteArrives, ClientGone, vars

(* A connection is never deleted with a read or a write outstanding,        *)
(* whatever the client sends, the program calls from other threads, and     *)
(* whenever either of them is gone (check_destroy).                         *)
THEOREM DeletedWhenIdle == Spec => []NothingOutstanding
  <1>1. Init => LifeInv
    BY DEF Init, NewConnection, LifeInv, Fresh, Members
  <1>2. LifeInv /\ [Next]_vars => LifeInv'
    BY NextKeepsLifeInv
  <1>3. LifeInv => NothingOutstanding
    BY DEF LifeInv, Held, Fresh, NothingOutstanding
  <1> QED
    BY <1>1, <1>2, <1>3, PTL DEF Spec

-----------------------------------------------------------------------------
(* What the connection reports and sends.                                   *)

(* build_header writes every size that a size_t holds, in the width that it *)
(* announces.                                                               *)
LEMMA HighAndLow ==
  ASSUME NEW n \in Nat, NEW w, w = n \div 65536
  PROVE  /\ High(n) \in Nat /\ Low(n) \in Nat /\ w \in Nat
         /\ n = 65536 * w + (256 * High(n) + Low(n))
  BY SMT DEF High, Low
LEMMA FourWords ==
  ASSUME NEW n \in Nat,
         NEW w1, w1 = n \div 65536, NEW w2, w2 = w1 \div 65536,
         NEW w3, w3 = w2 \div 65536, w3 < 65536
  PROVE  n = 65536 * (65536 * (65536 * (256 * High(w3) + Low(w3)) + (256 * High(w2) + Low(w2)))
                        + (256 * High(w1) + Low(w1))) + (256 * High(n) + Low(n))
  <1>1. w1 \in Nat /\ n = 65536 * w1 + (256 * High(n) + Low(n))
    BY DEF High, Low
  <1>2. w2 \in Nat /\ w1 = 65536 * w2 + (256 * High(w1) + Low(w1))
    BY <1>1 DEF High, Low
  <1>3. w3 \in Nat /\ w2 = 65536 * w3 + (256 * High(w2) + Low(w2))
    BY <1>2 DEF High, Low
  <1>4. 0 = w3 \div 65536
    BY <1>3
  <1>5. w3 = 65536 * 0 + (256 * High(w3) + Low(w3))
    BY <1>3, <1>4, HighAndLow
  <1>6. \A m \in Nat : High(m) \in Nat /\ Low(m) \in Nat
    BY HighAndLow
  <1> QED
    BY <1>1, <1>2, <1>3, <1>5, <1>6

LEMMA HeaderTellsSize ==
  ASSUME NEW op \in Nat, NEW size, FitsSize(size)
  PROVE  BuildHeader(op, size)[1] >= 128 /\ SizeIn(BuildHeader(op, size)) = size
  <1> DEFINE h == BuildHeader(op, size)
             w1 == size \div 65536
             w2 == w1 \div 65536
             w3 == w2 \div 65536
  <1>1. size \in Nat
    BY DEF FitsSize
  <1>2. w3 < 65536
    BY DEF FitsSize
  <1>3. CASE size < 126
    <2>1. h = <<128 + op, size>>
      BY <1>1, <1>3 DEF BuildHeader
    <2> HIDE DEF h
    <2> QED
      BY <1>1, <1>3, <2>1 DEF SizeIn, h
  <1>4. CASE size >= 126 /\ size < 65536
    <2>1. h = <<128 + op, 126, High(size), Low(size)>>
      BY <1>1, <1>4 DEF BuildHeader
    <2>2. /\ High(size) \in Nat /\ Low(size) \in Nat
          /\ size = 65536 * w1 + (256 * High(size) + Low(size))
      BY <1>1 DEF High, Low
    <2> HIDE DEF h
    <2>3. w1 = 0
      BY <1>1, <1>4
    <2> HIDE DEF w1
    <2>4. size = 256 * High(size) + Low(size)
      BY <2>2, <2>3
    <2> HIDE DEF h
    <2> QED
      BY <1>1, <2>1, <2>4 DEF SizeIn, Word, h
  <1>5. CASE size >= 65536
    <2>1. h = <<128 + op, 127, High(w3), Low(w3), High(w2), Low(w2),
                High(w1), Low(w1), High(size), Low(size)>>
      BY <1>1, <1>5 DEF BuildHeader
    <2> DEFINE b3 == 256 * High(w3) + Low(w3)
               b2 == 256 * High(w2) + Low(w2)
               b1 == 256 * High(w1) + Low(w1)
               b0 == 256 * High(size) + Low(size)
    <2>2. /\ Len(h) = 10 /\ h[1] = 128 + op /\ h[2] = 127
          /\ Word(h, 3) = b3 /\ Word(h, 5) = b2 /\ Word(h, 7) = b1 /\ Word(h, 9) = b0
      <3> HIDE DEF h
      <3> QED
        BY <2>1 DEF Word
    <2> HIDE DEF b0, b1, b2, b3
    <2>3. SizeIn(h) = 65536 * (65536 * (65536 * b3 + b2) + b1) + b0
      <3> HIDE DEF h
      <3> QED
        BY <2>2 DEF SizeIn
    <2>4. 65536 * (65536 * (65536 * b3 + b2) + b1) + b0 = size
      BY <1>1, <1>2, FourWords DEF b0, b1, b2, b3
    <2> HIDE DEF h
    <2> QED
      BY <1>1, <2>2, <2>3, <2>4 DEF h
  <1> QED
    BY <1>1, <1>3, <1>4, <1>5

\* build_header writes bytes.
LEMMA HeaderIsBytes ==
  ASSUME NEW op \in Nat, NEW size \in Nat
  PROVE  BuildHeader(op, size) \in Seq(Nat)
  <1> DEFINE w1 == size \div 65536
             w2 == w1 \div 65536
             w3 == w2 \div 65536
  <1>1. w1 \in Nat /\ w2 \in Nat /\ w3 \in Nat
    OBVIOUS
  <1> HIDE DEF w1, w2, w3
  <1>2. /\ High(w3) \in Nat /\ Low(w3) \in Nat /\ High(w2) \in Nat /\ Low(w2) \in Nat
        /\ High(w1) \in Nat /\ Low(w1) \in Nat /\ High(size) \in Nat /\ Low(size) \in Nat
    BY <1>1 DEF High, Low
  <1>3. CASE size < 126
    BY <1>3 DEF BuildHeader
  <1>4. CASE size >= 126 /\ size < 65536
    <2>1. BuildHeader(op, size) = <<128 + op, 126, High(size), Low(size)>>
      BY <1>4 DEF BuildHeader
    <2> QED
      BY <1>2, <2>1
  <1>5. CASE size >= 65536
    <2>1. BuildHeader(op, size) = <<128 + op, 127, High(w3), Low(w3), High(w2), Low(w2),
                                    High(w1), Low(w1), High(size), Low(size)>>
      BY <1>5 DEF BuildHeader, w1, w2, w3
    <2> QED
      BY <1>2, <2>1
  <1> QED
    BY <1>3, <1>4, <1>5

Answer == [header |-> <<101>>, size |-> 0]
SizedFrames ==
  {f \in [header : Seq(Nat), size : Nat] : f.header[1] >= 128 /\ SizeIn(f.header) = f.size}

LEMMA BuiltIsSized ==
  ASSUME NEW op \in Nat, NEW size, FitsSize(size)
  PROVE  [header |-> BuildHeader(op, size), size |-> size] \in SizedFrames
  <1>1. size \in Nat
    BY DEF FitsSize
  <1>2. BuildHeader(op, size) \in Seq(Nat)
    BY <1>1, HeaderIsBytes
  <1>3. BuildHeader(op, size)[1] >= 128 /\ SizeIn(BuildHeader(op, size)) = size
    BY HeaderTellsSize
  <1> QED
    BY <1>1, <1>2, <1>3 DEF SizedFrames

\* The frames that are being written: the answer to the upgrade is alone and first.
Outgoing == Seq(SizedFrames) \cup (IF wire = <<>> THEN {<<Answer>>} ELSE {})

Clean == {NormalClosure, NoStatusCodePresent}

\* What the close handler was told.
Reported(k) ==
  /\ k.closes \in Seq(Nat)
  /\ ~k.alive \/ k.called => k.closes # <<>>
  /\ \A i \in DOMAIN k.closes : k.closes[i] \in Clean => k.called
  /\ \A i, j \in DOMAIN k.closes : {k.closes[i], k.closes[j]} \subseteq Clean => i = j

\* No fragment is longer than max_payload_bytes_.
Limited(k) ==
  /\ k.remaining \in Nat /\ k.bytes \in Nat
  /\ IF k.state = "Payload" THEN k.bytes + k.remaining <= MaxPayload ELSE k.bytes = 0
Bounded(k) ==
  k.op => Limited(k) /\ (k.state = "Mask" => k.remaining <= MaxPayload)

Fields == Members \cup {"called", "closes", "waiting", "open", "closing", "state", "mask",
                        "remaining", "bytes", "fragment", "recvClose", "sentClose"}

Good(k) ==
  /\ Fields \subseteq DOMAIN k
  /\ Reported(k)
  /\ k.waiting \in Seq(SizedFrames) /\ k.sending \in Outgoing

\* What the functions that do not read leave alone.
Calm(k, r) ==
  /\ r.op = k.op /\ r.state = k.state
  /\ r.remaining = k.remaining /\ r.bytes = k.bytes

LEMMA DoWriteIsGood ==
  ASSUME NEW k, Good(k)
  PROVE  Good(DoWrite(k)) /\ Calm(k, DoWrite(k))
  <1> DEFINE r == DoWrite(k)
  <1>1. /\ Fields \subseteq DOMAIN r /\ Calm(k, r)
        /\ r.closes = k.closes /\ r.alive = k.alive /\ r.called = k.called
    BY DEF DoWrite, Good, Fields, Members, Calm
  <1>2. r.waiting \in {k.waiting, <<>>} /\ r.sending \in {k.sending, k.waiting}
    BY DEF DoWrite, Good, Fields, Members
  <1> HIDE DEF r
  <1>3. r.waiting \in Seq(SizedFrames) /\ r.sending \in Outgoing
    <2>1. <<>> \in Seq(SizedFrames) /\ Seq(SizedFrames) \subseteq Outgoing
      BY DEF Outgoing
    <2> QED
      BY <1>2, <2>1 DEF Good
  <1>4. Reported(r)
    BY <1>1 DEF Good, Reported
  <1>5. Good(r) /\ Calm(k, r)
    BY <1>1, <1>3, <1>4 DEF Good
  <1> QED
    BY <1>5 DEF r

LEMMA QueueIsGood ==
  ASSUME NEW k, Good(k), NEW op \in Nat, NEW size, FitsSize(size)
  PROVE  Good(Queue(k, op, size)) /\ Calm(k, Queue(k, op, size))
  <1> DEFINE f == [header |-> BuildHeader(op, size), size |-> size]
             r == [k EXCEPT !.waiting = Append(@, f)]
  <1>1. f \in SizedFrames
    BY BuiltIsSized
  <1>2. Queue(k, op, size) = DoWrite(r)
    BY DEF Queue
  <1> HIDE DEF f
  <1>3. /\ Fields \subseteq DOMAIN r /\ Calm(k, r)
        /\ r.closes = k.closes /\ r.alive = k.alive /\ r.called = k.called
        /\ r.waiting = Append(k.waiting, f) /\ r.sending = k.sending
    BY DEF Good, Fields, Members, Calm
  <1> HIDE DEF r
  <1>4. Reported(r)
    BY <1>3 DEF Good, Reported
  <1>5. Good(r)
    BY <1>1, <1>3, <1>4 DEF Good
  <1>6. Good(DoWrite(r)) /\ Calm(r, DoWrite(r))
    BY <1>5, DoWriteIsGood
  <1> QED
    BY <1>2, <1>3, <1>6 DEF Calm

(* A call of the close handler: with a clean code only the first time.      *)
LEMMA ToldIsReported ==
  ASSUME NEW k, NEW r, NEW code \in Nat, Reported(k), ~k.called,
         r.closes = Append(k.closes, code), code \in Clean => r.called
  PROVE  Reported(r)
  <1> DEFINE n == Len(k.closes) + 1
  <1>1. k.closes \in Seq(Nat) /\ \A i \in DOMAIN k.closes : k.closes[i] \notin Clean
    BY DEF Reported
  <1>2. /\ r.closes \in Seq(Nat) /\ r.closes # <<>>
        /\ DOMAIN r.closes = 1..n /\ r.closes[n] = code
        /\ \A i \in 1..n : i # n => i \in DOMAIN k.closes /\ r.closes[i] = k.closes[i]
    BY <1>1
  <1> HIDE DEF n
  <1>3. \A i \in DOMAIN r.closes : r.closes[i] \in Clean => i = n
    BY <1>1, <1>2
  <1> QED
    BY <1>2, <1>3 DEF Reported

LEMMA CheckDestroyIsGood ==
  ASSUME NEW k, Good(k), NEW code \in Nat \ Clean
  PROVE  Good(CheckDestroy(k, code)) /\ Calm(k, CheckDestroy(k, code))
  <1> DEFINE told == IF k.called THEN k ELSE [k EXCEPT !.closes = Append(@, code)]
             r == [told EXCEPT !.alive = k.sending # <<>> \/ k.reading]
  <1>1. CheckDestroy(k, code) = r
    BY DEF CheckDestroy
  <1>2. /\ Fields \subseteq DOMAIN told /\ Calm(k, told) /\ told.called = k.called
        /\ told.waiting = k.waiting /\ told.sending = k.sending
        /\ told.closes = IF k.called THEN k.closes ELSE Append(k.closes, code)
    BY DEF Good, Fields, Members, Calm
  <1> HIDE DEF told
  <1>3. /\ Fields \subseteq DOMAIN r /\ Calm(k, r) /\ r.called = k.called
        /\ r.waiting = k.waiting /\ r.sending = k.sending /\ r.closes = told.closes
    BY <1>2 DEF Fields, Members, Calm
  <1> HIDE DEF r
  <1>4. Reported(r)
    <2>1. CASE k.called
      BY <1>2, <1>3, <2>1 DEF Good, Reported
    <2>2. CASE ~k.called
      BY <1>2, <1>3, <2>2, ToldIsReported DEF Good
    <2> QED
      BY <2>1, <2>2
  <1> QED
    BY <1>1, <1>3, <1>4 DEF Good

LEMMA CloseSocketIsGood ==
  ASSUME NEW k, Good(k)
  PROVE  Good(CloseSocket(k)) /\ Calm(k, CloseSocket(k))
  <1> DEFINE r == CloseSocket(k)
  <1>1. /\ Fields \subseteq DOMAIN r /\ Calm(k, r) /\ r.called = k.called /\ r.alive = k.alive
        /\ r.waiting = k.waiting /\ r.sending = k.sending /\ r.closes = k.closes
    BY DEF Good, Fields, Members, Calm, CloseSocket
  <1> HIDE DEF r
  <1>2. Good(r)
    BY <1>1 DEF Good, Reported
  <1> QED
    BY <1>1, <1>2 DEF r

LEMMA CloseTaskIsGood ==
  ASSUME NEW k, Good(k), NEW size, FitsSize(size + 2), NEW status \in Clean
  PROVE  Good(CloseTask(k, size, status)) /\ Calm(k, CloseTask(k, size, status))
  <1> DEFINE first == k.recvClose /\ ~k.called
             told == IF first THEN [k EXCEPT !.called = TRUE, !.closes = Append(@, status)]
                              ELSE k
             t == [told EXCEPT !.sentClose = TRUE]
  <1>1. CloseTask(k, size, status) = Queue(t, 8, size + 2)
    BY DEF CloseTask
  <1>2. /\ Fields \subseteq DOMAIN told /\ Calm(k, told) /\ told.alive = k.alive
        /\ told.waiting = k.waiting /\ told.sending = k.sending
        /\ first => told.called /\ told.closes = Append(k.closes, status)
        /\ ~first => told.called = k.called /\ told.closes = k.closes
    BY DEF Good, Fields, Members, Calm
  <1> HIDE DEF told
  <1>3. Reported(told)
    <2>1. CASE first
      <3>1. status \in Nat
        BY DEF Clean, NormalClosure, NoStatusCodePresent
      <3> QED
        BY <1>2, <2>1, <3>1, ToldIsReported DEF Good
    <2>2. CASE ~first
      BY <1>2, <2>2 DEF Good, Reported
    <2> QED
      BY <2>1, <2>2
  <1> HIDE DEF first
  <1>4. /\ Fields \subseteq DOMAIN t /\ Calm(told, t) /\ t.called = told.called
        /\ t.alive = told.alive /\ t.waiting = told.waiting /\ t.sending = told.sending
        /\ t.closes = told.closes
    BY <1>2 DEF Fields, Members, Calm
  <1> HIDE DEF t
  <1>5. Good(t)
    BY <1>2, <1>3, <1>4 DEF Good, Reported
  <1>6. Good(Queue(t, 8, size + 2)) /\ Calm(t, Queue(t, 8, size + 2))
    BY <1>5, QueueIsGood
  <1> QED
    BY <1>1, <1>2, <1>4, <1>6 DEF Calm

-----------------------------------------------------------------------------
(* Reading on.                                                              *)
Sound(k) == Good(k) /\ Bounded(k)

\* A connection from whose handler a read is started.
Ready(k) == Good(k) /\ ~k.op /\ Limited(k)

\* One that stops reading keeps its limits.
LEMMA EndIsSound ==
  ASSUME NEW k, Good(k), ~k.op, NEW code \in {ClosedAbnormally, MessageTooBig}
  PROVE  Sound(CheckDestroy(CloseSocket(k), code))
  <1>1. code \in Nat \ Clean
    BY DEF Clean, NormalClosure, NoStatusCodePresent, ClosedAbnormally, MessageTooBig
  <1>2. Good(CloseSocket(k)) /\ ~CloseSocket(k).op
    BY CloseSocketIsGood DEF Calm
  <1> DEFINE c == CloseSocket(k)
  <1> HIDE DEF c
  <1>3. Good(CheckDestroy(c, code)) /\ Calm(c, CheckDestroy(c, code))
    BY <1>1, <1>2, CheckDestroyIsGood DEF c
  <1> QED
    BY <1>2, <1>3 DEF Sound, Bounded, Calm, c

LEMMA DoReadIsSound ==
  ASSUME NEW k, Ready(k)
  PROVE  Sound(DoRead(k))
  <1> DEFINE r == [k EXCEPT !.reading = TRUE]
             state == IF k.state = "Mask" /\ ~k.mask THEN "Payload" ELSE k.state
             a == [r EXCEPT !.op = TRUE, !.state = state]
  <1>1. Good(k) /\ ~k.op /\ Limited(k) /\ Fields \subseteq DOMAIN k
    BY DEF Ready, Good
  <1>2. /\ Fields \subseteq DOMAIN r /\ Calm(k, r) /\ r.called = k.called /\ r.alive = k.alive
        /\ r.waiting = k.waiting /\ r.sending = k.sending /\ r.closes = k.closes
        /\ r.mask = k.mask
    BY <1>1 DEF Fields, Members, Calm
  <1>3. DoRead(k) = IF k.sentClose /\ k.recvClose THEN CheckDestroy(CloseSocket(k), ClosedAbnormally)
                    ELSE IF k.state = "Mask" /\ k.remaining > MaxPayload
                         THEN CheckDestroy(CloseSocket(r), MessageTooBig)
                    ELSE a
    BY <1>2 DEF DoRead, Calm
  <1> HIDE DEF r
  <1>4. Good(r) /\ ~r.op
    BY <1>1, <1>2 DEF Good, Reported, Calm
  <1>5. Sound(CheckDestroy(CloseSocket(k), ClosedAbnormally))
    BY <1>1, EndIsSound
  <1>6. Sound(CheckDestroy(CloseSocket(r), MessageTooBig))
    BY <1>4, EndIsSound
  <1>7. CASE ~(k.state = "Mask" /\ k.remaining > MaxPayload)
    <2>1. /\ Fields \subseteq DOMAIN a /\ a.called = r.called /\ a.alive = r.alive
          /\ a.waiting = r.waiting /\ a.sending = r.sending /\ a.closes = r.closes
          /\ a.state = state /\ a.remaining = k.remaining /\ a.bytes = k.bytes
      BY <1>2 DEF Fields, Members, Calm
    <2> HIDE DEF a
    <2>2. Good(a)
      BY <1>4, <2>1 DEF Good, Reported
    <2>3. MaxPayload \in Nat
      BY WebSocketAssumption DEF FitsSize
    <2>4. Limited(a) /\ (a.state = "Mask" => a.remaining <= MaxPayload)
      BY <1>1, <1>7, <2>1, <2>3 DEF Limited
    <2>5. Sound(a)
      BY <2>2, <2>4 DEF Sound, Bounded
    <2> QED
      BY <1>3, <1>5, <1>7, <2>5
  <1> HIDE DEF a
  <1> QED
    BY <1>3, <1>5, <1>6, <1>7

LEMMA ReadOnIsSound ==
  ASSUME NEW k, Good(k), ~k.op, k.remaining \in Nat
  PROVE  Sound(ReadOn(k))
  <1> DEFINE r == [k EXCEPT !.state = "MiniHeader", !.fragment = <<>>, !.bytes = 0]
  <1>1. /\ Fields \subseteq DOMAIN r /\ r.called = k.called /\ r.alive = k.alive
        /\ r.waiting = k.waiting /\ r.sending = k.sending /\ r.closes = k.closes
        /\ r.op = k.op /\ r.remaining = k.remaining /\ r.state = "MiniHeader" /\ r.bytes = 0
    BY DEF Good, Fields, Members
  <1>2. ReadOn(k) = DoRead(r)
    BY DEF ReadOn
  <1> HIDE DEF r
  <1>3. Ready(r)
    BY <1>1 DEF Ready, Good, Reported, Limited
  <1> QED
    BY <1>2, <1>3, DoReadIsSound

(* What fits a size_t fits it when it is smaller.                           *)
LEMMA SmallerFits ==
  ASSUME NEW m, FitsSize(m), NEW n \in Nat, n <= m
  PROVE  FitsSize(n)
  <1>1. m \in Nat /\ ((m \div 65536) \div 65536) \div 65536 < 65536
    BY DEF FitsSize
  <1>2. \A x, y \in Nat : x <= y => x \div 65536 \in Nat /\ x \div 65536 <= y \div 65536
    OBVIOUS
  <1>3. n \div 65536 \in Nat /\ m \div 65536 \in Nat /\ n \div 65536 <= m \div 65536
    BY <1>1, <1>2
  <1> DEFINE n1 == n \div 65536
             m1 == m \div 65536
  <1> HIDE DEF n1, m1
  <1>4. n1 \div 65536 \in Nat /\ m1 \div 65536 \in Nat /\ n1 \div 65536 <= m1 \div 65536
    BY <1>2, <1>3 DEF n1, m1
  <1> DEFINE n2 == n1 \div 65536
             m2 == m1 \div 65536
  <1> HIDE DEF n2, m2
  <1>5. n2 \div 65536 \in Nat /\ m2 \div 65536 \in Nat /\ n2 \div 65536 <= m2 \div 65536
    BY <1>2, <1>4 DEF n2, m2
  <1> QED
    BY <1>1, <1>5 DEF FitsSize, n1, m1, n2, m2

LEMMA CloseFrameIsSound ==
  ASSUME NEW k, Good(k), ~k.op, k.remaining \in Nat, NEW size \in Nat, size <= MaxPayload
  PROVE  Sound(CloseFrame(k, size))
  <1> DEFINE r == [k EXCEPT !.recvClose = TRUE]
             status == IF size >= 2 THEN NormalClosure ELSE NoStatusCodePresent
             told == IF r.called THEN r
                     ELSE [r EXCEPT !.called = TRUE, !.closes = Append(@, status)]
             left == IF size >= 2 THEN size - 2 ELSE size
             answer == CloseTask(r, left, status)
  <1>1. CloseFrame(k, size) = IF k.sentClose THEN CheckDestroy(CloseSocket(told), ClosedAbnormally)
                                             ELSE ReadOn(answer)
    BY DEF CloseFrame
  <1>2. /\ Fields \subseteq DOMAIN r /\ Calm(k, r) /\ r.called = k.called /\ r.alive = k.alive
        /\ r.waiting = k.waiting /\ r.sending = k.sending /\ r.closes = k.closes
    BY DEF Good, Fields, Members, Calm
  <1> HIDE DEF r
  <1>3. Good(r) /\ ~r.op /\ r.remaining \in Nat
    BY <1>2 DEF Good, Reported, Calm
  <1>4. status \in Clean /\ status \in Nat
    BY DEF Clean, NormalClosure, NoStatusCodePresent
  <1>5. FitsSize(left + 2)
    <2>1. FitsSize(MaxPayload) /\ FitsSize(2) /\ FitsSize(3)
      <3>1. FitsSize(MaxPayload)
        BY WebSocketAssumption
      <3>2. FitsSize(2) /\ FitsSize(3)
        BY DEF FitsSize
      <3> QED
        BY <3>1, <3>2
    <2>2. left + 2 \in {size, 2, 3} /\ (left + 2 = size \/ left + 2 \in {2, 3})
      OBVIOUS
    <2> HIDE DEF left
    <2> QED
      BY <2>1, <2>2, SmallerFits
  <1> HIDE DEF status, left
  <1>6. Good(answer) /\ ~answer.op /\ answer.remaining \in Nat
    BY <1>3, <1>4, <1>5, CloseTaskIsGood DEF Calm
  <1> HIDE DEF answer
  <1>7. Sound(ReadOn(answer))
    BY <1>6, ReadOnIsSound
  <1>8. Good(told) /\ ~told.op
    <2>1. CASE r.called
      BY <1>3, <2>1
    <2>2. CASE ~r.called
      <3>1. /\ Fields \subseteq DOMAIN told /\ Calm(r, told) /\ told.called
            /\ told.waiting = r.waiting /\ told.sending = r.sending
            /\ told.closes = Append(r.closes, status)
        BY <1>3, <2>2 DEF Good, Fields, Members, Calm
      <3> HIDE DEF told
      <3>2. Reported(told)
        BY <1>3, <1>4, <2>2, <3>1, ToldIsReported DEF Good
      <3> QED
        BY <1>3, <3>1, <3>2 DEF Good, Calm
    <2> QED
      BY <2>1, <2>2
  <1> HIDE DEF told
  <1>9. Sound(CheckDestroy(CloseSocket(told), ClosedAbnormally))
    BY <1>8, EndIsSound
  <1> QED
    BY <1>1, <1>7, <1>9

LEMMA HandleFragmentIsSound ==
  ASSUME NEW k, Good(k), ~k.op, k.remaining \in Nat, k.bytes \in Nat, k.bytes <= MaxPayload
  PROVE  Sound(HandleFragment(k))
  <1> DEFINE d == DataFrame(k)
  <1>1. /\ Fields \subseteq DOMAIN d /\ Calm(k, d) /\ d.called = k.called /\ d.alive = k.alive
        /\ d.waiting = k.waiting /\ d.sending = k.sending /\ d.closes = k.closes
    BY DEF Good, Fields, Members, Calm, DataFrame
  <1> HIDE DEF d
  <1>2. Good(d) /\ ~d.op /\ d.remaining \in Nat
    BY <1>1 DEF Good, Reported, Calm
  <1>3. Sound(ReadOn(d)) /\ Sound(ReadOn(k))
    BY <1>2, ReadOnIsSound
  <1>4. Sound(CloseFrame(k, k.bytes))
    BY CloseFrameIsSound
  <1> QED
    BY <1>3, <1>4 DEF HandleFragment, d

-----------------------------------------------------------------------------
(* The steps.                                                               *)
Tasks ==
  {t \in [op : {1, 8, 9, 10}, size : Nat] : FitsSize(t.size) /\ (t.op = 8 => FitsSize(t.size + 2))}

\* What the client has been sent: the answer to the upgrade at most first.
WireOK ==
  /\ wire \in Seq({Answer} \cup SizedFrames)
  /\ \A i \in 2..Len(wire) : wire[i] \in SizedFrames

Unstarted ==
  /\ Fields \subseteq DOMAIN ws
  /\ ~ws.op /\ ~ws.called /\ ws.closes = <<>> /\ ws.waiting = <<>> /\ ws.sending = <<>>
  /\ ws.state = "MiniHeader" /\ ws.remaining = 0 /\ ws.bytes = 0
  /\ wire = <<>> /\ posted = <<>>

FrameInv ==
  /\ script \in Seq(ClientFrames)
  /\ posted \in Seq(Tasks)
  /\ WireOK
  /\ IF ws.started THEN Sound(ws) ELSE Unstarted

LEMMA DoneIsGood ==
  ASSUME Sound(ws), ws.op
  PROVE  Good(Done) /\ Ready(Done) /\ ~Done.op /\ Done.state = ws.state
         /\ Done.remaining = ws.remaining /\ Done.bytes = ws.bytes
         /\ (ws.state = "Mask" => ws.remaining <= MaxPayload)
  <1>1. /\ Fields \subseteq DOMAIN Done /\ ~Done.op /\ Done.state = ws.state
        /\ Done.remaining = ws.remaining /\ Done.bytes = ws.bytes
        /\ Done.called = ws.called /\ Done.alive = ws.alive /\ Done.waiting = ws.waiting
        /\ Done.sending = ws.sending /\ Done.closes = ws.closes
    BY DEF Done, Sound, Good, Fields, Members
  <1>2. Good(Done)
    BY <1>1 DEF Sound, Good, Reported
  <1>3. Limited(ws) /\ (ws.state = "Mask" => ws.remaining <= MaxPayload)
    BY DEF Sound, Bounded
  <1> QED
    BY <1>1, <1>2, <1>3 DEF Ready, Limited

\* What a read gets changes only what Ready does not speak of, or keeps to it.
LEMMA ReadIsReady ==
  ASSUME NEW k, NEW r, Good(k), ~k.op,
         Fields \subseteq DOMAIN r, r.op = k.op, r.called = k.called, r.alive = k.alive,
         r.waiting = k.waiting, r.sending = k.sending, r.closes = k.closes, Limited(r)
  PROVE  Ready(r)
  BY DEF Ready, Good, Reported

LEMMA ReadIsSound ==
  ASSUME FrameInv, ws.started, Read
  PROVE  Sound(ws')
  <1>1. Sound(ws) /\ script \in Seq(ClientFrames)
    BY DEF FrameInv
  <1>2. MaxPayload \in Nat /\ BufferSize \in Nat /\ FitsSize(MaxPayload)
    BY WebSocketAssumption DEF FitsSize
  <1>3. ASSUME NEW i \in DOMAIN script
        PROVE  /\ script[i].len \in Nat /\ MiniHeader(script[i]) \in Int
    <2>1. script \in Seq(ClientFrames)
      BY <1>1
    <2>2. script[i] \in ClientFrames
      BY <2>1
    <2> DEFINE f == script[i]
    <2>3. f.len \in Nat /\ f.op \in Nat /\ f.enc \in {7, 16, 64}
      BY <2>2 DEF ClientFrames
    <2> HIDE DEF f
    <2>4. MiniHeader(f) \in Int
      BY <2>3 DEF MiniHeader
    <2> QED
      BY <2>3, <2>4 DEF f
  <1>4. CASE ReadMiniHeader
    <2> DEFINE h == MiniHeader(script[next])
               k == [Done EXCEPT !.header = h, !.mask = HasMask(h)]
               m == CASE Len7(h) = 127 -> [k EXCEPT !.state = "Len64"]
                      [] Len7(h) = 126 -> [k EXCEPT !.state = "Len16"]
                      [] OTHER         -> [k EXCEPT !.state = "Mask", !.remaining = Len7(h)]
    <2>1. ws.op /\ ws.state = "MiniHeader" /\ next \in DOMAIN script /\ ws' = DoRead(m)
      BY <1>4 DEF ReadMiniHeader, Reads
    <2>2. /\ Good(Done) /\ ~Done.op /\ Done.state = "MiniHeader"
          /\ Done.remaining \in Nat /\ Done.bytes = 0
      BY <1>1, <2>1, DoneIsGood DEF Ready, Limited
    <2>3. Len7(h) \in Nat
      BY <1>3, <2>1 DEF Len7
    <2> HIDE DEF h
    <2>4. /\ Fields \subseteq DOMAIN k /\ Calm(Done, k) /\ k.called = Done.called
          /\ k.alive = Done.alive /\ k.waiting = Done.waiting /\ k.sending = Done.sending
          /\ k.closes = Done.closes
      BY <2>2 DEF Good, Fields, Members, Calm
    <2> HIDE DEF k
    <2>5. /\ Fields \subseteq DOMAIN m /\ m.op = k.op /\ m.called = k.called
          /\ m.alive = k.alive /\ m.waiting = k.waiting /\ m.sending = k.sending
          /\ m.closes = k.closes /\ m.state # "Payload" /\ m.bytes = k.bytes
          /\ m.remaining \in {k.remaining, Len7(h)}
      BY <2>4 DEF Fields, Members
    <2> HIDE DEF m
    <2>6. Ready(m)
      BY <2>2, <2>3, <2>4, <2>5, ReadIsReady DEF Calm, Limited
    <2> QED
      BY <2>1, <2>6, DoReadIsSound
  <1>5. CASE ReadLength
    <2> DEFINE k == [Done EXCEPT !.state = "Mask", !.remaining = script[next].len]
    <2>1. /\ ws.op /\ ws.state \in {"Len16", "Len64"} /\ next \in DOMAIN script
          /\ ws' = DoRead(k)
      BY <1>5 DEF ReadLength, Reads
    <2>2. Good(Done) /\ ~Done.op /\ Done.bytes = 0
      BY <1>1, <2>1, DoneIsGood DEF Ready, Limited
    <2>3. script[next].len \in Nat
      BY <1>3, <2>1
    <2>4. /\ Fields \subseteq DOMAIN k /\ k.op = Done.op /\ k.called = Done.called
          /\ k.alive = Done.alive /\ k.waiting = Done.waiting /\ k.sending = Done.sending
          /\ k.closes = Done.closes
          /\ k.state = "Mask" /\ k.remaining = script[next].len /\ k.bytes = Done.bytes
      BY <2>2 DEF Good, Fields, Members
    <2> HIDE DEF k
    <2>5. Ready(k)
      BY <2>2, <2>3, <2>4, ReadIsReady DEF Limited
    <2> QED
      BY <2>1, <2>5, DoReadIsSound
  <1>6. CASE ReadMask
    <2> DEFINE k == [Done EXCEPT !.state = "Payload"]
    <2>1. ws.op /\ ws.state = "Mask" /\ ws' = DoRead(k)
      BY <1>6 DEF ReadMask, Reads
    <2>2. /\ Good(Done) /\ ~Done.op /\ Done.bytes = 0 /\ Done.remaining \in Nat
          /\ Done.remaining <= MaxPayload
      BY <1>1, <2>1, DoneIsGood DEF Ready, Limited
    <2>3. /\ Fields \subseteq DOMAIN k /\ k.op = Done.op /\ k.called = Done.called
          /\ k.alive = Done.alive /\ k.waiting = Done.waiting /\ k.sending = Done.sending
          /\ k.closes = Done.closes
          /\ k.state = "Payload" /\ k.remaining = Done.remaining /\ k.bytes = Done.bytes
      BY <2>2 DEF Good, Fields, Members
    <2> HIDE DEF k
    <2>4. Ready(k)
      BY <1>2, <2>2, <2>3, ReadIsReady DEF Limited
    <2> QED
      BY <2>1, <2>4, DoReadIsSound
  <1>7. ASSUME NEW n, ReadPayload(n)
        PROVE  Sound(ws')
    <2> DEFINE k == [Done EXCEPT !.remaining = @ - n,
                                 !.fragment = Grown(@, next, n),
                                 !.bytes = @ + n]
               toRead == IF ws.remaining < BufferSize THEN ws.remaining ELSE BufferSize
    <2>1. /\ ws.op /\ ws.state = "Payload"
          /\ n = toRead \/ (n = 1 /\ toRead > 1)
          /\ IF k.remaining > 0 THEN ws' = DoRead(k) ELSE ws' = HandleFragment(k)
      BY <1>7 DEF ReadPayload, Reads
    <2>2. /\ Good(Done) /\ ~Done.op /\ Done.bytes \in Nat /\ Done.remaining \in Nat
          /\ Done.bytes + Done.remaining <= MaxPayload /\ Done.remaining = ws.remaining
          /\ Done.state = "Payload"
      BY <1>1, <2>1, DoneIsGood DEF Ready, Limited
    <2>3. n \in Nat /\ n <= Done.remaining
      BY <1>2, <2>1, <2>2
    <2> HIDE DEF toRead
    <2>4. /\ Fields \subseteq DOMAIN k /\ k.op = Done.op /\ k.called = Done.called
          /\ k.alive = Done.alive /\ k.waiting = Done.waiting /\ k.sending = Done.sending
          /\ k.closes = Done.closes /\ k.state = "Payload"
          /\ k.remaining = Done.remaining - n /\ k.bytes = Done.bytes + n
      BY <2>2 DEF Good, Fields, Members
    <2> HIDE DEF k
    <2>5. /\ k.remaining \in Nat /\ k.bytes \in Nat
          /\ k.bytes + k.remaining <= MaxPayload /\ k.bytes <= MaxPayload
      BY <1>2, <2>2, <2>3, <2>4
    <2>6. Ready(k)
      BY <2>2, <2>4, <2>5, ReadIsReady DEF Limited
    <2>7. Sound(DoRead(k))
      BY <2>6, DoReadIsSound
    <2>8. Sound(HandleFragment(k))
      BY <2>5, <2>6, HandleFragmentIsSound DEF Ready
    <2> QED
      BY <2>1, <2>7, <2>8
  <1>8. CASE ReadFails
    <2>1. ws.op /\ ws' = CheckDestroy(CloseSocket(Done), ClosedAbnormally)
      BY <1>8 DEF ReadFails
    <2>2. Good(Done) /\ ~Done.op
      BY <1>1, <2>1, DoneIsGood
    <2> QED
      BY <2>1, <2>2, EndIsSound
  <1> QED
    BY <1>4, <1>5, <1>6, <1>7, <1>8 DEF Read

\* The pong that answers a ping is no longer than a fragment may be.
LEMMA ReadPosts ==
  ASSUME FrameInv, ws.started, Read
  PROVE  posted' \in Seq(Tasks)
  <1>1. Sound(ws) /\ posted \in Seq(Tasks)
    BY DEF FrameInv
  <1>2. MaxPayload \in Nat /\ BufferSize \in Nat /\ FitsSize(MaxPayload)
    BY WebSocketAssumption DEF FitsSize
  <1>3. ASSUME NEW n, ReadPayload(n)
        PROVE  posted' \in Seq(Tasks)
    <2> DEFINE k == [Done EXCEPT !.remaining = @ - n,
                                 !.fragment = Grown(@, next, n),
                                 !.bytes = @ + n]
               toRead == IF ws.remaining < BufferSize THEN ws.remaining ELSE BufferSize
    <2>1. /\ ws.op /\ ws.state = "Payload"
          /\ n = toRead \/ (n = 1 /\ toRead > 1)
          /\ posted' \in {posted, Append(posted, [op |-> 10, size |-> k.bytes])}
      BY <1>3 DEF ReadPayload, Reads
    <2>2. /\ Good(Done) /\ Done.bytes \in Nat /\ Done.remaining \in Nat
          /\ Done.bytes + Done.remaining <= MaxPayload /\ Done.remaining = ws.remaining
      BY <1>1, <2>1, DoneIsGood DEF Ready, Limited
    <2>3. k.bytes = Done.bytes + n
      BY <2>2 DEF Good, Fields, Members
    <2> HIDE DEF k
    <2>4. k.bytes \in Nat /\ k.bytes <= MaxPayload
      BY <1>2, <2>1, <2>2, <2>3
    <2>5. FitsSize(k.bytes)
      BY <1>2, <2>4, SmallerFits
    <2>6. [op |-> 10, size |-> k.bytes] \in Tasks
      BY <2>4, <2>5 DEF Tasks
    <2> QED
      BY <1>1, <2>1, <2>6
  <1>4. CASE ReadMiniHeader \/ ReadLength \/ ReadMask \/ ReadFails
    BY <1>1, <1>4 DEF ReadMiniHeader, ReadLength, ReadMask, ReadFails
  <1> QED
    BY <1>3, <1>4 DEF Read

LEMMA TaskIsSound ==
  ASSUME FrameInv, ws.started, RunTask
  PROVE  Sound(ws') /\ posted' \in Seq(Tasks)
  <1> DEFINE t == Head(posted)
  <1>1. Sound(ws) /\ posted \in Seq(Tasks) /\ posted # <<>>
    BY DEF FrameInv, RunTask
  <1>2. t \in Tasks /\ Tail(posted) \in Seq(Tasks)
    BY <1>1
  <1> HIDE DEF t
  <1>3. FitsSize(t.size) /\ t.op \in Nat /\ (t.op = 8 => FitsSize(t.size + 2))
    BY <1>2 DEF Tasks
  <1>4. NormalClosure \in Clean
    BY DEF Clean
  <1>5. \/ ws' = ws
        \/ t.op = 8 /\ ws' = CloseTask(ws, t.size, NormalClosure)
        \/ ws' = Queue(ws, t.op, t.size)
    BY DEF RunTask, t
  <1>6. t.op = 8 => /\ Good(CloseTask(ws, t.size, NormalClosure))
                    /\ Calm(ws, CloseTask(ws, t.size, NormalClosure))
    BY <1>1, <1>3, <1>4, CloseTaskIsGood DEF Sound
  <1>7. Good(Queue(ws, t.op, t.size)) /\ Calm(ws, Queue(ws, t.op, t.size))
    BY <1>1, <1>3, QueueIsGood DEF Sound
  <1>8. Good(ws') /\ (ws' = ws \/ Calm(ws, ws'))
    BY <1>1, <1>5, <1>6, <1>7 DEF Sound
  <1>9. Sound(ws')
    BY <1>1, <1>8 DEF Sound, Bounded, Limited, Calm
  <1> QED
    BY <1>2, <1>9 DEF RunTask

(* What was written leaves; what waited is written next.                    *)
LEMMA WrittenIsSound ==
  ASSUME FrameInv, ws.started, NEW ok, Written(ok)
  PROVE  Sound(ws') /\ ws'.sending \in Seq(SizedFrames) /\ WireOK'
  <1> DEFINE k == [ws EXCEPT !.sending = <<>>]
             w == DoWrite(k)
             dead == [k EXCEPT !.closing = TRUE]
  <1>1. Sound(ws) /\ WireOK
    BY DEF FrameInv
  <1>2. \/ ws' = [w EXCEPT !.closing = @ \/ k.sentClose]
        \/ ws' = CheckDestroy(dead, ClosedAbnormally)
    BY DEF Written
  <1>3. /\ Fields \subseteq DOMAIN k /\ Calm(ws, k) /\ k.called = ws.called
        /\ k.alive = ws.alive /\ k.waiting = ws.waiting /\ k.closes = ws.closes
        /\ k.sending = <<>>
    BY <1>1 DEF Sound, Good, Fields, Members, Calm
  <1>4. <<>> \in Seq(SizedFrames) /\ <<>> \in Outgoing
    BY DEF Outgoing
  <1> HIDE DEF k
  <1>5. Good(k) /\ Bounded(k)
    <2>1. Reported(k)
      BY <1>1, <1>3 DEF Sound, Good, Reported
    <2>2. Good(k)
      BY <1>1, <1>3, <1>4, <2>1 DEF Sound, Good
    <2>3. Bounded(k)
      BY <1>1, <1>3 DEF Sound, Bounded, Limited, Calm
    <2> QED
      BY <2>2, <2>3
  <1>6. ASSUME ws' = [w EXCEPT !.closing = @ \/ k.sentClose]
        PROVE  Sound(ws') /\ ws'.sending \in Seq(SizedFrames)
    <2>1. Good(w) /\ Calm(k, w)
      BY <1>5, DoWriteIsGood
    <2>2. w.sending = k.waiting
      BY <1>3, <1>5 DEF DoWrite, Good, Fields, Members
    <2> HIDE DEF w
    <2> DEFINE r == [w EXCEPT !.closing = @ \/ k.sentClose]
    <2>3. /\ Fields \subseteq DOMAIN r /\ Calm(w, r) /\ r.called = w.called
          /\ r.alive = w.alive /\ r.waiting = w.waiting /\ r.closes = w.closes
          /\ r.sending = w.sending
      BY <2>1 DEF Good, Fields, Members, Calm
    <2> HIDE DEF r
    <2>4. Good(r)
      BY <2>1, <2>3 DEF Good, Reported
    <2>5. Bounded(r)
      BY <1>5, <2>1, <2>3 DEF Bounded, Limited, Calm
    <2>6. r.sending \in Seq(SizedFrames)
      BY <1>5, <2>2, <2>3 DEF Good
    <2> QED
      BY <1>6, <2>4, <2>5, <2>6 DEF Sound, r
  <1>7. ASSUME ws' = CheckDestroy(dead, ClosedAbnormally)
        PROVE  Sound(ws') /\ ws'.sending \in Seq(SizedFrames)
    <2>1. /\ Fields \subseteq DOMAIN dead /\ Calm(k, dead) /\ dead.called = k.called
          /\ dead.alive = k.alive /\ dead.waiting = k.waiting /\ dead.closes = k.closes
          /\ dead.sending = <<>>
      BY <1>3 DEF Fields, Members, Calm
    <2> HIDE DEF dead
    <2>2. Good(dead)
      <3>1. Reported(dead)
        BY <1>5, <2>1 DEF Good, Reported
      <3> QED
        BY <1>4, <1>5, <2>1, <3>1 DEF Good
    <2>3. ClosedAbnormally \in Nat \ Clean
      BY DEF Clean, NormalClosure, NoStatusCodePresent, ClosedAbnormally
    <2>4. Good(ws') /\ Calm(dead, ws')
      BY <1>7, <2>2, <2>3, CheckDestroyIsGood
    <2>5. ws'.sending = <<>>
      BY <1>7, <2>1 DEF CheckDestroy, Fields, Members
    <2>6. Bounded(ws')
      BY <1>5, <2>1, <2>4 DEF Bounded, Limited, Calm
    <2> QED
      BY <1>4, <2>4, <2>5, <2>6 DEF Sound
  <1>8. WireOK'
    <2>1. CASE ~ok
      BY <1>1, <2>1 DEF Written, WireOK
    <2>2. CASE ok /\ wire = <<>>
      <3>1. wire' = ws.sending /\ ws.sending \in Outgoing
        <4>1. wire' = wire \o ws.sending /\ ws.sending \in Outgoing
          BY <1>1, <2>2 DEF Written, Sound, Good
        <4>2. ws.sending \in Seq(SizedFrames) \cup {<<Answer>>}
          BY <4>1, <2>2 DEF Outgoing
        <4>3. <<>> \o ws.sending = ws.sending
          BY <4>2
        <4> QED
          BY <4>1, <4>3, <2>2
      <3>2. CASE ws.sending = <<Answer>>
        BY <3>1, <3>2 DEF WireOK
      <3>3. CASE ws.sending \in Seq(SizedFrames)
        BY <3>1, <3>3 DEF WireOK
      <3> QED
        BY <2>2, <3>1, <3>2, <3>3 DEF Outgoing
    <2>3. CASE ok /\ wire # <<>>
      <3>1. wire' = wire \o ws.sending /\ ws.sending \in Seq(SizedFrames)
        BY <1>1, <2>3 DEF Written, Sound, Good, Outgoing
      <3> DEFINE S == {Answer} \cup SizedFrames
                 s == ws.sending
      <3>2. wire \in Seq(S) /\ s \in Seq(S) /\ Len(wire) >= 1
        BY <1>1, <2>3, <3>1 DEF WireOK
      <3>3. /\ wire \o s \in Seq(S) /\ Len(wire \o s) = Len(wire) + Len(s)
            /\ \A i \in 1..Len(wire) + Len(s) :
                 (wire \o s)[i] = IF i <= Len(wire) THEN wire[i] ELSE s[i - Len(wire)]
        BY <3>2
      <3>4. ASSUME NEW i \in 2..Len(wire \o s) PROVE (wire \o s)[i] \in SizedFrames
        <4>1. CASE i <= Len(wire)
          BY <1>1, <3>2, <3>3, <4>1 DEF WireOK
        <4>2. CASE i > Len(wire)
          <5>1. i - Len(wire) \in 1..Len(s)
            BY <3>2, <3>3, <4>2
          <5> QED
            BY <3>1, <3>2, <3>3, <4>2, <5>1
        <4> QED
          BY <3>2, <3>3, <4>1, <4>2
      <3> QED
        BY <3>1, <3>3, <3>4 DEF WireOK
    <2> QED
      BY <2>1, <2>2, <2>3
  <1> QED
    BY <1>2, <1>6, <1>7, <1>8

LEMMA StartIsSound ==
  ASSUME Unstarted, Start
  PROVE  Sound(ws')
  <1> DEFINE k == [ws EXCEPT !.started = TRUE, !.waiting = <<[header |-> <<101>>, size |-> 0]>>]
             w == DoWrite(k)
  <1>1. ws.alive /\ ws' = DoRead(w)
    BY DEF Start
  <1>2. /\ Fields \subseteq DOMAIN k /\ k.op = ws.op /\ k.called = ws.called /\ k.alive = ws.alive
        /\ k.closes = ws.closes /\ k.waiting = <<Answer>> /\ k.sending = <<>>
        /\ k.state = ws.state /\ k.remaining = ws.remaining /\ k.bytes = ws.bytes
    BY DEF Unstarted, Fields, Members, Answer
  <1> HIDE DEF k
  <1>3. /\ Fields \subseteq DOMAIN w /\ w.op = k.op /\ w.called = k.called /\ w.alive = k.alive
        /\ w.closes = k.closes /\ w.waiting = <<>> /\ w.sending = <<Answer>>
        /\ w.state = k.state /\ w.remaining = k.remaining /\ w.bytes = k.bytes
    BY <1>2 DEF DoWrite, Fields, Members
  <1> HIDE DEF w
  <1>4. <<>> \in Seq(SizedFrames) /\ <<Answer>> \in Outgoing
    BY DEF Outgoing, Unstarted
  <1>5. Reported(w)
    BY <1>1, <1>2, <1>3 DEF Unstarted, Reported
  <1>6. Ready(w)
    BY <1>2, <1>3, <1>4, <1>5 DEF Unstarted, Ready, Good, Limited
  <1> QED
    BY <1>1, <1>6, DoReadIsSound

\* Half a header is a frame, and what was read before it stays.
LEMMA HalfAHeader ==
  ASSUME script \in Seq(ClientFrames), OneByteArrives
  PROVE  /\ script' \in Seq(ClientFrames) /\ next \in 1 .. Len(script') /\ next' = next
         /\ \A i \in 1 .. next - 1 : i \in DOMAIN script' /\ script'[i] = script[i]
  <1> DEFINE head == SubSeq(script, 1, next - 1)
             half == [script[next] EXCEPT !.mask = FALSE, !.enc = 7, !.len = 0]
  <1>1. PICK rest \in Misreadings : script' = head \o <<half>> \o rest
    BY DEF OneByteArrives
  <1>2. next \in 1 .. Len(script) /\ Len(script) \in Nat /\ next' = next
    BY DEF OneByteArrives, Reads
  <1>3. rest \in Seq(ClientFrames)
    BY WebSocketAssumption
  <1>4. half \in ClientFrames
    <2>1. script[next] \in ClientFrames
      BY <1>2
    <2>2. FitsSize(0)
      BY DEF FitsSize
    <2> DEFINE f == script[next]
               Records == [op : 0 .. 15, fin : BOOLEAN, mask : BOOLEAN, enc : {7, 16, 64}, len : Nat]
    <2>3. f \in Records
      BY <2>1 DEF ClientFrames
    <2> HIDE DEF f
    <2> DEFINE g == [f EXCEPT !.mask = FALSE, !.enc = 7, !.len = 0]
    <2>4. g \in Records /\ g.enc = 7 /\ g.len = 0
      BY <2>3
    <2> HIDE DEF g
    <2>5. g \in ClientFrames
      BY <2>2, <2>4 DEF ClientFrames
    <2> QED
      BY <2>5 DEF f, g
  <1>5. head \in Seq(ClientFrames) /\ Len(head) = next - 1
        /\ \A i \in 1 .. next - 1 : head[i] = script[i]
    <2>1. \A i \in 1 .. next - 1 : script[i] \in ClientFrames
      BY <1>2
    <2>2. /\ head \in Seq(ClientFrames)
          /\ Len(head) = (IF 1 <= next - 1 THEN (next - 1) - 1 + 1 ELSE 0)
          /\ \A i \in 1 .. (next - 1) - 1 + 1 : head[i] = script[1 + i - 1]
      <3> HIDE DEF head
      <3> DEFINE m == next - 1
      <3>1. 1 \in Int /\ m \in Int /\ \A i \in 1 .. m : script[i] \in ClientFrames
        BY <1>2, <2>1
      <3> HIDE DEF m
      <3> QED
        BY <3>1, SubSeqProperties DEF head, m
    <2> HIDE DEF head
    <2> QED
      BY <1>2, <2>2
  <1> HIDE DEF head, half
  <1> QED
    BY <1>1, <1>2, <1>3, <1>4, <1>5

LEMMA NextKeepsFrames ==
  ASSUME LifeInv, LifeInv', FrameInv, [Next]_vars
  PROVE  FrameInv'
  <1>1. IF ws.started THEN Sound(ws) ELSE Unstarted
    BY DEF FrameInv
  <1>2. script' \in Seq(ClientFrames)
    <2>1. CASE OneByteArrives
      BY <2>1, HalfAHeader DEF FrameInv
    <2>2. CASE ~OneByteArrives
      BY <2>2 DEF FrameInv, Next, Thread, Program, ClientGone, Start, Refuse, Read,
                  ReadMiniHeader, ReadLength, ReadMask, ReadPayload, ReadFails, Written, RunTask,
                  Call, vars
    <2> QED
      BY <2>1, <2>2
  <1>3. ws.started <=> Held(ws)
    BY DEF LifeInv, Held, IsStarted
  <1>4. ASSUME wire' = wire, Sound(ws'), ws'.started, posted' \in Seq(Tasks)
        PROVE  FrameInv'
    BY <1>2, <1>4 DEF FrameInv, WireOK, Sound, Good, Reported, Outgoing, Bounded, Limited
  <1>5. CASE UNCHANGED <<ws, posted, wire>>
    BY <1>2, <1>5 DEF FrameInv, WireOK, Sound, Good, Reported, Outgoing, Bounded, Limited, Unstarted
  <1>6. ASSUME NEW op \in {1, 8, 9}, NEW size, Call(op, size), FitsSize(size),
               op = 8 => FitsSize(size + 2)
        PROVE  FrameInv'
    <2>1. ws.started /\ ws' = ws /\ wire' = wire /\ posted' = Append(posted, [op |-> op, size |-> size])
      BY <1>6 DEF Call
    <2>2. [op |-> op, size |-> size] \in Tasks
      BY <1>6 DEF Tasks, FitsSize
    <2>3. posted' \in Seq(Tasks)
      BY <2>1, <2>2 DEF FrameInv
    <2> QED
      BY <1>1, <1>4, <2>1, <2>3
  <1>7. CASE Thread /\ ws.started
    <2>1. ~Start /\ ~Refuse
      BY <1>7 DEF Start, Refuse
    <2>2. CASE Read
      <3>1. wire' = wire /\ Sound(ws') /\ posted' \in Seq(Tasks)
        BY <1>7, <2>2, ReadIsSound, ReadPosts DEF Read, ReadMiniHeader, ReadLength, ReadMask,
             ReadPayload, ReadFails
      <3>2. ws'.started
        BY <1>3, <1>7, <2>2, ReadHolds DEF Held, IsStarted
      <3> QED
        BY <1>4, <3>1, <3>2
    <2>3. CASE RunTask
      <3>1. wire' = wire /\ Sound(ws') /\ posted' \in Seq(Tasks)
        BY <1>7, <2>3, TaskIsSound DEF RunTask
      <3>2. ws'.started
        BY <1>3, <1>7, <2>3, TaskHolds DEF Held, IsStarted
      <3> QED
        BY <1>4, <3>1, <3>2
    <2>4. ASSUME NEW ok, Written(ok) PROVE FrameInv'
      <3>1. Sound(ws') /\ ws'.sending \in Seq(SizedFrames) /\ WireOK' /\ posted' = posted
        BY <1>7, <2>4, WrittenIsSound DEF Written
      <3>2. ws'.started
        BY <1>3, <1>7, <2>4, WrittenHolds DEF Held, IsStarted
      <3>3. Sound(ws)'
        BY <3>1 DEF Sound, Good, Reported, Outgoing, Bounded, Limited
      <3> QED
        BY <1>2, <3>1, <3>2, <3>3 DEF FrameInv
    <2> QED
      BY <1>7, <2>1, <2>2, <2>3, <2>4 DEF Thread
  <1>8. CASE Thread /\ ~ws.started
    <2>1. Unstarted /\ Fresh
      BY <1>1, <1>3, <1>8 DEF LifeInv
    <2>2. CASE Start
      <3>1. Sound(ws') /\ wire' = wire /\ posted' = posted
        BY <2>1, <2>2, StartIsSound DEF Start
      <3>2. ws'.started
        BY <2>1, <2>2, StartHolds DEF Held, IsStarted
      <3> QED
        BY <1>4, <3>1, <3>2 DEF FrameInv
    <2>3. CASE Refuse
      <3>1. /\ ~ws'.started /\ Unstarted'
        BY <1>8, <2>1, <2>3 DEF Refuse, CloseSocket, Unstarted, Fields, Members
      <3>2. posted' = posted /\ wire' = wire
        BY <2>3 DEF Refuse
      <3> QED
        BY <1>2, <3>1, <3>2 DEF FrameInv, WireOK
    <2>4. ~Read /\ ~Written(TRUE) /\ ~Written(FALSE) /\ ~RunTask
      BY <2>1 DEF Fresh, Read, ReadMiniHeader, ReadLength, ReadMask, ReadPayload, Reads,
                  ReadFails, Written, RunTask
    <2> QED
      BY <1>8, <2>2, <2>3, <2>4 DEF Thread
  <1>9. CASE Program
    <2>1. FitsSize(4) /\ FitsSize(4 + 2)
      BY DEF FitsSize
    <2>2. \A size \in Sizes : FitsSize(size)
      BY WebSocketAssumption
    <2> QED
      BY <1>6, <1>9, <2>1, <2>2 DEF Program
  <1>10. CASE OneByteArrives \/ ClientGone \/ UNCHANGED vars
    BY <1>5, <1>10 DEF OneByteArrives, ClientGone, vars
  <1> QED
    BY <1>7, <1>8, <1>9, <1>10 DEF Next

LEMMA WebSocketInvHolds == Spec => [](LifeInv /\ FrameInv)
  <1>1. Init => LifeInv
    BY DEF Init, NewConnection, LifeInv, Fresh, Members
  <1>2. Init => FrameInv
    <2> SUFFICES ASSUME Init PROVE FrameInv
      OBVIOUS
    <2>1. posted \in Seq(Tasks) /\ WireOK /\ script \in Seq(ClientFrames)
      BY WebSocketAssumption DEF Init, WireOK
    <2>2. ~ws.started /\ Unstarted
      BY DEF Init, NewConnection, Unstarted, Fields, Members
    <2> QED
      BY <2>1, <2>2 DEF FrameInv
  <1>3. LifeInv /\ [Next]_vars => LifeInv'
    BY NextKeepsLifeInv
  <1>4. LifeInv /\ LifeInv' /\ FrameInv /\ [Next]_vars => FrameInv'
    BY NextKeepsFrames
  <1> QED
    BY <1>1, <1>2, <1>3, <1>4, PTL DEF Spec

(* No connection that was opened is deleted before its close handler was    *)
(* called, and a clean close is reported at most once, whichever side       *)
(* closes first and whatever is lost (check_destroy and its flag            *)
(* is_close_handler_called_).                                                *)
THEOREM ClosesAreReported == Spec => []CloseIsReported
  <1>1. FrameInv => CloseIsReported
    BY DEF FrameInv, Sound, Good, Reported, CloseIsReported, Clean, Unstarted
  <1> QED
    BY <1>1, WebSocketInvHolds, PTL

(* The header of every frame tells its size, for every size that a size_t   *)
(* holds: of messages, of pongs, whose size is that of a fragment of the    *)
(* client, and of close frames (build_header).                              *)
THEOREM FramesTellTheirSize == Spec => []FramesAreSized
  <1>1. FrameInv => FramesAreSized
    BY DEF FrameInv, WireOK, FramesAreSized, SizedFrames
  <1> QED
    BY <1>1, WebSocketInvHolds, PTL

-----------------------------------------------------------------------------
(* What is read.                                                           *)

(* The numbers of a set, in order.                                          *)
ListUpTo(f, ns, n) ==
  f = [m \in 0 .. n |-> IF m = 0 THEN <<>>
                        ELSE IF m \in ns THEN Append(f[m - 1], m)
                        ELSE f[m - 1]]

LEMMA ListExists ==
  ASSUME NEW ns, NEW n \in Nat
  PROVE  \E f : ListUpTo(f, ns, n) /\ f \in [0 .. n -> Seq(Nat)]
  <1> DEFINE Step(m, list) == IF m \in ns THEN Append(list, m) ELSE list
             step == [x \in (1 .. n) \X Seq(Nat) |-> Step(x[1], x[2])]
  <1>1. step \in [(1 .. n) \X Seq(Nat) -> Seq(Nat)]
    <2>1. ASSUME NEW m \in 1 .. n, NEW list \in Seq(Nat) PROVE Step(m, list) \in Seq(Nat)
      OBVIOUS
    <2> HIDE DEF Step
    <2> QED
      BY <2>1
  <1>2. <<>> \in Seq(Nat)
    OBVIOUS
  <1>3. PICK f : Builds(f, n, Seq(Nat), <<>>, step)
    <2> HIDE DEF step
    <2> QED
      BY <1>1, <1>2, Recursion
  <1>4. \A m \in 1 .. n : f[m] = Step(m, f[m - 1])
    <2> SUFFICES ASSUME NEW m \in 1 .. n PROVE f[m] = Step(m, f[m - 1])
      OBVIOUS
    <2>1. m - 1 \in 0 .. n /\ f[m - 1] \in Seq(Nat)
      BY <1>3 DEF Builds
    <2> HIDE DEF Step
    <2> QED
      BY <1>3, <2>1 DEF Builds
  <1>5. f = [m \in 0 .. n |-> f[m]] /\ f[0] = <<>> /\ f \in [0 .. n -> Seq(Nat)]
    BY <1>3 DEF Builds
  <1> HIDE DEF step
  <1>6. \A m \in 0 .. n : m = 0 \/ m \in 1 .. n
    OBVIOUS
  <1> QED
    BY <1>4, <1>5, <1>6 DEF ListUpTo

LEMMA ListsAgree ==
  ASSUME NEW ns, NEW n \in Nat, NEW f, ListUpTo(f, ns, n), NEW g, ListUpTo(g, ns, n + 1)
  PROVE  f[n] = g[n]
  <1> DEFINE Same == {m \in Nat : m <= n => f[m] = g[m]}
  <1>1. 0 \in Same
    BY DEF ListUpTo
  <1>2. ASSUME NEW m \in Nat, m \in Same PROVE m + 1 \in Same
    <2> SUFFICES ASSUME m + 1 <= n PROVE f[m + 1] = g[m + 1]
      OBVIOUS
    <2>1. f[m] = g[m]
      BY <1>2
    <2>2. m + 1 \in 0 .. n /\ m + 1 \in 0 .. n + 1 /\ m + 1 # 0 /\ (m + 1) - 1 = m
      OBVIOUS
    <2>3. g[m + 1] = IF m + 1 \in ns THEN Append(g[m], m + 1) ELSE g[m]
      BY <2>2 DEF ListUpTo
    <2>4. f[m + 1] = IF m + 1 \in ns THEN Append(f[m], m + 1) ELSE f[m]
      BY <2>2 DEF ListUpTo
    <2> QED
      BY <2>1, <2>3, <2>4
  <1>3. n \in Same
    <2> HIDE DEF Same
    <2> QED
      BY <1>1, <1>2, Induction
  <1> QED
    BY <1>3

LEMMA ThoseStep ==
  ASSUME NEW ns
  PROVE  /\ Those(ns, 0) = <<>>
         /\ \A n \in Nat : Those(ns, n + 1) = IF n + 1 \in ns THEN Append(Those(ns, n), n + 1)
                                                              ELSE Those(ns, n)
  <1> DEFINE L(n) == CHOOSE f : ListUpTo(f, ns, n)
  <1>1. \A n : Those(ns, n) = L(n)[n]
    BY DEF Those, ListUpTo
  <1>2. \A n \in Nat : ListUpTo(L(n), ns, n)
    BY ListExists
  <1> HIDE DEF L
  <1>3. Those(ns, 0) = <<>>
    <2>1. ListUpTo(L(0), ns, 0) /\ 0 \in 0 .. 0
      BY <1>2
    <2> QED
      BY <1>1, <2>1 DEF ListUpTo
  <1>4. ASSUME NEW n \in Nat
        PROVE  Those(ns, n + 1) = IF n + 1 \in ns THEN Append(Those(ns, n), n + 1)
                                                  ELSE Those(ns, n)
    <2>1. ListUpTo(L(n), ns, n) /\ ListUpTo(L(n + 1), ns, n + 1)
      BY <1>2
    <2>2. L(n)[n] = L(n + 1)[n]
      BY <2>1, ListsAgree
    <2>3. n + 1 \in 0 .. n + 1 /\ n + 1 # 0 /\ (n + 1) - 1 = n
      OBVIOUS
    <2>4. L(n + 1)[n + 1] = IF n + 1 \in ns THEN Append(L(n + 1)[n], n + 1) ELSE L(n + 1)[n]
      BY <2>1, <2>3 DEF ListUpTo
    <2> QED
      BY <1>1, <2>2, <2>4
  <1> QED
    BY <1>3, <1>4

LEMMA ThoseAreThere ==
  ASSUME NEW ns, NEW n \in Nat
  PROVE  Those(ns, n) \in Seq(ns \cap (1 .. n))
  <1> DEFINE Fine == {m \in Nat : Those(ns, m) \in Seq(ns \cap (1 .. m))}
  <1>1. 0 \in Fine
    <2>1. Those(ns, 0) = <<>> /\ <<>> \in Seq(ns \cap (1 .. 0))
      BY ThoseStep
    <2> QED
      BY <2>1
  <1>2. ASSUME NEW m \in Nat, m \in Fine PROVE m + 1 \in Fine
    <2>0. Those(ns, m + 1) = IF m + 1 \in ns THEN Append(Those(ns, m), m + 1) ELSE Those(ns, m)
      BY ThoseStep
    <2>1. ns \cap (1 .. m) \subseteq ns \cap (1 .. m + 1)
      OBVIOUS
    <2>2. Those(ns, m) \in Seq(ns \cap (1 .. m))
      BY <1>2
    <2>3. Those(ns, m) \in Seq(ns \cap (1 .. m + 1))
      BY <2>1, <2>2, SeqMonotonic
    <2>5. CASE m + 1 \in ns
      <3>1. m + 1 \in ns \cap (1 .. m + 1) /\ Those(ns, m + 1) = Append(Those(ns, m), m + 1)
        BY <2>0, <2>5
      <3>2. Append(Those(ns, m), m + 1) \in Seq(ns \cap (1 .. m + 1))
        BY <2>3, <3>1, AppendProperties
      <3> QED
        BY <3>1, <3>2
    <2>6. CASE m + 1 \notin ns
      <3>1. Those(ns, m + 1) = Those(ns, m)
        BY <2>0, <2>6
      <3> QED
        BY <2>3, <3>1
    <2> QED
      BY <2>5, <2>6
  <1>3. n \in Fine
    <2> HIDE DEF Fine
    <2> QED
      BY <1>1, <1>2, Induction
  <1> QED
    BY <1>3
-----------------------------------------------------------------------------
(* What the messages are made of, frame by frame.                           *)
LastEnd(n) == LET ends == Those(Ends, n) IN IF ends = <<>> THEN 0 ELSE ends[Len(ends)]

LEMMA LastEndIsBefore ==
  ASSUME NEW n \in Nat
  PROVE  LastEnd(n) \in 0 .. n
  <1> DEFINE ends == Those(Ends, n)
  <1>1. ends \in Seq(Ends \cap (1 .. n))
    BY ThoseAreThere
  <1> HIDE DEF ends
  <1>2. CASE ends = <<>>
    BY <1>2 DEF LastEnd, ends
  <1>3. CASE ends # <<>>
    <2>1. Len(ends) \in 1 .. Len(ends)
      BY <1>1, <1>3, EmptySeq
    <2>2. ends[Len(ends)] \in 1 .. n
      BY <1>1, <2>1, ElementOfSeq
    <2> QED
      BY <1>3, <2>2 DEF LastEnd, ends
  <1> QED
    BY <1>2, <1>3

LEMMA ContentSteps ==
  ASSUME NEW n \in Nat, NEW after \in 0 .. n
  PROVE  Content(after, n + 1) =
           IF n + 1 \in Parts THEN Append(Content(after, n), <<n + 1, script[n + 1].len>>)
                              ELSE Content(after, n)
  <1> DEFINE ns == Parts \ (1 .. after)
             s == Those(ns, n)
  <1>1. n + 1 \in ns <=> n + 1 \in Parts
    OBVIOUS
  <1>2. s \in Seq(Nat) /\ DOMAIN s = 1 .. Len(s) /\ Len(s) \in Nat
    <2>1. s \in Seq(ns \cap (1 .. n))
      BY ThoseAreThere
    <2> HIDE DEF s
    <2>2. ns \cap (1 .. n) \subseteq Nat
      OBVIOUS
    <2>3. s \in Seq(Nat)
      BY <2>1, <2>2, SeqMonotonic
    <2> QED
      BY <2>3
  <1>3. Those(ns, n + 1) = IF n + 1 \in Parts THEN Append(s, n + 1) ELSE s
    BY <1>1, ThoseStep
  <1> DEFINE t == Those(ns, n + 1)
  <1>4. Content(after, n) = [k \in DOMAIN s |-> <<s[k], script[s[k]].len>>]
    BY DEF Content
  <1>5. Content(after, n + 1) = [k \in DOMAIN t |-> <<t[k], script[t[k]].len>>]
    BY DEF Content
  <1> HIDE DEF ns, s, t
  <1>6. CASE n + 1 \notin Parts
    BY <1>3, <1>4, <1>5, <1>6 DEF t
  <1>7. CASE n + 1 \in Parts
    <2> DEFINE part(i) == <<i, script[i].len>>
               m == Len(s) + 1
               c == [k \in 1 .. Len(s) |-> part(s[k])]
    <2>1. t = Append(s, n + 1)
      BY <1>3, <1>7 DEF t
    <2>2. /\ DOMAIN t = 1 .. m /\ t[m] = n + 1
          /\ \A k \in 1 .. Len(s) : t[k] = s[k]
      BY <1>2, <2>1
    <2>3. Content(after, n) = c
      BY <1>2, <1>4
    <2>4. Content(after, n + 1) = [k \in 1 .. m |-> part(t[k])]
      BY <1>5, <2>2
    <2> HIDE DEF part
    <2>5. Len(c) = Len(s) /\ Append(c, part(n + 1)) = [k \in 1 .. m |-> IF k = m THEN part(n + 1) ELSE c[k]]
      BY <1>2
    <2>6. \A k \in 1 .. m : k # m => k \in 1 .. Len(s)
      BY <1>2
    <2>7. [k \in 1 .. m |-> part(t[k])] = [k \in 1 .. m |-> IF k = m THEN part(n + 1) ELSE c[k]]
      BY <2>2, <2>6
    <2> QED
      BY <1>7, <2>3, <2>4, <2>5, <2>7 DEF part
  <1> QED
    BY <1>6, <1>7

LEMMA ContentStarts ==
  ASSUME NEW n \in Nat
  PROVE  Content(n, n) = <<>>
  <1> DEFINE s == Those(Parts \ (1 .. n), n)
  <1>1. s \in Seq((Parts \ (1 .. n)) \cap (1 .. n))
    BY ThoseAreThere
  <1>2. (Parts \ (1 .. n)) \cap (1 .. n) = {}
    OBVIOUS
  <1>3. Content(n, n) = [k \in DOMAIN s |-> <<s[k], script[s[k]].len>>]
    BY DEF Content
  <1> HIDE DEF s
  <1>4. s = <<>> /\ DOMAIN s = 1 .. 0
    BY <1>1, <1>2
  <1>5. Content(n, n) = [k \in 1 .. 0 |-> <<s[k], script[s[k]].len>>]
    BY <1>3, <1>4
  <1>6. Content(n, n) \in Seq({}) /\ Len(Content(n, n)) = 0
    BY <1>5
  <1> QED
    BY <1>6

LEMMA MessagesStep ==
  ASSUME NEW n \in Nat
  PROVE  /\ n + 1 \in Ends =>
              /\ Messages(n + 1) = Append(Messages(n), Content(LastEnd(n), n + 1))
              /\ LastEnd(n + 1) = n + 1
         /\ n + 1 \notin Ends =>
              Messages(n + 1) = Messages(n) /\ LastEnd(n + 1) = LastEnd(n)
  <1> DEFINE s == Those(Ends, n)
             t == Those(Ends, n + 1)
             From(e, j) == IF j = 1 THEN 0 ELSE e[j - 1]
             One(e, j) == Content(From(e, j), e[j])
  <1>1. DOMAIN s = 1 .. Len(s) /\ Len(s) \in Nat /\ s \in Seq(Nat)
    <2>1. s \in Seq(Ends \cap (1 .. n))
      BY ThoseAreThere
    <2>2. Ends \cap (1 .. n) \subseteq Nat
      OBVIOUS
    <2> HIDE DEF s
    <2>3. s \in Seq(Nat)
      BY <2>1, <2>2, SeqMonotonic
    <2> QED
      BY <2>3
  <1>2. t = IF n + 1 \in Ends THEN Append(s, n + 1) ELSE s
    BY ThoseStep
  <1>3. /\ Messages(n) = [j \in DOMAIN s |-> One(s, j)]
        /\ Messages(n + 1) = [j \in DOMAIN t |-> One(t, j)]
    BY DEF Messages
  <1>4. /\ LastEnd(n) = IF s = <<>> THEN 0 ELSE s[Len(s)]
        /\ LastEnd(n + 1) = IF t = <<>> THEN 0 ELSE t[Len(t)]
    BY DEF LastEnd
  <1> HIDE DEF s, t
  <1>5. CASE n + 1 \notin Ends
    <2>1. t = s
      BY <1>2, <1>5
    <2> HIDE DEF One
    <2> QED
      BY <1>3, <1>4, <1>5, <2>1
  <1>6. CASE n + 1 \in Ends
    <2> DEFINE m == Len(s) + 1
               c == [j \in 1 .. Len(s) |-> One(s, j)]
    <2>1. t = Append(s, n + 1)
      BY <1>2, <1>6
    <2>2. /\ DOMAIN t = 1 .. m /\ Len(t) = m /\ t[m] = n + 1 /\ t # <<>>
          /\ \A j \in 1 .. Len(s) : t[j] = s[j]
      BY <1>1, <2>1
    <2>3. ASSUME NEW j \in 1 .. Len(s) PROVE One(t, j) = One(s, j)
      <3>1. j # 1 => j - 1 \in 1 .. Len(s)
        BY <1>1
      <3>2. From(t, j) = From(s, j)
        BY <2>2, <3>1
      <3> HIDE DEF From
      <3> QED
        BY <2>2, <3>2
    <2>4. One(t, m) = Content(LastEnd(n), n + 1)
      <3>1. From(t, m) = LastEnd(n)
        <4>1. CASE s = <<>>
          <5>1. m = 1
            BY <4>1
          <5> QED
            BY <1>4, <4>1, <5>1
        <4>2. CASE s # <<>>
          <5>1. m # 1 /\ m - 1 = Len(s) /\ Len(s) \in 1 .. Len(s)
            BY <1>1, <4>2, EmptySeq
          <5> QED
            BY <1>4, <2>2, <4>2, <5>1
        <4> QED
          BY <4>1, <4>2
      <3> HIDE DEF From
      <3> QED
        BY <2>2, <3>1
    <2>5. Messages(n) = c
      BY <1>1, <1>3
    <2>6. Messages(n + 1) = [j \in 1 .. m |-> One(t, j)]
      BY <1>3, <2>2
    <2> HIDE DEF One
    <2> DEFINE last == Content(LastEnd(n), n + 1)
    <2>7. Append(c, last) = [j \in 1 .. m |-> IF j = m THEN last ELSE c[j]]
      BY <1>1
    <2>8. \A j \in 1 .. m : j # m => j \in 1 .. Len(s)
      BY <1>1
    <2>9. [j \in 1 .. m |-> One(t, j)] = [j \in 1 .. m |-> IF j = m THEN last ELSE c[j]]
      BY <2>3, <2>4, <2>8
    <2>10. LastEnd(n + 1) = n + 1
      BY <1>4, <2>2
    <2> QED
      BY <1>6, <2>5, <2>6, <2>7, <2>9, <2>10
  <1> QED
    BY <1>5, <1>6

Contents == {Content(after, last) : after \in Nat, last \in Nat}

LEMMA MessagesAreContents ==
  ASSUME NEW n \in Nat
  PROVE  Messages(n) \in Seq(Contents) /\ Content(LastEnd(n), n + 1) \in Contents
  <1> DEFINE e == Those(Ends, n)
             From(j) == IF j = 1 THEN 0 ELSE e[j - 1]
  <1>1. e \in Seq(Ends \cap (1 .. n))
    BY ThoseAreThere
  <1>2. Messages(n) = [j \in DOMAIN e |-> Content(From(j), e[j])]
    BY DEF Messages
  <1> HIDE DEF e
  <1>3. DOMAIN e = 1 .. Len(e) /\ Len(e) \in Nat /\ \A j \in 1 .. Len(e) : e[j] \in Nat
    BY <1>1
  <1>4. \A j \in 1 .. Len(e) : From(j) \in Nat
    <2> SUFFICES ASSUME NEW j \in 1 .. Len(e) PROVE From(j) \in Nat
      OBVIOUS
    <2>1. j = 1 \/ j - 1 \in 1 .. Len(e)
      BY <1>3
    <2> QED
      BY <1>3, <2>1
  <1> HIDE DEF From
  <1>5. \A j \in 1 .. Len(e) : Content(From(j), e[j]) \in Contents
    BY <1>3, <1>4 DEF Contents
  <1>6. Messages(n) \in [1 .. Len(e) -> Contents]
    BY <1>2, <1>3, <1>5
  <1>7. LastEnd(n) \in Nat /\ n + 1 \in Nat
    BY LastEndIsBefore
  <1> QED
    BY <1>3, <1>6, <1>7 DEF Contents

\* One list is the beginning of another.
Begins(a, b) == Len(a) <= Len(b) /\ \A j \in 1 .. Len(a) : a[j] = b[j]

LEMMA MessagesGrow ==
  ASSUME NEW n \in Nat, NEW m \in Nat, n <= m
  PROVE  Begins(Messages(n), Messages(m))
  <1> DEFINE Fine == {k \in Nat : Begins(Messages(n), Messages(n + k))}
  <1>1. 0 \in Fine
    <2>1. n + 0 = n /\ Len(Messages(n)) <= Len(Messages(n))
      BY MessagesAreContents, LenProperties
    <2> QED
      BY <2>1 DEF Begins
  <1>2. ASSUME NEW k \in Nat, k \in Fine PROVE k + 1 \in Fine
    <2> DEFINE a == Messages(n)
               b == Messages(n + k)
               c == Messages((n + k) + 1)
               last == Content(LastEnd(n + k), (n + k) + 1)
    <2>1. Begins(a, b)
      BY <1>2
    <2>2. c = b \/ c = Append(b, last)
      BY MessagesStep
    <2>3. a \in Seq(Contents) /\ b \in Seq(Contents) /\ last \in Contents
      BY MessagesAreContents
    <2>4. n + (k + 1) = (n + k) + 1
      OBVIOUS
    <2> HIDE DEF a, b, c, last
    <2>5. /\ Len(a) \in Nat /\ Len(b) \in Nat
          /\ Len(Append(b, last)) = Len(b) + 1
          /\ \A j \in 1 .. Len(b) : Append(b, last)[j] = b[j]
      BY <2>3
    <2>6. Begins(a, c)
      BY <2>1, <2>2, <2>5 DEF Begins
    <2> QED
      BY <2>4, <2>6 DEF a, c
  <1>3. m - n \in Fine
    <2>1. m - n \in Nat
      OBVIOUS
    <2> HIDE DEF Fine
    <2> QED
      BY <1>1, <1>2, <2>1, Induction
  <1>4. n + (m - n) = m
    OBVIOUS
  <1> QED
    BY <1>3, <1>4

LEMMA MessagesArePrefix ==
  ASSUME NEW n \in Nat, NEW m \in Nat, n <= m
  PROVE  IsPrefix(Messages(n), Messages(m))
  <1> DEFINE a == Messages(n)
             b == Messages(m)
  <1>1. a \in Seq(Contents) /\ b \in Seq(Contents) /\ Begins(a, b)
    BY MessagesAreContents, MessagesGrow
  <1> HIDE DEF a, b
  <1>2. SubSeq(a, 1, Len(a)) = SubSeq(b, 1, Len(a))
    <2> DEFINE l == Len(a)
    <2>1. l \in Nat /\ l <= Len(b) /\ Len(b) \in Nat
      BY <1>1 DEF Begins
    <2>2. \A i \in 1 .. l : a[i] \in Contents /\ b[i] = a[i]
      BY <1>1 DEF Begins
    <2> DEFINE u == SubSeq(a, 1, l)
               v == SubSeq(b, 1, l)
    <2> HIDE DEF l
    <2>3. /\ u \in Seq(Contents) /\ Len(u) = (IF 1 <= l THEN l - 1 + 1 ELSE 0)
          /\ \A i \in 1 .. l - 1 + 1 : u[i] = a[1 + i - 1]
      BY <2>1, <2>2, SubSeqProperties
    <2>4. /\ v \in Seq(Contents) /\ Len(v) = (IF 1 <= l THEN l - 1 + 1 ELSE 0)
          /\ \A i \in 1 .. l - 1 + 1 : v[i] = b[1 + i - 1]
      BY <2>1, <2>2, SubSeqProperties
    <2> HIDE DEF u, v
    <2>5. Len(u) = l /\ Len(v) = l /\ \A i \in 1 .. l : u[i] = a[i] /\ v[i] = b[i]
      BY <2>1, <2>3, <2>4
    <2>6. u = v
      BY <2>2, <2>3, <2>4, <2>5, SeqEqual
    <2> QED
      BY <2>6 DEF u, v, l
  <1>3. IsPrefix(a, b)
    BY <1>1, <1>2 DEF IsPrefix, Begins
  <1> QED
    BY <1>3 DEF a, b

-----------------------------------------------------------------------------
(* What is known of the frame that is being read.                           *)
LEMMA HeaderTells ==
  ASSUME NEW f \in ClientFrames
  PROVE  /\ MiniHeader(f) >= 32768 <=> f.fin
         /\ (MiniHeader(f) \div 256) % 16 = f.op
         /\ MiniHeader(f) % 128 \notin {126, 127} => MiniHeader(f) % 128 = f.len
  <1> DEFINE low == CASE f.enc = 7 -> f.len [] f.enc = 16 -> 126 [] f.enc = 64 -> 127
             bit == IF f.mask THEN 128 ELSE 0
             fin == IF f.fin THEN 32768 ELSE 0
             op == f.op
             h == MiniHeader(f)
  <1>1. /\ low \in 0 .. 127 /\ op \in 0 .. 15
        /\ low \notin {126, 127} => low = f.len
    BY DEF ClientFrames
  <1>2. bit \in {0, 128} /\ fin \in {0, 32768} /\ (fin = 32768 <=> f.fin)
    OBVIOUS
  <1>3. h = fin + 256 * op + bit + low
    BY DEF MiniHeader
  <1> HIDE DEF low, bit, fin, op, h
  <1>4. bit + low \in 0 .. 255
    BY <1>1, <1>2
  <1>5. h >= 32768 <=> fin = 32768
    BY <1>1, <1>2, <1>3, <1>4
  <1>6. h \div 256 = (IF fin = 0 THEN 0 ELSE 128) + op
    BY <1>1, <1>2, <1>3, <1>4
  <1>7. (h \div 256) % 16 = op
    BY <1>1, <1>2, <1>6
  <1>8. h % 128 = low
    <2>1. \E q \in Nat : h = 128 * q + low
      <3>1. h = 128 * ((IF fin = 0 THEN 0 ELSE 256) + 2 * op + (IF bit = 0 THEN 0 ELSE 1)) + low
        BY <1>1, <1>2, <1>3
      <3>2. (IF fin = 0 THEN 0 ELSE 256) + 2 * op + (IF bit = 0 THEN 0 ELSE 1) \in Nat
        BY <1>1
      <3> QED
        BY <3>1, <3>2
    <2> QED
      BY <1>1, <2>1
  <1> QED
    BY <1>1, <1>2, <1>5, <1>7, <1>8 DEF h, op

Run(i, n) == IF n = 0 THEN <<>> ELSE <<<<i, n>>>>

Begun(k, i) ==
  /\ k.state \in {"MiniHeader", "Len16", "Len64", "Mask", "Payload"}
  /\ k.state # "Payload" => k.bytes = 0 /\ k.fragment = <<>>
  /\ k.state # "MiniHeader" => i \in DOMAIN script /\ k.header = MiniHeader(script[i])
  /\ k.state = "Mask" => k.remaining = script[i].len
  /\ k.state = "Payload" =>
       k.bytes + k.remaining = script[i].len /\ k.fragment = Run(i, k.bytes)

Pieces == {"started", "got", "message", "header", "fragment", "bytes", "remaining", "state", "op"}

\* Nothing was handed over between two states of the connection.
Silent(k, r) ==
  /\ Pieces \subseteq DOMAIN r
  /\ r.started = k.started /\ r.got = k.got /\ r.message = k.message

\* Nor was anything read.
Quiet(k, r) ==
  /\ Silent(k, r)
  /\ r.header = k.header /\ r.fragment = k.fragment /\ r.bytes = k.bytes
  /\ r.remaining = k.remaining /\ r.state = k.state /\ r.op = k.op

LEMMA QuietTwice ==
  ASSUME NEW k, NEW r, NEW q, Quiet(k, r), Quiet(r, q)
  PROVE  Quiet(k, q)
  BY DEF Quiet, Silent

LEMMA DoWriteIsQuiet ==
  ASSUME NEW k, Pieces \subseteq DOMAIN k
  PROVE  Quiet(k, DoWrite(k))
  BY DEF DoWrite, Quiet, Silent, Pieces

LEMMA QueueIsQuiet ==
  ASSUME NEW k, Pieces \subseteq DOMAIN k, NEW op, NEW size
  PROVE  Quiet(k, Queue(k, op, size))
  <1> DEFINE r == [k EXCEPT !.waiting = Append(@, [header |-> BuildHeader(op, size), size |-> size])]
  <1>1. Quiet(k, r) /\ Pieces \subseteq DOMAIN r
    BY DEF Quiet, Silent, Pieces
  <1>2. Queue(k, op, size) = DoWrite(r)
    BY DEF Queue
  <1> HIDE DEF r
  <1> QED
    BY <1>1, <1>2, DoWriteIsQuiet, QuietTwice

LEMMA CloseTaskIsQuiet ==
  ASSUME NEW k, Pieces \subseteq DOMAIN k, NEW size, NEW status
  PROVE  Quiet(k, CloseTask(k, size, status))
  <1> DEFINE told == IF k.recvClose /\ ~k.called
                     THEN [k EXCEPT !.called = TRUE, !.closes = Append(@, status)] ELSE k
             t == [told EXCEPT !.sentClose = TRUE]
  <1>1. CloseTask(k, size, status) = Queue(t, 8, size + 2)
    BY DEF CloseTask
  <1>2. Quiet(k, told) /\ Pieces \subseteq DOMAIN told
    BY DEF Quiet, Silent, Pieces
  <1> HIDE DEF told
  <1>3. Quiet(told, t) /\ Pieces \subseteq DOMAIN t
    BY <1>2 DEF Quiet, Silent, Pieces
  <1> HIDE DEF t
  <1>4. Quiet(t, Queue(t, 8, size + 2))
    BY <1>3, QueueIsQuiet
  <1> QED
    BY <1>1, <1>2, <1>3, <1>4, QuietTwice

LEMMA EndIsQuiet ==
  ASSUME NEW k, Pieces \subseteq DOMAIN k, NEW code
  PROVE  /\ Quiet(k, CloseSocket(k)) /\ Quiet(k, CheckDestroy(k, code))
         /\ Quiet(k, CheckDestroy(CloseSocket(k), code))
  <1>1. ASSUME NEW r, Pieces \subseteq DOMAIN r PROVE Quiet(r, CheckDestroy(r, code))
    <2> DEFINE told == IF r.called THEN r ELSE [r EXCEPT !.closes = Append(@, code)]
    <2>1. Quiet(r, told) /\ Pieces \subseteq DOMAIN told
      BY <1>1 DEF Quiet, Silent, Pieces
    <2>2. CheckDestroy(r, code) = [told EXCEPT !.alive = r.sending # <<>> \/ r.reading]
      BY DEF CheckDestroy
    <2> HIDE DEF told
    <2>3. Quiet(told, CheckDestroy(r, code))
      BY <2>1, <2>2 DEF Quiet, Silent, Pieces
    <2> QED
      BY <2>1, <2>3, QuietTwice
  <1> DEFINE c == CloseSocket(k)
  <1>2. Quiet(k, c) /\ Pieces \subseteq DOMAIN c
    BY DEF CloseSocket, Quiet, Silent, Pieces
  <1> HIDE DEF c
  <1>3. Quiet(k, CheckDestroy(c, code))
    BY <1>1, <1>2, QuietTwice
  <1> QED
    BY <1>1, <1>2, <1>3 DEF c

\* What reading on leaves: the same messages, and what is known of the frame.
Goes(k, r, i) == Silent(k, r) /\ (r.op => Begun(r, i))

LEMMA DoReadGoes ==
  ASSUME NEW k, Pieces \subseteq DOMAIN k, ~k.op, NEW i, Begun(k, i),
         k.state = "Mask" => script[i].len \in Nat
  PROVE  Goes(k, DoRead(k), i)
  <1> DEFINE r == [k EXCEPT !.reading = TRUE]
             a == [r EXCEPT !.op = TRUE, !.state = IF @ = "Mask" /\ ~k.mask THEN "Payload" ELSE @]
  <1>1. Quiet(k, r) /\ Pieces \subseteq DOMAIN r
    BY DEF Quiet, Silent, Pieces
  <1>2. DoRead(k) \in {CheckDestroy(CloseSocket(k), ClosedAbnormally),
                       CheckDestroy(CloseSocket(r), MessageTooBig), a}
    BY DEF DoRead
  <1> HIDE DEF r
  <1>3. Quiet(k, CheckDestroy(CloseSocket(k), ClosedAbnormally))
    BY EndIsQuiet
  <1>4. Quiet(k, CheckDestroy(CloseSocket(r), MessageTooBig))
    BY <1>1, EndIsQuiet, QuietTwice
  <1>5. \A q : Quiet(k, q) => Goes(k, q, i)
    BY DEF Quiet, Goes
  <1>6. Goes(k, a, i)
    <2>1. /\ Silent(k, a) /\ a.header = k.header /\ a.fragment = k.fragment
          /\ a.bytes = k.bytes /\ a.remaining = k.remaining
          /\ a.state = k.state \/ (k.state = "Mask" /\ a.state = "Payload")
      BY <1>1 DEF Quiet, Silent, Pieces
    <2> HIDE DEF a
    <2>2. CASE a.state = k.state
      BY <2>1, <2>2 DEF Goes, Begun
    <2>3. CASE k.state = "Mask" /\ a.state = "Payload"
      BY <2>1, <2>3 DEF Goes, Begun, Run
    <2> QED
      BY <2>1, <2>2, <2>3
  <1> HIDE DEF a
  <1> QED
    BY <1>2, <1>3, <1>4, <1>5, <1>6

LEMMA ReadOnGoes ==
  ASSUME NEW k, Pieces \subseteq DOMAIN k, ~k.op, NEW i
  PROVE  Goes(k, ReadOn(k), i)
  <1> DEFINE r == [k EXCEPT !.state = "MiniHeader", !.fragment = <<>>, !.bytes = 0]
  <1>1. /\ Silent(k, r) /\ ~r.op /\ r.state = "MiniHeader" /\ r.fragment = <<>> /\ r.bytes = 0
    BY DEF Silent, Pieces
  <1>2. ReadOn(k) = DoRead(r)
    BY DEF ReadOn
  <1> HIDE DEF r
  <1>3. Begun(r, i) /\ Pieces \subseteq DOMAIN r
    BY <1>1 DEF Begun, Silent
  <1>4. Goes(r, DoRead(r), i)
    BY <1>1, <1>3, DoReadGoes
  <1> QED
    BY <1>1, <1>2, <1>4 DEF Goes, Silent

LEMMA CloseFrameGoes ==
  ASSUME NEW k, Pieces \subseteq DOMAIN k, ~k.op, NEW size, NEW i
  PROVE  Goes(k, CloseFrame(k, size), i)
  <1> DEFINE r == [k EXCEPT !.recvClose = TRUE]
             status == IF size >= 2 THEN NormalClosure ELSE NoStatusCodePresent
             told == IF r.called THEN r ELSE [r EXCEPT !.called = TRUE, !.closes = Append(@, status)]
             answer == CloseTask(r, IF size >= 2 THEN size - 2 ELSE size, status)
  <1>1. CloseFrame(k, size) \in {CheckDestroy(CloseSocket(told), ClosedAbnormally), ReadOn(answer)}
    BY DEF CloseFrame
  <1>2. Quiet(k, r) /\ Pieces \subseteq DOMAIN r
    BY DEF Quiet, Silent, Pieces
  <1> HIDE DEF r, status
  <1>3. Quiet(r, told) /\ Pieces \subseteq DOMAIN told
    BY <1>2 DEF Quiet, Silent, Pieces
  <1>4. Quiet(r, answer)
    BY <1>2, CloseTaskIsQuiet
  <1> HIDE DEF told, answer
  <1>5. Quiet(told, CheckDestroy(CloseSocket(told), ClosedAbnormally))
    BY <1>3, EndIsQuiet
  <1>6. Goes(k, CheckDestroy(CloseSocket(told), ClosedAbnormally), i)
    BY <1>2, <1>3, <1>5 DEF Goes, Quiet, Silent
  <1>7. Goes(answer, ReadOn(answer), i)
    BY <1>2, <1>4, ReadOnGoes DEF Quiet, Silent
  <1>8. Goes(k, ReadOn(answer), i)
    BY <1>2, <1>4, <1>7 DEF Goes, Quiet, Silent
  <1> QED
    BY <1>1, <1>6, <1>8
(* A whole frame: what the message handler is called with, and what is kept *)
(* for the frames that follow.                                              *)
LEMMA HandleFragmentGoes ==
  ASSUME NEW k, Pieces \subseteq DOMAIN k, ~k.op, NEW i, NEW r, r = HandleFragment(k)
  PROVE  /\ Pieces \subseteq DOMAIN r /\ r.started = k.started
         /\ r.op => Begun(r, i)
         /\ Opcode(k) \notin {0, 1, 2} => r.got = k.got /\ r.message = k.message
         /\ Opcode(k) \in {0, 1, 2} /\ IsFIN(k) =>
              r.got = Append(k.got, k.message \o k.fragment) /\ r.message = <<>>
         /\ Opcode(k) \in {0, 1, 2} /\ ~IsFIN(k) =>
              r.got = k.got /\ r.message = k.message \o k.fragment
  <1>1. CASE Opcode(k) \notin {0, 1, 2}
    <2>1. r = ReadOn(k) \/ r = CloseFrame(k, k.bytes)
      BY <1>1 DEF HandleFragment
    <2>2. Goes(k, r, i)
      BY <2>1, ReadOnGoes, CloseFrameGoes
    <2> QED
      BY <1>1, <2>2 DEF Goes, Silent
  <1>2. CASE Opcode(k) \in {0, 1, 2}
    <2> DEFINE d == DataFrame(k)
    <2>1. r = ReadOn(d)
      BY <1>2 DEF HandleFragment
    <2>2. /\ Pieces \subseteq DOMAIN d /\ ~d.op /\ d.started = k.started
          /\ IsFIN(k) => d.got = Append(k.got, k.message \o k.fragment) /\ d.message = <<>>
          /\ ~IsFIN(k) => d.got = k.got /\ d.message = k.message \o k.fragment
      BY DEF DataFrame, Pieces
    <2> HIDE DEF d
    <2>3. Goes(d, r, i)
      BY <2>1, <2>2, ReadOnGoes
    <2> QED
      BY <1>2, <2>2, <2>3 DEF Goes, Silent
  <1> QED
    BY <1>1, <1>2

LEMMA GrownRuns ==
  ASSUME NEW i, NEW b \in Nat, NEW n \in Nat
  PROVE  Grown(Run(i, b), i, n) = Run(i, b + n)
  <1>1. CASE n = 0
    BY <1>1 DEF Grown
  <1>2. CASE n # 0 /\ b = 0
    BY <1>2 DEF Grown, Run
  <1>3. CASE n # 0 /\ b # 0
    BY <1>3 DEF Grown, Run
  <1> QED
    BY <1>1, <1>2, <1>3

-----------------------------------------------------------------------------
(* What was handed over is what the frames read so far mean.                *)
MessageInv ==
  /\ Pieces \subseteq DOMAIN ws
  /\ next \in 1 .. Len(script) + 1
  /\ 1 .. next - 1 \subseteq Readable
  /\ ws.got = Messages(next - 1)
  /\ ws.message = Content(LastEnd(next - 1), next - 1)
  /\ ws.op \/ ~ws.started => Begun(ws, next)

LEMMA MeaningStays ==
  ASSUME script' = script
  PROVE  /\ Readable' = Readable
         /\ \A n : Messages(n)' = Messages(n)
         /\ \A n : LastEnd(n)' = LastEnd(n)
         /\ \A after, last : Content(after, last)' = Content(after, last)
  <1>1. Readable' = Readable
    BY DEF Readable
  <1>2. Ends' = Ends /\ Parts' = Parts
    BY <1>1 DEF Ends, Parts, IsData
  <1>3. \A after, last : Content(after, last)' = Content(after, last)
    BY <1>2 DEF Content
  <1>4. \A n : Messages(n)' = Messages(n)
    BY <1>2, <1>3 DEF Messages
  <1>5. \A n : LastEnd(n)' = LastEnd(n)
    BY <1>2 DEF LastEnd
  <1> QED
    BY <1>1, <1>3, <1>4, <1>5

(* The meaning of the first frames does not depend on the frames behind.    *)
LEMMA ThoseAgree ==
  ASSUME NEW ns, NEW ms, NEW n \in Nat, \A i \in 1 .. n : i \in ns <=> i \in ms
  PROVE  Those(ns, n) = Those(ms, n)
  <1> DEFINE Same == {m \in Nat : m <= n => Those(ns, m) = Those(ms, m)}
  <1>1. 0 \in Same
    BY ThoseStep
  <1>2. ASSUME NEW m \in Nat, m \in Same PROVE m + 1 \in Same
    <2> SUFFICES ASSUME m + 1 <= n PROVE Those(ns, m + 1) = Those(ms, m + 1)
      OBVIOUS
    <2>1. Those(ns, m) = Those(ms, m) /\ (m + 1 \in ns <=> m + 1 \in ms)
      BY <1>2
    <2>2. Those(ns, m + 1) = IF m + 1 \in ns THEN Append(Those(ns, m), m + 1) ELSE Those(ns, m)
      BY ThoseStep
    <2>3. Those(ms, m + 1) = IF m + 1 \in ms THEN Append(Those(ms, m), m + 1) ELSE Those(ms, m)
      BY ThoseStep
    <2> QED
      BY <2>1, <2>2, <2>3
  <1> HIDE DEF Same
  <1>3. n \in Same
    BY <1>1, <1>2, Induction
  <1> QED
    BY <1>3 DEF Same

LEMMA MeaningOfTheFirst ==
  ASSUME NEW n \in Nat, 1 .. n \subseteq Readable,
         \A i \in 1 .. n : i \in DOMAIN script' /\ script'[i] = script[i]
  PROVE  /\ 1 .. n \subseteq Readable'
         /\ Messages(n)' = Messages(n) /\ LastEnd(n)' = LastEnd(n)
         /\ \A after \in Nat : Content(after, n)' = Content(after, n)
  <1>1. \A i \in 1 .. n : i \in Readable /\ i \in Readable'
    <2> SUFFICES ASSUME NEW i \in 1 .. n PROVE i \in Readable /\ i \in Readable'
      OBVIOUS
    <2>1. \A h \in 1 .. i : h \in 1 .. n /\ h \in 1 .. h
      OBVIOUS
    <2>2. \A h \in 1 .. i : script[h].len <= MaxPayload
      BY <2>1 DEF Readable
    <2>3. \A h \in 1 .. i : script'[h].len <= MaxPayload
      BY <2>1, <2>2
    <2> QED
      BY <2>3 DEF Readable
  <1>2. \A i \in 1 .. n : (i \in Ends <=> i \in Ends') /\ (i \in Parts <=> i \in Parts')
    BY <1>1 DEF Ends, Parts, IsData
  <1>3. Those(Ends, n) = Those(Ends', n)
    BY <1>2, ThoseAgree
  <1>4. LastEnd(n)' = LastEnd(n)
    BY <1>3 DEF LastEnd
  <1>5. ASSUME NEW after, NEW last \in 0 .. n
        PROVE  Content(after, last)' = Content(after, last)
    <2> DEFINE s == Those(Parts \ (1 .. after), last)
               t == Those(Parts' \ (1 .. after), last)
    <2>1. s = t
      <3> DEFINE a == Parts \ (1 .. after)
                 b == Parts' \ (1 .. after)
      <3>1. \A i \in 1 .. last : i \in a <=> i \in b
        BY <1>2
      <3> HIDE DEF a, b
      <3>2. Those(a, last) = Those(b, last)
        BY <3>1, ThoseAgree
      <3> QED
        BY <3>2 DEF a, b
    <2>2. s \in Seq((Parts \ (1 .. after)) \cap (1 .. last))
      BY ThoseAreThere
    <2>3. /\ Content(after, last) = [k \in DOMAIN s |-> <<s[k], script[s[k]].len>>]
          /\ Content(after, last)' = [k \in DOMAIN t |-> <<t[k], script'[t[k]].len>>]
      BY DEF Content
    <2> HIDE DEF s, t
    <2>4. \A k \in DOMAIN s : s[k] \in 1 .. n
      BY <2>2
    <2>5. \A k \in DOMAIN s : script'[s[k]] = script[s[k]]
      BY <2>4
    <2> QED
      BY <2>1, <2>3, <2>5
  <1>6. Messages(n)' = Messages(n)
    <2>0. PICK e : e = Those(Ends, n)
      OBVIOUS
    <2> DEFINE From(j) == IF j = 1 THEN 0 ELSE e[j - 1]
    <2>1. e \in Seq(Ends \cap (1 .. n))
      BY <2>0, ThoseAreThere
    <2>2. /\ Messages(n) = [j \in DOMAIN e |-> Content(From(j), e[j])]
          /\ Messages(n)' = [j \in DOMAIN e |-> Content(From(j), e[j])']
      BY <2>0, <1>3 DEF Messages
    <2> HIDE DEF From
    <2>3. \A j \in DOMAIN e : e[j] \in 0 .. n
      BY <2>1
    <2>4. \A j \in DOMAIN e : Content(From(j), e[j])' = Content(From(j), e[j])
      BY <1>5, <2>3
    <2> QED
      BY <2>2, <2>4
  <1> QED
    BY <1>1, <1>4, <1>5, <1>6

LEMMA MessageInvKept ==
  ASSUME MessageInv, script' = script, next' = next,
         Pieces \subseteq DOMAIN ws', ws'.got = ws.got, ws'.message = ws.message,
         ws'.op \/ ~ws'.started => Begun(ws', next)
  PROVE  MessageInv'
  <1>1. /\ Messages(next - 1)' = Messages(next - 1)
        /\ Content(LastEnd(next - 1), next - 1)' = Content(LastEnd(next - 1), next - 1)
    BY MeaningStays
  <1>2. Readable' = Readable
    BY MeaningStays
  <1>3. Begun(ws, next)' <=> Begun(ws', next)
    BY DEF Begun
  <1> QED
    BY <1>1, <1>2, <1>3 DEF MessageInv
LEMMA FrameHere ==
  ASSUME FrameInv, NEW i \in DOMAIN script
  PROVE  /\ script \in Seq(ClientFrames) /\ i \in 1 .. Len(script)
         /\ script[i] \in ClientFrames /\ script[i].len \in Nat /\ script[i].op \in 0 .. 15
  <1>1. script \in Seq(ClientFrames)
    BY DEF FrameInv
  <1>2. i \in 1 .. Len(script) /\ script[i] \in ClientFrames
    BY <1>1
  <1>3. script[i].len \in Nat /\ script[i].op \in 0 .. 15
    BY <1>2 DEF ClientFrames
  <1> QED
    BY <1>1, <1>2, <1>3

\* A completed read leaves what it has read.
LEMMA DoneIsSilent ==
  ASSUME MessageInv
  PROVE  /\ Silent(ws, Done) /\ ~Done.op
         /\ Done.header = ws.header /\ Done.fragment = ws.fragment /\ Done.bytes = ws.bytes
         /\ Done.remaining = ws.remaining /\ Done.state = ws.state
  BY DEF MessageInv, Done, Silent, Pieces

LEMMA ReadingKeepsMessages ==
  ASSUME LifeInv, MessageInv, script' = script, next' = next, NEW k, Silent(ws, k), ~k.op,
         ws' = DoRead(k), ws.op, Begun(k, next), k.state = "Mask" => script[next].len \in Nat
  PROVE  MessageInv'
  <1>1. Goes(k, ws', next)
    BY DoReadGoes DEF Silent
  <1>2. Silent(ws, ws') /\ ws.started
    BY <1>1 DEF Goes, Silent, LifeInv, Held, IsStarted, Fresh
  <1>3. ws'.op \/ ~ws'.started => Begun(ws', next)
    BY <1>1, <1>2 DEF Goes, Silent
  <1> QED
    BY <1>2, <1>3, MessageInvKept DEF Silent

LEMMA HeadersKeepMessages ==
  ASSUME LifeInv, FrameInv, MessageInv, ReadMiniHeader \/ ReadLength \/ ReadMask
  PROVE  MessageInv'
  <1>1. /\ ws.op /\ next \in DOMAIN script /\ script' = script /\ next' = next
        /\ Begun(ws, next)
    BY DEF ReadMiniHeader, ReadLength, ReadMask, Reads, MessageInv
  <1>2. script[next] \in ClientFrames /\ script[next].len \in Nat
    BY <1>1, FrameHere
  <1>3. CASE ReadMiniHeader
    <2> DEFINE h == MiniHeader(script[next])
               k == [Done EXCEPT !.header = h, !.mask = HasMask(h)]
               m == CASE Len7(h) = 127 -> [k EXCEPT !.state = "Len64"]
                      [] Len7(h) = 126 -> [k EXCEPT !.state = "Len16"]
                      [] OTHER         -> [k EXCEPT !.state = "Mask", !.remaining = Len7(h)]
    <2>1. ws' = DoRead(m) /\ ws.state = "MiniHeader"
      BY <1>3 DEF ReadMiniHeader, Reads
    <2>2. Len7(h) \notin {126, 127} => Len7(h) = script[next].len
      BY <1>2, HeaderTells DEF Len7
    <2>3. /\ Silent(ws, k) /\ ~k.op /\ k.header = h /\ k.bytes = 0 /\ k.fragment = <<>>
      BY <1>1, <2>1, DoneIsSilent DEF Silent, Pieces, Begun
    <2> HIDE DEF k
    <2>4. /\ Silent(ws, m) /\ ~m.op /\ m.header = h /\ m.bytes = 0 /\ m.fragment = <<>>
          /\ m.state \in {"Len64", "Len16", "Mask"}
          /\ m.state = "Mask" => m.remaining = script[next].len
      <3> HIDE DEF h
      <3>1. CASE Len7(h) = 127
        BY <2>3, <3>1 DEF Silent, Pieces
      <3>2. CASE Len7(h) = 126
        BY <2>3, <3>2 DEF Silent, Pieces
      <3>3. CASE Len7(h) \notin {126, 127}
        BY <2>2, <2>3, <3>3 DEF Silent, Pieces
      <3> QED
        BY <3>1, <3>2, <3>3
    <2> HIDE DEF m
    <2>5. Begun(m, next)
      BY <1>1, <2>4 DEF Begun
    <2> QED
      BY <1>1, <1>2, <2>1, <2>4, <2>5, ReadingKeepsMessages
  <1>4. CASE ReadLength
    <2> DEFINE k == [Done EXCEPT !.state = "Mask", !.remaining = script[next].len]
    <2>1. ws' = DoRead(k) /\ ws.state \in {"Len16", "Len64"}
      BY <1>4 DEF ReadLength, Reads
    <2>2. /\ Silent(ws, k) /\ ~k.op /\ k.state = "Mask" /\ k.remaining = script[next].len
          /\ k.header = ws.header /\ k.bytes = ws.bytes /\ k.fragment = ws.fragment
      BY <1>1, DoneIsSilent DEF Silent, Pieces
    <2> HIDE DEF k
    <2>3. Begun(k, next)
      BY <1>1, <2>1, <2>2 DEF Begun
    <2> QED
      BY <1>1, <1>2, <2>1, <2>2, <2>3, ReadingKeepsMessages
  <1>5. CASE ReadMask
    <2> DEFINE k == [Done EXCEPT !.state = "Payload"]
    <2>1. ws' = DoRead(k) /\ ws.state = "Mask"
      BY <1>5 DEF ReadMask, Reads
    <2>2. /\ Silent(ws, k) /\ ~k.op /\ k.state = "Payload" /\ k.remaining = ws.remaining
          /\ k.header = ws.header /\ k.bytes = ws.bytes /\ k.fragment = ws.fragment
      BY <1>1, DoneIsSilent DEF Silent, Pieces
    <2> HIDE DEF k
    <2>3. Begun(k, next)
      BY <1>1, <1>2, <2>1, <2>2 DEF Begun, Run
    <2> QED
      BY <1>1, <1>2, <2>1, <2>2, <2>3, ReadingKeepsMessages
  <1> QED
    BY <1>3, <1>4, <1>5
LEMMA ContentRuns ==
  ASSUME NEW n \in Nat, NEW after \in 0 .. n, n + 1 \in Readable, IsData(n + 1),
         script[n + 1].len \in Nat
  PROVE  Content(after, n + 1) = Content(after, n) \o Run(n + 1, script[n + 1].len)
  <1> DEFINE s == Those(Parts \ (1 .. after), n)
             c == Content(after, n)
             part(i) == <<i, script[i].len>>
             P == {part(i) : i \in Nat}
  <1>1. s \in Seq((Parts \ (1 .. after)) \cap (1 .. n))
    BY ThoseAreThere
  <1>2. c = [k \in DOMAIN s |-> part(s[k])]
    BY DEF Content
  <1> HIDE DEF s
  <1>3. DOMAIN s = 1 .. Len(s) /\ Len(s) \in Nat /\ \A k \in 1 .. Len(s) : s[k] \in Nat
    BY <1>1
  <1>4. c \in Seq(P) /\ part(n + 1) \in P
    <2> HIDE DEF part, c
    <2>1. \A k \in 1 .. Len(s) : part(s[k]) \in P
      BY <1>3
    <2> HIDE DEF P
    <2>2. c \in [1 .. Len(s) -> P]
      BY <1>2, <1>3, <2>1
    <2>3. part(n + 1) \in P
      BY DEF P
    <2> QED
      BY <1>3, <2>2, <2>3
  <1>5. Content(after, n + 1) = IF n + 1 \in Parts THEN Append(c, part(n + 1)) ELSE c
    BY ContentSteps
  <1>6. n + 1 \in Parts <=> script[n + 1].len # 0
    BY DEF Parts
  <1>7. Run(n + 1, script[n + 1].len) = IF script[n + 1].len = 0 THEN <<>> ELSE <<part(n + 1)>>
    BY DEF Run
  <1> HIDE DEF c, part, P
  <1>8. c \o <<>> = c /\ c \o <<part(n + 1)>> = Append(c, part(n + 1))
    BY <1>4
  <1> QED
    BY <1>5, <1>6, <1>7, <1>8 DEF c

LEMMA PayloadKeepsMessages ==
  ASSUME LifeInv, FrameInv, MessageInv, NEW n, ReadPayload(n)
  PROVE  MessageInv'
  <1> DEFINE k == [Done EXCEPT !.remaining = @ - n,
                               !.fragment = Grown(@, next, n),
                               !.bytes = @ + n]
             len == script[next].len
             toRead == IF ws.remaining < BufferSize THEN ws.remaining ELSE BufferSize
  <1>1. /\ ws.op /\ ws.state = "Payload" /\ next \in DOMAIN script /\ script' = script
        /\ n = toRead \/ (n = 1 /\ toRead > 1 /\ ws.fragment = <<>>)
        /\ IF k.remaining > 0 THEN ws' = DoRead(k) /\ next' = next
           ELSE ws' = HandleFragment(k) /\ next' = next + 1
    BY DEF ReadPayload, Reads
  <1>2. ws.started /\ Sound(ws) /\ Begun(ws, next)
    BY <1>1 DEF LifeInv, Held, IsStarted, Fresh, FrameInv, MessageInv
  <1>3. /\ script[next] \in ClientFrames /\ len \in Nat /\ next \in 1 .. Len(script)
        /\ Len(script) \in Nat /\ script \in Seq(ClientFrames)
    BY <1>1, FrameHere
  <1>4. /\ ws.remaining \in Nat /\ ws.bytes \in Nat /\ ws.bytes + ws.remaining <= MaxPayload
        /\ ws.bytes + ws.remaining = len /\ ws.fragment = Run(next, ws.bytes)
        /\ ws.header = MiniHeader(script[next])
    BY <1>1, <1>2 DEF Sound, Bounded, Limited, Begun
  <1>5. n \in Nat /\ n <= ws.remaining
    <2>1. BufferSize \in Nat
      BY WebSocketAssumption
    <2> QED
      BY <1>1, <1>4, <2>1
  <1>6. /\ Silent(ws, k) /\ Pieces \subseteq DOMAIN k /\ ~k.op /\ k.state = "Payload"
        /\ k.header = ws.header /\ k.remaining = ws.remaining - n /\ k.bytes = ws.bytes + n
        /\ k.fragment = Grown(ws.fragment, next, n)
    BY <1>1, DoneIsSilent DEF Silent, Pieces
  <1>7. k.fragment = Run(next, k.bytes) /\ k.bytes + k.remaining = len
    BY <1>4, <1>5, <1>6, GrownRuns
  <1> HIDE DEF k, toRead
  <1>8. CASE k.remaining > 0
    <2>1. Begun(k, next)
      BY <1>1, <1>4, <1>6, <1>7 DEF Begun
    <2> QED
      BY <1>1, <1>6, <1>8, <2>1, ReadingKeepsMessages
  <1>9. CASE ~(k.remaining > 0)
    <2> DEFINE m == next - 1
    <2>1. ws' = HandleFragment(k) /\ next' = next + 1 /\ k.fragment = Run(next, len)
      BY <1>1, <1>4, <1>5, <1>6, <1>7, <1>9
    <2>2. m \in Nat /\ m + 1 = next /\ next' - 1 = next /\ next \in Nat /\ next' \in 1 .. Len(script) + 1
      BY <1>3, <2>1
    <2>3. /\ 1 .. m \subseteq Readable /\ k.got = Messages(m)
          /\ k.message = Content(LastEnd(m), m) /\ k.started = ws.started
      BY <1>6 DEF MessageInv, Silent
    <2>4. LastEnd(m) \in 0 .. m
      BY <2>2, LastEndIsBefore
    <2> HIDE DEF m, len
    <2>5. 1 .. next \subseteq Readable
      <3>1. \A h \in 1 .. m : script[h].len <= MaxPayload
        <4>1. \A h \in 1 .. m : h \in 1 .. h
          BY <2>2
        <4> QED
          BY <2>3, <4>1 DEF Readable
      <3>2. script[next].len <= MaxPayload
        BY <1>4 DEF len
      <3>3. \A h \in 1 .. next : h \in 1 .. m \/ h = next
        BY <2>2
      <3>4. next \in Readable
        BY <1>1, <3>1, <3>2, <3>3 DEF Readable
      <3> QED
        BY <2>3, <3>3, <3>4
    <2>6. (IsFIN(k) <=> script[next].fin) /\ Opcode(k) = script[next].op
      BY <1>3, <1>4, <1>6, HeaderTells DEF IsFIN, Opcode
    <2>7. next \in Ends <=> Opcode(k) \in {0, 1, 2} /\ IsFIN(k)
      BY <2>2, <2>5, <2>6 DEF Ends, IsData
    <2>8. Opcode(k) \in {0, 1, 2} =>
            Content(LastEnd(m), next) = k.message \o k.fragment
      <3> SUFFICES ASSUME Opcode(k) \in {0, 1, 2}
                   PROVE  Content(LastEnd(m), next) = k.message \o k.fragment
        OBVIOUS
      <3>1. IsData(next) /\ next \in Readable /\ script[next].len \in Nat
        BY <1>3, <2>2, <2>5, <2>6 DEF IsData, len
      <3>2. Content(LastEnd(m), m + 1) = Content(LastEnd(m), m) \o Run(m + 1, script[m + 1].len)
        BY <2>2, <2>4, <3>1, ContentRuns
      <3> QED
        BY <2>1, <2>2, <2>3, <3>2 DEF len
    <2>9. Opcode(k) \notin {0, 1, 2} => Content(LastEnd(m), next) = k.message
      <3> SUFFICES ASSUME Opcode(k) \notin {0, 1, 2}
                   PROVE  Content(LastEnd(m), next) = k.message
        OBVIOUS
      <3>1. next \notin Parts
        BY <2>6 DEF Parts, IsData
      <3>2. Content(LastEnd(m), m + 1) = Content(LastEnd(m), m)
        BY <2>2, <2>4, <3>1, ContentSteps
      <3> QED
        BY <2>2, <2>3, <3>2
    <2>10. /\ Pieces \subseteq DOMAIN ws' /\ ws'.started = k.started
           /\ ws'.op => Begun(ws', next + 1)
           /\ Opcode(k) \notin {0, 1, 2} => ws'.got = k.got /\ ws'.message = k.message
           /\ Opcode(k) \in {0, 1, 2} /\ IsFIN(k) =>
                ws'.got = Append(k.got, k.message \o k.fragment) /\ ws'.message = <<>>
           /\ Opcode(k) \in {0, 1, 2} /\ ~IsFIN(k) =>
                ws'.got = k.got /\ ws'.message = k.message \o k.fragment
      BY <1>6, <2>1, HandleFragmentGoes
    <2>11. /\ next \in Ends => Messages(next) = Append(Messages(m), Content(LastEnd(m), next))
                               /\ LastEnd(next) = next
           /\ next \notin Ends => Messages(next) = Messages(m) /\ LastEnd(next) = LastEnd(m)
      BY <2>2, MessagesStep
    <2>12. Content(next, next) = <<>>
      BY <2>2, ContentStarts
    <2>13. ws'.got = Messages(next) /\ ws'.message = Content(LastEnd(next), next)
      BY <2>3, <2>7, <2>8, <2>9, <2>10, <2>11, <2>12
    <2>14. /\ Messages(next - 1)' = Messages(next)
           /\ Content(LastEnd(next - 1), next - 1)' = Content(LastEnd(next), next)
      BY <1>1, <2>2, MeaningStays
    <2>15. Begun(ws, next)' <=> Begun(ws', next + 1)
      BY <1>1, <2>1 DEF Begun
    <2>16. (1 .. next - 1 \subseteq Readable)'
      BY <1>1, <2>2, <2>5, MeaningStays
    <2> QED
      BY <1>1, <1>2, <2>2, <2>3, <2>10, <2>13, <2>14, <2>15, <2>16 DEF MessageInv
  <1> QED
    BY <1>8, <1>9
\* What does not read hands nothing over.
LEMMA QuietKeepsMessages ==
  ASSUME MessageInv, script' = script, next' = next, Quiet(ws, ws')
  PROVE  MessageInv'
  <1>1. ws'.op \/ ~ws'.started => Begun(ws', next)
    BY DEF MessageInv, Quiet, Silent, Begun
  <1> QED
    BY <1>1, MessageInvKept DEF Quiet, Silent

LEMMA FailureKeepsMessages ==
  ASSUME LifeInv, MessageInv, ReadFails
  PROVE  MessageInv'
  <1>1. /\ ws.op /\ script' = script /\ next' = next
        /\ ws' = CheckDestroy(CloseSocket(Done), ClosedAbnormally)
    BY DEF ReadFails
  <1>2. Silent(ws, Done) /\ ~Done.op
    BY DoneIsSilent
  <1>3. Quiet(Done, ws')
    BY <1>1, <1>2, EndIsQuiet DEF Silent
  <1>4. ws.started
    BY <1>1 DEF LifeInv, Held, IsStarted, Fresh
  <1>5. Silent(ws, ws') /\ ~ws'.op /\ ws'.started
    BY <1>2, <1>3, <1>4 DEF Quiet, Silent
  <1> QED
    BY <1>1, <1>5, MessageInvKept DEF Silent

LEMMA WritingKeepsMessages ==
  ASSUME MessageInv, NEW ok, Written(ok)
  PROVE  MessageInv'
  <1> DEFINE k == [ws EXCEPT !.sending = <<>>]
             w == DoWrite(k)
             dead == [k EXCEPT !.closing = TRUE]
  <1>1. /\ script' = script /\ next' = next
        /\ ws' \in {[w EXCEPT !.closing = @ \/ k.sentClose], CheckDestroy(dead, ClosedAbnormally)}
    BY DEF Written
  <1>2. Quiet(ws, k) /\ Pieces \subseteq DOMAIN k
    BY DEF MessageInv, Quiet, Silent, Pieces
  <1> HIDE DEF k
  <1>3. Quiet(k, w) /\ Pieces \subseteq DOMAIN w
    BY <1>2, DoWriteIsQuiet DEF Quiet, Silent
  <1>4. Quiet(k, dead) /\ Pieces \subseteq DOMAIN dead
    BY <1>2 DEF Quiet, Silent, Pieces
  <1> HIDE DEF w, dead
  <1>5. Quiet(w, [w EXCEPT !.closing = @ \/ k.sentClose])
    BY <1>3 DEF Quiet, Silent, Pieces
  <1>6. Quiet(dead, CheckDestroy(dead, ClosedAbnormally))
    BY <1>4, EndIsQuiet
  <1>7. Quiet(k, ws')
    BY <1>1, <1>3, <1>4, <1>5, <1>6, QuietTwice
  <1>8. Quiet(ws, ws')
    BY <1>2, <1>7, QuietTwice
  <1> QED
    BY <1>1, <1>8, QuietKeepsMessages

LEMMA StartKeepsMessages ==
  ASSUME LifeInv, FrameInv, MessageInv, Start
  PROVE  MessageInv'
  <1> DEFINE k == [ws EXCEPT !.started = TRUE, !.waiting = <<[header |-> <<101>>, size |-> 0]>>]
             w == DoWrite(k)
  <1>1. ~ws.started /\ script' = script /\ next' = next /\ ws' = DoRead(w)
    BY DEF Start
  <1>2. ~ws.op /\ Begun(ws, next)
    BY <1>1 DEF LifeInv, Held, IsStarted, Fresh, MessageInv
  <1>3. /\ Pieces \subseteq DOMAIN k /\ k.started /\ k.got = ws.got /\ k.message = ws.message
        /\ k.header = ws.header /\ k.fragment = ws.fragment /\ k.bytes = ws.bytes
        /\ k.remaining = ws.remaining /\ k.state = ws.state /\ ~k.op
    BY <1>2 DEF MessageInv, Pieces
  <1> HIDE DEF k
  <1>4. Quiet(k, w)
    BY <1>3, DoWriteIsQuiet
  <1> HIDE DEF w
  <1>5. /\ Begun(w, next) /\ Pieces \subseteq DOMAIN w /\ ~w.op /\ w.started
        /\ w.got = ws.got /\ w.message = ws.message
    BY <1>2, <1>3, <1>4 DEF Begun, Quiet, Silent
  <1>6. w.state = "MiniHeader"
    BY <1>1, <1>3, <1>4 DEF FrameInv, Unstarted, Quiet
  <1>7. Goes(w, ws', next)
    BY <1>1, <1>5, <1>6, DoReadGoes
  <1> QED
    BY <1>1, <1>5, <1>7, MessageInvKept DEF Goes, Silent

LEMMA HalfAHeaderKeepsMessages ==
  ASSUME LifeInv, FrameInv, MessageInv, OneByteArrives
  PROVE  MessageInv'
  <1> DEFINE m == next - 1
  <1>1. /\ ws' = ws /\ next' = next /\ ws.state = "MiniHeader" /\ ws.op
        /\ next \in 1 .. Len(script)
    BY DEF OneByteArrives, Reads, FrameInv
  <1>2. /\ script' \in Seq(ClientFrames) /\ next \in 1 .. Len(script')
        /\ \A i \in 1 .. m : i \in DOMAIN script' /\ script'[i] = script[i]
    BY HalfAHeader DEF FrameInv
  <1>3. m \in Nat /\ 1 .. m \subseteq Readable /\ m' = m
    BY <1>1 DEF MessageInv, FrameInv
  <1> HIDE DEF m
  <1>4. /\ 1 .. m \subseteq Readable'
        /\ Messages(m)' = Messages(m) /\ LastEnd(m)' = LastEnd(m)
        /\ \A after \in Nat : Content(after, m)' = Content(after, m)
    BY <1>2, <1>3, MeaningOfTheFirst
  <1>5. LastEnd(m) \in Nat
    BY <1>3, LastEndIsBefore
  <1>6. Content(LastEnd(m), m)' = Content(LastEnd(m), m)
    BY <1>3, <1>4, <1>5
  <1>7. Begun(ws, next)'
    BY <1>1 DEF MessageInv, Begun
  <1>8. (next \in 1 .. Len(script) + 1)'
    BY <1>1, <1>2
  <1> QED
    BY <1>1, <1>3, <1>4, <1>6, <1>7, <1>8 DEF MessageInv, m

LEMMA NextKeepsMessages ==
  ASSUME LifeInv, FrameInv, MessageInv, [Next]_vars
  PROVE  MessageInv'
  <1>1. CASE ReadMiniHeader \/ ReadLength \/ ReadMask
    BY <1>1, HeadersKeepMessages
  <1>2. ASSUME NEW n, ReadPayload(n) PROVE MessageInv'
    BY <1>2, PayloadKeepsMessages
  <1>3. CASE ReadFails
    BY <1>3, FailureKeepsMessages
  <1>4. ASSUME NEW ok, Written(ok) PROVE MessageInv'
    BY <1>4, WritingKeepsMessages
  <1>5. CASE Start
    BY <1>5, StartKeepsMessages
  <1>6. Pieces \subseteq DOMAIN ws
    BY DEF MessageInv
  <1>7. Quiet(ws, ws)
    BY <1>6 DEF Quiet, Silent
  <1>8. CASE Refuse
    <2> DEFINE c == CloseSocket(ws)
    <2>1. ws' = [c EXCEPT !.alive = FALSE] /\ script' = script /\ next' = next
      BY <1>8 DEF Refuse
    <2>2. Quiet(ws, c)
      BY <1>6, EndIsQuiet
    <2> HIDE DEF c
    <2>3. Quiet(c, ws')
      BY <2>1, <2>2 DEF Quiet, Silent, Pieces
    <2> QED
      BY <2>1, <2>2, <2>3, QuietTwice, QuietKeepsMessages
  <1>9. CASE RunTask
    <2>1. /\ script' = script /\ next' = next
          /\ \/ ws' = ws \/ ws' = CloseTask(ws, Head(posted).size, NormalClosure)
             \/ ws' = Queue(ws, Head(posted).op, Head(posted).size)
      BY <1>9 DEF RunTask
    <2>2. Quiet(ws, ws')
      BY <1>6, <1>7, <2>1, CloseTaskIsQuiet, QueueIsQuiet
    <2> QED
      BY <2>1, <2>2, QuietKeepsMessages
  <1>10. CASE UNCHANGED <<ws, script, next>>
    BY <1>7, <1>10, QuietKeepsMessages
  <1>11. Program \/ ClientGone \/ UNCHANGED vars => UNCHANGED <<ws, script, next>>
    BY DEF Program, Call, ClientGone, vars
  <1>12. CASE OneByteArrives
    BY <1>12, HalfAHeaderKeepsMessages
  <1> QED
    BY <1>1, <1>2, <1>3, <1>4, <1>5, <1>8, <1>9, <1>10, <1>11, <1>12 DEF Next, Thread, Read

\* Until a read gets half a header, what is read is what the client said.
Told == ~split => meant = Meant

LEMMA NextKeepsTold ==
  ASSUME Told, [Next]_vars
  PROVE  Told'
  <1>1. CASE OneByteArrives
    BY <1>1 DEF OneByteArrives, Told
  <1>2. CASE ~OneByteArrives
    <2>1. script' = script /\ split' = split /\ meant' = meant
      BY <1>2 DEF Next, Thread, Program, ClientGone, Start, Refuse, Read, ReadMiniHeader,
                  ReadLength, ReadMask, ReadPayload, ReadFails, Written, RunTask, Call, vars, sentVars
    <2>2. Meant' = Meant
      BY <2>1, MeaningStays DEF Meant
    <2> QED
      BY <2>1, <2>2 DEF Told
  <1> QED
    BY <1>1, <1>2

(* Until a read of a header gets one byte of its two, the message handler   *)
(* gets the messages that the client sent, whole, once and in order,        *)
(* wherever else the bytes are cut, whatever the size of the buffer, the    *)
(* encodings of lengths and the control frames between fragments, and none  *)
(* from the first frame on that is longer than max_payload_bytes_ (do_read  *)
(* and handle_fragment).                                                    *)
THEOREM MessagesArrive == Spec => []MessagesAsSent
  <1>1. Init => MessageInv
    <2> SUFFICES ASSUME Init PROVE MessageInv
      OBVIOUS
    <2>1. script \in Seq(ClientFrames) /\ next = 1 /\ ws = NewConnection
      BY WebSocketAssumption DEF Init
    <2>2. next - 1 = 0 /\ next \in 1 .. Len(script) + 1 /\ 1 .. next - 1 = {}
      BY <2>1
    <2>3. Those(Ends, 0) = <<>>
      BY ThoseStep
    <2>4. Messages(0) = <<>> /\ LastEnd(0) = 0
      BY <2>3 DEF Messages, LastEnd
    <2>5. Content(0, 0) = <<>>
      BY ContentStarts
    <2>6. /\ Pieces \subseteq DOMAIN ws /\ ws.got = <<>> /\ ws.message = <<>>
          /\ ws.state = "MiniHeader" /\ ws.bytes = 0 /\ ws.fragment = <<>>
      BY <2>1 DEF NewConnection, Pieces
    <2>7. Begun(ws, next)
      BY <2>6 DEF Begun
    <2> QED
      BY <2>2, <2>4, <2>5, <2>6, <2>7 DEF MessageInv
  <1>2. LifeInv /\ FrameInv /\ MessageInv /\ [Next]_vars => MessageInv'
    BY NextKeepsMessages
  <1>3. FrameInv /\ MessageInv /\ Told => MessagesAsSent
    <2> SUFFICES ASSUME FrameInv, MessageInv, Told PROVE MessagesAsSent
      OBVIOUS
    <2>1. script \in Seq(ClientFrames)
      BY DEF FrameInv
    <2>2. next - 1 \in Nat /\ Len(script) \in Nat /\ next - 1 <= Len(script)
      BY <2>1 DEF MessageInv
    <2>3. IsPrefix(Messages(next - 1), Messages(Len(script)))
      BY <2>2, MessagesArePrefix
    <2> QED
      BY <2>3 DEF MessageInv, MessagesAsSent, Meant, Told
  <1>4. Init => Told
    BY DEF Init, Told
  <1>5. Told /\ [Next]_vars => Told'
    BY NextKeepsTold
  <1> QED
    BY <1>1, <1>2, <1>3, <1>4, <1>5, WebSocketInvHolds, PTL DEF Spec
=============================================================================
