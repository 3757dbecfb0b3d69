------------------------------ MODULE WebSocket ------------------------------
(***************************************************************************)
(* crow::websocket::Connection (crow/websocket.h): one connection after its *)
(* upgrade, on the thread of its io_context, with calls of send and close   *)
(* from other threads.  A completion handler, or a posted task, is one      *)
(* action.  A frame of the client is a record; how it is encoded (enc is 7, *)
(* 16 or 64 bits of length) is its choice where it fits.  The bytes of a     *)
(* payload are <<frame, count>>: which frame they are of, and how many.      *)
(* The read of a header may get the first of its two bytes only, and then    *)
(* the connection takes all that follows for other frames than were sent:    *)
(* script is what it reads, meant what the client said.                      *)
(***************************************************************************)
EXTENDS Integers, Sequences, SequencesExt

CONSTANTS Scripts,      \* what a client may send: sequences of frames
          Sizes,        \* sizes of the messages that the program sends
          Misreadings,  \* what follows half a header may be taken for
          MaxPayload,   \* max_payload_bytes_
          BufferSize,   \* the length of buffer_
          MaxSends      \* bound: how many messages the program sends

VARIABLES ws,           \* the members of the Connection
          posted,       \* tasks posted to the io_context, in order
          script, next, \* the frames of the client, and the one being read
          client,       \* "open" or "gone"
          split,        \* a read got half a header
          meant,        \* the messages of the client
          wire,         \* frames the client has been sent
          sendsLeft     \* what is left of the bound

\* What a size_t holds; max_payload_bytes_ and the size of a message are of that width.
FitsSize(n) == n \in Nat /\ ((n \div 65536) \div 65536) \div 65536 < 65536
ClientFrames ==
  {f \in [op : 0 .. 15, fin : BOOLEAN, mask : BOOLEAN, enc : {7, 16, 64}, len : Nat] :
     /\ f.enc = 7 => f.len < 126
     /\ f.enc = 16 => f.len < 65536
     /\ FitsSize(f.len)}

ASSUME WebSocketAssumption ==
  /\ Scripts \cup Misreadings \subseteq Seq(ClientFrames)
  /\ \A size \in Sizes \cup {MaxPayload} : FitsSize(size)
  /\ BufferSize \in Nat

sentVars == <<split, meant>>
vars == <<ws, posted, script, next, client, wire, sendsLeft, sentVars>>

NormalClosure == 1000
NoStatusCodePresent == 1005
ClosedAbnormally == 1006
MessageTooBig == 1009

\* alive: not deleted.  op: a read is outstanding.  bytes: the size of the fragment.
\* got, closes: the calls of the message handler and of the close handler.
NewConnection ==
  [alive |-> TRUE, started |-> FALSE, open |-> TRUE, op |-> FALSE,
   state |-> "MiniHeader", header |-> 0, mask |-> FALSE, remaining |-> 0,
   fragment |-> <<>>, bytes |-> 0, message |-> <<>>,
   sending |-> <<>>, waiting |-> <<>>, reading |-> FALSE, closing |-> FALSE,
   sentClose |-> FALSE, recvClose |-> FALSE, called |-> FALSE,
   got |-> <<>>, closes |-> <<>>]
-----------------------------------------------------------------------------
(* The two headers.                                                         *)

\* build_header: 7 bits, 16 or 64, in network order.
Low(n)  == n % 256
High(n) == (n \div 256) % 256
ShortTo127(op, size) == IF size < 128 THEN <<128 + op, size>>
                        ELSE <<128 + op, 126, High(size), Low(size)>>
BuildHeader(op, size) ==
  LET w1 == size \div 65536   w2 == w1 \div 65536   w3 == w2 \div 65536
  IN  CASE size < 126                    -> <<128 + op, size>>
        [] size >= 126 /\ size < 65536   -> <<128 + op, 126, High(size), Low(size)>>
        [] OTHER                         -> <<128 + op, 127, High(w3), Low(w3), High(w2), Low(w2),
                                              High(w1), Low(w1), High(size), Low(size)>>

\* The first two bytes of a frame of the client, as mini_header_ after ntohs.
MiniHeader(f) ==
  (IF f.fin THEN 32768 ELSE 0) + 256 * f.op + (IF f.mask THEN 128 ELSE 0)
    + (CASE f.enc = 7 -> f.len [] f.enc = 16 -> 126 [] f.enc = 64 -> 127)
IsFIN(k)  == k.header >= 32768
Opcode(k) == (k.header \div 256) % 16
HasMask(header) == (header \div 128) % 2 = 1
Len7(header)    == header % 128
-----------------------------------------------------------------------------
(* Functions of the connection, on its members.                             *)

DoWrite(k) ==
  IF k.sending = <<>> THEN [k EXCEPT !.sending = k.waiting, !.waiting = <<>>] ELSE k

Queue(k, op, size) ==
  DoWrite([k EXCEPT !.waiting = Append(@, [header |-> BuildHeader(op, size), size |-> size])])

\* check_destroy: nothing may be outstanding when the connection is deleted.
DeletesWhileReading(k, code) ==
  LET told == IF k.called THEN k ELSE [k EXCEPT !.closes = Append(@, code)]
  IN  [told EXCEPT !.alive = k.sending # <<>>]
DestroysSilently(k, code) == [k EXCEPT !.alive = k.sending # <<>> \/ k.reading]
CheckDestroy(k, code) ==
  LET told == IF k.called THEN k ELSE [k EXCEPT !.closes = Append(@, code)]
  IN  [told EXCEPT !.alive = k.sending # <<>> \/ k.reading]

CloseSocket(k) == [k EXCEPT !.closing = TRUE, !.open = FALSE]

\* do_read up to the asynchronous read it starts, if any.
DoRead(k) ==
  LET r == [k EXCEPT !.reading = TRUE]
  IN  IF k.sentClose /\ k.recvClose THEN CheckDestroy(CloseSocket(k), ClosedAbnormally)
      ELSE IF k.state = "Mask" /\ k.remaining > MaxPayload
           THEN CheckDestroy(CloseSocket(r), MessageTooBig)
      ELSE [r EXCEPT !.op = TRUE,
                     !.state = IF @ = "Mask" /\ ~k.mask THEN "Payload" ELSE @]

\* The task of close().
CloseTask(k, size, status) ==
  LET told == IF k.recvClose /\ ~k.called
              THEN [k EXCEPT !.called = TRUE, !.closes = Append(@, status)] ELSE k
  IN  Queue([told EXCEPT !.sentClose = TRUE], 8, size + 2)

ReadOn(k) == DoRead([k EXCEPT !.state = "MiniHeader", !.fragment = <<>>, !.bytes = 0])

\* A text, binary or continuation frame: a message ends with FIN.
KeepsMessage(k) ==
  IF IsFIN(k) THEN [k EXCEPT !.got = Append(@, k.message \o k.fragment)]
              ELSE [k EXCEPT !.message = @ \o k.fragment]
DataFrame(k) ==
  IF IsFIN(k) THEN [k EXCEPT !.got = Append(@, k.message \o k.fragment), !.message = <<>>]
              ELSE [k EXCEPT !.message = @ \o k.fragment]

\* A close frame: answered the first time, the end of the connection when it answers ours.
CloseFrame(k, size) ==
  LET r == [k EXCEPT !.recvClose = TRUE]
      status == IF size >= 2 THEN NormalClosure ELSE NoStatusCodePresent
      told == IF r.called THEN r ELSE [r EXCEPT !.called = TRUE, !.closes = Append(@, status)]
  IN  IF k.sentClose THEN CheckDestroy(CloseSocket(told), ClosedAbnormally)
      ELSE ReadOn(CloseTask(r, IF size >= 2 THEN size - 2 ELSE size, status))

HandleFragment(k) ==
  CASE Opcode(k) \in {0, 1, 2} -> ReadOn(DataFrame(k))
    [] Opcode(k) = 8           -> CloseFrame(k, k.bytes)
    [] OTHER                   -> ReadOn(k)
-----------------------------------------------------------------------------
(* The messages of a script: the data frames up to each FIN, with control    *)
(* frames between them anywhere, up to a frame that is too long.             *)
IsData(i) == script[i].op \in {0, 1, 2}
Readable  == {i \in DOMAIN script : \A h \in 1 .. i : script[h].len <= MaxPayload}
Ends      == {i \in Readable : IsData(i) /\ script[i].fin}
Parts     == {i \in Readable : IsData(i) /\ script[i].len > 0}

\* The numbers of a set up to n, in order.
Those(ns, n) ==
  LET list[m \in 0 .. n] == IF m = 0 THEN <<>>
                            ELSE IF m \in ns THEN Append(list[m - 1], m)
                            ELSE list[m - 1]
  IN  list[n]

\* The content of the frames after one, up to another; the messages that end by the n-th.
Content(after, last) ==
  LET parts == Those(Parts \ (1 .. after), last)
  IN  [k \in DOMAIN parts |-> <<parts[k], script[parts[k]].len>>]
Messages(n) ==
  LET ends == Those(Ends, n)
  IN  [j \in DOMAIN ends |-> Content(IF j = 1 THEN 0 ELSE ends[j - 1], ends[j])]
Meant == Messages(Len(script))
-----------------------------------------------------------------------------
Init ==
  /\ ws = NewConnection /\ posted = <<>> /\ wire = <<>>
  /\ script \in Scripts /\ next = 1 /\ client = "open" /\ sendsLeft = MaxSends
  /\ split = FALSE /\ meant = Meant

\* The constructor: a request that is refused deletes the connection; for another
\* the answer is written, and the first read starts.
Refuse ==
  /\ ws.alive /\ ~ws.started
  /\ ws' = [CloseSocket(ws) EXCEPT !.alive = FALSE]
  /\ UNCHANGED <<posted, script, next, client, wire, sendsLeft, sentVars>>
Start ==
  /\ ws.alive /\ ~ws.started
  /\ ws' = DoRead(DoWrite([ws EXCEPT !.started = TRUE,
                                     !.waiting = <<[header |-> <<101>>, size |-> 0]>>]))
  /\ UNCHANGED <<posted, script, next, client, wire, sendsLeft, sentVars>>

\* The completion of the outstanding read, in the state it was started in.
Reads(state) == ws.op /\ ws.open /\ ws.state = state /\ next \in DOMAIN script
StaysReading == [ws EXCEPT !.op = FALSE]
Done == [ws EXCEPT !.op = FALSE, !.reading = FALSE]

\* async_read_some of the two bytes of a header gets one.  The other stays 0: no
\* mask, no payload, and the second byte begins the frames that follow.  (Bound:
\* once; a later half header is part of what those may be.)
OneByteArrives ==
  /\ Reads("MiniHeader") /\ ~split /\ split' = TRUE
  /\ \E rest \in Misreadings :
       script' = SubSeq(script, 1, next - 1)
                   \o <<[script[next] EXCEPT !.mask = FALSE, !.enc = 7, !.len = 0]>> \o rest
  /\ UNCHANGED <<ws, posted, next, client, wire, sendsLeft, meant>>

ReadMiniHeader ==
  /\ Reads("MiniHeader")
  /\ LET h == MiniHeader(script[next])
         k == [Done EXCEPT !.header = h, !.mask = HasMask(h)]
     IN  ws' = DoRead(CASE Len7(h) = 127 -> [k EXCEPT !.state = "Len64"]
                        [] Len7(h) = 126 -> [k EXCEPT !.state = "Len16"]
                        [] OTHER         -> [k EXCEPT !.state = "Mask", !.remaining = Len7(h)])
  /\ UNCHANGED <<posted, script, next, client, wire, sendsLeft, sentVars>>
ReadLength ==
  /\ Reads("Len16") \/ Reads("Len64")
  /\ ws' = DoRead([Done EXCEPT !.state = "Mask", !.remaining = script[next].len])
  /\ UNCHANGED <<posted, script, next, client, wire, sendsLeft, sentVars>>
ReadMask ==
  /\ Reads("Mask")
  /\ ws' = DoRead([Done EXCEPT !.state = "Payload"])
  /\ UNCHANGED <<posted, script, next, client, wire, sendsLeft, sentVars>>

\* The bytes of a frame in the fragment grow with each read of it.
Grown(parts, i, n) ==
  LET last == Len(parts)
  IN  IF n = 0 THEN parts
      ELSE IF last > 0 /\ parts[last][1] = i
           THEN [parts EXCEPT ![last] = <<i, parts[last][2] + n>>]
      ELSE Append(parts, <<i, n>>)

\* A read of up to the whole buffer: one byte at first, or all there is room for.
ReadPayload(n) ==
  /\ Reads("Payload")
  /\ LET toRead == IF ws.remaining < BufferSize THEN ws.remaining ELSE BufferSize
     IN  n = toRead \/ (n = 1 /\ toRead > 1 /\ ws.fragment = <<>>)
  /\ LET k == [Done EXCEPT !.remaining = @ - n,
                           !.fragment = Grown(@, next, n),
                           !.bytes = @ + n]
     IN  IF k.remaining > 0 THEN /\ ws' = DoRead(k)
                                 /\ UNCHANGED <<posted, next, sentVars>>
         ELSE /\ ws' = HandleFragment(k)
              /\ posted' = IF Opcode(k) = 9 THEN Append(posted, [op |-> 10, size |-> k.bytes])
                                           ELSE posted
              /\ next' = next + 1
  /\ UNCHANGED <<script, client, wire, sendsLeft, sentVars>>

ReadFails ==
  /\ ws.op /\ (client = "gone" \/ ~ws.open)
  /\ ws' = CheckDestroy(CloseSocket(Done), ClosedAbnormally)
  /\ UNCHANGED <<posted, script, next, client, wire, sendsLeft, sentVars>>

\* The completion of async_write; what was written may have left before the socket closed.
Written(ok) ==
  /\ ws.sending # <<>> /\ (ok \/ client = "gone" \/ ~ws.open)
  /\ LET k == [ws EXCEPT !.sending = <<>>]
     IN  ws' = IF ok /\ ~ws.closing
               THEN [DoWrite(k) EXCEPT !.closing = @ \/ k.sentClose]
               ELSE CheckDestroy([k EXCEPT !.closing = TRUE], ClosedAbnormally)
  /\ wire' = IF ok THEN wire \o ws.sending ELSE wire
  /\ UNCHANGED <<posted, script, next, client, sendsLeft, sentVars>>

\* A task holds a weak pointer: after the connection is deleted it does nothing.
RunTask ==
  /\ posted # <<>>
  /\ LET t == Head(posted)
     IN  ws' = IF ~ws.alive THEN ws
               ELSE IF t.op = 8 THEN CloseTask(ws, t.size, NormalClosure)
               ELSE Queue(ws, t.op, t.size)
  /\ posted' = Tail(posted)
  /\ UNCHANGED <<script, next, client, wire, sendsLeft, sentVars>>

\* send_text, send_binary, send_ping and close, by a thread that has the connection.
Call(op, size) ==
  /\ ws.alive /\ ws.started /\ sendsLeft > 0
  /\ posted' = Append(posted, [op |-> op, size |-> size])
  /\ sendsLeft' = sendsLeft - 1
  /\ UNCHANGED <<ws, script, next, client, wire, sentVars>>

ClientGone ==
  /\ client = "open" /\ client' = "gone"
  /\ UNCHANGED <<ws, posted, script, next, wire, sendsLeft, sentVars>>

Read ==
  \/ ReadMiniHeader \/ ReadLength \/ ReadMask \/ ReadFails
  \/ \E n \in {0, 1, ws.remaining, BufferSize} : ReadPayload(n)
Thread == Start \/ Refuse \/ Read \/ Written(TRUE) \/ Written(FALSE) \/ RunTask
Program == \/ \E size \in Sizes : Call(1, size)
           \/ \E op \in {8, 9} : Call(op, 4)

Next == Thread \/ Program \/ OneByteArrives \/ ClientGone

\* The io_context runs what is ready.
Spec == Init /\ [][Next]_vars /\ WF_vars(Thread)
-----------------------------------------------------------------------------
(* Unless a read got half a header, the message handler gets the messages of *)
(* the client, whole, once and in order, wherever else the bytes are cut,    *)
(* whatever the encodings of lengths and the control frames between          *)
(* fragments; never one beyond a frame too long.                             *)
MessagesAsSent == ~split => IsPrefix(ws.got, meant)

(* A connection is deleted only when no read and no write of it is           *)
(* outstanding: their handlers use its members.                              *)
NothingOutstanding == ~ws.alive => ~ws.op /\ ws.sending = <<>>

(* A connection that was opened is not deleted before its close handler was  *)
(* called, and a clean close is reported once.                               *)
CloseIsReported ==
  /\ ~ws.alive /\ ws.started => ws.closes # <<>>
  /\ \A i, j \in DOMAIN ws.closes :
       {ws.closes[i], ws.closes[j]} \subseteq {NormalClosure, NoStatusCodePresent} => i = j

(* The header of every frame that leaves tells its FIN and its size, also at *)
(* 125, 126, 65535 and 65536.                                                *)
Word(h, i) == 256 * h[i] + h[i + 1]
SizeIn(h) ==
  CASE Len(h) = 2 /\ h[2] < 126 -> h[2]
    [] Len(h) = 4 /\ h[2] = 126 -> Word(h, 3)
    [] Len(h) = 10 /\ h[2] = 127 ->
         65536 * (65536 * (65536 * Word(h, 3) + Word(h, 5)) + Word(h, 7)) + Word(h, 9)
    [] OTHER -> -1
FramesAreSized ==
  \A i \in 2 .. Len(wire) : wire[i].header[1] >= 128 /\ SizeIn(wire[i].header) = wire[i].size

(* A connection whose client is gone is deleted, unless it had refused a     *)
(* message as too long: is_reading stays set with no read outstanding.       *)
GoneIsDeleted ==
  client = "gone" ~> ~ws.alive \/ (ws.reading /\ ~ws.op /\ ws.remaining > MaxPayload)
=============================================================================
