----------------------------- MODULE MCWebSocket -----------------------------
(* Clients for the websocket: fragments with control frames between them, the *)
(* three encodings of a length at their limits, closing, a message too long.  *)
EXTENDS WebSocket

Frame(op, fin, enc, len) == [op |-> op, fin |-> fin, mask |-> TRUE, enc |-> enc, len |-> len]
Bare(f) == [f EXCEPT !.mask = FALSE]

MCScripts ==
  { <<Frame(1, FALSE, 7, 3), Frame(9, TRUE, 7, 2), Frame(0, TRUE, 7, 125), Frame(8, TRUE, 7, 4)>>,
    <<Frame(2, TRUE, 16, 126), Frame(1, TRUE, 7, 0), Frame(8, TRUE, 7, 0)>>,
    <<Bare(Frame(2, FALSE, 64, 200)), Frame(10, TRUE, 7, 0), Frame(0, FALSE, 7, 0),
      Frame(0, TRUE, 7, 1), Frame(1, TRUE, 7, 1)>>,
    <<Frame(1, TRUE, 7, 2), Frame(1, TRUE, 16, 201), Frame(1, TRUE, 7, 1)>>,
    <<Frame(8, TRUE, 7, 2), Frame(8, TRUE, 7, 2)>> }

\* The length is taken for an operation, the mask or the payload for a header.
MCMisreadings == { <<Bare(Frame(2, TRUE, 7, 1)), Frame(8, TRUE, 16, 201)>> }
=============================================================================
