----------------------------- MODULE HttpParser -----------------------------
(***************************************************************************)
(* The request parser of a connection: http_parser_execute                 *)
(* (crow/http_parser_merged.h) and the callbacks of HTTPParser             *)
(* (crow/parser.h).  A stream of tokens arrives cut into buffers anywhere; *)
(* what the parser keeps from one buffer to the next must make the cuts     *)
(* invisible.  A token stands for the bytes between two places where the   *)
(* parser changes state or may be cut: a piece of a URL, of the name or the *)
(* value of a header, a digit, a byte of a body, the end of a line.        *)
(* Handlers are synchronous: a message is answered, and the parser cleared, *)
(* inside on_message_complete.                                             *)
(***************************************************************************)
EXTENDS HttpMessages

CONSTANTS Clients,     \* sequences of messages, each what one client sends
          Width,       \* content_length is an unsigned number of this many bits
          Routes       \* the URLs that have a rule

ASSUME WidthAssumption == Width \in Nat /\ Width > 4

(* What a client sends is a sequence of tokens.                             *)
ASSUME ClientsAssumption ==
  \A ms \in Clients :
    LET wire == WireOf(ms)
    IN  Len(wire) \in Nat /\ wire = [i \in 1 .. Len(wire) |-> wire[i]]

VARIABLES sent,        \* the messages of the client
          parser,      \* http_parser and HTTPParser; out: what the handler was given
          rest,        \* tokens not read yet
          cutURL,      \* a buffer ended inside a URL
          cutUpgrade   \* a buffer ended after the first piece of an Upgrade value

vars == <<sent, parser, rest, cutURL, cutUpgrade>>

\* The requests handed to the handler, in order.
delivered == parser.out

ULLONG_MAX == 2 ^ Width - 1
Mod(n) == n % 2 ^ Width

EmptyRequest == [url |-> <<>>, raw |-> <<>>, headers |-> <<>>, body |-> <<>>,
                 close |-> FALSE, upgrade |-> FALSE]

\* HTTPParser::clear; http_errno is not among what it resets.
Clear(p) == [p EXCEPT !.state = "start", !.req = EmptyRequest, !.field = <<>>,
                      !.value = <<>>, !.building = 0, !.qs = 0]

NewParser == Clear([state |-> "start", errno |-> "OK", req |-> EmptyRequest,
                    field |-> <<>>, value |-> <<>>, building |-> 0, qs |-> 0,
                    flags |-> {}, te |-> FALSE, length |-> ULLONG_MAX,
                    name |-> <<>>, hstate |-> "general", mark |-> <<>>, skip |-> FALSE,
                    out |-> <<>>])

Fail(p, e) == [p EXCEPT !.errno = e]
-----------------------------------------------------------------------------
(* The callbacks of HTTPParser.                                             *)

\* on_url, and handle_url, which ends the connection when no rule matches.
OnUrl(p) ==
  LET raw == p.req.raw \o p.mark
      url == IF p.qs = 0 THEN raw ELSE SubSeq(raw, 1, p.qs - 1)
      q   == [p EXCEPT !.req.raw = raw, !.req.url = url, !.mark = <<>>]
  IN  IF url \in Routes THEN q ELSE Fail(q, "INVALID_EOF_STATE")

\* on_header_field: a field that is not the continuation of one puts the header
\* before it into the request.
OnHeaderFieldAlways(p) ==
  [p EXCEPT !.req.headers = IF p.value = <<>> THEN @ ELSE Append(@, <<p.field, p.value>>),
            !.field = p.mark, !.building = 1, !.mark = <<>>]
OnHeaderField(p) ==
  IF p.building = 1 THEN [p EXCEPT !.field = @ \o p.mark, !.mark = <<>>]
  ELSE [p EXCEPT !.req.headers = IF p.value = <<>> THEN @ ELSE Append(@, <<p.field, p.value>>),
                 !.field = p.mark, !.building = 1, !.mark = <<>>]

OnHeaderValueLast(p) == [p EXCEPT !.value = p.mark, !.building = 0, !.mark = <<>>]
OnHeaderValue(p) ==
  [p EXCEPT !.value = IF p.building = 1 THEN p.mark ELSE @ \o p.mark,
            !.building = 0, !.mark = <<>>]

OnHeadersComplete(p) ==
  [p EXCEPT !.req.headers = IF p.field = <<>> THEN @ ELSE Append(@, <<p.field, p.value>>),
            !.field = <<>>, !.value = <<>>,
            !.req.close = "CLOSE" \in p.flags, !.req.upgrade = "UPGRADE" \in p.flags]

OnMessageComplete(p) == Clear([p EXCEPT !.out = Append(@, p.req)])

\* The parser skips what follows in the buffer.  Connection::handle answers a
\* request for h2 as any other, and gives the socket away for anything else.
OnUpgrade(p) ==
  LET values == {p.req.headers[i][2] : i \in {j \in DOMAIN p.req.headers :
                                              p.req.headers[j][1] = Upgrade}}
      q == [OnMessageComplete(p) EXCEPT !.skip = TRUE]
  IN  IF \E v \in values : IsPrefix(<<"h", "2">>, v) THEN q
      ELSE [q EXCEPT !.state = "upgraded"]

\* What is marked and not yet reported when the buffer ends.
Leftover(p) ==
  IF p.errno # "OK" \/ p.mark = <<>> THEN p
  ELSE CASE p.state = "url"   -> OnUrl(p)
         [] p.state = "name"  -> OnHeaderField(p)
         [] p.state = "value" -> OnHeaderValue(p)
-----------------------------------------------------------------------------
(* http_parser_execute, one state after another.                            *)

StartReq(p, t) ==
  CASE t.type = "eol"    -> p
    [] t.type = "method" -> [p EXCEPT !.state = "url", !.flags = {}, !.te = FALSE,
                                      !.length = ULLONG_MAX]
    [] OTHER             -> Fail(p, "INVALID_METHOD")

\* parse_url_char: the query starts at the first "?", counted from the start of
\* the URL, which is known only in the buffer where it started.
QueryPoint(p, t) ==
  IF t.text = "?" /\ p.qs = 0 /\ p.req.raw = <<>> THEN Len(p.mark) + 1 ELSE p.qs

Url(p, t) ==
  CASE t.type = "url"     -> [p EXCEPT !.mark = Append(@, t.text), !.qs = QueryPoint(p, t)]
    [] t.type = "version" -> LET q == OnUrl(p) IN [q EXCEPT !.state = "name"]
    [] OTHER              -> Fail(p, "INVALID_URL")

\* The name of a header: header_state after the whole of it has matched.
HeaderStateOf(name) ==
  CASE name = ContentLength    -> "content_length"
    [] name = TransferEncoding -> "transfer_encoding"
    [] name = Connection       -> "connection"
    [] name = Upgrade          -> "upgrade"
    [] OTHER                   -> "general"

HeaderField(p, t) ==
  IF t.type = "name"
  THEN [p EXCEPT !.mark = Append(@, t.text), !.name = Append(@, t.text)]
  ELSE LET q == OnHeaderField(p)
       IN  [q EXCEPT !.state = "value", !.hstate = HeaderStateOf(p.name), !.name = <<>>,
                     !.te = @ \/ p.name = TransferEncoding]

\* A number, digit by digit, in the arithmetic of uint64_t: it is refused before
\* a step could overflow or reach the value that means "no length".
AddDigitUnchecked(p, base, digit) == [p EXCEPT !.length = Mod(@ * base + digit)]
AddDigit(p, base, digit) ==
  IF (ULLONG_MAX - base) \div base < p.length THEN Fail(p, "INVALID_CONTENT_LENGTH")
  ELSE [p EXCEPT !.length = Mod(@ * base + digit)]

\* The first piece of a value, by the header it belongs to.
HeaderValueStart(p, t, next) ==
  CASE p.hstate = "content_length" ->
         IF t.type # "digit" THEN Fail(p, "INVALID_CONTENT_LENGTH")
         ELSE IF "CONTENTLENGTH" \in p.flags THEN Fail(p, "UNEXPECTED_CONTENT_LENGTH")
         ELSE [p EXCEPT !.flags = @ \cup {"CONTENTLENGTH"}, !.length = t.text,
                        !.hstate = "content_length_num"]
    [] p.hstate = "transfer_encoding" ->
         [p EXCEPT !.hstate = IF t.text = "chunked" THEN "chunked" ELSE "coding"]
    [] p.hstate = "connection" ->
         [p EXCEPT !.hstate = IF t.text = "close" THEN "close" ELSE "general"]
    [] p.hstate = "upgrade" ->
         [p EXCEPT !.hstate = "general",
                   !.flags = IF t = Token("text", "h") /\ next = Token("text", "2") THEN @ ELSE @ \cup {"UPGRADE"}]
    [] OTHER -> p

HeaderValueMore(p, t) ==
  CASE p.hstate = "content_length_num" ->
         IF t.type = "digit" THEN AddDigit(p, 10, t.text) ELSE Fail(p, "INVALID_CONTENT_LENGTH")
    [] p.hstate \in {"chunked", "coding"} ->
         [p EXCEPT !.hstate = IF t.text = "," /\ p.hstate = "coding"
                              THEN "transfer_encoding" ELSE "coding"]
    [] p.hstate = "transfer_encoding" -> HeaderValueStart(p, t, None)
    [] OTHER -> [p EXCEPT !.hstate = "general"]

\* The end of a header: the flags that its value decides.
HeaderLws(p) ==
  [p EXCEPT !.state = "name", !.hstate = "general",
            !.flags = @ \cup (IF p.hstate = "chunked" THEN {"CHUNKED"} ELSE {})
                        \cup (IF p.hstate = "close" THEN {"CLOSE"} ELSE {})]

HeaderValue(p, t, next) ==
  IF t.type = "eol" THEN HeaderLws(OnHeaderValue(p))
  ELSE LET q == IF p.building = 1 /\ p.mark = <<>> THEN HeaderValueStart(p, t, next)
                                                   ELSE HeaderValueMore(p, t)
       IN  [q EXCEPT !.mark = Append(@, t.text)]

\* s_headers_done: how the length of the body is known.
HeadersDone(p) ==
  CASE p.req.upgrade           -> OnUpgrade(p)
    [] ~p.req.upgrade /\ "CHUNKED" \in p.flags -> [p EXCEPT !.state = "size_start"]
    [] ~p.req.upgrade /\ "CHUNKED" \notin p.flags /\ p.te
                               -> Fail(p, "INVALID_TRANSFER_ENCODING")
    [] OTHER -> IF p.length \in {0, ULLONG_MAX} THEN OnMessageComplete(p)
                ELSE [p EXCEPT !.state = "body"]

HeadersAlmostDone(p) ==
  IF "TRAILING" \in p.flags THEN OnMessageComplete(p)
  ELSE IF p.te /\ "CONTENTLENGTH" \in p.flags THEN Fail(p, "UNEXPECTED_CONTENT_LENGTH")
  ELSE HeadersDone(OnHeadersComplete(p))

\* One byte of a body or of a chunk.
OneByte(p, t, then) ==
  LET q == [p EXCEPT !.length = @ - 1, !.req.body = Append(@, t.text)]
  IN  IF q.length # 0 THEN q
      ELSE IF then = "done" THEN OnMessageComplete(q) ELSE [q EXCEPT !.state = then]

ChunkSizeStart(p, t) ==
  IF t.type = "hex" THEN [p EXCEPT !.length = t.text, !.state = "size"]
                    ELSE Fail(p, "INVALID_CHUNK_SIZE")

ChunkSize(p, t) ==
  CASE t.type = "hex" -> AddDigit(p, 16, t.text)
    [] t.type = "eol" -> IF p.length = 0
                         THEN [p EXCEPT !.flags = @ \cup {"TRAILING"}, !.state = "name"]
                         ELSE [p EXCEPT !.state = "chunk"]
    [] OTHER          -> Fail(p, "INVALID_CHUNK_SIZE")

ChunkDataDone(p, t) == IF t.type = "eol" THEN [p EXCEPT !.state = "size_start"]
                                         ELSE Fail(p, "STRICT")

\* What is skipped after an upgrade is an error to feed().
Step(p, t, next) ==
  IF p.errno # "OK" THEN p
  ELSE IF p.skip THEN Fail(p, "UNPARSED")
  ELSE CASE p.state = "start"      -> StartReq(p, t)
         [] p.state = "url"        -> Url(p, t)
         [] p.state = "name"       -> IF t.type = "eol" /\ p.name = <<>>
                                      THEN HeadersAlmostDone(p) ELSE HeaderField(p, t)
         [] p.state = "value"      -> HeaderValue(p, t, next)
         [] p.state = "body"       -> OneByte(p, t, "done")
         [] p.state = "size_start" -> ChunkSizeStart(p, t)
         [] p.state = "size"       -> ChunkSize(p, t)
         [] p.state = "chunk"      -> OneByte(p, t, "chunk_end")
         [] p.state = "chunk_end"  -> ChunkDataDone(p, t)

Execute(p, buffer) ==
  LET after[i \in 0 .. Len(buffer)] ==
        IF i = 0 THEN p
        ELSE Step(after[i - 1], buffer[i], IF i < Len(buffer) THEN buffer[i + 1] ELSE None)
  IN  Leftover(after[Len(buffer)])
-----------------------------------------------------------------------------
Init ==
  /\ sent \in Clients /\ rest = WireOf(sent) /\ parser = NewParser
  /\ cutURL = FALSE /\ cutUpgrade = FALSE

\* feed: the next buffer, whose end may be anywhere.
Feed(n) ==
  /\ parser.errno = "OK" /\ parser.state # "upgraded" /\ n \in 1 .. Len(rest)
  /\ LET p == Execute(parser, SubSeq(rest, 1, n))
     IN  /\ parser' = [p EXCEPT !.skip = FALSE]
         /\ cutURL' = (cutURL \/ (n < Len(rest) /\ rest[n].type = "url"
                                                /\ p.state \in {"url", "name"}))
         /\ cutUpgrade' = (cutUpgrade \/ (p.state = "value" /\ rest[n] = Token("text", "h")))
  /\ rest' = SubSeq(rest, n + 1, Len(rest)) /\ UNCHANGED sent

Next == \E n \in DOMAIN rest : Feed(n)

Spec == Init /\ [][Next]_vars
-----------------------------------------------------------------------------
(* Wherever the buffers end, but inside a URL or after the h of an Upgrade,  *)
(* the handler has been given what it would have been given had all that     *)
(* was read come in one buffer: no piece of a header, no digit and no byte   *)
(* is lost, doubled or joined to the wrong place because http_parser_execute *)
(* was left and entered again.  What one buffer holds behind a request that  *)
(* asks for an upgrade is not parsed, another buffer may be.                 *)
Consumed == SubSeq(WireOf(sent), 1, Len(WireOf(sent)) - Len(rest))

CutsChangeNothing ==
  ~cutURL /\ ~cutUpgrade =>
    LET once == Execute(NewParser, Consumed)
    IN  IsPrefix(once.out, delivered) /\ (once.skip \/ delivered = once.out)
=============================================================================
