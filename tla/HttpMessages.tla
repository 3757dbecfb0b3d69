---------------------------- MODULE HttpMessages ----------------------------
(***************************************************************************)
(* What a client sends, and what it means by it: the reference for the     *)
(* parser.  A message is a record; Wire is the tokens it is sent as.  A    *)
(* token stands for the bytes between two places where the parser changes  *)
(* state or where it matters that a buffer ends: a piece of a URL, of the  *)
(* name or of the value of a header, a digit, a byte, the end of a line.   *)
(***************************************************************************)
EXTENDS Integers, Sequences, SequencesExt, FiniteSetsExt

Token(type, text) == [type |-> type, text |-> text]
None == Token("none", "")
Eol  == <<Token("eol", "")>>
Tokens(type, texts) == [i \in DOMAIN texts |-> Token(type, texts[i])]

\* The names of headers, each in two pieces.
ContentLength    == <<"content-", "length">>
TransferEncoding == <<"transfer-", "encoding">>
Connection       == <<"connec", "tion">>
Upgrade          == <<"up", "grade">>
Host             == <<"ho", "st">>

HeaderLine(h) == Tokens("name", h.name) \o <<Token("colon", "")>> \o h.value \o Eol
ChunkOf(c)    == Tokens("hex", c.size) \o Eol \o Tokens("byte", c.data)
                   \o (IF c.cut THEN <<>> ELSE Eol)

Concat(s) == LET upto[i \in 0 .. Len(s)] == IF i = 0 THEN <<>> ELSE upto[i - 1] \o s[i]
             IN  upto[Len(s)]
Lines(hs)  == Concat([i \in DOMAIN hs |-> HeaderLine(hs[i])])
Chunks(cs) == Concat([i \in DOMAIN cs |-> ChunkOf(cs[i])])

\* A message that is cut is the last one: its client has hung up.
Wire(m) ==
  <<Token("method", "")>> \o Tokens("url", m.url) \o <<Token("version", "")>>
    \o Lines(m.headers) \o Eol \o Tokens("byte", m.data) \o Chunks(m.chunks)
    \o (IF m.chunks = <<>> \/ m.cut THEN <<>> ELSE Tokens("hex", <<0>>) \o Eol \o Lines(m.trailers) \o Eol)
WireOf(ms) == Concat([i \in DOMAIN ms |-> Wire(ms[i])])
-----------------------------------------------------------------------------
(* What a message means.                                                    *)
Number(digits, base) ==
  LET upto[i \in 0 .. Len(digits)] == IF i = 0 THEN 0 ELSE upto[i - 1] * base + digits[i]
  IN  upto[Len(digits)]

Texts(tokens)      == [i \in DOMAIN tokens |-> tokens[i].text]
Named(m, name)     == SelectSeq(m.headers, LAMBDA h : h.name = name)
Values(m, name)    == [i \in DOMAIN Named(m, name) |-> Texts(Named(m, name)[i].value)]
IsUpgrade(m)       == \E i \in DOMAIN Values(m, Upgrade) : Values(m, Upgrade)[i] = <<"websocket">>
IsChunked(m)       == \E i \in DOMAIN Values(m, TransferEncoding) :
                         Last(Values(m, TransferEncoding)[i]) = "chunked"
Sizes(m)           == [i \in DOMAIN m.chunks |-> Number(m.chunks[i].size, 16)]
Total(sizes)       == FoldSeq(+, 0, sizes)
Announced(m)       == IF Values(m, ContentLength) = <<>> THEN 0
                      ELSE Number(Values(m, ContentLength)[1], 10)

\* One way to know where a message ends, and one that fits in a width of bits.
WellFramed(m, width) ==
  /\ Len(Values(m, ContentLength)) <= 1
  /\ Values(m, ContentLength) = <<>> \/ Values(m, TransferEncoding) = <<>>
  /\ Values(m, TransferEncoding) = <<>> \/ IsChunked(m)
  /\ Announced(m) < 2 ^ width - 1
  /\ \A i \in DOMAIN Sizes(m) : Sizes(m)[i] < 2 ^ width - 1

Path(url) == LET marks == {i \in DOMAIN url : url[i] = "?"}
             IN  IF marks = {} THEN url ELSE SubSeq(url, 1, Min(marks) - 1)
Body(m)   == IF IsUpgrade(m) THEN <<>>
             ELSE m.data \o Concat([i \in DOMAIN m.chunks |-> m.chunks[i].data])
Meaning(m) ==
  [url |-> Path(m.url), raw |-> m.url, body |-> Body(m),
   headers |-> [i \in DOMAIN m.headers |-> <<m.headers[i].name, Texts(m.headers[i].value)>>],
   close |-> \E i \in DOMAIN Values(m, Connection) : Values(m, Connection)[i] = <<"close">>,
   upgrade |-> IsUpgrade(m)]

\* The requests that a handler must see: those before the first that is not a
\* whole one, is not framed in one way, or leaves HTTP.
Meant(ms, width, routes) ==
  LET Bad(i)  == ms[i].cut \/ ~WellFramed(ms[i], width) \/ Path(ms[i].url) \notin routes
      ends    == {i \in DOMAIN ms : Bad(i)}
      leaves  == {i \in DOMAIN ms : IsUpgrade(ms[i])}
      n       == Min({Len(ms)} \cup {i - 1 : i \in ends} \cup leaves)
  IN  [i \in 1 .. n |-> Meaning(ms[i])]
=============================================================================
