------------------------------ MODULE MCParser ------------------------------
(* Clients for the parser: every way to frame a body, good and bad, alone and *)
(* behind or before another request, and the properties of what is parsed.   *)
EXTENDS HttpParser

Digits(ds) == Tokens("digit", ds)
Header(name, value) == [name |-> name, value |-> value]
Text(texts)   == Tokens("text", texts)
Length(ds)    == Header(ContentLength, Digits(ds))
Coding(texts) == Header(TransferEncoding, Text(texts))

Get(url, headers) == [url |-> url, headers |-> headers, data |-> <<>>, chunks |-> <<>>,
                      trailers |-> <<>>, cut |-> FALSE]
Plain(headers, data) == [Get(<<"/">>, headers) EXCEPT !.data = data]
Chunk(size, data) == [size |-> size, data |-> data, cut |-> FALSE]
Chunked(headers, chunks) == [Get(<<"/">>, headers) EXCEPT !.chunks = chunks]
CutShort(m) == [m EXCEPT !.cut = TRUE,
                         !.chunks = IF @ = <<>> THEN @ ELSE [@ EXCEPT ![Len(@)].cut = TRUE]]

MCRoutes == {<<"/">>, <<"/", "a">>}
Chunking == Coding(<<"chunked">>)

Whole ==
  {Get(<<"/", "a", "?", "b">>, <<Header(Host, Text(<<"x", "y">>))>>),
   Get(<<"/">>, <<Header(Host, Text(<<"x">>)), Header(Connection, Text(<<"close">>))>>),
   Plain(<<Length(<<2>>)>>, <<"p", "q">>),
   Plain(<<Length(<<0>>), Header(Host, Text(<<"x">>))>>, <<>>),
   Plain(<<Header(Upgrade, Text(<<"h", "2", "c">>)), Length(<<0, 1>>)>>, <<"p">>),
   Chunked(<<Chunking>>, <<Chunk(<<2>>, <<"p", "q">>), Chunk(<<0, 1>>, <<"r">>)>>),
   [Chunked(<<Coding(<<"gzip", ",", "chunked">>)>>, <<Chunk(<<1>>, <<"p">>)>>)
      EXCEPT !.trailers = <<Header(Host, Text(<<"x">>))>>]}

LastOnly ==
  {Get(<<"/">>, <<Header(Upgrade, Text(<<"websocket">>)), Header(Host, Text(<<"x">>))>>),
   Get(<<"/", "c">>, <<>>),
   Plain(<<Length(<<2>>), Chunking>>, <<"p", "q">>),
   Plain(<<Length(<<1>>), Coding(<<"gzip">>)>>, <<"p">>),
   Plain(<<Length(<<1>>), Length(<<1>>)>>, <<"p">>),
   Plain(<<Coding(<<"chunked", ",", "gzip">>)>>, <<>>)}
  \cup {CutShort(Plain(<<Length(ds)>>, <<"p">>)) :
          ds \in {<<2, 4, 9>>, <<2, 5, 0>>, <<2, 5, 5>>, <<2, 5, 6>>, <<5, 1, 3>>, <<0, 9, 9, 9>>}}
  \cup {CutShort(Chunked(<<Chunking>>, <<Chunk(<<1>>, <<"p">>), Chunk(ds, <<"q">>)>>)) :
          ds \in {<<14, 15>>, <<15, 0>>, <<15, 15>>, <<1, 0, 2>>, <<0, 0, 2>>}}

MCClients == {<<m>> : m \in Whole} \cup {<<m, n>> : m \in Whole, n \in Whole \cup LastOnly}
-----------------------------------------------------------------------------
(* Wherever the buffers of a stream end, but inside a URL or after the h of   *)
(* an Upgrade, what the handler has seen is a beginning of what the client   *)
(* meant, and at the end of the stream all of it: no body is taken for a     *)
(* request, no request for a body, and no piece of a header is lost, doubled *)
(* or put with another header.                                               *)
CutsAreInvisible ==
  ~cutURL /\ ~cutUpgrade =>
    LET meant == Meant(sent, Width, Routes)
    IN  /\ IsPrefix(delivered, meant)
        /\ rest = <<>> => delivered = meant

(* An Upgrade to h2 is treated as absent, so that the body of its request is  *)
(* read as a body (comment of http_parser_execute, s_header_value_start).    *)
IgnoredUpgradeKeepsBody ==
  ~cutURL => \A i \in DOMAIN delivered :
               i \in DOMAIN sent => delivered[i].body = Meaning(sent[i]).body

(* While a body is read, what is left of it is the number the client sent     *)
(* less what has arrived: a number near the width of the counter is refused, *)
(* it never wraps, and is never taken for the mark of an absent length.      *)
LengthIsTrue ==
  LET m == sent[Len(delivered) + 1]
      sizes == Sizes(m)
      read  == Len(parser.req.body)
  IN  ~cutUpgrade =>
      /\ parser.state = "body"  => parser.length = Announced(m) - read
      /\ parser.state = "chunk" => \E k \in DOMAIN sizes :
           /\ Total(SubSeq(sizes, 1, k)) - read = parser.length
           /\ parser.length \in 1 .. sizes[k]

=============================================================================
