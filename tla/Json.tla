-------------------------------- MODULE Json --------------------------------
(***************************************************************************)
(* crow::json (crow/json.h): the writer, escape and dump, and the reader,   *)
(* which decodes a copy of the body in place.  A value that was read is a   *)
(* piece of that buffer; its escapes are undone on its first reading, and   *)
(* the byte before it, once its quote, says whether there are any.  Bytes   *)
(* are numbers.                                                            *)
(***************************************************************************)
EXTENDS Integers, Sequences, SequencesExt, TLC

CONSTANT MaxDepth   \* how deep containers may be nested (10000), counted as the code does

VARIABLES text,   \* the body that arrives
          data,   \* the copy that load made of it
          root    \* the value that load returned

Quote == 34
Backslash == 92
Open == [List |-> 91, Object |-> 123]
Close == [List |-> 93, Object |-> 125]
Comma == 44
Colon == 58
Spaces == {32, 9, 13, 10}
Literal == [True |-> <<116, 114, 117, 101>>, False |-> <<102, 97, 108, 115, 101>>,
            Null |-> <<110, 117, 108, 108>>]

At(buf, i) == IF i \in DOMAIN buf THEN buf[i] ELSE 0
-----------------------------------------------------------------------------
(* The writer.  A value is [t, s], [t, l] or, for the members of an object, *)
(* a list of values with their keys.                                       *)
ToHex(n) == IF n < 10 THEN 48 + n ELSE 97 + n - 10
Letter == [b |-> 98, f |-> 102, n |-> 110, r |-> 114, t |-> 116, u |-> 117]
Short(c) ==
  CASE c = Quote -> Quote       [] c = Backslash -> Backslash
    [] c = 10 -> Letter.n       [] c = 8 -> Letter.b
    [] c = 12 -> Letter.f       [] c = 13 -> Letter.r
    [] c = 9 -> Letter.t        [] OTHER -> 0
Escaped(c) ==
  IF Short(c) # 0 THEN <<Backslash, Short(c)>>
  ELSE IF c < 32 THEN <<Backslash, Letter.u, 48, 48, ToHex(c \div 16), ToHex(c % 16)>> ELSE <<c>>
Escape(str) == FlattenSeq([i \in DOMAIN str |-> Escaped(str[i])])
DumpString(str) == <<Quote>> \o Escape(str) \o <<Quote>>

Joined(parts) == FlattenSeq([i \in DOMAIN parts |-> IF i = 1 THEN parts[i] ELSE <<Comma>> \o parts[i]])

\* An unordered map gives its members in an order of its own; two orders are tried.
RECURSIVE Dump(_, _)
Dump(v, order) ==
  LET item == [i \in DOMAIN v.l |->
                 IF v.t = "List" THEN Dump(v.l[i], order)
                 ELSE DumpString(v.l[i].key) \o <<Colon>> \o Dump(v.l[i], order)]
  IN  CASE v.t \in {"List", "Object"} ->
             <<Open[v.t]>> \o Joined(IF order = "reversed" /\ v.t = "Object" THEN Reverse(item) ELSE item)
               \o <<Close[v.t]>>
        [] v.t = "String" -> DumpString(v.s)
        [] v.t = "Number" -> v.s
        [] OTHER -> Literal[v.t]
-----------------------------------------------------------------------------
(* rvalue::unescape: in place.                                              *)
FromHex(c) == IF c >= 97 THEN c - 97 + 10 ELSE IF c >= 65 THEN c - 65 + 10 ELSE c - 48
Plain(c) ==
  CASE c = Letter.b -> 8 [] c = Letter.f -> 12 [] c = Letter.n -> 10
    [] c = Letter.r -> 13 [] c = Letter.t -> 9 [] OTHER -> c
Utf8(code) ==
  IF code >= 2048 THEN <<224 + code \div 4096, 128 + ((code \div 64) % 64), 128 + (code % 64)>>
  ELSE IF code >= 128 THEN <<192 + code \div 64, 128 + (code % 64)>> ELSE <<code>>
CodeAt(s, i) == FromHex(s[i]) * 4096 + FromHex(s[i + 1]) * 256 + FromHex(s[i + 2]) * 16 + FromHex(s[i + 3])

RECURSIVE Unescaped(_)
Unescaped(s) ==
  CASE s = <<>> -> <<>>
    [] s # <<>> /\ s[1] # Backslash -> <<s[1]>> \o Unescaped(Tail(s))
    [] s # <<>> /\ s[1] = Backslash /\ s[2] # Letter.u ->
         <<Plain(s[2])>> \o Unescaped(SubSeq(s, 3, Len(s)))
    [] OTHER -> Utf8(CodeAt(s, 3)) \o Unescaped(SubSeq(s, 7, Len(s)))

\* The buffer once u has replaced the string that starts at from.
InPlace(buf, from, u) ==
  LET to == from + Len(u)
  IN  [buf |-> [i \in DOMAIN buf |-> CASE i \in {from - 1, to} -> 0
                                       [] i >= from /\ i < to -> u[i - from + 1]
                                       [] OTHER -> buf[i]],
       end |-> to]

\* What s() leaves in the buffer for the string [from, end): the buffer and the new end.
Unescape(buf, from, end) ==
  IF buf[from - 1] = 0 THEN [buf |-> buf, end |-> end]
                       ELSE InPlace(buf, from, Unescaped(SubSeq(buf, from, end - 1)))
-----------------------------------------------------------------------------
(* The Parser of load_nocopy_internal.  p is where it stands: its buffer,   *)
(* its position and the value it has read, Bad if it gave up.               *)
Bad == [t |-> "error"]
Fail(p) == [p EXCEPT !.v = Bad]
Consume(p, c) == At(p.buf, p.pos) = c
Past(p, n) == [p EXCEPT !.pos = @ + n]
RECURSIVE WsSkip(_), StringEnd(_, _, _), NumberEnd(_, _, _)
WsSkip(p) == IF At(p.buf, p.pos) \in Spaces THEN WsSkip(Past(p, 1)) ELSE p

IsHex(c) == c \in 48..57 \cup 65..70 \cup 97..102
MayFollowBackslash == {Quote, Backslash, 47} \cup {Letter[x] : x \in {"b", "f", "n", "r", "t"}}

\* The closing quote of the string that goes on at i (0: there is none), and whether
\* there are escapes before it.
StringEnd(buf, i, escapes) ==
  LET c == At(buf, i)
      d == At(buf, i + 1)
  IN  CASE c = Quote -> [end |-> i, escapes |-> escapes]
        [] c = Backslash /\ d = Letter.u ->
             IF \A k \in 2..5 : IsHex(At(buf, i + k)) THEN StringEnd(buf, i + 6, TRUE)
             ELSE [end |-> 0, escapes |-> TRUE]
        [] c = Backslash /\ d # Letter.u ->
             IF d \in MayFollowBackslash THEN StringEnd(buf, i + 2, TRUE)
             ELSE [end |-> 0, escapes |-> TRUE]
        [] c = 0 -> [end |-> 0, escapes |-> escapes]
        [] OTHER -> StringEnd(buf, i + 1, escapes)

StringFound(p, found) ==
  IF found.end = 0 THEN Fail(p)
  ELSE [pos |-> found.end + 1,
        buf |-> [p.buf EXCEPT ![found.end] = 0, ![p.pos] = IF found.escapes THEN 1 ELSE 0],
        v |-> [t |-> "String", from |-> p.pos + 1, end |-> found.end]]
DecodeString(p) ==
  IF Consume(p, Quote) THEN StringFound(p, StringEnd(p.buf, p.pos + 1, FALSE)) ELSE Fail(p)

NextNumberState(state, c) ==
  CASE c \in 48..57 /\ state \in {"Minus", "AfterMinus"} -> IF c = 48 THEN "ZeroFirst" ELSE "Digits"
    [] c \in 48..57 /\ state \in {"Digits", "DigitsAfterPoints"} -> state
    [] c \in 48..57 /\ state \in {"E", "DigitsAfterE"} -> "DigitsAfterE"
    [] c = 46 /\ state \in {"ZeroFirst", "Digits"} -> "DigitsAfterPoints"
    [] c = 45 /\ state = "Minus" -> "AfterMinus"
    [] c \in {43, 45} /\ state = "E" -> "DigitsAfterE"
    [] c \in {69, 101} /\ state \in {"Digits", "DigitsAfterPoints"} -> "E"
    [] OTHER -> "Invalid"
NumberEnd(buf, i, state) ==
  IF At(buf, i) \in 48..57 \cup {43, 45, 46, 69, 101} /\ state # "Invalid"
  THEN NumberEnd(buf, i + 1, NextNumberState(state, At(buf, i)))
  ELSE IF state \in {"ZeroFirst", "Digits", "DigitsAfterPoints", "DigitsAfterE"} THEN i ELSE 0
DecodeNumber(p) ==
  LET end == NumberEnd(p.buf, p.pos, "Minus")
  IN  IF end = 0 THEN Fail(p)
      ELSE [p EXCEPT !.pos = end, !.v = [t |-> "Number", from |-> p.pos, end |-> end]]

DecodeLiteral(p, t) ==
  IF \A i \in DOMAIN Literal[t] : At(p.buf, p.pos + i - 1) = Literal[t][i]
  THEN [Past(p, Len(Literal[t])) EXCEPT !.v = [t |-> t]] ELSE Fail(p)

\* decode_list and decode_object differ in the keys; DecodeItems is their loop.
RECURSIVE DecodeValue(_, _), DecodeItems(_, _, _, _)
Container(t, items) == [t |-> t, l |-> items, cached |-> FALSE]
DecodeContainer(p, t, depth) ==
  LET in == WsSkip(Past(p, 1))
  IN  IF depth > MaxDepth THEN Fail(p)
      ELSE IF Consume(in, Close[t]) THEN [Past(in, 1) EXCEPT !.v = Container(t, <<>>)]
      ELSE DecodeItems(in, t, depth, <<>>)

\* The key of a member, with its escapes undone at once.
PlainKey(p, plain) ==
  WsSkip([p EXCEPT !.buf = plain.buf, !.v = [from |-> @.from, end |-> plain.end]])
KeyRead(str) ==
  IF str.v = Bad THEN str
  ELSE IF ~Consume(WsSkip(str), Colon) THEN Fail(str)
  ELSE PlainKey(Past(WsSkip(str), 1), Unescape(str.buf, str.v.from, str.v.end))

\* The end of the container, or a comma and the next item.
NextItem(p, t, depth, items) ==
  IF Consume(p, Close[t]) THEN [Past(p, 1) EXCEPT !.v = Container(t, items)]
  ELSE IF ~Consume(p, Comma) THEN Fail(p)
  ELSE DecodeItems(WsSkip(Past(p, 1)), t, depth, items)
ItemRead(read, key, t, depth, items) ==
  IF read.v = Bad THEN read ELSE NextItem(WsSkip(read), t, depth, Append(items, read.v @@ key))
DecodeMember(p, depth, items) ==
  IF p.v = Bad THEN p
  ELSE ItemRead(DecodeValue(p, depth + 1), [key |-> p.v], "Object", depth, items)
DecodeItems(p, t, depth, items) ==
  IF t = "Object" THEN DecodeMember(KeyRead(DecodeString(p)), depth, items)
  ELSE ItemRead(DecodeValue(p, depth + 1), <<>>, "List", depth, items)

DecodeValue(p, depth) ==
  CASE Consume(p, Open.List)   -> DecodeContainer(p, "List", depth + 1)
    [] Consume(p, Open.Object) -> DecodeContainer(p, "Object", depth + 1)
    [] Consume(p, Quote)       -> DecodeString(p)
    [] Consume(p, 116)         -> DecodeLiteral(p, "True")
    [] Consume(p, 102)         -> DecodeLiteral(p, "False")
    [] Consume(p, 110)         -> DecodeLiteral(p, "Null")
    [] OTHER                   -> DecodeNumber(p)

ParsePrefix(p) == WsSkip(DecodeValue(WsSkip(p), 0))
AtEnd(p) == IF At(p.buf, p.pos) # 0 THEN Fail(p) ELSE p
Parse(p) == AtEnd(WsSkip(DecodeValue(WsSkip(p), 0)))

\* load: the body is copied, with a zero behind it.
NotLoaded == [t |-> "none"]
Load ==
  LET read == Parse([buf |-> Append(text, 0), pos |-> 1, v |-> Bad])
  IN  /\ root = NotLoaded
      /\ data' = read.buf /\ root' = read.v
      /\ UNCHANGED text
-----------------------------------------------------------------------------
(* The value that was read.  A path has a step for each container: the key  *)
(* of a member, or <<i>> for the i-th item of a list.                       *)
Bytes(b, piece) == SubSeq(b, piece.from, piece.end - 1)
KeyOf(member) == Bytes(data, member.key)

\* std::lexicographical_compare of chars, which are signed.
Char(b) == IF b < 128 THEN b ELSE b - 256
Less(k1, k2) ==
  \/ \E n \in DOMAIN k1 \cap DOMAIN k2 :
       /\ SubSeq(k1, 1, n - 1) = SubSeq(k2, 1, n - 1) /\ Char(k1[n]) < Char(k2[n])
  \/ Len(k1) < Len(k2) /\ SubSeq(k2, 1, Len(k1)) = k1

\* The members are put in order by the first has or operator[], once.  Two members with
\* one key would come in either order: the documents have none.
Unordered(v) == [v EXCEPT !.cached = TRUE]
Ordered(v) ==
  IF v.t = "List" \/ v.cached THEN v
  ELSE [v EXCEPT !.cached = TRUE, !.l = SortSeq(@, LAMBDA x, y : Less(KeyOf(x), KeyOf(y)))]

\* std::lower_bound: halves what is left until nothing is.
RECURSIVE LowerBound(_, _, _, _)
LowerBound(l, key, first, count) ==
  LET half == count \div 2
  IN  IF count = 0 THEN first
      ELSE IF Less(KeyOf(l[first + half]), key)
      THEN LowerBound(l, key, first + half + 1, count - half - 1)
      ELSE LowerBound(l, key, first, half)

\* has and operator[]: where the member with the key is, or 0.
Lookup(v, key) ==
  LET i == LowerBound(v.l, key, 1, Len(v.l))
  IN  IF i <= Len(v.l) /\ KeyOf(v.l[i]) = key THEN i ELSE 0
IndexOf(v, step) == IF v.t = "List" THEN step[1] ELSE Lookup(v, step)

\* The value at a path, and the root with x in its place.
Absent == [t |-> "absent"]
RECURSIVE Follow(_, _), With(_, _, _)
Follow(v, path) ==
  IF path = <<>> THEN v
  ELSE LET w == Ordered(v)
           i == IndexOf(w, path[1])
       IN  IF i = 0 THEN Absent ELSE Follow(w.l[i], Tail(path))
With(v, path, x) ==
  IF path = <<>> THEN x
  ELSE LET w == Ordered(v)
           i == IndexOf(w, path[1])
       IN  IF i = 0 THEN w ELSE [w EXCEPT !.l[i] = With(@, Tail(path), x)]

\* has, and operator[] that finds nothing and throws or is not asked for a string.
Has(path) == root' = With(root, path, Follow(root, path)) /\ UNCHANGED <<text, data>>

\* s(): what the string at a path is, and its escapes undone.
PlainBytes(plain, from) == Bytes(plain.buf, [from |-> from, end |-> plain.end])
StringOf(v) == PlainBytes(Unescape(data, v.from, v.end), v.from)
StringAt(path) == StringOf(Follow(root, path))
OldEnd(v, end) == v
WithEnd(v, end) == [v EXCEPT !.end = end]
S(path) ==
  LET v == Follow(root, path)
      plain == Unescape(data, v.from, v.end)
  IN  /\ v.t = "String"
      /\ data' = plain.buf /\ root' = With(root, path, WithEnd(v, plain.end))
      /\ UNCHANGED text

\* wvalue(const rvalue&): a value to write, with every string of the one that was read.
RECURSIVE Wvalue(_)
Wvalue(v) ==
  CASE v.t = "String" -> [t |-> "String", s |-> StringOf(v)]
    [] v.t = "Number" -> [t |-> "Number", s |-> Bytes(data, v)]
    [] v.t = "List" -> [t |-> "List", l |-> [i \in DOMAIN v.l |-> Wvalue(v.l[i])]]
    [] v.t = "Object" -> [t |-> "Object", l |-> [i \in DOMAIN v.l |->
                             Wvalue(v.l[i]) @@ [key |-> Bytes(data, v.l[i].key)]]]
    [] OTHER -> [t |-> v.t]
=============================================================================
