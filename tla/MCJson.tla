------------------------------- MODULE MCJson -------------------------------
(***************************************************************************)
(* A client that writes a document as JSON allows, or nearly, whole, cut    *)
(* short or with something behind it; a handler that reads it in any order  *)
(* and as often as it likes; and a program that writes what it read and     *)
(* sends it on.                                                            *)
(***************************************************************************)
EXTENDS Json, FiniteSetsExt

VARIABLES meant,   \* the document
          extent,  \* the text: "whole", "cut", "beyond" its end, or whole "to a zero"
          got      \* the last that was looked up: its path, whether it was found, and
                   \* its bytes if it was read as a string

vars == <<text, data, root, meant, extent, got>>

(* The characters of the documents and the bytes they are in UTF-8.         *)
Utf8Table == [c \in 0..127 |-> <<c>>] @@
  (128 :> <<194, 128>>) @@ (233 :> <<195, 169>>) @@ (2047 :> <<223, 191>>) @@
  (2048 :> <<224, 160, 128>>) @@ (8364 :> <<226, 130, 172>>) @@ (65535 :> <<239, 191, 191>>)
BytesOf(chars) == FlattenSeq([i \in DOMAIN chars |-> Utf8Table[chars[i]]])

Str(chars) == [t |-> "String", s |-> chars]
Num(digits) == [t |-> "Number", s |-> digits]
Obj(members) == [t |-> "Object", l |-> members]
List(items) == [t |-> "List", l |-> items]
As(key, v) == v @@ [key |-> key]
Name == <<110>>

(* Names with quotes, backslashes, a backslash before a letter, control     *)
(* characters and the first and last characters of each length in UTF-8;    *)
(* bodies of add_node and remove_node; containers to the depth allowed.     *)
Documents ==
  {Obj(<<As(Name, Str(<<97, 34, 92>>)), As(<<112>>, [t |-> "Null"])>>),
   Obj(<<As(Name, Str(<<92, 110, 10>>)), As(<<112>>, Num(<<45, 49, 50>>))>>),
   Obj(<<As(<<34, 47>>, Str(<<0, 31>>)), As(<<92, 92>>, Str(<<92, 117, 48>>))>>),
   List(<<Str(<<127, 128>>), Str(<<2047, 2048, 65535>>), Str(<<>>)>>),
   List(<<List(<<>>), Num(<<48>>), Obj(<<>>), [t |-> "True"]>>),
   List(<<List(<<Obj(<<As(Name, Str(<<233>>))>>)>>)>>),
   List(<<List(<<List(<<List(<<>>)>>)>>)>>),
   Obj(<<As(<<110, 97>>, Num(<<49>>)), As(<<233>>, Str(<<34>>)), As(Name, Str(<<>>)),
         As(<<>>, [t |-> "False"])>>),
   Str(<<92, 92, 8364>>)}

(* Every text of up to NumberLength of the characters of numbers.           *)
NumberLength == 5
Numerals == UNION {[1 .. n -> {48, 49, 46, 45, 43, 101}] : n \in 1 .. NumberLength}

RECURSIVE Nesting(_)
Nesting(v) == IF v.t \notin {"List", "Object"} THEN 0
              ELSE 1 + Max({0} \cup {Nesting(v.l[i]) : i \in DOMAIN v.l})

(* The ways to write a string: as it is, with the short escapes, with \u    *)
(* for everything, or raw, with control characters as they are, which JSON  *)
(* forbids; and a space between the tokens or none.                        *)
Styles == {"plain", "short", "hex", "raw"} \X {<<>>, <<32>>, <<13, 10>>}
Hex(n) == IF n < 10 THEN 48 + n ELSE 65 + n - 10
HexEscape(c) == <<92, 117, Hex(c \div 4096), Hex((c \div 256) % 16), Hex((c \div 16) % 16), Hex(c % 16)>>
CharText(c, style) ==
  CASE style = "hex" \/ c = 0 \/ (c < 32 /\ c # 10 /\ style # "raw") -> HexEscape(c)
    [] style \in {"plain", "short"} /\ c = 10 -> <<92, 110>>
    [] style # "hex" /\ (c \in {34, 92} \/ (style = "short" /\ c = 47)) -> <<92, c>>
    [] OTHER -> Utf8Table[c]
StringText(chars, style) ==
  <<34>> \o FlattenSeq([i \in DOMAIN chars |-> CharText(chars[i], style)]) \o <<34>>

RECURSIVE TextOf(_, _, _)
TextOf(v, style, sp) ==
  CASE v.t \in {"List", "Object"} ->
         sp \o <<Open[v.t]>> \o sp
           \o Joined([i \in DOMAIN v.l |->
                (IF v.t = "Object" THEN sp \o StringText(v.l[i].key, style) \o sp \o <<58>> \o sp ELSE sp)
                   \o TextOf(v.l[i], style, sp) \o sp])
           \o <<Close[v.t]>> \o sp
    [] v.t = "String" -> StringText(v.s, style)
    [] v.t = "Number" -> v.s
    [] OTHER -> Literal[v.t]

RECURSIVE Paths(_), MeantAt(_, _)
Step(d, i) == IF d.t = "List" THEN <<i>> ELSE BytesOf(d.l[i].key)
Paths(d) == IF d.t \notin {"List", "Object"} THEN {<<>>}
            ELSE {<<>>} \cup {<<Step(d, i)>> \o p : <<i, p>> \in
                   UNION {{i} \X Paths(d.l[i]) : i \in DOMAIN d.l}}
MeantAt(d, path) ==
  IF path = <<>> THEN d
  ELSE MeantAt(d.l[CHOOSE i \in DOMAIN d.l : Step(d, i) = path[1]], Tail(path))

\* What a handler asks for: what there is, and a key that no object has.
Asked(d) == Paths(d) \cup
  {Append(path, <<110, 98>>) : path \in {q \in Paths(d) : MeantAt(d, q).t = "Object"}}

None == [path |-> <<>>, found |-> TRUE, read |-> FALSE, bytes |-> <<>>]
Sent(d, t, e) ==
  /\ meant' = d /\ text' = t /\ extent' = e
  /\ root' = NotLoaded /\ data' = <<>> /\ got' = None
Send(d, style) ==
  LET all == TextOf(d, style[1], style[2])
  IN  \/ Sent(d, all, "whole")
      \/ \E n \in 0 .. Len(all) - Len(style[2]) - 1 :
           \E rest \in {<<>>, <<0>> \o SubSeq(all, n + 1, Len(all))} :
             Sent(d, SubSeq(all, 1, n) \o rest, "cut")
      \/ \E c \in {Quote, Comma, 49, Close.Object} :
           Sent(d, Append(all, c), "beyond") \/ Sent(d, all \o <<0, c>>, "to a zero")
Init ==
  /\ meant = [t |-> "Null"] /\ text = Literal.Null /\ extent = "whole"
  /\ data = <<>> /\ root = NotLoaded /\ got = None

Loaded == root \notin {NotLoaded, Bad}
Look(path) ==
  /\ Has(path)
  /\ got' = [None EXCEPT !.path = path, !.found = Follow(root, path) # Absent]
Reader(path) ==
  /\ S(path)
  /\ got' = [path |-> path, found |-> TRUE, read |-> TRUE, bytes |-> StringAt(path)]

(* What was read is written and sent; the numbers of Documents are written  *)
(* as they were.                                                           *)
Rewrite(order) ==
  /\ Loaded /\ meant \in Documents
  /\ Sent(meant, Dump(Wvalue(root), order), "whole")

Next ==
  \/ \E d \in Documents, style \in Styles : meant.t = "Null" /\ Send(d, style)
  \/ \E n \in Numerals : meant.t = "Null" /\ Sent(List(<<Num(n)>>), <<91>> \o n \o <<93>>, "whole")
  \/ Load /\ UNCHANGED <<meant, extent, got>>
  \/ \E path \in Asked(meant) : Loaded /\ (Look(path) \/ Reader(path)) /\ UNCHANGED <<meant, extent>>
  \/ \E order \in {"kept", "reversed"} : Rewrite(order)

Spec == Init /\ [][Next]_vars
-----------------------------------------------------------------------------
(* The numbers of JSON: an integer, a fraction and an exponent.             *)
Digits(s) == s # <<>> /\ \A i \in DOMAIN s : s[i] \in 48 .. 57
After(s, signs) == IF s # <<>> /\ s[1] \in signs THEN Tail(s) ELSE s
IsInteger(s) == LET d == After(s, {45}) IN Digits(d) /\ (d[1] = 48 => Len(d) = 1)
IsFraction(s) == s = <<>> \/ (s[1] = 46 /\ Digits(Tail(s)))
IsExponent(s) == s = <<>> \/ (s[1] = 101 /\ Digits(After(Tail(s), {43, 45})))
Parts(s) == {<<SubSeq(s, 1, i), SubSeq(s, i + 1, j), SubSeq(s, j + 1, Len(s))>> :
               i \in 0 .. Len(s), j \in 0 .. Len(s)}
IsNumber(s) ==
  \E p \in Parts(s) :
    /\ s = p[1] \o p[2] \o p[3] /\ IsInteger(p[1]) /\ IsFraction(p[2]) /\ IsExponent(p[3])

(* What the parser takes for a number beyond that, a point or the sign of   *)
(* an exponent with no digits behind it; and what it refuses of it, an      *)
(* exponent that comes directly after a zero.                               *)
LacksDigits(s) ==
  \E p \in Parts(s) :
    /\ s = p[1] \o p[2] \o p[3] /\ IsInteger(p[1])
    /\ IsFraction(p[2]) \/ p[2] = <<46>>
    /\ IsExponent(p[3]) \/ p[3] \in {<<101, 43>>, <<101, 45>>}
ZeroAndExponent(s) == \E i \in DOMAIN s : s[i] = 101 /\ SubSeq(s, 1, i - 1) \in {<<48>>, <<45, 48>>}

RECURSIVE NumbersOf(_)
NumbersOf(d) ==
  IF d.t = "Number" THEN {d.s}
  ELSE IF d.t \in {"List", "Object"} THEN UNION {NumbersOf(d.l[i]) : i \in DOMAIN d.l} ELSE {}

(* A text is loaded exactly when it is one whole document, not nested too   *)
(* deep: a body that was cut anywhere, that goes on after its end, or that  *)
(* has anything for a number, is refused and never half read.  But a zero   *)
(* byte ends the text, whatever is behind it; control characters may stand  *)
(* in a string as they are; digits may lack behind a point or the sign of   *)
(* an exponent; and 0e5 is refused, a number of JSON.                       *)
OnlyWholeTexts ==
  root # NotLoaded =>
    (Loaded <=> /\ extent \in {"whole", "to a zero"}
                /\ 2 * Nesting(meant) - 1 <= MaxDepth
                /\ \A s \in NumbersOf(meant) :
                     (IsNumber(s) \/ LacksDigits(s)) /\ ~ZeroAndExponent(s))

(* However the client wrote a string, whichever strings were read and keys  *)
(* looked up before it and however often, and however often the program     *)
(* wrote the document and read it again: a reading gives the bytes of the   *)
(* string that was meant, and a key is found if and only if it is there,    *)
(* although the first lookup puts the members in another order.             *)
RECURSIVE Agrees(_, _)
Agrees(v, d) ==
  /\ v.t = d.t
  /\ v.t \in {"List", "Object"} =>
       /\ Len(v.l) = Len(d.l)
       /\ \A i \in DOMAIN d.l : LET j == IndexOf(Ordered(v), Step(d, i))
                               IN  j # 0 /\ Agrees(Ordered(v).l[j], d.l[i])
  /\ v.t = "Number" => Bytes(data, v) = d.s
ReadsAreMeant ==
  /\ Loaded => Agrees(root, meant)
  /\ got.found <=> got.path \in Paths(meant)
  /\ got.read => got.bytes = BytesOf(MeantAt(meant, got.path).s)
=============================================================================
