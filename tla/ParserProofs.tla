---------------------------- MODULE ParserProofs ----------------------------
(***************************************************************************)
(* That cuts change nothing: the parser that is left at the end of a buffer *)
(* and entered again is, token by token, the parser that has the whole     *)
(* stream in one buffer, but for the part of a name or of a value that it  *)
(* has already reported (Alike).  The first sections say what the callbacks *)
(* change; then come the two parsers' steps, the end of a buffer, what is   *)
(* given out, and the invariant.                                           *)
(***************************************************************************)
EXTENDS HttpParser, SequenceTheorems, Recursions

Members == {"state", "errno", "req", "field", "value", "building", "qs", "flags", "te",
            "length", "name", "hstate", "mark", "skip", "out"}
RequestMembers == {"url", "raw", "headers", "body", "close", "upgrade"}

IsRequest(r) == r = [m \in RequestMembers |-> r[m]]
IsParser(p) == p = [m \in Members |-> p[m]] /\ IsRequest(p.req)

\* All but some members are as they were.
Apart(p, r, changed) == \A m \in Members \ changed : r[m] = p[m]

LEMMA SameParser ==
  ASSUME NEW p, NEW r, IsParser(p), IsParser(r), \A m \in Members : p[m] = r[m]
  PROVE  p = r
  BY DEF IsParser

LEMMA SameRequest ==
  ASSUME NEW p, NEW r, IsRequest(p), IsRequest(r), \A m \in RequestMembers : p[m] = r[m]
  PROVE  p = r
  BY DEF IsRequest

\* What is left of a parser after the first part of its mark was reported.
FieldCut(q, a, b) == [OnHeaderField([q EXCEPT !.mark = a]) EXCEPT !.mark = b]
ValueCut(q, a, b) == [OnHeaderValue([q EXCEPT !.mark = a]) EXCEPT !.mark = b]

Headers(p) == IF p.value = <<>> THEN p.req.headers
              ELSE Append(p.req.headers, <<p.field, p.value>>)

LEMMA MarkChanges ==
  ASSUME NEW p, IsParser(p), NEW a
  PROVE  LET r == [p EXCEPT !.mark = a]
         IN  IsParser(r) /\ Apart(p, r, {"mark"}) /\ r.mark = a
  <1> DEFINE r == [p EXCEPT !.mark = a]
  <1>1. r = [m \in Members |-> r[m]]
    BY DEF IsParser
  <1>2. Apart(p, r, {"mark"}) /\ r.mark = a
    BY DEF IsParser, Members, Apart
  <1> QED
    BY <1>1, <1>2 DEF IsParser, Members, Apart

LEMMA OnHeaderFieldIs ==
  ASSUME NEW p, IsParser(p)
  PROVE  LET r == OnHeaderField(p)
         IN  /\ IsParser(r)
             /\ Apart(p, r, {"req", "field", "building", "mark"})
             /\ r.building = 1 /\ r.mark = <<>>
             /\ r.field = IF p.building = 1 THEN p.field \o p.mark ELSE p.mark
             /\ \A m \in RequestMembers \ {"headers"} : r.req[m] = p.req[m]
             /\ r.req.headers = IF p.building = 1 THEN p.req.headers ELSE Headers(p)
  <1>1. CASE p.building = 1
    BY <1>1 DEF OnHeaderField, IsParser, IsRequest, Members, RequestMembers, Apart
  <1>2. CASE p.building # 1
    <2> DEFINE r == OnHeaderField(p)
    <2>1. r = [p EXCEPT !.req = [p.req EXCEPT !.headers = Headers(p)],
                        !.field = p.mark, !.building = 1, !.mark = <<>>]
      BY <1>2 DEF OnHeaderField, Headers, IsParser, IsRequest, Members, RequestMembers
    <2> HIDE DEF r
    <2>2. /\ Apart(p, r, {"req", "field", "building", "mark"})
          /\ r.building = 1 /\ r.mark = <<>> /\ r.field = p.mark
          /\ r.req = [p.req EXCEPT !.headers = Headers(p)]
          /\ r = [m \in Members |-> r[m]]
      BY <2>1 DEF IsParser, Members, Apart
    <2>3. /\ IsRequest(r.req) /\ r.req.headers = Headers(p)
          /\ \A m \in RequestMembers \ {"headers"} : r.req[m] = p.req[m]
      BY <2>2 DEF IsParser, IsRequest, RequestMembers
    <2> QED
      BY <1>2, <2>2, <2>3 DEF r, IsParser
  <1> QED
    BY <1>1, <1>2

LEMMA OnHeaderValueIs ==
  ASSUME NEW p, IsParser(p)
  PROVE  LET r == OnHeaderValue(p)
         IN  /\ IsParser(r)
             /\ Apart(p, r, {"value", "building", "mark"})
             /\ r.building = 0 /\ r.mark = <<>>
             /\ r.value = IF p.building = 1 THEN p.mark ELSE p.value \o p.mark
  BY DEF OnHeaderValue, IsParser, IsRequest, Members, Apart

LEMMA CutFieldIs ==
  ASSUME NEW q, IsParser(q), q.building = 0, NEW a, NEW b
  PROVE  LET c == FieldCut(q, a, b)
         IN  /\ IsParser(c)
             /\ Apart(q, c, {"req", "field", "building", "mark"})
             /\ c.building = 1 /\ c.mark = b /\ c.field = a
             /\ \A m \in RequestMembers \ {"headers"} : c.req[m] = q.req[m]
             /\ c.req.headers = Headers(q)
  <1> DEFINE m == [q EXCEPT !.mark = a]
             r == OnHeaderField(m)
  <1>1. IsParser(m) /\ Apart(q, m, {"mark"}) /\ m.mark = a
    BY MarkChanges
  <1>2. m.building = 0 /\ m.req = q.req /\ Headers(m) = Headers(q)
    BY <1>1 DEF Apart, Members, Headers
  <1> HIDE DEF m
  <1>3. /\ IsParser(r) /\ Apart(m, r, {"req", "field", "building", "mark"})
        /\ r.building = 1 /\ r.field = a
        /\ \A k \in RequestMembers \ {"headers"} : r.req[k] = q.req[k]
        /\ r.req.headers = Headers(q)
    BY <1>1, <1>2, OnHeaderFieldIs
  <1> HIDE DEF r
  <1> DEFINE c == [r EXCEPT !.mark = b]
  <1>4. IsParser(c) /\ Apart(r, c, {"mark"}) /\ c.mark = b
    BY <1>3, MarkChanges
  <1> HIDE DEF c
  <1>5. c = FieldCut(q, a, b)
    BY DEF c, r, m, FieldCut
  <1>6. Apart(q, c, {"req", "field", "building", "mark"})
    BY <1>1, <1>3, <1>4 DEF Apart, Members
  <1>7. c.building = 1 /\ c.field = a /\ c.req = r.req
    BY <1>3, <1>4 DEF Apart, Members
  <1> QED
    BY <1>3, <1>4, <1>5, <1>6, <1>7

LEMMA CutValueIs ==
  ASSUME NEW q, IsParser(q), q.building = 1, NEW a, NEW b
  PROVE  LET c == ValueCut(q, a, b)
         IN  /\ IsParser(c)
             /\ Apart(q, c, {"value", "building", "mark"})
             /\ c.building = 0 /\ c.mark = b /\ c.value = a
  BY DEF OnHeaderValue, ValueCut, IsParser, IsRequest, Members, Apart

(* A name or a value that was reported in two parts is the one reported at  *)
(* once.                                                                    *)
LEMMA FieldJoins ==
  ASSUME NEW q, IsParser(q), q.building = 0, NEW a, NEW b, q.mark = a \o b
  PROVE  OnHeaderField(FieldCut(q, a, b)) = OnHeaderField(q)
  <1> DEFINE c == FieldCut(q, a, b)
             r == OnHeaderField(c)
             s == OnHeaderField(q)
  <1>1. /\ IsParser(c) /\ Apart(q, c, {"req", "field", "building", "mark"})
        /\ c.building = 1 /\ c.mark = b /\ c.field = a
        /\ \A m \in RequestMembers \ {"headers"} : c.req[m] = q.req[m]
        /\ c.req.headers = Headers(q)
    BY CutFieldIs
  <1> HIDE DEF c
  <1>2. /\ IsParser(r) /\ Apart(c, r, {"req", "field", "building", "mark"})
        /\ r.building = 1 /\ r.mark = <<>> /\ r.field = q.mark
        /\ \A m \in RequestMembers \ {"headers"} : r.req[m] = c.req[m]
        /\ r.req.headers = Headers(q)
    BY <1>1, OnHeaderFieldIs
  <1>3. /\ IsParser(s) /\ Apart(q, s, {"req", "field", "building", "mark"})
        /\ s.building = 1 /\ s.mark = <<>> /\ s.field = q.mark
        /\ \A m \in RequestMembers \ {"headers"} : s.req[m] = q.req[m]
        /\ s.req.headers = Headers(q)
    BY OnHeaderFieldIs
  <1> HIDE DEF r, s
  <1>4. r.req = s.req
    <2>1. \A m \in RequestMembers : r.req[m] = s.req[m]
      BY <1>1, <1>2, <1>3
    <2> QED
      BY <1>2, <1>3, <2>1, SameRequest DEF IsParser
  <1>5. \A m \in Members : r[m] = s[m]
    BY <1>1, <1>2, <1>3, <1>4 DEF Apart, Members
  <1>6. r = s
    BY <1>2, <1>3, <1>5, SameParser
  <1> QED
    BY <1>6 DEF r, s, c

LEMMA ValueJoins ==
  ASSUME NEW q, IsParser(q), q.building = 1, NEW a, NEW b, q.mark = a \o b
  PROVE  OnHeaderValue(ValueCut(q, a, b)) = OnHeaderValue(q)
  <1> DEFINE c == ValueCut(q, a, b)
             r == OnHeaderValue(c)
             s == OnHeaderValue(q)
  <1>1. /\ IsParser(c) /\ Apart(q, c, {"value", "building", "mark"})
        /\ c.building = 0 /\ c.mark = b /\ c.value = a
    BY CutValueIs
  <1> HIDE DEF c
  <1>2. /\ IsParser(r) /\ Apart(c, r, {"value", "building", "mark"})
        /\ r.building = 0 /\ r.mark = <<>> /\ r.value = q.mark
    <2>1. c.building # 1
      BY <1>1
    <2>2. /\ IsParser(r) /\ Apart(c, r, {"value", "building", "mark"})
          /\ r.building = 0 /\ r.mark = <<>> /\ r.value = c.value \o c.mark
      BY <1>1, <2>1, OnHeaderValueIs
    <2> QED
      BY <1>1, <2>2
  <1>3. /\ IsParser(s) /\ Apart(q, s, {"value", "building", "mark"})
        /\ s.building = 0 /\ s.mark = <<>> /\ s.value = q.mark
    BY OnHeaderValueIs
  <1> HIDE DEF r, s
  <1>4. ASSUME NEW m \in Members PROVE r[m] = s[m]
    <2>1. CASE m \in {"value", "building", "mark"}
      BY <1>2, <1>3, <2>1
    <2>2. CASE m \in Members \ {"value", "building", "mark"}
      BY <1>1, <1>2, <1>3, <2>2 DEF Apart
    <2> QED
      BY <2>1, <2>2
  <1>5. r = s
    BY <1>2, <1>3, <1>4, SameParser
  <1> QED
    BY <1>5 DEF r, s, c
-----------------------------------------------------------------------------
(* One step of a parser that reported a part, and of one that did not.      *)

\* How the parsers differ: not at all, or one has reported a part of a name or value.
CutInName(c, q, S) ==
  /\ q.state = "name" /\ q.building = 0 /\ q.name # <<>>
  /\ \E a, b \in Seq(S) : q.mark = a \o b /\ c = FieldCut(q, a, b)

CutInValue(c, q, S) ==
  /\ q.state = "value" /\ q.building = 1
  /\ \E a, b \in Seq(S) : a # <<>> /\ q.mark = a \o b /\ c = ValueCut(q, a, b)

Alike(c, q, S) == c = q \/ CutInName(c, q, S) \/ CutInValue(c, q, S)

\* Members that the reports do not touch may change on the way.
LEMMA FieldCutApart ==
  ASSUME NEW q, IsParser(q), q.building = 0, NEW r, IsParser(r), NEW a, NEW b, NEW d,
         NEW v, IsParser(v), NEW changed, changed \subseteq {"state", "errno", "name", "mark"},
         Apart(q, r, changed), Apart(FieldCut(q, a, b), v, changed),
         \A m \in changed \ {"mark"} : v[m] = r[m], v.mark = d
  PROVE  v = FieldCut(r, a, d)
  <1> DEFINE c == FieldCut(q, a, b)
             w == FieldCut(r, a, d)
             moved == {"req", "field", "building", "mark"}
  <1>1. /\ IsParser(c) /\ Apart(q, c, moved)
        /\ c.building = 1 /\ c.field = a
        /\ \A m \in RequestMembers \ {"headers"} : c.req[m] = q.req[m]
        /\ c.req.headers = Headers(q)
    BY CutFieldIs
  <1>2. r.building = 0 /\ r.req = q.req /\ Headers(r) = Headers(q)
    BY DEF Apart, Members, Headers
  <1>3. /\ IsParser(w) /\ Apart(r, w, moved)
        /\ w.building = 1 /\ w.field = a /\ w.mark = d
        /\ \A m \in RequestMembers \ {"headers"} : w.req[m] = r.req[m]
        /\ w.req.headers = Headers(r)
    BY <1>2, CutFieldIs
  <1> HIDE DEF w
  <1>4. v.building = 1 /\ v.field = a /\ v.req = c.req
    BY <1>1 DEF Apart, Members
  <1>5. v.req = w.req
    <2>1. \A m \in RequestMembers : c.req[m] = w.req[m]
      BY <1>1, <1>2, <1>3
    <2>2. c.req = w.req
      BY <1>1, <1>3, <2>1, SameRequest DEF IsParser
    <2> QED
      BY <1>4, <2>2
  <1>6. ASSUME NEW m \in Members PROVE v[m] = w[m]
    <2>1. CASE m \in moved
      BY <1>3, <1>4, <1>5, <2>1
    <2>2. CASE m \in changed \ moved
      BY <1>3, <2>2 DEF Apart
    <2>3. CASE m \notin moved /\ m \notin changed
      BY <1>1, <1>3, <2>3 DEF Apart
    <2> QED
      BY <2>1, <2>2, <2>3
  <1>7. v = w
    BY <1>3, <1>6, SameParser
  <1> QED
    BY <1>7 DEF w

LEMMA ValueCutApart ==
  ASSUME NEW q, IsParser(q), q.building = 1, NEW r, IsParser(r), NEW a, NEW b, NEW d,
         NEW v, IsParser(v),
         NEW changed, changed \subseteq {"errno", "flags", "length", "hstate", "mark"},
         Apart(q, r, changed), Apart(ValueCut(q, a, b), v, changed),
         \A m \in changed \ {"mark"} : v[m] = r[m], v.mark = d
  PROVE  v = ValueCut(r, a, d)
  <1> DEFINE c == ValueCut(q, a, b)
             w == ValueCut(r, a, d)
             moved == {"value", "building", "mark"}
  <1>1. IsParser(c) /\ Apart(q, c, moved) /\ c.building = 0 /\ c.value = a
    BY CutValueIs
  <1>2. r.building = 1
    BY DEF Apart, Members
  <1>3. IsParser(w) /\ Apart(r, w, moved) /\ w.building = 0 /\ w.value = a /\ w.mark = d
    BY <1>2, CutValueIs
  <1> HIDE DEF w
  <1>4. v.building = 0 /\ v.value = a
    BY <1>1 DEF Apart, Members
  <1>5. ASSUME NEW m \in Members PROVE v[m] = w[m]
    <2>1. CASE m \in moved
      BY <1>3, <1>4, <2>1
    <2>2. CASE m \in changed \ moved
      BY <1>3, <2>2 DEF Apart
    <2>3. CASE m \notin moved /\ m \notin changed
      BY <1>1, <1>3, <2>3 DEF Apart
    <2> QED
      BY <2>1, <2>2, <2>3
  <1>6. v = w
    BY <1>3, <1>5, SameParser
  <1> QED
    BY <1>6 DEF w
-----------------------------------------------------------------------------
(* What holds of a parser that reads its stream in one buffer.              *)

Shape(p, S) ==
  /\ IsParser(p) /\ p.mark \in Seq(S) /\ p.name \in Seq(S)
  /\ p.errno = "OK" =>
       /\ p.building = IF p.state = "value" THEN 1 ELSE 0
       /\ p.state \notin {"url", "name", "value"} => p.mark = <<>>
       /\ p.state = "name" /\ p.mark # <<>> => p.name # <<>>
       /\ p.state \in {"start", "url", "name", "value", "body", "size_start", "size", "chunk",
                       "chunk_end"} \/ p.skip

LEMMA FailKeepsShape ==
  ASSUME NEW S, NEW p, Shape(p, S), NEW e, e # "OK"
  PROVE  Shape(Fail(p, e), S)
  BY DEF Shape, Fail, IsParser, Members

LEMMA CompleteIs ==
  ASSUME NEW p, IsParser(p)
  PROVE  LET r == OnMessageComplete(p)
         IN  /\ IsParser(r) /\ r.state = "start" /\ r.building = 0
             /\ Apart(p, r, {"state", "req", "field", "value", "building", "qs", "out"})
             /\ r.out = Append(p.out, p.req)
  BY DEF OnMessageComplete, Clear, EmptyRequest, IsParser, IsRequest, Members, RequestMembers, Apart

LEMMA CompleteKeepsShape ==
  ASSUME NEW S, NEW p, IsParser(p), p.mark = <<>>, p.name \in Seq(S)
  PROVE  Shape(OnMessageComplete(p), S)
  <1>1. <<>> \in Seq(S)
    OBVIOUS
  <1> QED
    BY <1>1, CompleteIs DEF Shape, Apart, Members

LEMMA StartKeepsShape ==
  ASSUME NEW S, NEW p, Shape(p, S), p.errno = "OK", p.state = "start", NEW t
  PROVE  Shape(StartReq(p, t), S)
  <1>1. Shape(Fail(p, "INVALID_METHOD"), S)
    BY FailKeepsShape
  <1> QED
    BY <1>1 DEF StartReq, Shape, IsParser, IsRequest, Members

LEMMA OnUrlIs ==
  ASSUME NEW p, IsParser(p)
  PROVE  LET r == OnUrl(p)
         IN  /\ IsParser(r) /\ r.mark = <<>> /\ Apart(p, r, {"req", "mark", "errno"})
  <1> DEFINE raw == p.req.raw \o p.mark
             url == IF p.qs = 0 THEN raw ELSE SubSeq(raw, 1, p.qs - 1)
             u   == [p.req EXCEPT !.raw = raw, !.url = url]
             q   == [p EXCEPT !.req = u, !.mark = <<>>]
  <1>1. IsRequest(u)
    BY DEF IsParser, IsRequest, RequestMembers
  <1>2. [p EXCEPT !.req.raw = raw, !.req.url = url, !.mark = <<>>] = q
    BY DEF IsParser, IsRequest, Members, RequestMembers
  <1>3. OnUrl(p) = IF url \in Routes THEN q ELSE Fail(q, "INVALID_EOF_STATE")
    BY <1>2 DEF OnUrl
  <1> HIDE DEF u, url, raw
  <1>4. IsParser(q) /\ q.mark = <<>> /\ Apart(p, q, {"req", "mark"})
    BY <1>1 DEF IsParser, Members, Apart
  <1> HIDE DEF q
  <1>5. LET r == Fail(q, "INVALID_EOF_STATE")
        IN  IsParser(r) /\ r.mark = <<>> /\ Apart(q, r, {"errno"})
    BY <1>4 DEF IsParser, Members, Apart, Fail
  <1> QED
    BY <1>3, <1>4, <1>5 DEF Apart

LEMMA UrlKeepsShape ==
  ASSUME NEW S, NEW p, Shape(p, S), p.errno = "OK", p.state = "url", NEW t, t.text \in S
  PROVE  Shape(Url(p, t), S)
  <1>1. CASE t.type = "url"
    <2> DEFINE r == [p EXCEPT !.mark = Append(@, t.text), !.qs = QueryPoint(p, t)]
    <2>1. IsParser(r) /\ Apart(p, r, {"mark", "qs"}) /\ r.mark = Append(p.mark, t.text)
      BY DEF Shape, IsParser, Members, Apart
    <2>2. r.mark \in Seq(S) /\ r.name \in Seq(S)
      BY <2>1 DEF Shape, Apart, Members
    <2> HIDE DEF r
    <2>3. Shape(r, S)
      BY <2>1, <2>2 DEF Shape, Apart, Members
    <2> QED
      BY <1>1, <2>3 DEF Url, r
  <1>2. CASE t.type = "version"
    <2> DEFINE q == OnUrl(p)
               r == [q EXCEPT !.state = "name"]
    <2>1. IsParser(q) /\ q.mark = <<>> /\ Apart(p, q, {"req", "mark", "errno"})
      BY OnUrlIs DEF Shape
    <2> HIDE DEF q
    <2>2. IsParser(r) /\ Apart(q, r, {"state"}) /\ r.state = "name"
      BY <2>1 DEF IsParser, Members, Apart
    <2>3. r.mark = <<>> /\ r.name = p.name /\ r.building = 0
      BY <2>1, <2>2 DEF Apart, Members, Shape
    <2> HIDE DEF r
    <2>4. Shape(r, S)
      BY <2>2, <2>3 DEF Shape
    <2> QED
      BY <1>2, <2>4 DEF Url, r, q
  <1>3. CASE t.type \notin {"url", "version"}
    BY <1>3, FailKeepsShape DEF Url
  <1> QED
    BY <1>1, <1>2, <1>3
LEMMA HeadersCompleteIs ==
  ASSUME NEW p, IsParser(p)
  PROVE  IsParser(OnHeadersComplete(p)) /\ Apart(p, OnHeadersComplete(p), {"req", "field", "value"})
  <1> DEFINE h == IF p.field = <<>> THEN p.req.headers ELSE Append(p.req.headers, <<p.field, p.value>>)
             u == [p.req EXCEPT !.headers = h, !.close = "CLOSE" \in p.flags,
                                !.upgrade = "UPGRADE" \in p.flags]
             r == [p EXCEPT !.req = u, !.field = <<>>, !.value = <<>>]
  <1>1. IsRequest(u)
    BY DEF IsParser, IsRequest, RequestMembers
  <1>2. OnHeadersComplete(p) = r
    BY DEF OnHeadersComplete, IsParser, IsRequest, Members, RequestMembers
  <1> HIDE DEF u
  <1>3. IsParser(r) /\ Apart(p, r, {"req", "field", "value"})
    BY <1>1 DEF IsParser, Members, Apart
  <1> QED
    BY <1>2, <1>3

LEMMA UpgradeIs ==
  ASSUME NEW p, IsParser(p)
  PROVE  LET r == OnUpgrade(p)
         IN  /\ IsParser(r) /\ r.skip = TRUE /\ r.building = 0
             /\ r.state \in {"start", "upgraded"}
             /\ Apart(p, r, {"state", "req", "field", "value", "building", "qs", "out", "skip"})
  <1> DEFINE done == OnMessageComplete(p)
             q == [done EXCEPT !.skip = TRUE]
             away == [q EXCEPT !.state = "upgraded"]
  <1>1. /\ IsParser(done) /\ done.state = "start" /\ done.building = 0
        /\ Apart(p, done, {"state", "req", "field", "value", "building", "qs", "out"})
    BY CompleteIs
  <1> HIDE DEF done
  <1>2. /\ IsParser(q) /\ q.state = "start" /\ q.building = 0 /\ q.skip = TRUE
        /\ Apart(done, q, {"skip"})
    BY <1>1 DEF IsParser, Members, Apart
  <1>3. OnUpgrade(p) \in {q, away}
    BY DEF OnUpgrade, done
  <1> HIDE DEF q
  <1>4. IsParser(away) /\ away.state = "upgraded" /\ Apart(q, away, {"state"})
    BY <1>2 DEF IsParser, Members, Apart
  <1> HIDE DEF away
  <1> QED
    BY <1>1, <1>2, <1>3, <1>4 DEF Apart, Members

LEMMA StateKeepsShape ==
  ASSUME NEW S, NEW p, IsParser(p), p.mark = <<>>, p.name \in Seq(S), p.building = 0,
         NEW state, state \in {"start", "url", "name", "body", "size_start", "size", "chunk", "chunk_end"}
  PROVE  Shape([p EXCEPT !.state = state], S)
  <1>1. <<>> \in Seq(S)
    OBVIOUS
  <1> QED
    BY <1>1 DEF Shape, IsParser, Members

LEMMA DoneKeepsShape ==
  ASSUME NEW S, NEW p, IsParser(p), p.mark = <<>>, p.name \in Seq(S), p.building = 0,
         p.state = "name"
  PROVE  Shape(HeadersAlmostDone(p), S)
  <1> DEFINE q == OnHeadersComplete(p)
  <1>1. <<>> \in Seq(S)
    OBVIOUS
  <1>2. IsParser(q) /\ q.mark = <<>> /\ q.name \in Seq(S) /\ q.building = 0 /\ q.state = "name"
    BY HeadersCompleteIs DEF Apart, Members
  <1>3. Shape(p, S) /\ Shape(q, S)
    <2> HIDE DEF q
    <2> QED
      BY <1>1, <1>2 DEF Shape
  <1>4. Shape(OnMessageComplete(p), S) /\ Shape(Fail(p, "UNEXPECTED_CONTENT_LENGTH"), S)
    BY <1>3, CompleteKeepsShape, FailKeepsShape
  <1> HIDE DEF q
  <1>5. /\ Shape(OnMessageComplete(q), S) /\ Shape(Fail(q, "INVALID_TRANSFER_ENCODING"), S)
        /\ Shape([q EXCEPT !.state = "size_start"], S) /\ Shape([q EXCEPT !.state = "body"], S)
    BY <1>2, <1>3, CompleteKeepsShape, FailKeepsShape, StateKeepsShape
  <1>6. Shape(OnUpgrade(q), S)
    <2>1. LET r == OnUpgrade(q)
          IN  /\ IsParser(r) /\ r.skip = TRUE /\ r.building = 0 /\ r.mark = <<>>
              /\ r.name \in Seq(S) /\ r.state \in {"start", "upgraded"}
      <3> DEFINE r == OnUpgrade(q)
      <3>1. /\ IsParser(r) /\ r.skip = TRUE /\ r.building = 0 /\ r.state \in {"start", "upgraded"}
            /\ Apart(q, r, {"state", "req", "field", "value", "building", "qs", "out", "skip"})
        BY <1>2, UpgradeIs
      <3> HIDE DEF r
      <3>2. r.mark = q.mark /\ r.name = q.name
        BY <3>1 DEF Apart, Members
      <3> QED
        BY <1>2, <3>1, <3>2 DEF r
    <2> QED
      BY <1>1, <2>1 DEF Shape
  <1>7. Shape(HeadersDone(q), S)
    BY <1>5, <1>6 DEF HeadersDone
  <1> QED
    BY <1>4, <1>7 DEF HeadersAlmostDone, q

LEMMA FieldKeepsShape ==
  ASSUME NEW S, NEW p, Shape(p, S), p.errno = "OK", p.state = "name", NEW t, t.text \in S
  PROVE  Shape(HeaderField(p, t), S)
  <1>1. CASE t.type = "name"
    <2> DEFINE r == [p EXCEPT !.mark = Append(@, t.text), !.name = Append(@, t.text)]
    <2>1. /\ IsParser(r) /\ Apart(p, r, {"mark", "name"})
          /\ r.mark = Append(p.mark, t.text) /\ r.name = Append(p.name, t.text)
      BY DEF Shape, IsParser, Members, Apart
    <2>2. r.mark \in Seq(S) /\ r.name \in Seq(S) /\ r.name # <<>>
      BY <2>1 DEF Shape
    <2> HIDE DEF r
    <2>3. Shape(r, S)
      BY <2>1, <2>2 DEF Shape, Apart, Members
    <2> QED
      BY <1>1, <2>3 DEF HeaderField, r
  <1>2. CASE t.type # "name"
    <2> DEFINE q == OnHeaderField(p)
               r == [q EXCEPT !.state = "value", !.hstate = HeaderStateOf(p.name), !.name = <<>>,
                              !.te = @ \/ p.name = TransferEncoding]
    <2>1. IsParser(q) /\ q.mark = <<>> /\ q.building = 1
      BY OnHeaderFieldIs DEF Shape
    <2> HIDE DEF q
    <2>2. IsParser(r) /\ r.mark = <<>> /\ r.building = 1 /\ r.name = <<>> /\ r.state = "value"
      BY <2>1 DEF IsParser, Members
    <2>3. <<>> \in Seq(S)
      OBVIOUS
    <2> HIDE DEF r
    <2>4. Shape(r, S)
      BY <2>2, <2>3 DEF Shape
    <2> QED
      BY <1>2, <2>4 DEF HeaderField, r, q
  <1> QED
    BY <1>1, <1>2

\* What the pieces of a value change.
ValueParts == {"errno", "flags", "length", "hstate"}

LEMMA PieceIs ==
  ASSUME NEW p, IsParser(p), NEW t, NEW next
  PROVE  /\ IsParser(HeaderValueStart(p, t, next)) /\ Apart(p, HeaderValueStart(p, t, next), ValueParts)
         /\ IsParser(HeaderValueMore(p, t)) /\ Apart(p, HeaderValueMore(p, t), ValueParts)
  <1> DEFINE Pieced(r) == IsParser(r) /\ Apart(p, r, ValueParts)
  <1>1. Pieced(p) /\ \A e : Pieced(Fail(p, e))
    BY DEF Fail, IsParser, Members, Apart, ValueParts
  <1>2. \A f, l, h : /\ Pieced([p EXCEPT !.flags = f, !.length = l, !.hstate = h])
                     /\ Pieced([p EXCEPT !.hstate = h, !.flags = f])
                     /\ Pieced([p EXCEPT !.hstate = h])
                     /\ Pieced([p EXCEPT !.length = l])
    <2> SUFFICES ASSUME NEW f, NEW l, NEW h
                 PROVE  /\ Pieced([p EXCEPT !.flags = f, !.length = l, !.hstate = h])
                        /\ Pieced([p EXCEPT !.hstate = h, !.flags = f])
                        /\ Pieced([p EXCEPT !.hstate = h])
                        /\ Pieced([p EXCEPT !.length = l])
      OBVIOUS
    <2>1. Pieced([p EXCEPT !.flags = f, !.length = l, !.hstate = h])
      BY DEF IsParser, Members, Apart, ValueParts
    <2>2. Pieced([p EXCEPT !.hstate = h, !.flags = f])
      BY DEF IsParser, Members, Apart, ValueParts
    <2>3. Pieced([p EXCEPT !.hstate = h])
      BY DEF IsParser, Members, Apart, ValueParts
    <2>4. Pieced([p EXCEPT !.length = l])
      BY DEF IsParser, Members, Apart, ValueParts
    <2> QED
      BY <2>1, <2>2, <2>3, <2>4
  <1>3. DOMAIN p = Members
    BY DEF IsParser
  <1> HIDE DEF Pieced
  <1>4. ASSUME NEW n PROVE Pieced(HeaderValueStart(p, t, n))
    <2>1. CASE p.hstate = "content_length"
      BY <1>1, <1>2, <1>3, <2>1 DEF HeaderValueStart, Members
    <2>2. CASE p.hstate = "transfer_encoding"
      BY <1>1, <1>2, <1>3, <2>2 DEF HeaderValueStart, Members
    <2>3. CASE p.hstate = "connection"
      BY <1>1, <1>2, <1>3, <2>3 DEF HeaderValueStart, Members
    <2>4. CASE p.hstate = "upgrade"
      BY <1>1, <1>2, <1>3, <2>4 DEF HeaderValueStart, Members
    <2>5. CASE p.hstate \notin {"content_length", "transfer_encoding", "connection", "upgrade"}
      BY <1>1, <2>5 DEF HeaderValueStart
    <2> QED
      BY <2>1, <2>2, <2>3, <2>4, <2>5
  <1>5. ASSUME NEW b, NEW d PROVE Pieced(AddDigit(p, b, d))
    BY <1>1, <1>2, <1>3 DEF AddDigit, Members
  <1>6. Pieced(HeaderValueMore(p, t))
    <2>1. CASE p.hstate = "content_length_num"
      BY <1>1, <1>5, <2>1 DEF HeaderValueMore
    <2>2. CASE p.hstate \in {"chunked", "coding"}
      BY <1>2, <2>2 DEF HeaderValueMore
    <2>3. CASE p.hstate = "transfer_encoding"
      BY <1>4, <2>3 DEF HeaderValueMore
    <2>4. CASE p.hstate \notin {"content_length_num", "chunked", "coding", "transfer_encoding"}
      BY <1>2, <2>4 DEF HeaderValueMore
    <2> QED
      BY <2>1, <2>2, <2>3, <2>4
  <1> QED
    BY <1>4, <1>6 DEF Pieced

LEMMA ValueKeepsShape ==
  ASSUME NEW S, NEW p, Shape(p, S), p.errno = "OK", p.state = "value",
         NEW t, t.text \in S, NEW next
  PROVE  Shape(HeaderValue(p, t, next), S)
  <1>1. CASE t.type = "eol"
    <2> DEFINE q == OnHeaderValue(p)
               r == HeaderLws(q)
    <2>1. /\ IsParser(q) /\ q.mark = <<>> /\ q.building = 0 /\ q.name = p.name
      BY OnHeaderValueIs DEF Shape, Apart, Members
    <2> HIDE DEF q
    <2>2. /\ IsParser(r) /\ r.mark = <<>> /\ r.building = 0 /\ r.name = p.name /\ r.state = "name"
      BY <2>1 DEF HeaderLws, IsParser, Members
    <2>3. <<>> \in Seq(S)
      OBVIOUS
    <2> HIDE DEF r
    <2>4. Shape(r, S)
      BY <2>2, <2>3 DEF Shape
    <2> QED
      BY <1>1, <2>4 DEF HeaderValue, r, q
  <1>2. CASE t.type # "eol"
    <2> DEFINE q == IF p.building = 1 /\ p.mark = <<>> THEN HeaderValueStart(p, t, next)
                                                      ELSE HeaderValueMore(p, t)
               r == [q EXCEPT !.mark = Append(@, t.text)]
    <2>1. IsParser(q) /\ Apart(p, q, ValueParts)
      BY PieceIs DEF Shape
    <2> HIDE DEF q
    <2>2. IsParser(r) /\ Apart(q, r, {"mark"}) /\ r.mark = Append(p.mark, t.text)
      BY <2>1 DEF IsParser, Members, Apart, ValueParts
    <2>3. r.mark \in Seq(S)
      <3>1. p.mark \in Seq(S)
        BY DEF Shape
      <3> HIDE DEF r
      <3> QED
        BY <2>2, <3>1
    <2>4. r.building = 1 /\ r.state = "value" /\ r.name = p.name
      BY <2>1, <2>2 DEF Apart, Members, ValueParts, Shape
    <2> HIDE DEF r
    <2>5. Shape(r, S)
      BY <2>2, <2>3, <2>4 DEF Shape
    <2> QED
      BY <1>2, <2>5 DEF HeaderValue, r, q
  <1> QED
    BY <1>1, <1>2

LEMMA ByteKeepsShape ==
  ASSUME NEW S, NEW p, Shape(p, S), p.errno = "OK", p.state \in {"body", "chunk"},
         NEW t, NEW then, then \in {"done", "chunk_end"}
  PROVE  Shape(OneByte(p, t, then), S)
  <1> DEFINE u == [p.req EXCEPT !.body = Append(@, t.text)]
             q == [p EXCEPT !.length = @ - 1, !.req = u]
  <1>1. IsRequest(u)
    BY DEF Shape, IsParser, IsRequest, RequestMembers
  <1>2. [p EXCEPT !.length = @ - 1, !.req.body = Append(@, t.text)] = q
    BY DEF Shape, IsParser, IsRequest, Members, RequestMembers
  <1>3. OneByte(p, t, then) \in {q, OnMessageComplete(q), [q EXCEPT !.state = "chunk_end"]}
    BY <1>2 DEF OneByte
  <1> HIDE DEF u
  <1>4. /\ IsParser(q) /\ q.mark = <<>> /\ q.name = p.name /\ q.building = 0
        /\ q.state = p.state /\ q.errno = "OK"
    BY <1>1 DEF Shape, IsParser, Members
  <1>5. q.name \in Seq(S) /\ q.mark \in Seq(S)
    <2>1. p.name \in Seq(S) /\ <<>> \in Seq(S)
      BY DEF Shape
    <2> HIDE DEF q
    <2> QED
      BY <1>4, <2>1
  <1> HIDE DEF q
  <1>6. Shape(q, S)
    BY <1>4, <1>5 DEF Shape
  <1>7. Shape(OnMessageComplete(q), S) /\ Shape([q EXCEPT !.state = "chunk_end"], S)
    BY <1>4, <1>5, CompleteKeepsShape, StateKeepsShape
  <1> QED
    BY <1>3, <1>6, <1>7

LEMMA ChunkKeepsShape ==
  ASSUME NEW S, NEW p, Shape(p, S), p.errno = "OK",
         p.state \in {"size_start", "size", "chunk_end"}, NEW t
  PROVE  /\ p.state = "size_start" => Shape(ChunkSizeStart(p, t), S)
         /\ p.state = "size" => Shape(ChunkSize(p, t), S)
         /\ p.state = "chunk_end" => Shape(ChunkDataDone(p, t), S)
  <1>1. IsParser(p) /\ p.mark = <<>> /\ p.building = 0 /\ p.name \in Seq(S) /\ <<>> \in Seq(S)
    BY DEF Shape
  <1>2. \A l : Shape([p EXCEPT !.length = l, !.state = "size"], S)
    BY <1>1 DEF Shape, IsParser, Members
  <1>3. \A f : Shape([p EXCEPT !.flags = f, !.state = "name"], S)
    BY <1>1 DEF Shape, IsParser, Members
  <1>4. \A l : Shape([p EXCEPT !.length = l], S)
    BY <1>1 DEF Shape, IsParser, Members
  <1>5. /\ Shape([p EXCEPT !.state = "chunk"], S) /\ Shape([p EXCEPT !.state = "size_start"], S)
        /\ \A e : e # "OK" => Shape(Fail(p, e), S)
    BY <1>1, StateKeepsShape, FailKeepsShape
  <1>6. \A d : Shape(AddDigit(p, 16, d), S)
    BY <1>1, <1>4, <1>5 DEF AddDigit, IsParser, Members
  <1>7. Shape(ChunkSizeStart(p, t), S)
    BY <1>2, <1>5 DEF ChunkSizeStart
  <1>8. Shape(ChunkSize(p, t), S)
    BY <1>1, <1>3, <1>5, <1>6 DEF ChunkSize, IsParser, Members
  <1>9. Shape(ChunkDataDone(p, t), S)
    BY <1>5 DEF ChunkDataDone
  <1> QED
    BY <1>7, <1>8, <1>9

LEMMA StepKeepsShape ==
  ASSUME NEW S, NEW p, Shape(p, S), NEW t, t.text \in S, NEW next
  PROVE  Shape(Step(p, t, next), S)
  <1>1. CASE p.errno # "OK"
    BY <1>1 DEF Step
  <1>2. CASE p.errno = "OK" /\ p.skip
    BY <1>2, FailKeepsShape DEF Step
  <1>3. CASE p.errno = "OK" /\ ~p.skip
    <2>1. CASE p.state = "start"
      BY <1>3, <2>1, StartKeepsShape DEF Step
    <2>2. CASE p.state = "url"
      BY <1>3, <2>2, UrlKeepsShape DEF Step
    <2>3. CASE p.state = "name"
      <3>1. CASE t.type = "eol" /\ p.name = <<>>
        <4>1. IsParser(p) /\ p.mark = <<>> /\ p.name \in Seq(S) /\ p.building = 0
          BY <1>3, <2>3, <3>1 DEF Shape
        <4> QED
          BY <1>3, <2>3, <3>1, <4>1, DoneKeepsShape DEF Step
      <3>2. CASE ~(t.type = "eol" /\ p.name = <<>>)
        BY <1>3, <2>3, <3>2, FieldKeepsShape DEF Step
      <3> QED
        BY <3>1, <3>2
    <2>4. CASE p.state = "value"
      BY <1>3, <2>4, ValueKeepsShape DEF Step
    <2>5. CASE p.state = "body"
      BY <1>3, <2>5, ByteKeepsShape DEF Step
    <2>6. CASE p.state = "size_start"
      BY <1>3, <2>6, ChunkKeepsShape DEF Step
    <2>7. CASE p.state = "size"
      BY <1>3, <2>7, ChunkKeepsShape DEF Step
    <2>8. CASE p.state = "chunk"
      BY <1>3, <2>8, ByteKeepsShape DEF Step
    <2>9. CASE p.state = "chunk_end"
      BY <1>3, <2>9, ChunkKeepsShape DEF Step
    <2> QED
      BY <1>3, <2>1, <2>2, <2>3, <2>4, <2>5, <2>6, <2>7, <2>8, <2>9 DEF Shape
  <1> QED
    BY <1>1, <1>2, <1>3
-----------------------------------------------------------------------------
(* Parsers that are alike stay alike.                                       *)

LEMMA CutNamesStayAlike ==
  ASSUME NEW S, NEW q, Shape(q, S), NEW c, CutInName(c, q, S), NEW t, t.text \in S, NEW next
  PROVE  Alike(Step(c, t, next), Step(q, t, next), S)
  <1>1. PICK a \in Seq(S), b \in Seq(S) : q.mark = a \o b /\ c = FieldCut(q, a, b)
    BY DEF CutInName
  <1>2. IsParser(q) /\ q.state = "name" /\ q.building = 0 /\ q.name # <<>> /\ q.name \in Seq(S)
    BY DEF CutInName, Shape
  <1>3. IsParser(c) /\ Apart(q, c, {"req", "field", "building", "mark"}) /\ c.mark = b
    BY <1>1, <1>2, CutFieldIs
  <1>4. /\ c.errno = q.errno /\ c.skip = q.skip /\ c.state = q.state /\ c.name = q.name
        /\ c.te = q.te
    BY <1>3 DEF Apart, Members
  <1>5. CASE q.errno # "OK"
    BY <1>4, <1>5 DEF Step, Alike
  <1>6. CASE q.errno = "OK" /\ q.skip
    <2> DEFINE r == Fail(q, "UNPARSED")
               v == Fail(c, "UNPARSED")
    <2>1. IsParser(r) /\ Apart(q, r, {"errno"}) /\ r.errno = "UNPARSED"
      BY <1>2 DEF Fail, IsParser, Members, Apart
    <2>2. IsParser(v) /\ Apart(c, v, {"errno"}) /\ v.errno = "UNPARSED" /\ v.mark = b
      BY <1>3 DEF Fail, IsParser, Members, Apart
    <2> HIDE DEF r, v
    <2>3. v = FieldCut(r, a, b)
      BY <1>1, <1>2, <2>1, <2>2, FieldCutApart
    <2>4. r.mark = a \o b /\ r.state = "name" /\ r.building = 0 /\ r.name # <<>>
      BY <1>1, <1>2, <2>1 DEF Apart, Members
    <2>5. Alike(v, r, S)
      BY <2>3, <2>4 DEF Alike, CutInName
    <2> QED
      BY <1>4, <1>6, <2>5 DEF Step, r, v
  <1>7. CASE q.errno = "OK" /\ ~q.skip
    <2>1. Step(q, t, next) = HeaderField(q, t) /\ Step(c, t, next) = HeaderField(c, t)
      BY <1>2, <1>4, <1>7 DEF Step
    <2>2. CASE t.type = "name"
      <3> DEFINE r == [q EXCEPT !.mark = Append(@, t.text), !.name = Append(@, t.text)]
                 v == [c EXCEPT !.mark = Append(@, t.text), !.name = Append(@, t.text)]
      <3>1. /\ IsParser(r) /\ Apart(q, r, {"mark", "name"})
            /\ r.mark = Append(q.mark, t.text) /\ r.name = Append(q.name, t.text)
        BY <1>2 DEF IsParser, Members, Apart
      <3>2. /\ IsParser(v) /\ Apart(c, v, {"mark", "name"})
            /\ v.mark = Append(b, t.text) /\ v.name = Append(c.name, t.text)
        BY <1>3 DEF IsParser, Members, Apart
      <3>3. HeaderField(q, t) = r /\ HeaderField(c, t) = v
        BY <2>2 DEF HeaderField
      <3> HIDE DEF r, v
      <3> DEFINE x == t.text
                 d == Append(b, x)
      <3>4. d \in Seq(S) /\ Append(a \o b, x) = a \o d
        <4> HIDE DEF x
        <4>1. x \in S
          BY DEF x
        <4> QED
          BY <4>1
      <3>5. r.mark = a \o d /\ v.mark = d
        BY <1>1, <3>1, <3>2, <3>4
      <3> HIDE DEF d
      <3>9. v = FieldCut(r, a, d)
        BY <1>1, <1>2, <1>4, <3>1, <3>2, <3>5, FieldCutApart
      <3>6. r.name # <<>>
        BY <1>2, <3>1
      <3>7. r.state = "name" /\ r.building = 0
        BY <1>2, <3>1 DEF Apart, Members
      <3>8. CutInName(v, r, S)
        BY <3>4, <3>5, <3>6, <3>7, <3>9 DEF CutInName
      <3> QED
        BY <2>1, <3>3, <3>8 DEF Alike
    <2>3. CASE t.type # "name"
      <3>1. OnHeaderField(c) = OnHeaderField(q)
        BY <1>1, <1>2, FieldJoins
      <3>2. HeaderField(c, t) = HeaderField(q, t)
        BY <1>4, <2>3, <3>1 DEF HeaderField
      <3> QED
        BY <2>1, <3>2 DEF Alike
    <2> QED
      BY <2>2, <2>3
  <1> QED
    BY <1>5, <1>6, <1>7

LEMMA MoreAgrees ==
  ASSUME NEW p, IsParser(p), NEW r, IsParser(r), \A m \in ValueParts : r[m] = p[m], NEW t
  PROVE  \A m \in ValueParts : HeaderValueMore(r, t)[m] = HeaderValueMore(p, t)[m]
  <1>1. /\ r.errno = p.errno /\ r.flags = p.flags /\ r.length = p.length /\ r.hstate = p.hstate
        /\ DOMAIN r = Members /\ DOMAIN p = Members
    BY DEF ValueParts, IsParser
  <1>2. CASE p.hstate = "content_length_num"
    BY <1>1, <1>2 DEF HeaderValueMore, AddDigit, Fail, ValueParts, Members
  <1>3. CASE p.hstate \in {"chunked", "coding"}
    BY <1>1, <1>3 DEF HeaderValueMore, ValueParts, Members
  <1>4. CASE p.hstate = "transfer_encoding"
    BY <1>1, <1>4 DEF HeaderValueMore, HeaderValueStart, ValueParts, Members
  <1>5. CASE p.hstate \notin {"content_length_num", "chunked", "coding", "transfer_encoding"}
    BY <1>1, <1>5 DEF HeaderValueMore, ValueParts, Members
  <1> QED
    BY <1>2, <1>3, <1>4, <1>5

LEMMA CutValuesStayAlike ==
  ASSUME NEW S, NEW q, Shape(q, S), NEW c, CutInValue(c, q, S), NEW t, t.text \in S, NEW next
  PROVE  Alike(Step(c, t, next), Step(q, t, next), S)
  <1>1. PICK a \in Seq(S), b \in Seq(S) : a # <<>> /\ q.mark = a \o b /\ c = ValueCut(q, a, b)
    BY DEF CutInValue
  <1>2. IsParser(q) /\ q.state = "value" /\ q.building = 1
    BY DEF CutInValue, Shape
  <1>3. /\ IsParser(c) /\ Apart(q, c, {"value", "building", "mark"})
        /\ c.mark = b /\ c.building = 0
    BY <1>1, <1>2, CutValueIs
  <1>4. c.errno = q.errno /\ c.skip = q.skip /\ c.state = q.state
    BY <1>3 DEF Apart, Members
  <1>5. CASE q.errno # "OK"
    BY <1>4, <1>5 DEF Step, Alike
  <1>6. CASE q.errno = "OK" /\ q.skip
    <2> DEFINE r == Fail(q, "UNPARSED")
               v == Fail(c, "UNPARSED")
    <2>1. IsParser(r) /\ Apart(q, r, {"errno"}) /\ r.errno = "UNPARSED"
      BY <1>2 DEF Fail, IsParser, Members, Apart
    <2>2. IsParser(v) /\ Apart(c, v, {"errno"}) /\ v.errno = "UNPARSED" /\ v.mark = b
      BY <1>3 DEF Fail, IsParser, Members, Apart
    <2> HIDE DEF r, v
    <2>3. v = ValueCut(r, a, b)
      BY <1>1, <1>2, <2>1, <2>2, ValueCutApart
    <2>4. r.mark = a \o b /\ r.state = "value" /\ r.building = 1
      BY <1>1, <1>2, <2>1 DEF Apart, Members
    <2>5. Alike(v, r, S)
      BY <1>1, <2>3, <2>4 DEF Alike, CutInValue
    <2> QED
      BY <1>4, <1>6, <2>5 DEF Step, r, v
  <1>7. CASE q.errno = "OK" /\ ~q.skip
    <2>1. Step(q, t, next) = HeaderValue(q, t, next) /\ Step(c, t, next) = HeaderValue(c, t, next)
      BY <1>2, <1>4, <1>7 DEF Step
    <2>2. CASE t.type = "eol"
      <3>1. OnHeaderValue(c) = OnHeaderValue(q)
        BY <1>1, <1>2, ValueJoins
      <3> QED
        BY <2>1, <2>2, <3>1 DEF HeaderValue, Alike
    <2>3. CASE t.type # "eol"
      <3> DEFINE y == HeaderValueMore(q, t)
                 z == HeaderValueMore(c, t)
                 r == [y EXCEPT !.mark = Append(@, t.text)]
                 v == [z EXCEPT !.mark = Append(@, t.text)]
      <3>1. q.mark # <<>>
        BY <1>1
      <3>2. HeaderValue(q, t, next) = r /\ HeaderValue(c, t, next) = v
        BY <1>3, <2>3, <3>1 DEF HeaderValue
      <3>3. /\ IsParser(y) /\ Apart(q, y, ValueParts)
            /\ IsParser(z) /\ Apart(c, z, ValueParts)
        BY <1>2, <1>3, PieceIs
      <3>4. \A m \in ValueParts : c[m] = q[m]
        BY <1>3 DEF Apart, ValueParts, Members
      <3>5. \A m \in ValueParts : z[m] = y[m]
        BY <1>2, <1>3, <3>4, MoreAgrees
      <3> HIDE DEF y, z
      <3>6. IsParser(r) /\ Apart(q, r, ValueParts \cup {"mark"}) /\ r.mark = Append(q.mark, t.text)
        BY <3>3 DEF IsParser, Members, Apart, ValueParts
      <3>7. IsParser(v) /\ Apart(c, v, ValueParts \cup {"mark"}) /\ v.mark = Append(b, t.text)
        BY <1>3, <3>3 DEF IsParser, Members, Apart, ValueParts
      <3>8. \A m \in (ValueParts \cup {"mark"}) \ {"mark"} : v[m] = r[m]
        BY <3>3, <3>5 DEF IsParser, Members, ValueParts
      <3> HIDE DEF r, v
      <3> DEFINE x == t.text
                 d == Append(b, x)
      <3>9. d \in Seq(S) /\ Append(a \o b, x) = a \o d
        <4> HIDE DEF x
        <4>1. x \in S
          BY DEF x
        <4> QED
          BY <4>1
      <3>10. r.mark = a \o d /\ v.mark = d
        BY <1>1, <3>6, <3>7, <3>9
      <3> HIDE DEF d
      <3>13. v = ValueCut(r, a, d)
        <4>1. ValueParts \cup {"mark"} \subseteq {"errno", "flags", "length", "hstate", "mark"}
          BY DEF ValueParts
        <4> DEFINE changed == ValueParts \cup {"mark"}
        <4>2. /\ changed \subseteq {"errno", "flags", "length", "hstate", "mark"}
              /\ Apart(q, r, changed) /\ Apart(c, v, changed)
              /\ \A m \in changed \ {"mark"} : v[m] = r[m]
          BY <3>6, <3>7, <3>8, <4>1
        <4> HIDE DEF changed
        <4> QED
          BY <1>1, <1>2, <3>6, <3>7, <3>10, <4>2, ValueCutApart
      <3>11. r.state = "value" /\ r.building = 1
        BY <1>2, <3>6 DEF Apart, Members, ValueParts
      <3>12. CutInValue(v, r, S)
        BY <1>1, <3>9, <3>10, <3>11, <3>13 DEF CutInValue
      <3> QED
        BY <2>1, <3>2, <3>12 DEF Alike
    <2> QED
      BY <2>2, <2>3
  <1> QED
    BY <1>5, <1>6, <1>7

LEMMA StepKeepsAlike ==
  ASSUME NEW S, NEW q, Shape(q, S), NEW c, Alike(c, q, S), NEW t, t.text \in S, NEW next
  PROVE  Alike(Step(c, t, next), Step(q, t, next), S)
  <1>1. CASE c = q
    BY <1>1 DEF Alike
  <1> QED
    BY <1>1, CutNamesStayAlike, CutValuesStayAlike DEF Alike

-----------------------------------------------------------------------------
(* The end of a buffer.                                                     *)

(* Only the h of an Upgrade asks for the token after it, and it decides no   *)
(* more than a flag.                                                        *)
LEMMA NextMatters ==
  ASSUME NEW p, IsParser(p), NEW t
  PROVE  \/ \A x, y : Step(p, t, x) = Step(p, t, y)
         \/ /\ t = Token("text", "h") /\ p.state = "value"
            /\ \A x : /\ IsParser(Step(p, t, x))
                      /\ Apart(p, Step(p, t, x), ValueParts \cup {"mark"})
  <1> SUFFICES ASSUME NEW x, NEW y, Step(p, t, x) # Step(p, t, y)
               PROVE  /\ t = Token("text", "h") /\ p.state = "value"
                      /\ \A n : /\ IsParser(Step(p, t, n))
                                /\ Apart(p, Step(p, t, n), ValueParts \cup {"mark"})
    OBVIOUS
  <1>1. p.errno = "OK" /\ ~p.skip /\ p.state = "value"
    BY DEF Step
  <1>2. \A n : Step(p, t, n) = HeaderValue(p, t, n)
    BY <1>1 DEF Step
  <1>3. t.type # "eol" /\ p.building = 1 /\ p.mark = <<>>
    BY <1>2 DEF HeaderValue
  <1>4. p.hstate = "upgrade" /\ t = Token("text", "h")
    BY <1>2, <1>3 DEF HeaderValue, HeaderValueStart
  <1>5. ASSUME NEW n
        PROVE  IsParser(Step(p, t, n)) /\ Apart(p, Step(p, t, n), ValueParts \cup {"mark"})
    <2> DEFINE h == HeaderValueStart(p, t, n)
               g == [h EXCEPT !.mark = Append(@, t.text)]
    <2>1. IsParser(h) /\ Apart(p, h, ValueParts)
      BY PieceIs
    <2>2. Step(p, t, n) = g
      BY <1>2, <1>3 DEF HeaderValue
    <2> HIDE DEF h
    <2>3. IsParser(g) /\ Apart(p, g, ValueParts \cup {"mark"})
      BY <2>1 DEF IsParser, Members, Apart, ValueParts
    <2> QED
      BY <2>2, <2>3
  <1> QED
    BY <1>1, <1>3, <1>4, <1>5

LEMMA LeftoverIs ==
  ASSUME NEW p, IsParser(p), p.errno = "OK" /\ p.mark # <<>> => p.state \in {"url", "name", "value"}
  PROVE  /\ IsParser(Leftover(p))
         /\ Apart(p, Leftover(p), {"req", "field", "value", "building", "mark", "errno"})
         /\ Leftover(p).errno = "OK" => Leftover(p).mark = <<>>
  <1>1. CASE p.errno # "OK" \/ p.mark = <<>>
    BY <1>1 DEF Leftover, Apart
  <1>2. CASE p.errno = "OK" /\ p.mark # <<>>
    <2>1. CASE p.state = "url"
      <3>1. Leftover(p) = OnUrl(p)
        BY <1>2, <2>1 DEF Leftover
      <3> QED
        BY <3>1, OnUrlIs DEF Apart
    <2>2. CASE p.state = "name"
      <3>1. Leftover(p) = OnHeaderField(p)
        BY <1>2, <2>2 DEF Leftover
      <3> QED
        BY <3>1, OnHeaderFieldIs DEF Apart
    <2>3. CASE p.state = "value"
      <3>1. Leftover(p) = OnHeaderValue(p)
        BY <1>2, <2>3 DEF Leftover
      <3> QED
        BY <3>1, OnHeaderValueIs DEF Apart
    <2> QED
      BY <1>2, <2>1, <2>2, <2>3
  <1> QED
    BY <1>1, <1>2

(* What the reports at the end of a buffer leave is a parser that is cut.   *)
LEMMA FieldReported ==
  ASSUME NEW q, IsParser(q), q.building = 0
  PROVE  OnHeaderField(q) = FieldCut(q, q.mark, <<>>)
  <1> DEFINE m == [q EXCEPT !.mark = q.mark]
             r == OnHeaderField(q)
             v == [r EXCEPT !.mark = <<>>]
  <1>1. IsParser(r) /\ r.mark = <<>>
    BY OnHeaderFieldIs
  <1>2. m = q
    BY DEF IsParser
  <1> HIDE DEF r
  <1>3. v = r
    BY <1>1 DEF IsParser
  <1> QED
    BY <1>2, <1>3 DEF FieldCut, r

LEMMA ValueReported ==
  ASSUME NEW q, IsParser(q), q.building = 1
  PROVE  OnHeaderValue(q) = ValueCut(q, q.mark, <<>>)
  <1> DEFINE m == [q EXCEPT !.mark = q.mark]
             r == OnHeaderValue(q)
             v == [r EXCEPT !.mark = <<>>]
  <1>1. IsParser(r) /\ r.mark = <<>>
    BY OnHeaderValueIs
  <1>2. m = q
    BY DEF IsParser
  <1> HIDE DEF r
  <1>3. v = r
    BY <1>1 DEF IsParser
  <1> QED
    BY <1>2, <1>3 DEF ValueCut, r

LEMMA LeftoverStaysAlike ==
  ASSUME NEW S, NEW q, Shape(q, S), NEW c, Alike(c, q, S),
         q.errno = "OK" /\ q.state = "url" => q.mark = <<>>
  PROVE  Alike(Leftover(c), q, S)
  <1>1. IsParser(q) /\ q.mark \in Seq(S)
    BY DEF Shape
  <1> DEFINE none == <<>>
  <1>2. none \in Seq(S) /\ q.mark \o none = q.mark
    <2> DEFINE m == q.mark
    <2>1. m \in Seq(S)
      BY <1>1
    <2> HIDE DEF m
    <2>2. m \o <<>> = m
      BY <2>1
    <2> QED
      BY <2>2 DEF m
  <1>3. CASE Leftover(c) = c
    BY <1>3
  <1>4. CASE Leftover(c) # c
    <2>1. c.errno = "OK" /\ c.mark # <<>>
      BY <1>4 DEF Leftover
    <2>2. CASE c = q
      <3>1. q.state \in {"name", "value"}
        BY <2>1, <2>2 DEF Shape
      <3>2. CASE q.state = "name"
        <4>1. q.building = 0 /\ q.name # <<>>
          BY <2>1, <2>2, <3>2 DEF Shape
        <4>2. Leftover(c) = FieldCut(q, q.mark, none)
          BY <1>1, <2>1, <2>2, <3>2, <4>1, FieldReported DEF Leftover
        <4> HIDE DEF none
        <4>3. CutInName(Leftover(c), q, S)
          BY <1>1, <1>2, <3>2, <4>1, <4>2 DEF CutInName
        <4> QED
          BY <4>3 DEF Alike
      <3>3. CASE q.state = "value"
        <4>1. q.building = 1 /\ q.mark # <<>>
          BY <2>1, <2>2, <3>3 DEF Shape
        <4>2. Leftover(c) = ValueCut(q, q.mark, none)
          BY <1>1, <2>1, <2>2, <3>3, <4>1, ValueReported DEF Leftover
        <4> HIDE DEF none
        <4>3. CutInValue(Leftover(c), q, S)
          BY <1>1, <1>2, <3>3, <4>1, <4>2 DEF CutInValue
        <4> QED
          BY <4>3 DEF Alike
      <3> QED
        BY <3>1, <3>2, <3>3
    <2>3. CASE CutInName(c, q, S)
      <3>1. PICK a \in Seq(S), b \in Seq(S) : q.mark = a \o b /\ c = FieldCut(q, a, b)
        BY <2>3 DEF CutInName
      <3>2. q.state = "name" /\ q.building = 0 /\ q.name # <<>>
        BY <2>3 DEF CutInName
      <3>3. c.state = "name"
        BY <1>1, <3>1, <3>2, CutFieldIs DEF Apart, Members
      <3>4. OnHeaderField(c) = OnHeaderField(q)
        BY <1>1, <3>1, <3>2, FieldJoins
      <3>5. Leftover(c) = FieldCut(q, q.mark, none)
        BY <1>1, <2>1, <3>2, <3>3, <3>4, FieldReported DEF Leftover
      <3> HIDE DEF none
      <3>6. CutInName(Leftover(c), q, S)
        BY <1>1, <1>2, <3>2, <3>5 DEF CutInName
      <3> QED
        BY <3>6 DEF Alike
    <2>4. CASE CutInValue(c, q, S)
      <3>1. PICK a \in Seq(S), b \in Seq(S) : a # <<>> /\ q.mark = a \o b /\ c = ValueCut(q, a, b)
        BY <2>4 DEF CutInValue
      <3>2. q.state = "value" /\ q.building = 1
        BY <2>4 DEF CutInValue
      <3>3. c.state = "value"
        BY <1>1, <3>1, <3>2, CutValueIs DEF Apart, Members
      <3>4. OnHeaderValue(c) = OnHeaderValue(q)
        BY <1>1, <3>1, <3>2, ValueJoins
      <3>5. Leftover(c) = ValueCut(q, q.mark, none)
        BY <1>1, <2>1, <3>2, <3>3, <3>4, ValueReported DEF Leftover
      <3>6. q.mark # <<>>
        <4> HIDE DEF none
        <4> QED
          BY <3>1, EmptySeq, ConcatProperties
      <3> HIDE DEF none
      <3>7. CutInValue(Leftover(c), q, S)
        BY <1>1, <1>2, <3>2, <3>5, <3>6 DEF CutInValue
      <3> QED
        BY <3>7 DEF Alike
    <2> QED
      BY <2>2, <2>3, <2>4 DEF Alike
  <1> QED
    BY <1>3, <1>4

-----------------------------------------------------------------------------
(* Whatever a parser has been through, it takes nothing back of what the     *)
(* handler was given.                                                       *)

IsSequence(s) == Len(s) \in Nat /\ s = [i \in 1 .. Len(s) |-> s[i]]

LEMMA SequenceOf ==
  ASSUME NEW s, IsSequence(s), NEW x
  PROVE  \E T : s \in Seq(T) /\ x \in T
  <1> DEFINE T == {s[i] : i \in 1 .. Len(s)} \cup {x}
  <1>1. \A i \in 1 .. Len(s) : s[i] \in T
    OBVIOUS
  <1> HIDE DEF T
  <1>2. s \in Seq(T)
    BY <1>1 DEF IsSequence
  <1>3. x \in T
    BY DEF T
  <1> QED
    BY <1>2, <1>3

LEMMA PrefixIs ==
  ASSUME NEW s, IsSequence(s), NEW t, IsSequence(t)
  PROVE  IsPrefix(s, t) <=> Len(s) <= Len(t) /\ \A i \in 1 .. Len(s) : s[i] = t[i]
  <1> SUFFICES ASSUME Len(s) <= Len(t)
               PROVE  SubSeq(s, 1, Len(s)) = SubSeq(t, 1, Len(s))
                        <=> \A i \in 1 .. Len(s) : s[i] = t[i]
    BY DEF IsPrefix
  <1> DEFINE n == Len(s)
             u == SubSeq(s, 1, n)
             v == SubSeq(t, 1, n)
             T == {s[i] : i \in 1 .. n} \cup {t[i] : i \in 1 .. n}
  <1>1. n \in Nat
    BY DEF IsSequence
  <1>2. (\A i \in 1 .. n : s[i] \in T) /\ (\A i \in 1 .. n : t[i] \in T)
    OBVIOUS
  <1> HIDE DEF n, T
  <1>3. u \in Seq(T) /\ Len(u) = n /\ \A i \in 1 .. n : u[i] = s[i]
    BY <1>1, <1>2, SubSeqProperties
  <1>4. v \in Seq(T) /\ Len(v) = n /\ \A i \in 1 .. n : v[i] = t[i]
    BY <1>1, <1>2, SubSeqProperties
  <1> HIDE DEF u, v
  <1>5. u = v <=> \A i \in 1 .. n : s[i] = t[i]
    BY <1>3, <1>4
  <1> QED
    BY <1>5 DEF n, u, v

LEMMA AppendGrows ==
  ASSUME NEW s, IsSequence(s), NEW x
  PROVE  IsSequence(Append(s, x)) /\ IsPrefix(s, Append(s, x)) /\ Append(s, x) # <<>>
  <1> DEFINE r == Append(s, x)
  <1>1. PICK T : s \in Seq(T) /\ x \in T
    BY SequenceOf
  <1>2. r \in Seq(T) /\ Len(r) = Len(s) + 1 /\ \A i \in 1 .. Len(s) : r[i] = s[i]
    BY <1>1
  <1> HIDE DEF r
  <1>3. IsSequence(r) /\ r # <<>>
    BY <1>1, <1>2 DEF IsSequence
  <1>4. Len(s) <= Len(r)
    BY <1>2 DEF IsSequence
  <1>5. IsPrefix(s, r)
    BY <1>2, <1>3, <1>4, PrefixIs
  <1> QED
    BY <1>3, <1>5 DEF r

LEMMA PrefixesNest ==
  ASSUME NEW r, IsSequence(r), NEW s, IsSequence(s), NEW t, IsSequence(t)
  PROVE  IsPrefix(r, r) /\ (IsPrefix(r, s) /\ IsPrefix(s, t) => IsPrefix(r, t))
  <1>1. Len(r) \in Nat /\ Len(s) \in Nat /\ Len(t) \in Nat
    BY DEF IsSequence
  <1>2. IsPrefix(r, r)
    BY <1>1, PrefixIs
  <1>3. ASSUME IsPrefix(r, s), IsPrefix(s, t) PROVE IsPrefix(r, t)
    <2>1. Len(r) <= Len(s) /\ \A i \in 1 .. Len(r) : r[i] = s[i]
      BY <1>3, PrefixIs
    <2>2. Len(s) <= Len(t) /\ \A i \in 1 .. Len(s) : s[i] = t[i]
      BY <1>3, PrefixIs
    <2>3. Len(r) <= Len(t) /\ \A i \in 1 .. Len(r) : r[i] = t[i]
      BY <1>1, <2>1, <2>2
    <2> QED
      BY <2>3, PrefixIs
  <1> QED
    BY <1>2, <1>3

Marking == {"url", "name", "value"}
States  == Marking \cup {"start", "body", "size_start", "size", "chunk", "chunk_end"}

Well(p) ==
  /\ IsParser(p) /\ IsSequence(p.out) /\ IsSequence(p.name)
  /\ p.errno = "OK" =>
       /\ p.state \in States \/ (p.skip /\ p.state = "upgraded")
       /\ p.mark # <<>> => p.state \in Marking
       /\ p.mark # <<>> /\ p.state = "name" => p.name # <<>>

Grows(p, r) == Well(r) /\ IsPrefix(p.out, r.out)

LEMMA SameGrows ==
  ASSUME NEW p, IsSequence(p.out), NEW r, IsParser(r), r.out = p.out, IsSequence(r.name),
         r.errno = "OK" => /\ r.state \in States
                           /\ r.mark # <<>> => r.state \in Marking
                           /\ r.mark # <<>> /\ r.state = "name" => r.name # <<>>
  PROVE  Grows(p, r)
  <1>1. IsPrefix(p.out, r.out)
    BY PrefixesNest
  <1> QED
    BY <1>1 DEF Grows, Well

LEMMA FailGrows ==
  ASSUME NEW p, IsParser(p), IsSequence(p.out), IsSequence(p.name), NEW e, e # "OK"
  PROVE  Grows(p, Fail(p, e))
  <1> DEFINE r == Fail(p, e)
  <1>1. IsParser(r) /\ Apart(p, r, {"errno"}) /\ r.errno = e
    BY DEF Fail, IsParser, Members, Apart
  <1>2. r.out = p.out /\ r.name = p.name
    BY <1>1 DEF Apart, Members
  <1> HIDE DEF r
  <1> QED
    BY <1>1, <1>2, SameGrows DEF r

LEMMA StateGrows ==
  ASSUME NEW p, IsParser(p), IsSequence(p.out), IsSequence(p.name), p.mark = <<>>,
         NEW state, state \in States
  PROVE  Grows(p, [p EXCEPT !.state = state])
  <1> DEFINE r == [p EXCEPT !.state = state]
  <1>1. IsParser(r) /\ Apart(p, r, {"state"}) /\ r.state = state
    BY DEF IsParser, Members, Apart
  <1>2. r.out = p.out /\ r.name = p.name /\ r.mark = <<>>
    BY <1>1 DEF Apart, Members
  <1> HIDE DEF r
  <1> QED
    BY <1>1, <1>2, SameGrows DEF r

LEMMA CompleteGrows ==
  ASSUME NEW p, IsParser(p), IsSequence(p.out), IsSequence(p.name), p.mark = <<>>
  PROVE  Grows(p, OnMessageComplete(p))
  <1> DEFINE r == OnMessageComplete(p)
  <1>1. /\ IsParser(r) /\ r.state = "start"
        /\ Apart(p, r, {"state", "req", "field", "value", "building", "qs", "out"})
        /\ r.out = Append(p.out, p.req)
    BY CompleteIs
  <1>2. r.name = p.name /\ r.mark = <<>>
    BY <1>1 DEF Apart, Members
  <1> HIDE DEF r
  <1>3. IsSequence(r.out) /\ IsPrefix(p.out, r.out)
    BY <1>1, AppendGrows
  <1>4. Grows(p, r)
    BY <1>1, <1>2, <1>3 DEF Grows, Well, States
  <1> QED
    BY <1>4 DEF r

LEMMA StartGrows ==
  ASSUME NEW p, Well(p), p.errno = "OK", p.state = "start", NEW t
  PROVE  Grows(p, StartReq(p, t))
  <1>1. IsParser(p) /\ IsSequence(p.out) /\ IsSequence(p.name) /\ p.mark = <<>>
    BY DEF Well, Marking
  <1>2. Grows(p, p) /\ Grows(p, Fail(p, "INVALID_METHOD"))
    BY <1>1, SameGrows, FailGrows DEF States
  <1> DEFINE r == [p EXCEPT !.state = "url", !.flags = {}, !.te = FALSE, !.length = ULLONG_MAX]
  <1>3. IsParser(r) /\ Apart(p, r, {"state", "flags", "te", "length"}) /\ r.state = "url"
    BY <1>1 DEF IsParser, Members, Apart
  <1>4. r.out = p.out /\ r.name = p.name /\ r.mark = <<>>
    BY <1>1, <1>3 DEF Apart, Members
  <1>5. StartReq(p, t) \in {p, r, Fail(p, "INVALID_METHOD")}
    BY DEF StartReq
  <1> HIDE DEF r
  <1>6. Grows(p, r)
    BY <1>1, <1>3, <1>4, SameGrows DEF States, Marking
  <1> QED
    BY <1>2, <1>5, <1>6

LEMMA UrlGrows ==
  ASSUME NEW p, Well(p), p.errno = "OK", p.state = "url", NEW t
  PROVE  Grows(p, Url(p, t))
  <1>1. IsParser(p) /\ IsSequence(p.out) /\ IsSequence(p.name)
    BY DEF Well
  <1> DEFINE r == [p EXCEPT !.mark = Append(@, t.text), !.qs = QueryPoint(p, t)]
             q == OnUrl(p)
             v == [q EXCEPT !.state = "name"]
  <1>2. Url(p, t) \in {r, v, Fail(p, "INVALID_URL")}
    BY DEF Url
  <1>3. IsParser(r) /\ Apart(p, r, {"mark", "qs"})
    BY <1>1 DEF IsParser, Members, Apart
  <1>4. r.out = p.out /\ r.name = p.name /\ r.state = "url"
    BY <1>3 DEF Apart, Members
  <1> HIDE DEF r
  <1>5. Grows(p, r)
    BY <1>1, <1>3, <1>4, SameGrows DEF States, Marking
  <1>6. IsParser(q) /\ q.mark = <<>> /\ Apart(p, q, {"req", "mark", "errno"})
    BY <1>1, OnUrlIs
  <1> HIDE DEF q
  <1>7. IsParser(v) /\ Apart(q, v, {"state"}) /\ v.state = "name"
    BY <1>6 DEF IsParser, Members, Apart
  <1>8. v.out = p.out /\ v.name = p.name /\ v.mark = <<>>
    BY <1>6, <1>7 DEF Apart, Members
  <1> HIDE DEF v
  <1>9. Grows(p, v)
    BY <1>1, <1>7, <1>8, SameGrows DEF States, Marking
  <1> QED
    BY <1>1, <1>2, <1>5, <1>9, FailGrows

LEMMA FieldGrows ==
  ASSUME NEW p, Well(p), p.errno = "OK", p.state = "name", NEW t
  PROVE  Grows(p, HeaderField(p, t))
  <1>1. IsParser(p) /\ IsSequence(p.out) /\ IsSequence(p.name)
    BY DEF Well
  <1> DEFINE r == [p EXCEPT !.mark = Append(@, t.text), !.name = Append(@, t.text)]
             q == OnHeaderField(p)
             v == [q EXCEPT !.state = "value", !.hstate = HeaderStateOf(p.name), !.name = <<>>,
                            !.te = @ \/ p.name = TransferEncoding]
  <1>2. HeaderField(p, t) \in {r, v}
    BY DEF HeaderField
  <1>3. IsParser(r) /\ Apart(p, r, {"mark", "name"}) /\ r.name = Append(p.name, t.text)
    BY <1>1 DEF IsParser, Members, Apart
  <1>4. r.out = p.out /\ r.state = "name"
    BY <1>3 DEF Apart, Members
  <1> HIDE DEF r
  <1>5. IsSequence(r.name) /\ r.name # <<>>
    BY <1>1, <1>3, AppendGrows
  <1>6. Grows(p, r)
    BY <1>1, <1>3, <1>4, <1>5, SameGrows DEF States, Marking
  <1>7. /\ IsParser(q) /\ q.mark = <<>>
        /\ Apart(p, q, {"req", "field", "building", "mark"})
    BY <1>1, OnHeaderFieldIs
  <1> HIDE DEF q
  <1>8. IsParser(v) /\ Apart(q, v, {"state", "hstate", "name", "te"}) /\ v.state = "value" /\ v.name = <<>>
    BY <1>7 DEF IsParser, Members, Apart
  <1>9. v.out = p.out /\ v.mark = <<>>
    BY <1>7, <1>8 DEF Apart, Members
  <1> HIDE DEF v
  <1>10. IsSequence(<<>>)
    BY DEF IsSequence
  <1>11. Grows(p, v)
    BY <1>1, <1>8, <1>9, <1>10, SameGrows DEF States, Marking
  <1> QED
    BY <1>2, <1>6, <1>11

LEMMA ValueGrows ==
  ASSUME NEW p, Well(p), p.errno = "OK", p.state = "value", NEW t, NEW next
  PROVE  Grows(p, HeaderValue(p, t, next))
  <1>1. IsParser(p) /\ IsSequence(p.out) /\ IsSequence(p.name)
    BY DEF Well
  <1>2. CASE t.type = "eol"
    <2> DEFINE q == OnHeaderValue(p)
               r == HeaderLws(q)
    <2>1. IsParser(q) /\ q.mark = <<>> /\ Apart(p, q, {"value", "building", "mark"})
      BY <1>1, OnHeaderValueIs
    <2> HIDE DEF q
    <2>2. IsParser(r) /\ Apart(q, r, {"state", "hstate", "flags"}) /\ r.state = "name"
      BY <2>1 DEF HeaderLws, IsParser, Members, Apart
    <2>3. r.out = p.out /\ r.name = p.name /\ r.mark = <<>>
      BY <2>1, <2>2 DEF Apart, Members
    <2> HIDE DEF r
    <2>4. Grows(p, r)
      BY <1>1, <2>2, <2>3, SameGrows DEF States, Marking
    <2> QED
      BY <1>2, <2>4 DEF HeaderValue, r, q
  <1>3. CASE t.type # "eol"
    <2> DEFINE q == IF p.building = 1 /\ p.mark = <<>> THEN HeaderValueStart(p, t, next)
                                                      ELSE HeaderValueMore(p, t)
               r == [q EXCEPT !.mark = Append(@, t.text)]
    <2>1. IsParser(q) /\ Apart(p, q, ValueParts)
      BY <1>1, PieceIs
    <2> HIDE DEF q
    <2>2. IsParser(r) /\ Apart(q, r, {"mark"})
      BY <2>1 DEF IsParser, Members, Apart
    <2>3. r.out = p.out /\ r.name = p.name /\ r.state = "value"
      BY <2>1, <2>2 DEF Apart, Members, ValueParts
    <2> HIDE DEF r
    <2>4. Grows(p, r)
      BY <1>1, <2>2, <2>3, SameGrows DEF States, Marking
    <2> QED
      BY <1>3, <2>4 DEF HeaderValue, r, q
  <1> QED
    BY <1>2, <1>3

LEMMA DoneGrows ==
  ASSUME NEW p, IsParser(p), IsSequence(p.out), IsSequence(p.name), p.mark = <<>>
  PROVE  Grows(p, HeadersAlmostDone(p))
  <1> DEFINE q == OnHeadersComplete(p)
  <1>1. IsParser(q) /\ Apart(p, q, {"req", "field", "value"})
    BY HeadersCompleteIs
  <1>2. q.out = p.out /\ q.name = p.name /\ q.mark = <<>>
    BY <1>1 DEF Apart, Members
  <1> HIDE DEF q
  <1>3. /\ Grows(q, OnMessageComplete(q)) /\ Grows(q, Fail(q, "INVALID_TRANSFER_ENCODING"))
        /\ Grows(q, [q EXCEPT !.state = "size_start"]) /\ Grows(q, [q EXCEPT !.state = "body"])
    BY <1>1, <1>2, CompleteGrows, FailGrows, StateGrows DEF States, Marking
  <1>4. Grows(q, OnUpgrade(q))
    <2> DEFINE done == OnMessageComplete(q)
               r == OnUpgrade(q)
    <2>1. Well(done) /\ IsPrefix(q.out, done.out)
      BY <1>3 DEF Grows
    <2>2. /\ IsParser(r) /\ r.skip = TRUE /\ r.out = done.out /\ r.name = done.name
          /\ r.mark = done.mark /\ r.state \in {"start", "upgraded"}
      <3>1. IsParser(done)
        BY <2>1 DEF Well
      <3> HIDE DEF done
      <3>2. \A v \in {[done EXCEPT !.skip = TRUE], [[done EXCEPT !.skip = TRUE] EXCEPT !.state = "upgraded"]} :
              IsParser(v) /\ v.skip = TRUE /\ v.out = done.out /\ v.name = done.name /\ v.mark = done.mark
        BY <3>1 DEF IsParser, Members
      <3>4. r.state \in {"start", "upgraded"}
        BY <1>1, UpgradeIs
      <3>3. r \in {[done EXCEPT !.skip = TRUE], [[done EXCEPT !.skip = TRUE] EXCEPT !.state = "upgraded"]}
        BY DEF OnUpgrade, done
      <3> HIDE DEF r
      <3> QED
        BY <3>2, <3>3, <3>4
    <2>3. done.mark = <<>>
      BY <1>1, <1>2, CompleteIs DEF Apart, Members
    <2> HIDE DEF done, r
    <2>4. Grows(q, r)
      BY <2>1, <2>2, <2>3 DEF Grows, Well, States
    <2> QED
      BY <2>4 DEF r
  <1>5. Grows(q, HeadersDone(q))
    BY <1>3, <1>4 DEF HeadersDone
  <1>6. Grows(p, OnMessageComplete(p)) /\ Grows(p, Fail(p, "UNEXPECTED_CONTENT_LENGTH"))
    BY CompleteGrows, FailGrows
  <1>7. Grows(p, HeadersDone(q))
    BY <1>2, <1>5 DEF Grows
  <1> QED
    BY <1>6, <1>7 DEF HeadersAlmostDone, q

LEMMA ByteGrows ==
  ASSUME NEW p, Well(p), p.errno = "OK", p.state \in {"body", "chunk"},
         NEW t, NEW then, then \in {"done", "chunk_end"}
  PROVE  Grows(p, OneByte(p, t, then))
  <1>1. IsParser(p) /\ IsSequence(p.out) /\ IsSequence(p.name) /\ p.mark = <<>>
    BY DEF Well, Marking
  <1> DEFINE u == [p.req EXCEPT !.body = Append(@, t.text)]
             q == [p EXCEPT !.length = @ - 1, !.req = u]
  <1>2. IsRequest(u)
    BY <1>1 DEF IsParser, IsRequest, RequestMembers
  <1>3. [p EXCEPT !.length = @ - 1, !.req.body = Append(@, t.text)] = q
    BY <1>1 DEF IsParser, IsRequest, Members, RequestMembers
  <1>4. OneByte(p, t, then) \in {q, OnMessageComplete(q), [q EXCEPT !.state = "chunk_end"]}
    BY <1>3 DEF OneByte
  <1> HIDE DEF u
  <1>5. /\ IsParser(q) /\ Apart(p, q, {"length", "req"})
    BY <1>1, <1>2 DEF IsParser, Members, Apart
  <1>6. q.mark = <<>> /\ q.name = p.name /\ q.out = p.out /\ q.state = p.state
    BY <1>1, <1>5 DEF Apart, Members
  <1> HIDE DEF q
  <1>7. Grows(p, q)
    BY <1>1, <1>5, <1>6, SameGrows DEF States, Marking
  <1>8. Grows(q, OnMessageComplete(q)) /\ Grows(q, [q EXCEPT !.state = "chunk_end"])
    BY <1>1, <1>5, <1>6, CompleteGrows, StateGrows DEF States, Marking
  <1> QED
    BY <1>4, <1>6, <1>7, <1>8 DEF Grows

LEMMA ChunkGrows ==
  ASSUME NEW p, Well(p), p.errno = "OK", p.state \in {"size_start", "size", "chunk_end"}, NEW t
  PROVE  /\ p.state = "size_start" => Grows(p, ChunkSizeStart(p, t))
         /\ p.state = "size" => Grows(p, ChunkSize(p, t))
         /\ p.state = "chunk_end" => Grows(p, ChunkDataDone(p, t))
  <1>1. IsParser(p) /\ IsSequence(p.out) /\ IsSequence(p.name) /\ p.mark = <<>> /\ DOMAIN p = Members
    BY DEF Well, Marking, IsParser
  <1>2. ASSUME NEW r, IsParser(r), Apart(p, r, {"flags", "length", "state"}), r.state \in States
        PROVE  Grows(p, r)
    <2>1. r.out = p.out /\ r.name = p.name /\ r.mark = <<>>
      BY <1>1, <1>2 DEF Apart, Members
    <2> QED
      BY <1>1, <1>2, <2>1, SameGrows
  <1>3. \A e : e # "OK" => Grows(p, Fail(p, e))
    BY <1>1, FailGrows
  <1>4. Grows(p, [p EXCEPT !.state = "chunk"]) /\ Grows(p, [p EXCEPT !.state = "size_start"])
    BY <1>1, StateGrows DEF States
  <1>5. ASSUME NEW l PROVE Grows(p, [p EXCEPT !.length = l, !.state = "size"])
    <2> DEFINE r == [p EXCEPT !.length = l, !.state = "size"]
    <2>1. IsParser(r) /\ Apart(p, r, {"flags", "length", "state"}) /\ r.state \in States
      BY <1>1 DEF IsParser, Members, Apart, States
    <2> QED
      BY <1>2, <2>1
  <1>6. ASSUME NEW f PROVE Grows(p, [p EXCEPT !.flags = f, !.state = "name"])
    <2> DEFINE r == [p EXCEPT !.flags = f, !.state = "name"]
    <2>1. IsParser(r) /\ Apart(p, r, {"flags", "length", "state"}) /\ r.state \in States
      BY <1>1 DEF IsParser, Members, Apart, States, Marking
    <2> QED
      BY <1>2, <2>1
  <1>7. ASSUME p.state = "size", NEW l PROVE Grows(p, [p EXCEPT !.length = l])
    <2> DEFINE r == [p EXCEPT !.length = l]
    <2>1. IsParser(r) /\ Apart(p, r, {"flags", "length", "state"}) /\ r.state \in States
      BY <1>1, <1>7 DEF IsParser, Members, Apart, States
    <2> QED
      BY <1>2, <2>1
  <1>8. Grows(p, ChunkSizeStart(p, t))
    BY <1>3, <1>5 DEF ChunkSizeStart
  <1>9. p.state = "size" => Grows(p, ChunkSize(p, t))
    <2>1. p.state = "size" => \A d : Grows(p, AddDigit(p, 16, d))
      BY <1>3, <1>7 DEF AddDigit
    <2> QED
      BY <1>3, <1>4, <1>6, <2>1 DEF ChunkSize
  <1>10. Grows(p, ChunkDataDone(p, t))
    BY <1>3, <1>4 DEF ChunkDataDone
  <1> QED
    BY <1>8, <1>9, <1>10

LEMMA StepGrows ==
  ASSUME NEW p, Well(p), NEW t, NEW next
  PROVE  Grows(p, Step(p, t, next))
  <1>1. IsParser(p) /\ IsSequence(p.out) /\ IsSequence(p.name)
    BY DEF Well
  <1>2. CASE p.errno # "OK"
    BY <1>1, <1>2, SameGrows DEF Step
  <1>3. CASE p.errno = "OK" /\ p.skip
    BY <1>1, <1>3, FailGrows DEF Step
  <1>4. CASE p.errno = "OK" /\ ~p.skip
    <2>1. p.state \in States
      BY <1>4 DEF Well
    <2>2. CASE p.state = "start"
      BY <1>4, <2>2, StartGrows DEF Step
    <2>3. CASE p.state = "url"
      BY <1>4, <2>3, UrlGrows DEF Step
    <2>4. CASE p.state = "name"
      <3>1. CASE t.type = "eol" /\ p.name = <<>>
        <4>1. p.mark = <<>>
          BY <1>4, <2>4, <3>1 DEF Well
        <4> QED
          BY <1>1, <1>4, <2>4, <3>1, <4>1, DoneGrows DEF Step
      <3>2. CASE ~(t.type = "eol" /\ p.name = <<>>)
        BY <1>4, <2>4, <3>2, FieldGrows DEF Step
      <3> QED
        BY <3>1, <3>2
    <2>5. CASE p.state = "value"
      BY <1>4, <2>5, ValueGrows DEF Step
    <2>6. CASE p.state = "body"
      BY <1>4, <2>6, ByteGrows DEF Step
    <2>7. CASE p.state = "size_start"
      BY <1>4, <2>7, ChunkGrows DEF Step
    <2>8. CASE p.state = "size"
      BY <1>4, <2>8, ChunkGrows DEF Step
    <2>9. CASE p.state = "chunk"
      BY <1>4, <2>9, ByteGrows DEF Step
    <2>10. CASE p.state = "chunk_end"
      BY <1>4, <2>10, ChunkGrows DEF Step
    <2> QED
      BY <2>1, <2>2, <2>3, <2>4, <2>5, <2>6, <2>7, <2>8, <2>9, <2>10 DEF States, Marking
  <1> QED
    BY <1>2, <1>3, <1>4

LEMMA LeftoverGrows ==
  ASSUME NEW p, Well(p)
  PROVE  Grows(p, Leftover(p)) /\ Leftover(p).state = p.state /\ Leftover(p).skip = p.skip
         /\ Leftover(p).out = p.out
  <1> DEFINE r == Leftover(p)
  <1>1. /\ IsParser(r)
        /\ Apart(p, r, {"req", "field", "value", "building", "mark", "errno"})
        /\ r.errno = "OK" => r.mark = <<>>
    BY LeftoverIs DEF Well, Marking
  <1>2. r.out = p.out /\ r.name = p.name /\ r.state = p.state /\ r.skip = p.skip
    BY <1>1 DEF Apart, Members
  <1>3. r.errno = "OK" => p.errno = "OK"
    BY DEF Leftover
  <1> HIDE DEF r
  <1>4. IsPrefix(p.out, r.out)
    BY <1>2, PrefixesNest DEF Well
  <1>5. Grows(p, r)
    BY <1>1, <1>2, <1>3, <1>4 DEF Grows, Well
  <1> QED
    BY <1>2, <1>5 DEF r


(* A piece of a URL is marked only behind one.                              *)
LEMMA MarkInUrl ==
  ASSUME NEW S, NEW p, Shape(p, S), NEW t, NEW next,
         LET r == Step(p, t, next) IN r.errno = "OK" /\ r.state = "url" /\ r.mark # <<>>
  PROVE  t.type = "url"
  <1> DEFINE r == Step(p, t, next)
  <1>1. p.errno = "OK" /\ ~p.skip
    <2>1. CASE p.errno # "OK"
      BY <2>1 DEF Step
    <2>2. CASE p.errno = "OK" /\ p.skip
      BY <2>2 DEF Step, Fail, Shape, IsParser, Members
    <2> QED
      BY <2>1, <2>2
  <1>2. IsParser(p) /\ p.state \in States
    BY <1>1 DEF Shape, States, Marking
  <1>3. CASE p.state = "start"
    <2>1. p.mark = <<>>
      BY <1>1, <1>3 DEF Shape
    <2>2. r = StartReq(p, t)
      BY <1>1, <1>3 DEF Step
    <2>3. r.mark = <<>>
      BY <1>2, <2>1, <2>2 DEF StartReq, Fail, IsParser, Members
    <2> QED
      BY <2>3
  <1>4. CASE p.state = "url"
    <2>1. r = Url(p, t)
      BY <1>1, <1>4 DEF Step
    <2>2. CASE t.type = "version"
      <3> DEFINE q == OnUrl(p)
      <3>1. IsParser(q) /\ r = [q EXCEPT !.state = "name"]
        BY <1>2, <2>1, <2>2, OnUrlIs DEF Url
      <3> HIDE DEF q
      <3> QED
        BY <3>1 DEF IsParser, Members
    <2>3. CASE t.type \notin {"url", "version"}
      BY <1>2, <2>1, <2>3 DEF Url, Fail, IsParser, Members
    <2> QED
      BY <2>2, <2>3
  <1>5. CASE p.state \notin {"start", "url"}
    <2>1. r.state # "url"
      <3>1. \A q, e : IsParser(q) => Fail(q, e).state = q.state
        BY DEF Fail, IsParser, Members
      <3>2. \A q : IsParser(q) => OnMessageComplete(q).state = "start"
        BY CompleteIs
      <3>3. CASE p.state = "name"
        <4>1. HeaderField(p, t).state # "url"
          <5> DEFINE q == OnHeaderField(p)
          <5>1. IsParser(q)
            BY <1>2, OnHeaderFieldIs
          <5> HIDE DEF q
          <5>2. [q EXCEPT !.state = "value", !.hstate = HeaderStateOf(p.name), !.name = <<>>,
                          !.te = @ \/ p.name = TransferEncoding].state = "value"
            BY <5>1 DEF IsParser, Members
          <5>3. [p EXCEPT !.mark = Append(@, t.text), !.name = Append(@, t.text)].state = "name"
            BY <1>2, <3>3 DEF IsParser, Members
          <5> QED
            BY <5>2, <5>3 DEF HeaderField, q
        <4>2. HeadersAlmostDone(p).state # "url"
          <5> DEFINE q == OnHeadersComplete(p)
          <5>1. IsParser(q) /\ q.state = "name"
            BY <1>2, <3>3, HeadersCompleteIs DEF Apart, Members
          <5> HIDE DEF q
          <5>2. OnUpgrade(q).state # "url"
            BY <5>1, UpgradeIs
          <5>3. [q EXCEPT !.state = "size_start"].state = "size_start"
                /\ [q EXCEPT !.state = "body"].state = "body"
            BY <5>1 DEF IsParser, Members
          <5>4. HeadersDone(q).state # "url"
            BY <3>1, <3>2, <5>1, <5>2, <5>3 DEF HeadersDone
          <5>5. Fail(p, "UNEXPECTED_CONTENT_LENGTH").state # "url" /\ OnMessageComplete(p).state # "url"
            BY <1>2, <3>1, <3>2, <3>3
          <5> QED
            BY <5>4, <5>5 DEF HeadersAlmostDone, q
        <4> QED
          BY <1>1, <3>3, <4>1, <4>2 DEF Step
      <3>4. CASE p.state = "value"
        <4>1. r = HeaderValue(p, t, next)
          BY <1>1, <3>4 DEF Step
        <4>2. CASE t.type = "eol"
          <5> DEFINE q == OnHeaderValue(p)
          <5>1. IsParser(q)
            BY <1>2, OnHeaderValueIs
          <5> HIDE DEF q
          <5>2. HeaderLws(q).state = "name"
            BY <5>1 DEF HeaderLws, IsParser, Members
          <5> QED
            BY <4>1, <4>2, <5>2 DEF HeaderValue, q
        <4>3. CASE t.type # "eol"
          <5> DEFINE q == IF p.building = 1 /\ p.mark = <<>> THEN HeaderValueStart(p, t, next)
                                                            ELSE HeaderValueMore(p, t)
          <5>1. IsParser(q) /\ Apart(p, q, ValueParts)
            BY <1>2, PieceIs
          <5>2. r = [q EXCEPT !.mark = Append(@, t.text)]
            BY <4>1, <4>3 DEF HeaderValue
          <5> HIDE DEF q
          <5>3. r.state = p.state
            BY <5>1, <5>2 DEF IsParser, Members, Apart, ValueParts
          <5> QED
            BY <3>4, <5>3
        <4> QED
          BY <4>2, <4>3
      <3>5. CASE p.state \in {"body", "chunk"}
        <4>1. \A then : then # "url" => OneByte(p, t, then).state # "url"
          <5> SUFFICES ASSUME NEW then, then # "url" PROVE OneByte(p, t, then).state # "url"
            OBVIOUS
          <5> DEFINE u == [p.req EXCEPT !.body = Append(@, t.text)]
                     q == [p EXCEPT !.length = @ - 1, !.req = u]
          <5>1. IsRequest(u)
            BY <1>2 DEF IsParser, IsRequest, RequestMembers
          <5>2. [p EXCEPT !.length = @ - 1, !.req.body = Append(@, t.text)] = q
            BY <1>2 DEF IsParser, IsRequest, Members, RequestMembers
          <5>3. OneByte(p, t, then) \in {q, OnMessageComplete(q), [q EXCEPT !.state = then]}
            BY <5>2 DEF OneByte
          <5> HIDE DEF u
          <5>4. IsParser(q) /\ q.state = p.state
            BY <1>2, <5>1 DEF IsParser, Members
          <5> HIDE DEF q
          <5>5. [q EXCEPT !.state = then].state = then
            BY <5>4 DEF IsParser, Members
          <5> QED
            BY <1>5, <3>2, <5>3, <5>4, <5>5
        <4> QED
          BY <1>1, <3>5, <4>1 DEF Step
      <3>6. CASE p.state = "size_start"
        BY <1>1, <1>2, <3>1, <3>6 DEF Step, ChunkSizeStart, IsParser, Members
      <3>7. CASE p.state = "size"
        <4>1. \A d : AddDigit(p, 16, d).state = "size"
          BY <1>2, <3>1, <3>7 DEF AddDigit, IsParser, Members
        <4> QED
          BY <1>1, <1>2, <3>1, <3>7, <4>1 DEF Step, ChunkSize, IsParser, Members
      <3>8. CASE p.state = "chunk_end"
        BY <1>1, <1>2, <3>1, <3>8 DEF Step, ChunkDataDone, IsParser, Members
      <3> QED
        BY <1>2, <1>5, <3>3, <3>4, <3>5, <3>6, <3>7, <3>8 DEF States, Marking
    <2> QED
      BY <2>1
  <1> QED
    BY <1>3, <1>4, <1>5
-----------------------------------------------------------------------------
(* The parser after each token of a buffer.                                 *)

NextOf(buffer, i) == IF i < Len(buffer) THEN buffer[i + 1] ELSE None

Runs(f, p, buffer, n) ==
  f = [i \in 0 .. n |-> IF i = 0 THEN p ELSE Step(f[i - 1], buffer[i], NextOf(buffer, i))]

LEMMA RunExists ==
  ASSUME NEW p, NEW buffer, Len(buffer) \in Nat
  PROVE  \E f : Runs(f, p, buffer, Len(buffer)) /\ Execute(p, buffer) = Leftover(f[Len(buffer)])
  <1> DEFINE Built == {n \in Nat : \E f : Runs(f, p, buffer, n)}
  <1>1. 0 \in Built
    <2>1. Runs([i \in 0 .. 0 |-> p], p, buffer, 0)
      BY DEF Runs
    <2> QED
      BY <2>1
  <1>2. ASSUME NEW n \in Nat, n \in Built PROVE n + 1 \in Built
    <2>1. PICK f : Runs(f, p, buffer, n)
      BY <1>2
    <2> DEFINE last == Step(f[n], buffer[n + 1], NextOf(buffer, n + 1))
               g == [i \in 0 .. n + 1 |-> IF i = n + 1 THEN last ELSE f[i]]
               h == [i \in 0 .. n + 1 |-> IF i = 0 THEN p
                                          ELSE Step(g[i - 1], buffer[i], NextOf(buffer, i))]
    <2>2. ASSUME NEW i \in 0 .. n + 1 PROVE g[i] = h[i]
      <3>1. CASE i = n + 1
        <4>1. n \in 0 .. n + 1 /\ g[n] = f[n] /\ n + 1 \in 0 .. n + 1
          OBVIOUS
        <4>2. g[n + 1] = last /\ h[n + 1] = Step(g[n], buffer[n + 1], NextOf(buffer, n + 1))
          <5>1. (n + 1) - 1 = n /\ n + 1 # 0
            OBVIOUS
          <5> HIDE DEF last
          <5>2. g[n + 1] = last
            BY <4>1
          <5> HIDE DEF g
          <5>3. h[n + 1] = Step(g[(n + 1) - 1], buffer[n + 1], NextOf(buffer, n + 1))
            BY <4>1, <5>1
          <5> QED
            BY <5>1, <5>2, <5>3
        <4> HIDE DEF g, h
        <4> QED
          BY <3>1, <4>1, <4>2
      <3>2. CASE i \in 0 .. n
        <4>1. f[i] = IF i = 0 THEN p ELSE Step(f[i - 1], buffer[i], NextOf(buffer, i))
          BY <2>1, <3>2 DEF Runs
        <4>2. i # 0 => i - 1 \in 0 .. n + 1 /\ g[i - 1] = f[i - 1]
          BY <3>2
        <4>3. g[i] = f[i]
          BY <3>2
        <4> HIDE DEF g
        <4>4. h[i] = IF i = 0 THEN p ELSE Step(g[i - 1], buffer[i], NextOf(buffer, i))
          OBVIOUS
        <4> HIDE DEF h
        <4> QED
          BY <4>1, <4>2, <4>3, <4>4
      <3> QED
        BY <3>1, <3>2
    <2>3. DOMAIN g = 0 .. n + 1 /\ DOMAIN h = 0 .. n + 1
      OBVIOUS
    <2>4. g = [i \in 0 .. n + 1 |-> g[i]] /\ h = [i \in 0 .. n + 1 |-> h[i]]
      OBVIOUS
    <2>5. g = h
      <3> HIDE DEF g, h
      <3> QED
        BY <2>2, <2>3, <2>4
    <2>6. Runs(g, p, buffer, n + 1)
      <3>1. h = [i \in 0 .. n + 1 |-> IF i = 0 THEN p
                                      ELSE Step(g[i - 1], buffer[i], NextOf(buffer, i))]
        OBVIOUS
      <3> HIDE DEF g, h
      <3> QED
        BY <2>5, <3>1 DEF Runs
    <2> QED
      BY <2>6
  <1> HIDE DEF Built
  <1>3. Nat \subseteq Built
    BY <1>1, <1>2, Induction
  <1>4. \E f : Runs(f, p, buffer, Len(buffer))
    BY <1>3 DEF Built
  <1> DEFINE n == Len(buffer)
             run == CHOOSE f : Runs(f, p, buffer, n)
  <1>5. Runs(run, p, buffer, n)
    BY <1>4
  <1>6. Execute(p, buffer) = Leftover(run[n])
    BY DEF Execute, Runs, NextOf
  <1> QED
    BY <1>5, <1>6


LEMMA RunSteps ==
  ASSUME NEW p, NEW buffer, NEW n \in Nat, NEW f, Runs(f, p, buffer, n)
  PROVE  /\ f[0] = p
         /\ \A i \in 0 .. n - 1 : f[i + 1] = Step(f[i], buffer[i + 1], NextOf(buffer, i + 1))
  <1>1. \A i \in 0 .. n : f[i] = IF i = 0 THEN p ELSE Step(f[i - 1], buffer[i], NextOf(buffer, i))
    BY DEF Runs
  <1>2. f[0] = p
    BY <1>1
  <1>3. ASSUME NEW i \in 0 .. n - 1
        PROVE  f[i + 1] = Step(f[i], buffer[i + 1], NextOf(buffer, i + 1))
    <2>1. i + 1 \in 0 .. n /\ i + 1 # 0 /\ (i + 1) - 1 = i
      OBVIOUS
    <2> QED
      BY <1>1, <2>1
  <1> QED
    BY <1>2, <1>3

LEMMA NewParserIs ==
  ASSUME NEW S
  PROVE  Shape(NewParser, S) /\ Well(NewParser) /\ ~NewParser.skip /\ NewParser.out = <<>>
  <1>1. /\ IsParser(NewParser) /\ NewParser.mark = <<>> /\ NewParser.name = <<>>
        /\ NewParser.out = <<>> /\ NewParser.building = 0 /\ NewParser.state = "start"
        /\ NewParser.skip = FALSE
    BY DEF NewParser, Clear, EmptyRequest, IsParser, IsRequest, Members, RequestMembers
  <1>2. <<>> \in Seq(S) /\ IsSequence(<<>>)
    BY DEF IsSequence
  <1> QED
    BY <1>1, <1>2 DEF Shape, Well, States

LEMMA RunGrows ==
  ASSUME NEW p, Well(p), NEW buffer, NEW n \in Nat, NEW f, Runs(f, p, buffer, n)
  PROVE  \A i \in 0 .. n : Grows(p, f[i])
  <1> DEFINE Good == {i \in Nat : i \in 0 .. n => Grows(p, f[i])}
  <1>1. 0 \in Good
    <2>1. IsPrefix(p.out, p.out)
      BY PrefixesNest DEF Well
    <2> QED
      BY <2>1, RunSteps DEF Grows
  <1>2. ASSUME NEW i \in Nat, i \in Good PROVE i + 1 \in Good
    <2> SUFFICES ASSUME i + 1 \in 0 .. n PROVE Grows(p, f[i + 1])
      OBVIOUS
    <2>1. Grows(p, f[i])
      BY <1>2
    <2>2. f[i + 1] = Step(f[i], buffer[i + 1], NextOf(buffer, i + 1))
      BY RunSteps
    <2>3. Grows(f[i], f[i + 1])
      BY <2>1, <2>2, StepGrows DEF Grows
    <2> QED
      BY <2>1, <2>3, PrefixesNest DEF Grows, Well
  <1> HIDE DEF Good
  <1>3. Nat \subseteq Good
    BY <1>1, <1>2, Induction
  <1> QED
    BY <1>3 DEF Good

LEMMA ExecuteGrows ==
  ASSUME NEW p, Well(p), NEW buffer, Len(buffer) \in Nat
  PROVE  Grows(p, Execute(p, buffer))
  <1>1. PICK f : Runs(f, p, buffer, Len(buffer)) /\ Execute(p, buffer) = Leftover(f[Len(buffer)])
    BY RunExists
  <1>2. Grows(p, f[Len(buffer)])
    BY <1>1, RunGrows
  <1>3. Grows(f[Len(buffer)], Execute(p, buffer))
    BY <1>1, <1>2, LeftoverGrows DEF Grows
  <1> QED
    BY <1>2, <1>3, PrefixesNest DEF Grows, Well

LEMMA RunKeepsShape ==
  ASSUME NEW S, NEW p, Shape(p, S), NEW buffer, NEW n \in Nat,
         \A i \in 1 .. n : buffer[i].text \in S, NEW f, Runs(f, p, buffer, n)
  PROVE  \A i \in 0 .. n : Shape(f[i], S)
  <1> DEFINE Good == {i \in Nat : i \in 0 .. n => Shape(f[i], S)}
  <1>1. 0 \in Good
    BY RunSteps
  <1>2. ASSUME NEW i \in Nat, i \in Good PROVE i + 1 \in Good
    <2> SUFFICES ASSUME i + 1 \in 0 .. n PROVE Shape(f[i + 1], S)
      OBVIOUS
    <2>1. f[i + 1] = Step(f[i], buffer[i + 1], NextOf(buffer, i + 1))
      BY RunSteps
    <2> QED
      BY <1>2, <2>1, StepKeepsShape
  <1> HIDE DEF Good
  <1>3. Nat \subseteq Good
    BY <1>1, <1>2, Induction
  <1> QED
    BY <1>3 DEF Good

(* Behind an upgrade nothing more is given out.                             *)
LEMMA RunSkips ==
  ASSUME NEW S, NEW p, Shape(p, S), NEW buffer, NEW n \in Nat,
         \A i \in 1 .. n : buffer[i].text \in S, NEW f, Runs(f, p, buffer, n),
         NEW k \in 0 .. n, f[k].skip
  PROVE  \A i \in k .. n : f[i].skip /\ f[i].out = f[k].out
  <1> DEFINE Good == {j \in Nat : k + j <= n => f[k + j].skip /\ f[k + j].out = f[k].out}
  <1>1. 0 \in Good
    OBVIOUS
  <1>2. ASSUME NEW j \in Nat, j \in Good PROVE j + 1 \in Good
    <2> DEFINE i == k + j
    <2> SUFFICES ASSUME i + 1 <= n PROVE f[i + 1].skip /\ f[i + 1].out = f[k].out
      OBVIOUS
    <2>1. i \in 0 .. n /\ i \in 0 .. n - 1 /\ f[i].skip /\ f[i].out = f[k].out
      BY <1>2
    <2>2. f[i + 1] = Step(f[i], buffer[i + 1], NextOf(buffer, i + 1))
      <3>1. \A m \in 0 .. n - 1 : f[m + 1] = Step(f[m], buffer[m + 1], NextOf(buffer, m + 1))
        BY RunSteps
      <3> HIDE DEF i
      <3> QED
        BY <2>1, <3>1
    <2>3. IsParser(f[i])
      BY <2>1, RunKeepsShape DEF Shape
    <2>4. f[i + 1] \in {f[i], Fail(f[i], "UNPARSED")}
      BY <2>1, <2>2 DEF Step
    <2>5. Fail(f[i], "UNPARSED").skip = f[i].skip /\ Fail(f[i], "UNPARSED").out = f[i].out
      BY <2>3 DEF Fail, IsParser, Members
    <2> QED
      BY <2>1, <2>4, <2>5
  <1> HIDE DEF Good
  <1>3. Nat \subseteq Good
    BY <1>1, <1>2, Induction
  <1>4. ASSUME NEW i \in k .. n PROVE f[i].skip /\ f[i].out = f[k].out
    <2>1. i - k \in Nat /\ k + (i - k) = i
      OBVIOUS
    <2>2. i - k \in Good
      BY <1>3, <2>1
    <2> QED
      BY <2>1, <2>2 DEF Good
  <1> QED
    BY <1>4

(* A buffer that is a part of the stream.                                   *)
LEMMA NextInBuffer ==
  ASSUME NEW wire, Len(wire) \in Nat, NEW k \in Nat, NEW buffer, Len(buffer) \in Nat,
         k + Len(buffer) <= Len(wire), \A i \in 1 .. Len(buffer) : buffer[i] = wire[k + i],
         NEW i \in 1 .. Len(buffer) - 1
  PROVE  NextOf(buffer, i) = NextOf(wire, k + i)
  <1>1. i + 1 \in 1 .. Len(buffer) /\ k + (i + 1) = (k + i) + 1
    OBVIOUS
  <1>2. i < Len(buffer) /\ k + i < Len(wire)
    OBVIOUS
  <1>3. buffer[i + 1] = wire[(k + i) + 1]
    BY <1>1
  <1> QED
    BY <1>2, <1>3 DEF NextOf

LEMMA BufferStaysAlike ==
  ASSUME NEW S, NEW p, Shape(p, S), NEW wire, Len(wire) \in Nat,
         \A i \in 1 .. Len(wire) : wire[i].text \in S, NEW u, Runs(u, p, wire, Len(wire)),
         NEW k \in Nat, NEW buffer, Len(buffer) \in Nat, k + Len(buffer) <= Len(wire),
         \A i \in 1 .. Len(buffer) : buffer[i] = wire[k + i],
         NEW c, Alike(c, u[k], S), NEW f, Runs(f, c, buffer, Len(buffer))
  PROVE  \A i \in 0 .. Len(buffer) - 1 : Alike(f[i], u[k + i], S)
  <1> DEFINE n == Len(buffer)
             Good == {i \in Nat : i \in 0 .. n - 1 => Alike(f[i], u[k + i], S)}
  <1>1. 0 \in Good
    <2>1. f[0] = c
      BY DEF Runs
    <2>2. k + 0 = k
      OBVIOUS
    <2> QED
      BY <2>1, <2>2
  <1>2. ASSUME NEW i \in Nat, i \in Good PROVE i + 1 \in Good
    <2> SUFFICES ASSUME i + 1 \in 0 .. n - 1 PROVE Alike(f[i + 1], u[k + (i + 1)], S)
      OBVIOUS
    <2>1. i \in 0 .. n - 1 /\ i + 1 \in 1 .. n - 1 /\ i + 1 \in 1 .. n
      OBVIOUS
    <2>2. /\ k + i \in 0 .. Len(wire) - 1 /\ k + i \in 0 .. Len(wire)
          /\ (k + i) + 1 = k + (i + 1) /\ k + (i + 1) \in 1 .. Len(wire)
      OBVIOUS
    <2>3. f[i + 1] = Step(f[i], buffer[i + 1], NextOf(buffer, i + 1))
      BY <2>1, RunSteps
    <2>4. u[(k + i) + 1] = Step(u[k + i], wire[(k + i) + 1], NextOf(wire, (k + i) + 1))
      <3>1. \A m \in 0 .. Len(wire) - 1 : u[m + 1] = Step(u[m], wire[m + 1], NextOf(wire, m + 1))
        BY RunSteps
      <3> DEFINE m == k + i
      <3> HIDE DEF m
      <3>2. u[m + 1] = Step(u[m], wire[m + 1], NextOf(wire, m + 1))
        BY <2>2, <3>1 DEF m
      <3> QED
        BY <3>2 DEF m
    <2>5. NextOf(buffer, i + 1) = NextOf(wire, k + (i + 1))
      <3>1. \A m \in 1 .. Len(buffer) - 1 : NextOf(buffer, m) = NextOf(wire, k + m)
        BY NextInBuffer
      <3> QED
        BY <2>1, <3>1
    <2>6. Shape(u[k + i], S)
      BY <2>2, RunKeepsShape
    <2>7. buffer[i + 1] = wire[k + (i + 1)] /\ wire[k + (i + 1)].text \in S
      BY <2>1, <2>2
    <2>8. Alike(f[i], u[k + i], S)
      BY <1>2, <2>1
    <2> QED
      BY <2>2, <2>3, <2>4, <2>5, <2>6, <2>7, <2>8, StepKeepsAlike
  <1> HIDE DEF Good
  <1>3. Nat \subseteq Good
    BY <1>1, <1>2, Induction
  <1> QED
    BY <1>3 DEF Good


LEMMA AlikeIs ==
  ASSUME NEW S, NEW q, Shape(q, S), NEW c, Alike(c, q, S)
  PROVE  /\ IsParser(c) /\ Apart(q, c, {"req", "field", "value", "building", "mark"})
         /\ c.errno = "OK" /\ c.mark # <<>> => c.state \in {"url", "name", "value"}
  <1>1. IsParser(q)
    BY DEF Shape
  <1>2. CASE c = q
    BY <1>1, <1>2 DEF Shape, Apart
  <1>3. CASE CutInName(c, q, S)
    <2>1. /\ IsParser(c) /\ Apart(q, c, {"req", "field", "building", "mark"})
      BY <1>1, <1>3, CutFieldIs DEF CutInName
    <2>2. c.state = "name"
      BY <1>3, <2>1 DEF CutInName, Apart, Members
    <2> QED
      BY <2>1, <2>2 DEF Apart
  <1>4. CASE CutInValue(c, q, S)
    <2>1. /\ IsParser(c) /\ Apart(q, c, {"value", "building", "mark"})
      BY <1>1, <1>4, CutValueIs DEF CutInValue
    <2>2. c.state = "value"
      BY <1>4, <2>1 DEF CutInValue, Apart, Members
    <2> QED
      BY <2>1, <2>2 DEF Apart
  <1> QED
    BY <1>2, <1>3, <1>4 DEF Alike

(* A buffer that a parser reads, and what the parser without cuts has read    *)
(* behind it.                                                               *)
IsBuffer(S, p, wire, u, k, buffer, c) ==
  /\ Shape(p, S) /\ Len(wire) \in Nat /\ (\A i \in 1 .. Len(wire) : wire[i].text \in S)
  /\ Runs(u, p, wire, Len(wire))
  /\ k \in Nat /\ Len(buffer) \in Nat /\ Len(buffer) > 0 /\ k + Len(buffer) <= Len(wire)
  /\ \A i \in 1 .. Len(buffer) : buffer[i] = wire[k + i]
  /\ Alike(c, u[k], S)
  /\ ~(Execute(c, buffer).state = "value" /\ buffer[Len(buffer)] = Token("text", "h"))

LEMMA BufferIsRead ==
  ASSUME NEW S, NEW p, NEW wire, NEW u, NEW k, NEW buffer, NEW c,
         IsBuffer(S, p, wire, u, k, buffer, c)
  PROVE  LET r == Execute(c, buffer)
             v == u[k + Len(buffer)]
         IN  /\ r.out = v.out /\ r.skip = v.skip
             /\ Alike(r, v, S) \/ (r.state = "url" /\ buffer[Len(buffer)].type = "url")
  <1> USE DEF IsBuffer
  <1> DEFINE n == Len(buffer)
             last == buffer[n]
             r == Execute(c, buffer)
             m == (k + n) - 1
             o == u[m]
             v == u[k + n]
  <1>1. PICK f : Runs(f, c, buffer, n) /\ r = Leftover(f[n])
    BY RunExists
  <1> DEFINE a == f[n - 1]
             b == f[n]
             none == NextOf(buffer, n)
             next == NextOf(wire, k + n)
             q == Step(a, last, next)
  <1>2. /\ m \in 0 .. Len(wire) - 1 /\ m \in 0 .. Len(wire) /\ m + 1 = k + n /\ m = k + (n - 1)
        /\ k + n \in 0 .. Len(wire) /\ k + n \in 1 .. Len(wire) /\ n \in 1 .. n
        /\ n - 1 \in 0 .. n - 1 /\ (n - 1) + 1 = n
    OBVIOUS
  <1>3. Shape(o, S) /\ Shape(v, S)
    <2>1. \A i \in 0 .. Len(wire) : Shape(u[i], S)
      BY RunKeepsShape
    <2> HIDE DEF m
    <2> QED
      BY <1>2, <2>1
  <1>4. last = wire[k + n] /\ last.text \in S
    BY <1>2
  <1>5. Alike(a, o, S)
    <2>1. \A i \in 0 .. Len(buffer) - 1 : Alike(f[i], u[k + i], S)
      BY <1>1, BufferStaysAlike
    <2>2. Alike(f[n - 1], u[k + (n - 1)], S)
      BY <1>2, <2>1
    <2> QED
      BY <1>2, <2>2
  <1>6. b = Step(a, last, none)
    <2>0. n \in Nat /\ Runs(f, c, buffer, n)
      BY <1>1
    <2>1. \A i \in 0 .. n - 1 : f[i + 1] = Step(f[i], buffer[i + 1], NextOf(buffer, i + 1))
      BY ONLY <2>0, RunSteps
    <2>2. f[(n - 1) + 1] = Step(f[n - 1], buffer[(n - 1) + 1], NextOf(buffer, (n - 1) + 1))
      BY <1>2, <2>1
    <2> QED
      BY <1>2, <2>2
  <1>7. v = Step(o, last, next)
    <2>0. Len(wire) \in Nat /\ Runs(u, p, wire, Len(wire))
      OBVIOUS
    <2>1. \A i \in 0 .. Len(wire) - 1 : u[i + 1] = Step(u[i], wire[i + 1], NextOf(wire, i + 1))
      BY ONLY <2>0, RunSteps
    <2>2. u[m + 1] = Step(u[m], wire[m + 1], NextOf(wire, m + 1))
      <3> HIDE DEF m
      <3> QED
        BY <1>2, <2>1
    <2> QED
      BY <1>2, <1>4, <2>2
  <1> HIDE DEF a, b, m, o, v, none, next
  <1>8. Alike(q, v, S)
    BY <1>3, <1>4, <1>5, <1>7, StepKeepsAlike
  <1>9. IsParser(a)
    BY <1>3, <1>5, AlikeIs
  <1>10. b = q
    <2> SUFFICES ASSUME b # q PROVE FALSE
      OBVIOUS
    <2>1. /\ last = Token("text", "h") /\ a.state = "value"
          /\ IsParser(b) /\ Apart(a, b, ValueParts \cup {"mark"})
      <3>1. Step(a, last, none) # Step(a, last, next)
        BY <1>6
      <3>2. /\ last = Token("text", "h") /\ a.state = "value"
            /\ \A x : /\ IsParser(Step(a, last, x))
                      /\ Apart(a, Step(a, last, x), ValueParts \cup {"mark"})
        BY ONLY <1>9, <3>1, NextMatters
      <3> QED
        BY <1>6, <3>2
    <2>2. b.state = "value"
      BY <2>1 DEF Apart, ValueParts, Members
    <2>3. Leftover(b).state = "value"
      BY <2>1, <2>2, LeftoverIs DEF Apart, Members
    <2> QED
      BY <1>1, <2>1, <2>3 DEF b
  <1> HIDE DEF q
  <1>11. /\ IsParser(q) /\ Apart(v, q, {"req", "field", "value", "building", "mark"})
         /\ q.errno = "OK" /\ q.mark # <<>> => q.state \in {"url", "name", "value"}
    BY <1>3, <1>8, AlikeIs
  <1>12. r = Leftover(q)
    BY <1>1, <1>10 DEF b
  <1> HIDE DEF r
  <1>13. Apart(q, r, {"req", "field", "value", "building", "mark", "errno"})
    BY <1>11, <1>12, LeftoverIs
  <1>14. r.out = v.out /\ r.skip = v.skip /\ r.state = v.state
    BY <1>11, <1>13 DEF Apart, Members
  <1>15. CASE v.errno = "OK" /\ v.state = "url" /\ v.mark # <<>>
    <2>1. last.type = "url"
      BY <1>3, <1>7, <1>15, MarkInUrl
    <2> QED
      BY <1>14, <1>15, <2>1 DEF r, v
  <1>16. CASE v.errno = "OK" /\ v.state = "url" => v.mark = <<>>
    <2>1. Alike(r, v, S)
      BY <1>3, <1>8, <1>12, <1>16, LeftoverStaysAlike
    <2> QED
      BY <1>14, <2>1 DEF r, v
  <1> QED
    BY <1>15, <1>16

LEMMA RunsAgree ==
  ASSUME NEW p, NEW wire, Len(wire) \in Nat, NEW u, Runs(u, p, wire, Len(wire)),
         NEW buffer, Len(buffer) \in Nat, Len(buffer) <= Len(wire),
         \A i \in 1 .. Len(buffer) : buffer[i] = wire[i], NEW f, Runs(f, p, buffer, Len(buffer))
  PROVE  \A i \in 0 .. Len(buffer) - 1 : f[i] = u[i]
  <1> DEFINE n == Len(buffer)
             Good == {i \in Nat : i \in 0 .. n - 1 => f[i] = u[i]}
  <1>1. 0 \in Good
    <2>1. f[0] = p /\ u[0] = p
      BY DEF Runs
    <2> QED
      BY <2>1
  <1>2. ASSUME NEW i \in Nat, i \in Good PROVE i + 1 \in Good
    <2> SUFFICES ASSUME i + 1 \in 0 .. n - 1 PROVE f[i + 1] = u[i + 1]
      OBVIOUS
    <2>1. i \in 0 .. n - 1 /\ i + 1 \in 1 .. n - 1 /\ i + 1 \in 1 .. n /\ i \in 0 .. Len(wire) - 1
      OBVIOUS
    <2>2. f[i + 1] = Step(f[i], buffer[i + 1], NextOf(buffer, i + 1))
      <3>1. Runs(f, p, buffer, n) /\ n \in Nat
        OBVIOUS
      <3>2. \A j \in 0 .. n - 1 : f[j + 1] = Step(f[j], buffer[j + 1], NextOf(buffer, j + 1))
        BY ONLY <3>1, RunSteps
      <3> QED
        BY <2>1, <3>2
    <2>3. u[i + 1] = Step(u[i], wire[i + 1], NextOf(wire, i + 1))
      <3>1. Len(wire) \in Nat /\ Runs(u, p, wire, Len(wire))
        OBVIOUS
      <3>2. \A j \in 0 .. Len(wire) - 1 : u[j + 1] = Step(u[j], wire[j + 1], NextOf(wire, j + 1))
        BY ONLY <3>1, RunSteps
      <3> QED
        BY <2>1, <3>2
    <2>4. NextOf(buffer, i + 1) = NextOf(wire, i + 1)
      <3> DEFINE j == i + 1
      <3>1. j < Len(buffer) /\ j < Len(wire) /\ j + 1 \in 1 .. n
        BY <2>1
      <3> HIDE DEF j
      <3>2. NextOf(buffer, j) = NextOf(wire, j)
        BY <3>1 DEF NextOf
      <3> QED
        BY <3>2 DEF j
    <2> QED
      BY <1>2, <2>1, <2>2, <2>3, <2>4
  <1> HIDE DEF Good
  <1>3. Nat \subseteq Good
    BY <1>1, <1>2, Induction
  <1> QED
    BY <1>3 DEF Good

(* What a parser has given out that reads all at once.                      *)
LEMMA OnceIs ==
  ASSUME NEW S, NEW p, Shape(p, S), Well(p), NEW wire, Len(wire) \in Nat,
         \A i \in 1 .. Len(wire) : wire[i].text \in S, NEW u, Runs(u, p, wire, Len(wire)),
         NEW buffer, NEW k \in Nat, k = Len(buffer), k <= Len(wire),
         \A i \in 1 .. k : buffer[i] = wire[i]
  PROVE  LET once == Execute(p, buffer) IN once.out = u[k].out /\ once.skip = u[k].skip
  <1>1. PICK f : Runs(f, p, buffer, k) /\ Execute(p, buffer) = Leftover(f[k])
    BY RunExists
  <1>2. f[k].out = u[k].out /\ f[k].skip = u[k].skip
    <2>1. CASE k = 0
      <3>1. f[0] = p /\ u[0] = p
        BY <1>1 DEF Runs
      <3> QED
        BY <2>1, <3>1
    <2>2. CASE k # 0
      <3> DEFINE j == k - 1
                 o == u[j]
      <3>1. j \in Nat /\ j \in 0 .. k - 1 /\ j + 1 = k /\ j \in 0 .. Len(wire) - 1 /\ j \in 0 .. Len(wire)
            /\ k \in 1 .. k
        BY <2>2
      <3>2. f[j] = o
        <4>0. /\ Len(wire) \in Nat /\ Runs(u, p, wire, Len(wire)) /\ Len(buffer) \in Nat
              /\ Len(buffer) <= Len(wire) /\ (\A i \in 1 .. Len(buffer) : buffer[i] = wire[i])
              /\ Runs(f, p, buffer, Len(buffer))
          BY <1>1
        <4>1. \A i \in 0 .. Len(buffer) - 1 : f[i] = u[i]
          BY ONLY <4>0, RunsAgree
        <4> QED
          BY <3>1, <4>1
      <3>3. f[k] = Step(o, wire[k], NextOf(buffer, k))
        <4>1. \A i \in 0 .. k - 1 : f[i + 1] = Step(f[i], buffer[i + 1], NextOf(buffer, i + 1))
          BY <1>1, RunSteps
        <4> HIDE DEF j
        <4>2. f[j + 1] = Step(f[j], buffer[j + 1], NextOf(buffer, j + 1))
          BY <3>1, <4>1
        <4> QED
          BY <3>1, <3>2, <4>2
      <3>4. u[k] = Step(o, wire[k], NextOf(wire, k))
        <4>1. \A i \in 0 .. Len(wire) - 1 : u[i + 1] = Step(u[i], wire[i + 1], NextOf(wire, i + 1))
          BY RunSteps
        <4> HIDE DEF j
        <4>2. u[j + 1] = Step(u[j], wire[j + 1], NextOf(wire, j + 1))
          BY <3>1, <4>1
        <4> QED
          BY <3>1, <4>2
      <3>5. IsParser(o)
        <4>1. \A i \in 0 .. Len(wire) : Shape(u[i], S)
          BY RunKeepsShape
        <4> HIDE DEF j
        <4> QED
          BY <3>1, <4>1 DEF Shape
      <3> HIDE DEF o
      <3>6. CASE f[k] = u[k]
        BY <3>6
      <3>7. CASE f[k] # u[k]
        <4>1. \A x : Apart(o, Step(o, wire[k], x), ValueParts \cup {"mark"})
          BY ONLY <3>3, <3>4, <3>5, <3>7, NextMatters
        <4>2. Apart(o, f[k], ValueParts \cup {"mark"}) /\ Apart(o, u[k], ValueParts \cup {"mark"})
          BY <3>3, <3>4, <4>1
        <4> QED
          BY <4>2 DEF Apart, ValueParts, Members
      <3> QED
        BY <3>6, <3>7
    <2> QED
      BY <2>1, <2>2
  <1>3. Well(f[k])
    <2>1. \A i \in 0 .. k : Grows(p, f[i])
      BY <1>1, RunGrows
    <2> QED
      BY <2>1 DEF Grows
  <1> QED
    BY <1>1, <1>2, <1>3, LeftoverGrows

-----------------------------------------------------------------------------
(* The inductive invariant, and the theorem.                                *)

Stream == WireOf(sent)
Pieces == {Stream[i].text : i \in 1 .. Len(Stream)}
Read   == Len(Stream) - Len(rest)

\* The parser that has the whole stream in one buffer, after each of its tokens.
Uncut == CHOOSE f : Runs(f, NewParser, Stream, Len(Stream))

ReadsInOrder == /\ sent \in Clients /\ Len(rest) \in 0 .. Len(Stream)
                /\ rest = SubSeq(Stream, Read + 1, Len(Stream))

KeepsWell == parser.errno = "OK" /\ parser.state # "upgraded" => Well(parser)

\* As the uncut parser but for a name or a value reported in parts; or past an
\* upgrade, where that one reads no further; or at the end, inside a URL.
ReadsAsUncut ==
  ~cutURL /\ ~cutUpgrade =>
    LET u == Uncut[Read]
    IN  \/ ~u.skip /\ Alike(parser, u, Pieces)
        \/ u.skip /\ IsPrefix(u.out, delivered)
        \/ rest = <<>> /\ delivered = u.out

IInv == ReadsInOrder /\ KeepsWell /\ ReadsAsUncut

LEMMA SuffixIs ==
  ASSUME NEW T, NEW wire \in Seq(T), NEW l, l \in 0 .. Len(wire), NEW s,
         s = SubSeq(wire, (Len(wire) - l) + 1, Len(wire))
  PROVE  Len(s) = l /\ s \in Seq(T) /\ \A i \in 1 .. l : s[i] = wire[(Len(wire) - l) + i]
  <1> DEFINE w == Len(wire)
             k == w - l
  <1>1. w \in Nat /\ l \in Nat /\ k \in Nat /\ k + 1 \in Int /\ w - (k + 1) + 1 = l
    OBVIOUS
  <1>2. \A i \in k + 1 .. w : wire[i] \in T
    OBVIOUS
  <1> HIDE DEF w
  <1> DEFINE sub == SubSeq(wire, k + 1, w)
  <1>3. /\ sub \in Seq(T) /\ Len(sub) = IF k + 1 <= w THEN w - (k + 1) + 1 ELSE 0
        /\ \A i \in 1 .. w - (k + 1) + 1 : sub[i] = wire[(k + 1) + i - 1]
    <2> HIDE DEF k
    <2> QED
      BY <1>1, <1>2, SubSeqProperties
  <1>4. \A i \in 1 .. l : (k + 1) + i - 1 = k + i
    BY <1>1
  <1>5. s = sub
    BY DEF w
  <1> HIDE DEF sub
  <1>6. Len(sub) = l
    BY <1>1, <1>3
  <1> QED
    BY <1>1, <1>3, <1>4, <1>5, <1>6 DEF w

LEMMA StreamIs ==
  ASSUME sent \in Clients
  PROVE  /\ Len(Stream) \in Nat /\ IsSequence(Stream)
         /\ \A i \in 1 .. Len(Stream) : Stream[i].text \in Pieces
         /\ Runs(Uncut, NewParser, Stream, Len(Stream))
  <1>1. Len(Stream) \in Nat /\ IsSequence(Stream)
    BY ClientsAssumption DEF Stream, IsSequence
  <1>2. \A i \in 1 .. Len(Stream) : Stream[i].text \in Pieces
    BY DEF Pieces
  <1>3. \E f : Runs(f, NewParser, Stream, Len(Stream))
    BY <1>1, RunExists
  <1> QED
    BY <1>1, <1>2, <1>3 DEF Uncut

LEMMA RestIs ==
  ASSUME ReadsInOrder
  PROVE  /\ Len(rest) \in Nat /\ Read \in Nat /\ Read + Len(rest) = Len(Stream)
         /\ \A i \in 1 .. Len(rest) : rest[i] = Stream[Read + i]
         /\ \E T : Stream \in Seq(T) /\ rest \in Seq(T)
  <1> DEFINE w == Stream
             l == Len(rest)
  <1>1. Len(w) \in Nat /\ IsSequence(w) /\ l \in 0 .. Len(w)
        /\ rest = SubSeq(w, (Len(w) - l) + 1, Len(w))
    BY StreamIs DEF ReadsInOrder, Read
  <1>2. PICK T : w \in Seq(T)
    BY <1>1, SequenceOf
  <1>3. Len(rest) = l /\ rest \in Seq(T) /\ \A i \in 1 .. l : rest[i] = w[(Len(w) - l) + i]
    <2> HIDE DEF w, l
    <2> QED
      BY ONLY <1>1, <1>2, SuffixIs
  <1>4. Read = Len(w) - l /\ l \in Nat /\ Read \in Nat /\ Read + l = Len(w)
    BY <1>1 DEF Read
  <1> HIDE DEF w
  <1>5. \A i \in 1 .. l : rest[i] = w[Read + i]
    BY <1>3, <1>4
  <1> QED
    BY <1>2, <1>3, <1>4, <1>5 DEF w

LEMMA InitHolds == Init => IInv
  <1> SUFFICES ASSUME Init PROVE IInv
    OBVIOUS
  <1>1. sent \in Clients /\ rest = Stream /\ parser = NewParser
    BY DEF Init, Stream
  <1>2. Len(Stream) \in Nat /\ IsSequence(Stream) /\ Runs(Uncut, NewParser, Stream, Len(Stream))
    BY <1>1, StreamIs
  <1>3. Read = 0 /\ Uncut[Read] = NewParser
    <2>1. Read = 0
      BY <1>1, <1>2 DEF Read
    <2>2. Uncut[0] = NewParser
      BY <1>2 DEF Runs
    <2> QED
      BY <2>1, <2>2
  <1>4. ReadsInOrder
    <2> DEFINE w == Stream
    <2>1. PICK T : w \in Seq(T)
      BY <1>2, SequenceOf
    <2>2. Len(w) \in Nat
      BY <1>2
    <2> HIDE DEF w
    <2>3. w = SubSeq(w, 0 + 1, Len(w))
      BY <2>1, <2>2
    <2> QED
      BY <1>1, <1>3, <2>2, <2>3 DEF ReadsInOrder, w
  <1>5. Shape(NewParser, Pieces) /\ Well(NewParser) /\ ~NewParser.skip
    BY NewParserIs
  <1>6. KeepsWell
    BY <1>1, <1>5 DEF KeepsWell
  <1>7. ReadsAsUncut
    BY <1>1, <1>3, <1>5 DEF ReadsAsUncut, Alike
  <1> QED
    BY <1>4, <1>6, <1>7 DEF IInv

LEMMA FeedReads ==
  ASSUME ReadsInOrder, NEW n \in 1 .. Len(rest), sent' = sent,
         rest' = SubSeq(rest, n + 1, Len(rest))
  PROVE  ReadsInOrder' /\ Read' = Read + n /\ Stream' = Stream /\ Uncut' = Uncut /\ Pieces' = Pieces
         /\ (n = Len(rest) => rest' = <<>>)
  <1> DEFINE w == Stream
             l == Len(rest)
             k == Read
             r == rest'
  <1>1. /\ l \in Nat /\ k \in Nat /\ k + l = Len(w) /\ Len(w) \in Nat /\ k = Len(w) - l
        /\ \A i \in 1 .. l : rest[i] = w[k + i]
    <2>1. Len(w) \in Nat
      BY StreamIs DEF ReadsInOrder
    <2> QED
      BY <2>1, RestIs DEF Read
  <1>2. PICK T : w \in Seq(T) /\ rest \in Seq(T)
    BY RestIs
  <1>3. Stream' = Stream
    BY DEF Stream
  <1>4. Uncut' = Uncut /\ Pieces' = Pieces
    BY <1>3 DEF Uncut, Pieces
  <1>5. Len(r) = l - n /\ r \in Seq(T) /\ \A i \in 1 .. l - n : r[i] = rest[n + i]
    <2> DEFINE m == l - n
    <2>1. m \in 0 .. Len(rest) /\ r = SubSeq(rest, (Len(rest) - m) + 1, Len(rest)) /\ Len(rest) - m = n
      BY <1>1
    <2> HIDE DEF m, r
    <2>2. Len(r) = m /\ r \in Seq(T) /\ \A i \in 1 .. m : r[i] = rest[(Len(rest) - m) + i]
      BY <1>2, <2>1, SuffixIs
    <2> QED
      BY <2>1, <2>2 DEF m
  <1>6. Read' = k + n
    <2>1. Read' = Len(Stream') - Len(rest')
      BY DEF Read
    <2>2. Len(rest') = l - n
      BY <1>5
    <2> HIDE DEF k, l, w
    <2>3. Len(w) - (l - n) = k + n
      BY <1>1 DEF l
    <2> QED
      BY <1>3, <2>1, <2>2, <2>3 DEF w
  <1>7. r = SubSeq(w, (k + n) + 1, Len(w))
    <2> DEFINE m == l - n
               s == SubSeq(w, (Len(w) - m) + 1, Len(w))
    <2>1. m \in 0 .. Len(w) /\ Len(w) - m = k + n
      BY <1>1
    <2> HIDE DEF m, w, r
    <2>2. Len(s) = m /\ s \in Seq(T) /\ \A i \in 1 .. m : s[i] = w[(Len(w) - m) + i]
      BY <1>2, <2>1, SuffixIs
    <2> HIDE DEF s
    <2>3. ASSUME NEW i \in 1 .. m PROVE r[i] = s[i]
      <3>1. r[i] = rest[n + i] /\ n + i \in 1 .. l /\ k + (n + i) = (k + n) + i
        BY <1>1, <1>5 DEF m
      <3>2. rest[n + i] = w[k + (n + i)]
        BY <1>1, <3>1
      <3>3. s[i] = w[(k + n) + i]
        BY <2>1, <2>2
      <3> QED
        BY <3>1, <3>2, <3>3
    <2>4. r = s
      BY <1>5, <2>2, <2>3 DEF m
    <2> QED
      BY <2>1, <2>4 DEF s
  <1>8. ReadsInOrder'
    <2>1. Len(r) \in 0 .. Len(w)
      BY <1>1, <1>5
    <2> QED
      BY <1>3, <1>6, <1>7, <2>1 DEF ReadsInOrder
  <1>9. n = l => r = <<>>
    BY <1>1, <1>5
  <1> QED
    BY <1>3, <1>4, <1>6, <1>8, <1>9


LEMMA FeedHolds ==
  ASSUME IInv, NEW n, Feed(n)
  PROVE  IInv'
  <1> DEFINE w == Stream
             k == Read
             S == Pieces
             buffer == SubSeq(rest, 1, n)
             last == rest[n]
             p == Execute(parser, buffer)
             u == Uncut[k]
             v == Uncut[k + n]
  <1>1. /\ n \in 1 .. Len(rest) /\ parser.errno = "OK" /\ parser.state # "upgraded"
        /\ sent' = sent /\ rest' = SubSeq(rest, n + 1, Len(rest))
        /\ parser' = [p EXCEPT !.skip = FALSE]
    BY DEF Feed
  <1>2. /\ cutURL' = (cutURL \/ (n < Len(rest) /\ last.type = "url" /\ p.state \in {"url", "name"}))
        /\ cutUpgrade' = (cutUpgrade \/ (p.state = "value" /\ last = Token("text", "h")))
    BY DEF Feed
  <1>3. ReadsInOrder /\ KeepsWell /\ ReadsAsUncut
    BY DEF IInv
  <1>4. /\ Len(w) \in Nat /\ Runs(Uncut, NewParser, w, Len(w))
        /\ \A i \in 1 .. Len(w) : w[i].text \in S
    BY <1>3, StreamIs DEF ReadsInOrder
  <1>5. /\ Len(rest) \in Nat /\ k \in Nat /\ k + Len(rest) = Len(w)
        /\ \A i \in 1 .. Len(rest) : rest[i] = w[k + i]
    BY <1>3, RestIs
  <1>6. PICK T : rest \in Seq(T)
    BY <1>3, RestIs
  <1>7. n \in Nat /\ n > 0 /\ k + n <= Len(w) /\ k \in 0 .. Len(w) /\ k + n \in 0 .. Len(w)
    <2> HIDE DEF k, w
    <2> QED
      BY <1>1, <1>4, <1>5
  <1>8. /\ Len(buffer) = n /\ (\A i \in 1 .. n : buffer[i] = w[k + i]) /\ last = buffer[n]
    <2>1. Len(buffer) = n /\ \A i \in 1 .. n : buffer[i] = rest[i]
      BY <1>1, <1>6
    <2> HIDE DEF buffer, w, k
    <2>2. \A i \in 1 .. n : i \in 1 .. Len(rest)
      BY <1>1, <1>5
    <2>3. \A i \in 1 .. n : buffer[i] = w[k + i]
      BY <1>5, <2>1, <2>2
    <2>4. last = buffer[n]
      BY <1>7, <2>1
    <2> QED
      BY <2>1, <2>3, <2>4
  <1>9. /\ ReadsInOrder' /\ Read' = k + n /\ Stream' = w /\ Uncut' = Uncut /\ Pieces' = S
        /\ (n = Len(rest) => rest' = <<>>)
    BY <1>1, <1>3, FeedReads
  <1>10. Well(parser) /\ Grows(parser, p)
    <2>1. Well(parser)
      BY <1>1, <1>3 DEF KeepsWell
    <2> HIDE DEF buffer
    <2> QED
      BY <1>7, <1>8, <2>1, ExecuteGrows
  <1> HIDE DEF w, k, S, p, buffer, last
  <1>11. IsParser(parser') /\ Apart(p, parser', {"skip"}) /\ parser'.skip = FALSE
    BY <1>1, <1>10 DEF Grows, Well, IsParser, Members, Apart
  <1>12. /\ parser'.errno = p.errno /\ parser'.state = p.state /\ parser'.mark = p.mark
         /\ parser'.name = p.name /\ parser'.out = p.out
    BY <1>11 DEF Apart, Members
  <1>13. KeepsWell'
    <2>1. Well(p)
      BY <1>10 DEF Grows
    <2>2. ASSUME parser'.errno = "OK", parser'.state # "upgraded" PROVE Well(parser')
      <3> DEFINE r == parser'
      <3>1. /\ IsParser(r) /\ r.errno = p.errno /\ r.state = p.state /\ r.mark = p.mark
            /\ r.name = p.name /\ r.out = p.out
        BY <1>11, <1>12
      <3>2. p.errno = "OK" /\ p.state # "upgraded"
        BY <1>12, <2>2
      <3> HIDE DEF r
      <3>3. Well(r)
        BY <2>1, <3>1, <3>2 DEF Well
      <3> QED
        BY <3>3 DEF r
    <2> QED
      BY <2>2 DEF KeepsWell
  <1>14. Shape(NewParser, S) /\ Well(NewParser)
    BY NewParserIs
  <1>15. Shape(u, S) /\ Shape(v, S) /\ Well(v)
    <2>1. \A i \in 0 .. Len(w) : Shape(Uncut[i], S)
      BY ONLY <1>4, <1>14, RunKeepsShape
    <2>2. \A i \in 0 .. Len(w) : Grows(NewParser, Uncut[i])
      BY ONLY <1>4, <1>14, RunGrows
    <2> QED
      BY <1>7, <2>1, <2>2 DEF Grows
  <1>16. ASSUME ~cutURL', ~cutUpgrade'
         PROVE  \/ ~v.skip /\ Alike(parser', v, S)
                \/ v.skip /\ IsPrefix(v.out, parser'.out)
                \/ rest' = <<>> /\ parser'.out = v.out
    <2>1. /\ ~cutURL /\ ~cutUpgrade
          /\ ~(n < Len(rest) /\ last.type = "url" /\ p.state \in {"url", "name"})
          /\ ~(p.state = "value" /\ last = Token("text", "h"))
      BY <1>2, <1>16
    <2>2. CASE ~u.skip /\ Alike(parser, u, S)
      <3>1. /\ p.out = v.out /\ p.skip = v.skip
            /\ Alike(p, v, S) \/ (p.state = "url" /\ last.type = "url")
        <4>1. ~(Execute(parser, buffer).state = "value" /\ last = Token("text", "h"))
          BY <2>1 DEF p
        <4>2. /\ Len(buffer) \in Nat /\ Len(buffer) > 0 /\ k + Len(buffer) <= Len(w) /\ k \in Nat
              /\ \A i \in 1 .. Len(buffer) : buffer[i] = w[k + i]
              /\ ~(Execute(parser, buffer).state = "value" /\ buffer[Len(buffer)] = Token("text", "h"))
          BY <1>5, <1>7, <1>8, <4>1
        <4>3. Alike(parser, Uncut[k], S)
          BY <2>2
        <4>4. LET r == Execute(parser, buffer)
                  o == Uncut[k + Len(buffer)]
              IN  /\ r.out = o.out /\ r.skip = o.skip
                  /\ Alike(r, o, S) \/ (r.state = "url" /\ buffer[Len(buffer)].type = "url")
          <5>1. IsBuffer(S, NewParser, w, Uncut, k, buffer, parser)
            BY ONLY <1>4, <1>14, <4>2, <4>3 DEF IsBuffer
          <5> QED
            BY ONLY <5>1, BufferIsRead
        <4> QED
          BY <1>8, <4>4 DEF p
      <3>2. CASE v.skip
        <4>1. IsPrefix(v.out, v.out)
          BY <1>15, PrefixesNest DEF Well
        <4> QED
          BY <1>12, <3>1, <3>2, <4>1
      <3>3. CASE ~v.skip /\ Alike(p, v, S)
        <4>1. IsParser(p) /\ p.skip = FALSE
          <5>1. IsParser(p)
            BY <1>10 DEF Grows, Well
          <5>2. Apart(v, p, {"req", "field", "value", "building", "mark"})
            BY <1>15, <3>3, AlikeIs
          <5> QED
            BY <1>15, <3>1, <3>3, <5>1
        <4>2. parser' = p
          BY <1>1, <4>1 DEF IsParser
        <4> QED
          BY <3>3, <4>2
      <3>4. CASE p.state = "url" /\ last.type = "url"
        <4>1. n = Len(rest)
          BY <1>1, <1>5, <2>1, <3>4
        <4> QED
          BY <1>9, <1>12, <3>1, <4>1
      <3> QED
        BY <3>1, <3>2, <3>3, <3>4
    <2>3. CASE u.skip /\ IsPrefix(u.out, delivered)
      <3>1. v.skip /\ v.out = u.out
        <4>1. \A i \in k .. Len(w) : Uncut[i].skip /\ Uncut[i].out = Uncut[k].out
          BY ONLY <1>4, <1>7, <1>14, <2>3, RunSkips DEF u
        <4> QED
          BY <1>4, <1>5, <1>7, <4>1
      <3>2. IsPrefix(u.out, p.out)
        <4>1. IsPrefix(u.out, parser.out) /\ IsPrefix(parser.out, p.out)
          BY <1>10, <2>3 DEF Grows, delivered
        <4>2. IsSequence(u.out) /\ IsSequence(parser.out) /\ IsSequence(p.out)
          BY <1>10, <1>15, <3>1 DEF Grows, Well
        <4> QED
          BY ONLY <4>1, <4>2, PrefixesNest
      <3> QED
        BY <1>12, <3>1, <3>2
    <2>4. CASE rest = <<>>
      BY <1>1, <2>4
    <2> QED
      BY <1>3, <2>1, <2>2, <2>3, <2>4 DEF ReadsAsUncut, u, k, S
  <1>17. ReadsAsUncut'
    BY <1>9, <1>16 DEF ReadsAsUncut, delivered, v
  <1> QED
    BY <1>9, <1>13, <1>17 DEF IInv

LEMMA UncutIsOnce ==
  ASSUME IInv
  PROVE  CutsChangeNothing
  <1> DEFINE w == Stream
             k == Read
             S == Pieces
             u == Uncut[k]
             once == Execute(NewParser, Consumed)
  <1>1. ReadsInOrder /\ ReadsAsUncut
    BY DEF IInv
  <1>2. /\ Len(w) \in Nat /\ Runs(Uncut, NewParser, w, Len(w)) /\ IsSequence(w)
        /\ \A i \in 1 .. Len(w) : w[i].text \in S
    BY <1>1, StreamIs DEF ReadsInOrder
  <1>3. k \in Nat /\ k <= Len(w) /\ k \in 0 .. Len(w)
    <2>1. Len(rest) \in Nat /\ k \in Nat /\ k + Len(rest) = Len(w)
      BY <1>1, RestIs
    <2> HIDE DEF k, w
    <2> QED
      BY <1>2, <2>1
  <1>4. PICK T : w \in Seq(T)
    BY <1>2, SequenceOf
  <1> HIDE DEF S
  <1>5. k = Len(Consumed) /\ \A i \in 1 .. k : Consumed[i] = w[i]
    <2>1. Consumed = SubSeq(w, 1, k)
      BY DEF Consumed, Stream, Read
    <2> HIDE DEF w, k
    <2> QED
      BY <1>3, <1>4, <2>1
  <1>6. Shape(NewParser, S) /\ Well(NewParser)
    BY NewParserIs
  <1> HIDE DEF w, k
  <1>7. once.out = u.out /\ once.skip = u.skip
    BY ONLY <1>2, <1>3, <1>5, <1>6, OnceIs
  <1>8. IsPrefix(u.out, u.out)
    <2>1. \A i \in 0 .. Len(w) : Grows(NewParser, Uncut[i])
      BY ONLY <1>2, <1>6, RunGrows
    <2>2. IsSequence(u.out)
      BY <1>3, <2>1 DEF Grows, Well
    <2> QED
      BY <2>2, PrefixesNest
  <1>9. ASSUME ~cutURL, ~cutUpgrade
        PROVE  IsPrefix(u.out, delivered) /\ (u.skip \/ delivered = u.out)
    <2>1. \/ ~u.skip /\ Alike(parser, u, S)
          \/ u.skip /\ IsPrefix(u.out, delivered)
          \/ rest = <<>> /\ delivered = u.out
      BY <1>1, <1>9 DEF ReadsAsUncut, k, S
    <2>2. CASE Alike(parser, u, S)
      <3>1. Shape(u, S)
        <4>1. \A i \in 0 .. Len(w) : Shape(Uncut[i], S)
          BY ONLY <1>2, <1>6, RunKeepsShape
        <4> QED
          BY <1>3, <4>1
      <3>2. Apart(u, parser, {"req", "field", "value", "building", "mark"})
        BY <2>2, <3>1, AlikeIs
      <3>3. delivered = u.out
        BY <3>2 DEF delivered, Apart, Members
      <3> QED
        BY <1>8, <3>3
    <2> QED
      BY <1>8, <2>1, <2>2
  <1> HIDE DEF u, once
  <1>10. ~cutURL /\ ~cutUpgrade
           => IsPrefix(once.out, delivered) /\ (once.skip \/ delivered = once.out)
    BY <1>7, <1>9
  <1> QED
    BY <1>10 DEF CutsChangeNothing, once

LEMMA IInvHolds == Spec => []IInv
  <1>1. Init => IInv
    BY InitHolds
  <1>2. IInv /\ [Next]_vars => IInv'
    <2> SUFFICES ASSUME IInv, [Next]_vars PROVE IInv'
      OBVIOUS
    <2>1. CASE Next
      <3>1. PICK n \in DOMAIN rest : Feed(n)
        BY <2>1 DEF Next
      <3> QED
        BY <3>1, FeedHolds
    <2>2. CASE UNCHANGED vars
      BY <2>2 DEF vars, IInv, ReadsInOrder, KeepsWell, ReadsAsUncut, Read, Stream, Pieces, Uncut,
                  delivered
    <2> QED
      BY <2>1, <2>2
  <1> QED
    BY <1>1, <1>2, PTL DEF Spec

(* Wherever the buffers end, but inside a URL or after the h of an Upgrade,  *)
(* the handler is given what it would be given had the stream come in one   *)
(* buffer, whatever the clients send and whichever the rules are.           *)
THEOREM CutsAreHarmless == Spec => []CutsChangeNothing
  <1>1. IInv => CutsChangeNothing
    BY UncutIsOnce
  <1> QED
    BY <1>1, IInvHolds, PTL

=============================================================================
