------------------------------ MODULE MCRouter ------------------------------
(* Rules that compete for the same URLs, and what a request should be given:  *)
(* the rules read one after the other, without any tree.                     *)
EXTENDS Router

Rule(url, methods) == [url |-> url, methods |-> methods]
MCRules ==
  {Rule(<<"/">>, {"GET"}),
   Rule(<<"/", "a">>, {"GET"}),
   Rule(<<"/", "a", "b">>, {"POST", "GET"}),
   Rule(<<"/", "a", "/">>, {"GET"}),
   Rule(<<"/", "a", "/", "<int>">>, {"GET"}),
   Rule(<<"/", "<string>">>, {"POST"}),
   Rule(<<"/", "<string>", "/", "<double>">>, {"GET"}),
   Rule(<<"/", "a", "/", "<uint>", "b">>, {"GET", "OPTIONS"}),
   Rule(<<"/", "<path>">>, {"GET", "HEAD"}),
   Rule(<<"/", "<int>">>, {"POST", "HEAD"})}
MCURLs ==
  {<<"/">>, <<"/", "a">>, <<"/", "a", "/">>, <<"/", "a", "b">>, <<"/", "a", "a">>, <<"/", "*">>,
   <<"/", "1">>, <<"/", "-">>, <<"/", "a", "/", "-", "1">>, <<"/", "a", "/", "+", "1", "b">>,
   <<"/", "a", "/", "1", "2", "1">>, <<"/", "a", "/", "1", ".", "2">>, <<"/", "b", "/", ".", "1">>,
   <<"/", "a", "/", ".">>, <<"/", "1", "2", "1">>}

(* What a pattern makes of a URL: its parameters, or nothing.                *)
RECURSIVE Read(_, _, _)
Read(pattern, url, pos) ==
  IF pattern = <<>> THEN IF pos = Len(url) + 1 THEN {<<>>} ELSE {}
  ELSE IF pos > Len(url) THEN {}
  ELSE LET t == Head(pattern)
           child == IF t \in Parameters THEN Node(<<>>, t) ELSE Node(<<t>>, "none")
           end == EndOf(child, url, pos)
       IN  IF end = 0 THEN {}
           ELSE {(IF t \in Parameters THEN <<<<t, SubSeq(url, pos, end - 1)>>>> ELSE <<>>) \o rest :
                    rest \in Read(Tail(pattern), url, end)}
Reads(pattern, url) == Read(pattern, url, 1) # {}

OfMethod(m) == SelectSeq(registered, LAMBDA r : m \in r.methods)
Redirects(m, url) == \E i \in DOMAIN OfMethod(m) :
                        HasTrailingSlash(OfMethod(m)[i].url) /\ Reads(Front(OfMethod(m)[i].url), url)
Matching(m, url) == {i \in DOMAIN OfMethod(m) : Reads(OfMethod(m)[i].url, url)}
Known(m, url) == Redirects(m, url) \/ Matching(m, url) # {}

\* A redirection first, then the rule that was registered first.
Given(m, url) ==
  IF Redirects(m, url) THEN [kind |-> "redirect"]
  ELSE LET r == OfMethod(m)[Min(Matching(m, url))]
       IN  [kind |-> "rule", rule |-> r, params |-> CHOOSE p \in Read(r.url, url, 1) : TRUE]
Due(m, url) ==
  CASE m = "HEAD" -> IF Known("HEAD", url) THEN Given("HEAD", url)
                     ELSE IF Known("GET", url) THEN Given("GET", url) ELSE [kind |-> "404"]
    [] m = "OPTIONS" /\ url = <<"/", "*">> ->
         [kind |-> "allow", methods |-> {"OPTIONS", "HEAD"} \cup {n \in Methods : OfMethod(n) # <<>>}]
    [] m = "OPTIONS" /\ url # <<"/", "*">> ->
         IF \E n \in Methods : Known(n, url)
         THEN [kind |-> "allow", methods |-> {"OPTIONS", "HEAD"} \cup {n \in Methods : Known(n, url)}]
         ELSE [kind |-> "404"]
    [] OTHER -> IF Known(m, url) THEN Given(m, url)
                ELSE IF \E n \in Methods : Known(n, url) THEN [kind |-> "405"] ELSE [kind |-> "404"]

(* Whatever the order in which rules share a tree, and however its nodes are *)
(* joined, a request gets what reading the rules one by one would give it:   *)
(* the first rule of its method that matches, with the parameters it reads,  *)
(* a redirection, 405 or 404.                                                *)
AnswerIsDue ==
  answer # NoAnswer =>
    answer = [method |-> answer.method, url |-> answer.url] @@ Due(answer.method, answer.url)
=============================================================================
