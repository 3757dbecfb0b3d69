------------------------------- MODULE Router -------------------------------
(***************************************************************************)
(* crow::Router and crow::Trie (crow/routing.h): the rules of a program are *)
(* put into one tree for each method, the trees are compressed, and every   *)
(* request is matched against them.  A URL is a sequence of characters, and *)
(* a parameter is one token of a rule.  Blueprints, which this program does *)
(* not use, are left out.                                                   *)
(***************************************************************************)
EXTENDS Integers, Sequences, SequencesExt, FiniteSetsExt

CONSTANTS Rules,       \* what a program may register: records [url, methods]
          URLs,        \* the URLs that are asked for
          MaxRules,    \* bound: how many rules are registered
          MaxDigits    \* a number with more digits is out of range (errno = ERANGE)

Methods == {"GET", "POST", "HEAD", "OPTIONS"}
Parameters == {"<int>", "<uint>", "<double>", "<string>", "<path>"}
Digits == {"0", "1", "2"}

VARIABLES rules,       \* per_methods_[m].rules; the first two places are reserved
          trie,        \* per_methods_[m].trie
          validated,   \* the trees are compressed
          registered,  \* the rules, in the order they were registered
          answer       \* the answer to the last request

vars == <<rules, trie, validated, registered, answer>>

RULE_SPECIAL_REDIRECT_SLASH == 1
Node(key, param) == [rule |-> 0, key |-> key, param |-> param, children |-> <<>>]
NoAnswer == [kind |-> "none"]
-----------------------------------------------------------------------------
(* Trie::add, before the tree is compressed: every key is one character.    *)
Child(node, t) ==
  SelectInSeq(node.children, LAMBDA c : IF t \in Parameters THEN c.param = t
                                        ELSE c.param = "none" /\ c.key[1] = t)
NewNode(t) == IF t \in Parameters THEN Node(<<>>, t) ELSE Node(<<t>>, "none")

RECURSIVE AddTo(_, _, _), RuleAt(_, _)
AddTo(node, url, index) ==
  IF url = <<>> THEN [node EXCEPT !.rule = index]
  ELSE LET i == Child(node, Head(url))
       IN  IF i = 0 THEN [node EXCEPT !.children =
                            Append(@, AddTo(NewNode(Head(url)), Tail(url), index))]
           ELSE [node EXCEPT !.children[i] = AddTo(@, Tail(url), index)]

\* The index that the node of a URL has already.
RuleAt(node, url) ==
  IF url = <<>> THEN node.rule
  ELSE LET i == Child(node, Head(url))
       IN  IF i = 0 THEN 0 ELSE RuleAt(node.children[i], Tail(url))

(* Trie::optimize: a chain of nodes without rules becomes one.              *)
IsShortNode(node) ==
  /\ Len(node.children) < 2 /\ node.param = "none"
  /\ \A i \in DOMAIN node.children : node.children[i].param = "none"
IsSimpleNode(node) ==
  /\ node.rule = 0 /\ Len(node.children) < 2 /\ node.param = "none"
  /\ \A i \in DOMAIN node.children : node.children[i].param = "none"

RECURSIVE OptimizeNode(_)
OptimizeNode(node) ==
  IF node.children = <<>> THEN node
  ELSE IF IsSimpleNode(node)
  THEN LET child == node.children[1]
       IN  OptimizeNode([node EXCEPT !.key = @ \o child.key, !.rule = child.rule,
                                     !.children = child.children])
  ELSE [node EXCEPT !.children = [i \in DOMAIN @ |-> OptimizeNode(@[i])]]
Optimize(head) == [head EXCEPT !.children = [i \in DOMAIN @ |-> OptimizeNode(@[i])]]
-----------------------------------------------------------------------------
(* Trie::find.                                                              *)

\* The position after the longest run of characters of a set.
After(url, pos, set) == Min({p \in pos .. Len(url) + 1 : p = Len(url) + 1 \/ url[p] \notin set})
At(url, pos) == IF pos \in DOMAIN url THEN url[pos] ELSE ""

\* strtoll, strtoull and strtod: where they stop, or 0 if there is no number here or
\* it is out of range.
NumberEnd(param, url, pos) ==
  LET signs  == IF param = "<uint>" THEN {"+"} ELSE {"+", "-"}
      start  == IF url[pos] \in signs THEN pos + 1 ELSE pos
      whole  == After(url, start, Digits)
      point  == IF param = "<double>" /\ At(url, whole) = "." THEN whole + 1 ELSE whole
      end    == After(url, point, IF point > whole THEN Digits ELSE {})
      digits == (whole - start) + (end - point)
  IN  IF digits = 0 THEN 0
      ELSE IF param # "<double>" /\ digits > MaxDigits THEN 0 ELSE end

\* Where a child of a node stops to match, or 0.
TextEnd(param, url, pos) == IF param = "<path>" THEN Len(url) + 1 ELSE After(url, pos, {x \in Range(url) : x # "/"})
EndOf(child, url, pos) ==
  IF child.param = "none"
  THEN IF IsPrefix(child.key, SubSeq(url, pos, Len(url))) THEN pos + Len(child.key) ELSE 0
  ELSE IF child.param \in {"<string>", "<path>"}
  THEN LET end == TextEnd(child.param, url, pos) IN IF end = pos THEN 0 ELSE end
  ELSE NumberEnd(child.param, url, pos)

Better(a, b) == IF b.rule # 0 /\ (a.rule = 0 \/ a.rule > b.rule) THEN b ELSE a

RECURSIVE FindFrom(_, _, _, _)
FindFrom(url, node, pos, params) ==
  IF pos = Len(url) + 1 THEN [rule |-> node.rule, params |-> params]
  ELSE LET Of(child) ==
             LET end == EndOf(child, url, pos)
                 more == IF child.param = "none" THEN params
                         ELSE Append(params, <<child.param, SubSeq(url, pos, end - 1)>>)
             IN  IF end = 0 THEN [rule |-> 0, params |-> <<>>] ELSE FindFrom(url, child, end, more)
           found == [i \in DOMAIN node.children |-> Of(node.children[i])]
       IN  FoldLeft(Better, [rule |-> 0, params |-> <<>>], found)
Find(m, url) == FindFrom(url, trie[m], 1, <<>>)
-----------------------------------------------------------------------------
(* Router::handle_initial and Router::handle.                               *)
Matched(url) == {m \in Methods : Find(m, url).rule # 0}

\* A rule that was found: the answer is its handler's, or a redirection.
Handled(m, found) ==
  IF found.rule = RULE_SPECIAL_REDIRECT_SLASH THEN [kind |-> "redirect"]
  ELSE [kind |-> "rule", rule |-> rules[m][found.rule + 1], params |-> found.params]

HandleHead(url) ==
  LET own == Find("HEAD", url)
      get == Find("GET", url)
  IN  IF own.rule # 0 THEN Handled("HEAD", own)
      ELSE IF get.rule # 0 THEN Handled("GET", get) ELSE [kind |-> "404"]

HandleOptions(url) ==
  IF url = <<"/", "*">>
  THEN [kind |-> "allow", methods |-> {"OPTIONS", "HEAD"} \cup
                            {m \in Methods : trie[m].children # <<>>}]
  ELSE IF Matched(url) = {} THEN [kind |-> "404"]
  ELSE [kind |-> "allow", methods |-> {"OPTIONS", "HEAD"} \cup Matched(url)]

HandleOther(m, url) ==
  LET found == Find(m, url)
  IN  IF found.rule # 0 THEN Handled(m, found)
      ELSE IF Matched(url) # {} THEN [kind |-> "405"] ELSE [kind |-> "404"]

HandleInitial(m, url) ==
  CASE m = "HEAD"    -> HandleHead(url)
    [] m = "OPTIONS" -> HandleOptions(url)
    [] OTHER         -> HandleOther(m, url)
-----------------------------------------------------------------------------
Init ==
  /\ rules = [m \in Methods |-> <<0, 0>>]
  /\ trie = [m \in Methods |-> Node(<<>>, "none")]
  /\ validated = FALSE /\ registered = <<>> /\ answer = NoAnswer

\* internal_add_rule_object: a rule that ends with a slash is also put in without it.
HasTrailingSlash(url) == Len(url) > 1 /\ Last(url) = "/"
Added(head, url, index) ==
  LET with == AddTo(head, url, index)
  IN  IF HasTrailingSlash(url) THEN AddTo(with, Front(url), RULE_SPECIAL_REDIRECT_SLASH) ELSE with

\* A URL that has a handler for the same method ends the start with an exception.
Accepts(rule) ==
  \A m \in rule.methods :
     /\ RuleAt(trie[m], rule.url) = 0
     /\ HasTrailingSlash(rule.url) => RuleAt(trie[m], Front(rule.url)) = 0

AddRule(rule) ==
  /\ ~validated /\ Len(registered) < MaxRules /\ Accepts(rule)
  /\ rules' = [m \in Methods |-> IF m \in rule.methods THEN Append(rules[m], rule) ELSE rules[m]]
  /\ trie' = [m \in Methods |-> IF m \in rule.methods
                                THEN Added(trie[m], rule.url, Len(rules[m])) ELSE trie[m]]
  /\ registered' = Append(registered, rule)
  /\ UNCHANGED <<validated, answer>>

Validate ==
  /\ ~validated
  /\ validated' = TRUE
  /\ trie' = [m \in Methods |-> Optimize(trie[m])]
  /\ UNCHANGED <<rules, registered, answer>>

\* Bound: one request for each set of rules, since a request changes nothing here.
Request(m, url) ==
  /\ validated /\ answer = NoAnswer
  /\ answer' = [method |-> m, url |-> url] @@ HandleInitial(m, url)
  /\ UNCHANGED <<rules, trie, validated, registered>>

Next ==
  \/ \E rule \in Rules : AddRule(rule)
  \/ Validate
  \/ \E m \in Methods, url \in URLs : Request(m, url)

Spec == Init /\ [][Next]_vars
=============================================================================
