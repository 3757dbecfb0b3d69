----------------------------- MODULE Middleware -----------------------------
(***************************************************************************)
(* How crow calls the middlewares of an application (crow/middleware.h,    *)
(* crow/routing.h): the global ones around every request, the local ones   *)
(* around the requests of the rules and blueprints that name them.         *)
(***************************************************************************)
EXTENDS Integers, Sequences, SequencesExt, FiniteSetsExt

CONSTANTS AppSize,   \* how many middlewares the application has
          Local      \* those that do not run around every request

(* A middleware is known by its place in App<...>.  The session needs the    *)
(* cookies, which therefore come first.                                      *)
Cookies == 1
Session == 2
All     == [m \in 1 .. AppSize |-> m]
Nobody  == 0

ASSUME MiddlewaresAssumption ==
  AppSize \in Nat /\ AppSize >= Session /\ Local \subseteq Session + 1 .. AppSize

(* A rule with the middlewares that it names, and those of its blueprint.   *)
Rule(own, blueprint) == [own |-> own, blueprint |-> blueprint]

(* merge_front, then pack: sorted, without duplicates.                      *)
InOrder(ms) == CHOOSE list \in [1 .. Cardinality(ms) -> ms] : IsSorted(list, <)
MergedOnly(rule) == rule.blueprint \o rule.own
Indices(rule) == InOrder(ToSet(rule.blueprint \o rule.own))

(* A criterion walks along the application's middlewares and lets through   *)
(* those that come next in its list (the slider).                           *)
Enabled(middlewares, list) ==
  LET slider[n \in 0 .. Len(middlewares)] ==
        IF n = 0 THEN 0
        ELSE LET s == slider[n - 1]
             IN  IF s < Len(list) /\ list[s + 1] = middlewares[n] THEN s + 1 ELSE s
  IN  SubSeq(list, 1, slider[Len(middlewares)])

Globals == InOrder(ToSet(All) \ Local)
Locals(rule) == Enabled(All, Indices(rule))
LocalsBack(rule) == Enabled(Reverse(All), Reverse(Indices(rule)))

Before(m) == <<"before", m>>
After(m)  == <<"after", m>>
Befores(list) == [i \in DOMAIN list |-> Before(list[i])]
Afters(list)  == [i \in DOMAIN list |-> After(list[i])]

(* What is called of a list up to the one that ends the way through it.     *)
UpTo(list, last) ==
  IF \E i \in DOMAIN list : list[i] = last
    THEN SubSeq(list, 1, CHOOSE i \in DOMAIN list : list[i] = last)
    ELSE list

(* middleware_call_helper: a middleware that completes the response ends    *)
(* the way there, and those that were called are called again, backwards.   *)
Turned(list, stop) ==
  LET called == UpTo(list, stop) IN Befores(called) \o Afters(Reverse(called))

CallHelper(list, stop) ==
  IF Contains(list, stop) THEN Turned(list, stop) ELSE Befores(list)

(* after_handlers_call_helper, for the global and for the local ones.       *)
GlobalsBack == Enabled(Reverse(All), Reverse(Globals))

=============================================================================
