----------------------------- MODULE MCSessions -----------------------------
(***************************************************************************)
(* Requests for Sessions: a plain page, one whose rule and blueprint name  *)
(* local middlewares out of order and twice, answered by the handler, by a *)
(* middleware, or by nobody; two Cookie headers; an upgrade.               *)
(***************************************************************************)
EXTENDS Sessions

CONSTANTS one, two

(* Two local middlewares: the first may answer instead of the handler, or   *)
(* throw.                                                                   *)
Gate  == 3
Audit == 5

Page(rule, stop, throws) ==
  [kind |-> "page", rule |-> rule, stop |-> stop, throws |-> throws]
Plain   == Rule(<<>>, <<>>)
Guarded == Rule(<<Audit, Gate>>, <<Gate>>)

MCRequests ==
  {Page(Plain, Nobody, FALSE), Page(Plain, Cookies, FALSE),
   Page(Guarded, Nobody, FALSE), Page(Guarded, Gate, FALSE), Page(Guarded, Gate, TRUE),
   [kind |-> "upgrade", rule |-> Plain, stop |-> Nobody, throws |-> FALSE]}

(* Connections differ in nothing but their names.                           *)
MCSymmetry == Permutations({one, two})

=============================================================================
