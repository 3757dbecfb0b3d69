------------------------------- MODULE Routes -------------------------------
(***************************************************************************)
(* The HTTP routes of src/routes.cpp on top of DataSyncMagnr: how a        *)
(* request body becomes a call, and what the client is told.               *)
(***************************************************************************)
EXTENDS TreeProperties

CONSTANTS
  IntBits,   \* width of an int, small so that narrowing happens
  LongBits,  \* width of an int64_t
  Numbers    \* the numbers that clients write, of any size

ASSUME WidthAssumption ==
  /\ IntBits \in Nat \ {0} /\ LongBits \in Nat
  /\ IntBits < LongBits
  /\ MaxId < 2^(IntBits - 1)
  /\ Numbers \subseteq Int

Ints == -(2^(IntBits - 1)) .. (2^(IntBits - 1) - 1)
MaxLong == 2^(LongBits - 1) - 1

(* A field of the JSON body.  An id is a number, digits in a string or      *)
(* bare, or a string that does not start with digits ("text") or is blank;  *)
(* a name is any string, the empty one too; either may be a value of        *)
(* another type, null, or not there.                                        *)
OtherField == {[t |-> t] : t \in {"absent", "null", "other"}}
NumberField == {[t |-> "number", n |-> n] : n \in Numbers}
IdField == NumberField \cup {[t |-> t] : t \in {"text", "blank"}} \cup OtherField
NameField == {[t |-> "string", s |-> s] : s \in Names} \cup NumberField \cup OtherField

Given(field) == field.t \notin {"absent", "null"}

(* .i() throws on anything that is neither a number nor a string.           *)
Readable(field) == field.t # "other"

(* Reading an int64_t from a stream stops at its ends.                      *)
Saturated(n) ==
  IF n > MaxLong THEN MaxLong ELSE IF n < -MaxLong - 1 THEN -MaxLong - 1 ELSE n

(* int64_t to int. *)
Narrow(n) == ((n + 2^(IntBits - 1)) % 2^IntBits) - 2^(IntBits - 1)

(* What .i() makes of a field, as an int.  From a blank string lexical_cast *)
(* reads nothing and returns a variable it never set: any int.              *)
IntsOf(field) ==
  CASE field.t = "number" -> {Narrow(Saturated(field.n))}
    [] field.t = "text" -> {0}
    [] field.t = "blank" -> Ints

(* Ints that name nothing are all alike to the manager.                     *)
ArgOf(n) == IF n \in Keys THEN n ELSE NoId

VARIABLES
  reply,  \* the last answer of the process
  acked   \* ids that a client was given by a 201 and did not ask to remove

routeVars == <<vars, reply, acked>>

NoReply == [route |-> "none"]
Status(route, status) == [route |-> route, status |-> status]
Created(route, id) == [route |-> route, status |-> 201, id |-> id]

RoutesInit ==
  /\ Init
  /\ reply = NoReply
  /\ acked = {}

-----------------------------------------------------------------------------
(* A handler that answers without calling the manager. *)
Answer(r) ==
  /\ pc = "serving"
  /\ reply' = r
  /\ UNCHANGED <<vars, acked>>

(* POST with a body that is not JSON. *)
PostInvalid(route) == Answer(Status(route, 400))

(* A body that is JSON but no object, a name or an id that is missing or of *)
(* the wrong type: the handler returns 500, or throws and Crow answers 500. *)
PostScalar(route) == Answer(Status(route, 500))

PostAddNode(name, parent) ==
  \/ /\ name.t # "string" \/ (Given(parent) /\ ~Readable(parent))
     /\ Answer(Status("add", 500))
  \/ /\ name.t = "string"
     /\ Given(parent) => Readable(parent)
     /\ \E p \in IF Given(parent) THEN IntsOf(parent) ELSE {SuperRoot} :
          CallAddNode(name.s, ArgOf(p))
     /\ reply' = NoReply
     /\ UNCHANGED acked

PostRemoveNode(id) ==
  \/ /\ Given(id) => ~Readable(id)
     /\ Answer(Status("remove", 500))
  \/ /\ Given(id) /\ Readable(id)
     /\ \E n \in IntsOf(id) :
          /\ CallRemoveNode(ArgOf(n))
          /\ acked' = acked \ {n}
     /\ reply' = NoReply

GetTree ==
  Answer(IF SuperRoot \in nodes
           THEN [route |-> "tree", status |-> 200, ids |-> Shown]
           ELSE [route |-> "tree", status |-> 404, ids |-> {}])

ValidateTree == \A key \in nodes : children[key] \subseteq nodes

GetVerify == Answer([route |-> "verify", status |-> 200, good |-> ValidateTree])

GetHelloWorld == Answer(Status("helloWorld", 200))

Post ==
  \/ \E route \in {"add", "remove"} : PostInvalid(route) \/ PostScalar(route)
  \/ \E name \in NameField, parent \in IdField : PostAddNode(name, parent)
  \/ \E id \in IdField : PostRemoveNode(id)

(* The manager works; when it returns, the handler answers 201 whatever     *)
(* came back.                                                               *)
Returns == call.op # "none" /\ pc' = "serving"

AnswerFor(result) ==
  Created(call.op, IF call.op = "add" THEN result ELSE call.id)

Handle ==
  /\ AddStep \/ RemoveStep
  /\ IF Returns
       THEN /\ reply' = AnswerFor(ret')
            /\ acked' = IF call.op = "add" THEN acked \cup ({ret'} \cap Ids)
                                           ELSE acked
       ELSE UNCHANGED <<reply, acked>>

(* Loading happens before there is a route; the end of the process closes   *)
(* the connections of its clients.                                          *)
Load == LoadStep /\ UNCHANGED <<reply, acked>>

ProcessEvent ==
  /\ Start \/ StartFails \/ ConnectionLost \/ Crash \/ Stop
  /\ reply' = IF pc' = "down" THEN NoReply ELSE reply
  /\ UNCHANGED acked

RoutesNext ==
  \/ Post \/ GetTree \/ GetVerify \/ GetHelloWorld
  \/ Handle \/ Load \/ ProcessEvent

RoutesSpec == RoutesInit /\ [][RoutesNext]_routeVars

-----------------------------------------------------------------------------
(* What a client was told it has, it has, across any restart, until it asks *)
(* for its removal.                                                         *)
AcknowledgedSurvive == acked \subseteq stored.objects

(* The inductive invariant behind it, for a session that is not lost: an    *)
(* acknowledged id is in both views of the tables, nobody is removing it,   *)
(* and the id that addNode will return is in what it commits.               *)
AckInv ==
  /\ pc # "down" => link = "open"
  /\ acked \subseteq stored.objects \cap pending.objects
  /\ call \in RemoveCall => call.id \notin acked
  /\ pc = "add_lastid" => LastInsertId \in pending.objects
  /\ pc \in {"add_relate", "add_commit"} => newId \in pending.objects

=============================================================================
