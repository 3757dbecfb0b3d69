---------------------------- MODULE ServerProofs ----------------------------
(***************************************************************************)
(* Proofs about crow::Server, for any number of workers and connections.    *)
(*                                                                         *)
(* What the counters of the workers say rests on the start: a worker sets   *)
(* its counter to 0 only while nobody accepts, because do_accept waits for  *)
(* all of them.  That loads stay close rests on the loop that chooses a      *)
(* worker and on what the counters say; that the announced server accepts,   *)
(* on the order of the steps of stop().                                     *)
(***************************************************************************)
EXTENDS HttpServer, Recursions

\* Which thread may be where: accepting starts after every worker has.
StartOrder ==
  /\ worker \in [Workers -> {"none", "created", "running", "exited"}]
  /\ run \in {"called", "constructed"} => \A w \in Workers : worker[w] = "none"
  /\ (\E w \in Workers : worker[w] = "created") => run = "created"
  /\ run \in {"called", "constructed", "created"} =>
       accepting = None /\ \A w \in Workers : live[w] = 0

Counted ==
  /\ length \in [Workers -> Nat] /\ live \in [Workers -> Nat]
  /\ accepting \in Workers \cup {None} /\ accepted \in Nat
  /\ LengthCounts

LoadInv == StartOrder /\ Counted

-----------------------------------------------------------------------------
(* The loop of pick_io_context_idx, worker after worker.                    *)
Shorter(b, w) == IF length[b] > 0 /\ length[w] < length[b] THEN w ELSE b
Searches(f) == f = [w \in Workers |-> IF w = 1 THEN 1 ELSE Shorter(f[w - 1], w)]

LEMMA SearchExists ==
  ASSUME length \in [Workers -> Nat]
  PROVE  \E f : f \in [Workers -> Workers] /\ Searches(f)
  <1> DEFINE N == WorkerCount - 1
             step == [x \in (1 .. N) \X Workers |-> Shorter(x[2], x[1] + 1)]
  <1>1. N \in Nat /\ 1 \in Workers /\ Workers = 1 .. N + 1
    BY WorkersAssumption DEF Workers
  <1>2. step \in [(1 .. N) \X Workers -> Workers]
    <2> SUFFICES ASSUME NEW n \in 1 .. N, NEW b \in Workers
                 PROVE  Shorter(b, n + 1) \in Workers
      OBVIOUS
    <2> QED
      BY <1>1 DEF Shorter
  <1>3. PICK g : Builds(g, N, Workers, 1, step)
    <2> HIDE DEF N, step
    <2> QED
      BY <1>1, <1>2, Recursion
  <1> DEFINE f == [w \in Workers |-> g[w - 1]]
  <1>4. f \in [Workers -> Workers] /\ g[0] = 1
    BY <1>1, <1>3 DEF Builds
  <1>5. ASSUME NEW w \in Workers, w # 1
        PROVE  f[w] = Shorter(f[w - 1], w)
    <2>1. w - 1 \in 1 .. N /\ w - 1 \in Workers /\ (w - 1) + 1 = w
      BY <1>1, <1>5
    <2>2. g[w - 1] = step[<<w - 1, g[(w - 1) - 1]>>] /\ g[(w - 1) - 1] = f[w - 1]
      BY <1>3, <2>1 DEF Builds
    <2>3. f[w - 1] \in Workers
      BY <1>4, <2>1
    <2>4. step[<<w - 1, f[w - 1]>>] = Shorter(f[w - 1], (w - 1) + 1)
      BY <2>1, <2>3
    <2> QED
      BY <2>1, <2>2, <2>4
  <1>6. f[1] = 1
    BY <1>1, <1>4
  <1> HIDE DEF f
  <1>7. f = [w \in Workers |-> f[w]]
    BY <1>4
  <1> QED
    BY <1>4, <1>5, <1>6, <1>7 DEF Searches

(* The loop finds a worker, and one that has the least to do.               *)
LEMMA PickIsLeast ==
  ASSUME length \in [Workers -> Nat]
  PROVE  /\ PickWorker \in Workers
         /\ \A v \in Workers : length[PickWorker] <= length[v]
  <1> DEFINE f == CHOOSE best : Searches(best)
  <1>1. PickWorker = f[WorkerCount]
    BY DEF PickWorker, Searches, Shorter
  <1>2. Searches(f)
    BY SearchExists
  <1> HIDE DEF f
  <1>3. 1 \in Workers /\ WorkerCount \in Workers /\ Workers = 1 .. WorkerCount
    BY WorkersAssumption DEF Workers
  <1> DEFINE Least(w) == f[w] \in Workers /\ \A v \in 1 .. w : length[f[w]] <= length[v]
             Searched == {n \in Nat : n + 1 \in Workers => Least(n + 1)}
  <1>4. 0 \in Searched
    <2>1. f[1] = 1
      BY <1>2, <1>3 DEF Searches
    <2> QED
      BY <1>3, <2>1
  <1>5. ASSUME NEW n \in Nat, n \in Searched PROVE n + 1 \in Searched
    <2> SUFFICES ASSUME (n + 1) + 1 \in Workers PROVE Least((n + 1) + 1)
      OBVIOUS
    <2>1. n + 1 \in Workers /\ (n + 1) + 1 # 1 /\ ((n + 1) + 1) - 1 = n + 1
      BY <1>3
    <2>2. f[(n + 1) + 1] = Shorter(f[n + 1], (n + 1) + 1)
      BY <1>2, <2>1 DEF Searches
    <2>3. f[n + 1] \in Workers /\ \A v \in 1 .. n + 1 : length[f[n + 1]] <= length[v]
      BY <1>5, <2>1
    <2>4. \A v \in 1 .. (n + 1) + 1 : v \in 1 .. n + 1 \/ v = (n + 1) + 1
      OBVIOUS
    <2>5. \A v \in 1 .. n + 1 : v \in Workers
      BY <1>3, <2>1
    <2>6. CASE length[f[n + 1]] > 0 /\ length[(n + 1) + 1] < length[f[n + 1]]
      BY <2>2, <2>3, <2>4, <2>5, <2>6 DEF Shorter
    <2>7. CASE ~(length[f[n + 1]] > 0 /\ length[(n + 1) + 1] < length[f[n + 1]])
      <3>1. f[(n + 1) + 1] = f[n + 1]
        BY <2>2, <2>7 DEF Shorter
      <3>2. length[f[n + 1]] <= length[(n + 1) + 1]
        BY <2>3, <2>7
      <3> QED
        BY <2>3, <2>4, <3>1, <3>2
    <2> QED
      BY <2>6, <2>7
  <1> HIDE DEF Searched
  <1>6. Nat \subseteq Searched
    BY <1>4, <1>5, Induction
  <1>7. WorkerCount - 1 \in Nat /\ (WorkerCount - 1) + 1 = WorkerCount
    BY WorkersAssumption
  <1>8. Least(WorkerCount)
    <2>1. WorkerCount - 1 \in Searched
      BY <1>6, <1>7
    <2> QED
      BY <1>3, <1>7, <2>1 DEF Searched
  <1> QED
    BY <1>1, <1>3, <1>8

-----------------------------------------------------------------------------
(* do_accept keeps the count, whatever connection the handler still holds.  *)
LEMMA DoAcceptCounts ==
  ASSUME Counted, NEW held \in Workers \cup {None}, DoAccept(held),
         live' \in [Workers -> Nat], accepted' \in Nat,
         \A w \in Workers : length[w] = live'[w] + (IF held = w THEN 1 ELSE 0)
  PROVE  Counted'
  <1>1. CASE shutting_down
    <2>1. accepting' = None /\ length' = Minus(length, held) /\ None \notin Workers
      BY <1>1 DEF DoAccept, Workers, None
    <2>2. \A w \in Workers : length'[w] = live'[w] + (IF accepting' = w THEN 1 ELSE 0)
      BY <2>1 DEF Counted, Minus
    <2>3. length' \in [Workers -> Nat]
      <3>1. length' = [w \in Workers |-> length'[w]]
        BY <2>1 DEF Counted, Minus
      <3> QED
        BY <2>1, <2>2, <3>1
    <2> QED
      BY <2>1, <2>2, <2>3 DEF Counted, LengthCounts
  <1>2. CASE ~shutting_down
    <2>1. PickWorker \in Workers /\ None \notin Workers
      BY PickIsLeast DEF Counted, Workers, None
    <2>2. /\ accepting' = PickWorker
          /\ length' = Minus([length EXCEPT ![PickWorker] = @ + 1], held)
      BY <1>2 DEF DoAccept
    <2>3. \A w \in Workers : length'[w] = live'[w] + (IF accepting' = w THEN 1 ELSE 0)
      BY <2>1, <2>2 DEF Counted, Minus
    <2>4. length' \in [Workers -> Nat]
      <3>1. length' = [w \in Workers |-> length'[w]]
        BY <2>1, <2>2 DEF Counted, Minus
      <3> QED
        BY <2>3, <3>1
    <2> QED
      BY <2>1, <2>2, <2>3, <2>4 DEF Counted, LengthCounts
  <1> QED
    BY <1>1, <1>2

(* The steps of run(), up to the first accept.                              *)
LEMMA RunKeepsLoadInv ==
  ASSUME LoadInv, Running
  PROVE  LoadInv'
  <1> USE DEF LoadInv, StartOrder
  <1>1. CASE BadAddress \/ Construct \/ RunAborts \/ NotifyStart \/ RunReturns
    BY <1>1 DEF BadAddress, Construct, RunAborts, NotifyStart, Ready, RunReturns,
                Counted, LengthCounts, startVars, loadVars, stopVars
  <1>2. CASE CreateWorkers
    BY <1>2 DEF CreateWorkers, Counted, LengthCounts, startVars, loadVars, stopVars
  <1>3. CASE StartAccepting
    <2>1. Counted'
      <3>1. \A w \in Workers : length[w] = live'[w] + (IF None = w THEN 1 ELSE 0)
        BY <1>3 DEF StartAccepting, Counted, LengthCounts
      <3> QED
        BY <1>3, <3>1, DoAcceptCounts DEF StartAccepting, Counted
    <2>2. StartOrder'
      BY <1>3 DEF StartAccepting, AllInitialised
    <2> QED
      BY <2>1, <2>2
  <1> QED
    BY <1>1, <1>2, <1>3 DEF Running

(* The clients that come, and the accepts that fail.                        *)
LEMMA AcceptKeepsLoadInv ==
  ASSUME LoadInv, AcceptClient \/ AcceptFails
  PROVE  LoadInv'
  <1>1. CASE AcceptClient
    <2>1. /\ live' \in [Workers -> Nat] /\ accepted' \in Nat
          /\ \A w \in Workers : length[w] = live'[w] + (IF None = w THEN 1 ELSE 0)
      BY <1>1 DEF LoadInv, AcceptClient, Counted, LengthCounts, Workers, None
    <2>2. Counted'
      BY <1>1, <2>1, DoAcceptCounts DEF LoadInv, AcceptClient
    <2> QED
      BY <1>1, <2>2 DEF LoadInv, StartOrder, AcceptClient, Looping
  <1>2. CASE AcceptFails
    <2>1. Counted'
      BY <1>2, DoAcceptCounts DEF LoadInv, AcceptFails, Counted, LengthCounts
    <2> QED
      BY <1>2, <2>1 DEF LoadInv, StartOrder, AcceptFails, Looping
  <1> QED
    BY <1>1, <1>2

(* A worker that starts resets its counter before anything was counted.     *)
LEMMA WorkerKeepsLoadInv ==
  ASSUME LoadInv, NEW w \in Workers,
         WorkerStarts(w) \/ ConnectionEnds(w) \/ WorkerExits(w)
  PROVE  LoadInv'
  <1> USE DEF LoadInv, StartOrder, Counted, LengthCounts
  <1>1. CASE WorkerStarts(w)
    BY <1>1 DEF WorkerStarts, startVars, stopVars, Workers, None
  <1>2. CASE ConnectionEnds(w)
    BY <1>2 DEF ConnectionEnds, startVars, stopVars
  <1>3. CASE WorkerExits(w)
    BY <1>3 DEF WorkerExits, startVars, loadVars, stopVars
  <1> QED
    BY <1>1, <1>2, <1>3

LEMMA NextKeepsLoadInv ==
  ASSUME LoadInv, [Next]_vars
  PROVE  LoadInv'
  <1> USE DEF LoadInv, StartOrder, Counted, LengthCounts, loadVars
  <1>1. CASE Running
    BY <1>1, RunKeepsLoadInv
  <1>2. CASE AcceptClient \/ AcceptFails
    BY <1>2, AcceptKeepsLoadInv
  <1>3. CASE \E w \in Workers : WorkerStarts(w) \/ ConnectionEnds(w) \/ WorkerExits(w)
    BY <1>3, WorkerKeepsLoadInv
  <1>4. CASE (\E by \in {"signal", "thread"} : StopCalled(by)) \/ Stopping
    BY <1>4 DEF StopCalled, Stopping, StopFlag, StopAcceptor, StopWorkers, StopMain, StopStep
  <1>5. CASE WaitApp \/ WaitServer \/ WaitTimeout
    BY <1>5 DEF WaitApp, WaitServer, WaitTimeout
  <1>6. CASE UNCHANGED vars
    BY <1>6 DEF vars
  <1> QED
    BY <1>1, <1>2, <1>3, <1>4, <1>5, <1>6 DEF Next

LEMMA InitLoadInv == Init => LoadInv
  BY WorkersAssumption DEF Init, LoadInv, StartOrder, Counted, LengthCounts, Workers, None

(* The counter by which connections are spread is always the number of the  *)
(* worker's connections, whatever order the workers start in and whenever   *)
(* the server is stopped (task_queue_length_pool_).                         *)
THEOREM QueuesAreCounted == Spec => []LengthCounts
  <1>1. Init => LoadInv
    BY InitLoadInv
  <1>2. LoadInv /\ [Next]_vars => LoadInv'
    BY NextKeepsLoadInv
  <1>3. LoadInv => LengthCounts
    BY DEF LoadInv, Counted
  <1> QED
    BY <1>1, <1>2, <1>3, PTL DEF Spec

-----------------------------------------------------------------------------
(* How many connections there are, in terms of the worker of each.          *)
Sums(f, loads) == f = [w \in 0 .. WorkerCount |-> IF w = 0 THEN 0 ELSE f[w - 1] + loads[w]]
SumOf(loads) == (CHOOSE f : Sums(f, loads))[WorkerCount]

LEMMA TotalIsSum == Total = SumOf(live) /\ Total' = SumOf(live')
  BY DEF Total, SumOf, Sums

LEMMA SumExists ==
  ASSUME NEW loads \in [Workers -> Nat]
  PROVE  \E f : f \in [0 .. WorkerCount -> Nat] /\ Sums(f, loads)
  <1> DEFINE step == [x \in Workers \X Nat |-> x[2] + loads[x[1]]]
  <1>1. step \in [(1 .. WorkerCount) \X Nat -> Nat] /\ WorkerCount \in Nat /\ 0 \in Nat
    BY WorkersAssumption DEF Workers
  <1>2. PICK f : Builds(f, WorkerCount, Nat, 0, step)
    <2> HIDE DEF step
    <2> QED
      BY <1>1, Recursion
  <1>3. f \in [0 .. WorkerCount -> Nat] /\ f[0] = 0
    BY <1>2 DEF Builds
  <1>4. ASSUME NEW w \in 1 .. WorkerCount PROVE f[w] = f[w - 1] + loads[w]
    <2>1. w \in Workers /\ w - 1 \in 0 .. WorkerCount /\ f[w - 1] \in Nat
      BY <1>3, WorkersAssumption DEF Workers
    <2>2. f[w] = step[<<w, f[w - 1]>>]
      BY <1>2 DEF Builds
    <2>3. step[<<w, f[w - 1]>>] = f[w - 1] + loads[w]
      BY <2>1
    <2> QED
      BY <2>2, <2>3
  <1>5. \A w \in 0 .. WorkerCount : f[w] = IF w = 0 THEN 0 ELSE f[w - 1] + loads[w]
    BY <1>3, <1>4, WorkersAssumption
  <1>6. f = [w \in 0 .. WorkerCount |-> f[w]]
    BY <1>3
  <1>7. f = [w \in 0 .. WorkerCount |-> IF w = 0 THEN 0 ELSE f[w - 1] + loads[w]]
    BY ONLY <1>5, <1>6
  <1> QED
    BY <1>3, <1>7 DEF Sums

LEMMA SumUnfolds ==
  ASSUME NEW loads \in [Workers -> Nat]
  PROVE  \E f : /\ f \in [0 .. WorkerCount -> Nat] /\ f[0] = 0
                /\ \A w \in Workers : f[w] = f[w - 1] + loads[w]
                /\ SumOf(loads) = f[WorkerCount]
  <1> DEFINE f == CHOOSE g : Sums(g, loads)
  <1>1. Sums(f, loads)
    BY SumExists
  <1>2. SumOf(loads) = f[WorkerCount]
    BY DEF SumOf
  <1>3. PICK g \in [0 .. WorkerCount -> Nat] : Sums(g, loads)
    BY SumExists
  <1> HIDE DEF f
  <1> DEFINE Same == {n \in Nat : n <= WorkerCount => f[n] = g[n]}
  <1>4. 0 \in Same
    BY <1>1, <1>3, WorkersAssumption DEF Sums
  <1>5. ASSUME NEW n \in Nat, n \in Same PROVE n + 1 \in Same
    <2> SUFFICES ASSUME n + 1 <= WorkerCount PROVE f[n + 1] = g[n + 1]
      OBVIOUS
    <2>1. n + 1 \in 0 .. WorkerCount /\ n + 1 # 0 /\ (n + 1) - 1 = n /\ f[n] = g[n]
      BY <1>5, WorkersAssumption
    <2>2. f[n + 1] = f[(n + 1) - 1] + loads[n + 1]
      BY <1>1, <2>1 DEF Sums
    <2>3. g[n + 1] = g[(n + 1) - 1] + loads[n + 1]
      BY <1>3, <2>1 DEF Sums
    <2> QED
      BY <2>1, <2>2, <2>3
  <1> HIDE DEF Same
  <1>6. \A n \in 0 .. WorkerCount : f[n] = g[n]
    <2>1. Nat \subseteq Same
      BY <1>4, <1>5, Induction
    <2> QED
      BY <2>1, WorkersAssumption DEF Same
  <1>7. f \in [0 .. WorkerCount -> Nat]
    <2>1. f = [w \in 0 .. WorkerCount |-> f[w]]
      BY <1>1 DEF Sums
    <2> QED
      BY <1>6, <2>1
  <1>8. f[0] = 0 /\ \A w \in Workers : f[w] = f[w - 1] + loads[w]
    BY <1>1, WorkersAssumption DEF Sums, Workers
  <1> QED
    BY <1>2, <1>7, <1>8

LEMMA SumOfNone ==
  ASSUME NEW loads \in [Workers -> Nat], \A w \in Workers : loads[w] = 0
  PROVE  SumOf(loads) = 0
  <1>1. PICK f : /\ f \in [0 .. WorkerCount -> Nat] /\ f[0] = 0
                 /\ \A w \in Workers : f[w] = f[w - 1] + loads[w]
                 /\ SumOf(loads) = f[WorkerCount]
    BY SumUnfolds
  <1> DEFINE Zero == {n \in Nat : n <= WorkerCount => f[n] = 0}
  <1>2. 0 \in Zero
    BY <1>1
  <1>3. ASSUME NEW n \in Nat, n \in Zero PROVE n + 1 \in Zero
    <2> SUFFICES ASSUME n + 1 <= WorkerCount PROVE f[n + 1] = 0
      OBVIOUS
    <2>1. n + 1 \in Workers /\ (n + 1) - 1 = n /\ f[n] = 0
      BY <1>3, WorkersAssumption DEF Workers
    <2>2. f[n + 1] = f[(n + 1) - 1] + loads[n + 1]
      BY <1>1, <2>1
    <2> QED
      BY <2>1, <2>2
  <1> HIDE DEF Zero
  <1>4. WorkerCount \in Zero
    BY <1>2, <1>3, Induction, WorkersAssumption
  <1> QED
    BY <1>1, <1>4, WorkersAssumption DEF Zero

\* one connection more, or one less, at one of the workers
LEMMA SumOfOneMore ==
  ASSUME NEW loads \in [Workers -> Nat], NEW w \in Workers, NEW d \in {-1, 1},
         NEW after \in [Workers -> Nat], after = [loads EXCEPT ![w] = @ + d]
  PROVE  SumOf(after) = SumOf(loads) + d
  <1>1. PICK f : /\ f \in [0 .. WorkerCount -> Nat] /\ f[0] = 0
                 /\ \A v \in Workers : f[v] = f[v - 1] + loads[v]
                 /\ SumOf(loads) = f[WorkerCount]
    BY SumUnfolds
  <1>2. PICK g : /\ g \in [0 .. WorkerCount -> Nat] /\ g[0] = 0
                 /\ \A v \in Workers : g[v] = g[v - 1] + after[v]
                 /\ SumOf(after) = g[WorkerCount]
    BY SumUnfolds
  <1>3. Workers = 1 .. WorkerCount /\ WorkerCount \in Nat
    BY WorkersAssumption DEF Workers
  <1> DEFINE Moved == {n \in Nat : n <= WorkerCount =>
                                     g[n] = f[n] + (IF w <= n THEN d ELSE 0)}
  <1>4. 0 \in Moved
    BY <1>1, <1>2, <1>3
  <1>5. ASSUME NEW n \in Nat, n \in Moved PROVE n + 1 \in Moved
    <2> SUFFICES ASSUME n + 1 <= WorkerCount
                 PROVE  g[n + 1] = f[n + 1] + (IF w <= n + 1 THEN d ELSE 0)
      OBVIOUS
    <2>1. n + 1 \in Workers /\ (n + 1) - 1 = n /\ n \in 0 .. WorkerCount
      BY <1>3
    <2>2. g[n] = f[n] + (IF w <= n THEN d ELSE 0)
      BY <1>3, <1>5
    <2>3. f[n + 1] = f[n] + loads[n + 1] /\ g[n + 1] = g[n] + after[n + 1]
      <3>1. f[n + 1] = f[(n + 1) - 1] + loads[n + 1]
        BY <1>1, <2>1
      <3>2. g[n + 1] = g[(n + 1) - 1] + after[n + 1]
        BY <1>2, <2>1
      <3> QED
        BY <2>1, <3>1, <3>2
    <2>4. /\ f[n] \in Nat /\ loads[n + 1] \in Nat /\ w \in Nat
          /\ after[n + 1] = IF w = n + 1 THEN loads[n + 1] + d ELSE loads[n + 1]
      <3>1. \A v \in Workers : after[v] = IF w = v THEN loads[v] + d ELSE loads[v]
        OBVIOUS
      <3> QED
        BY <1>1, <1>3, <2>1, <3>1
    <2> QED
      BY <2>2, <2>3, <2>4
  <1> HIDE DEF Moved
  <1>6. WorkerCount \in Moved
    BY <1>3, <1>4, <1>5, Induction
  <1> QED
    BY <1>1, <1>2, <1>3, <1>6 DEF Moved

\* Why loads stay close: the worker that is waited for was chosen when it had
\* at most one connection more than any other.
Spread ==
  /\ Total \in Nat /\ Total <= accepted
  /\ LoadsStayClose
  /\ Total = accepted /\ accepting # None =>
       \A v \in Workers : live[accepting] <= live[v] + 1

LEMMA ChosenIsSpread ==
  ASSUME Counted, NEW held \in Workers \cup {None}, DoAccept(held),
         live' \in [Workers -> Nat],
         \A w \in Workers : length[w] = live'[w] + (IF held = w THEN 1 ELSE 0)
  PROVE  accepting' # None => \A v \in Workers : live'[accepting'] <= live'[v] + 1
  <1> SUFFICES ASSUME accepting' # None, NEW v \in Workers
               PROVE  live'[accepting'] <= live'[v] + 1
    OBVIOUS
  <1>1. accepting' = PickWorker
    BY DEF DoAccept
  <1>2. PickWorker \in Workers /\ length[PickWorker] <= length[v]
    BY PickIsLeast DEF Counted
  <1>3. live'[PickWorker] <= length[PickWorker] /\ length[v] <= live'[v] + 1
    BY <1>2
  <1>4. {live'[PickWorker], length[PickWorker], length[v], live'[v]} \subseteq Nat
    BY <1>2 DEF Counted
  <1> QED
    BY <1>1, <1>2, <1>3, <1>4

LEMMA AcceptKeepsSpread ==
  ASSUME LoadInv, Spread, AcceptClient
  PROVE  Spread'
  <1>1. /\ live' = [live EXCEPT ![accepting] = @ + 1] /\ live' \in [Workers -> Nat]
        /\ live \in [Workers -> Nat] /\ accepted \in Nat /\ accepted' = accepted + 1
        /\ accepting \in Workers /\ accepting # None
    BY DEF LoadInv, Counted, AcceptClient, Workers, None
  <1>2. Total' = Total + 1
    BY <1>1, SumOfOneMore, TotalIsSum
  <1>3. ASSUME Total' = accepted', NEW v \in Workers, NEW w \in Workers
        PROVE  live'[v] <= live'[w] + 2
    <2>1. Total = accepted
      BY <1>1, <1>2, <1>3 DEF Spread
    <2>2. live[v] <= live[w] + 2 /\ live[accepting] <= live[w] + 1
      BY <1>1, <2>1 DEF Spread, LoadsStayClose
    <2>3. /\ live'[v] = (IF v = accepting THEN live[v] + 1 ELSE live[v])
          /\ live'[w] = (IF w = accepting THEN live[w] + 1 ELSE live[w])
          /\ live[v] \in Nat /\ live[w] \in Nat
      BY <1>1
    <2> QED
      BY <2>2, <2>3
  <1>4. accepting' # None => \A v \in Workers : live'[accepting'] <= live'[v] + 1
    <2>1. \A w \in Workers : length[w] = live'[w] + (IF None = w THEN 1 ELSE 0)
      BY <1>1 DEF LoadInv, Counted, LengthCounts, Workers, None
    <2>2. DoAccept(None) /\ Counted
      BY DEF AcceptClient, LoadInv
    <2> QED
      BY <1>1, <2>1, <2>2, ChosenIsSpread
  <1> QED
    BY <1>1, <1>2, <1>3, <1>4 DEF Spread, LoadsStayClose

LEMMA NextKeepsSpread ==
  ASSUME LoadInv, Spread, [Next]_vars
  PROVE  Spread'
  <1>1. CASE AcceptClient
    BY <1>1, AcceptKeepsSpread
  <1>2. CASE AcceptFails \/ StartAccepting
    <2>1. /\ live' = live /\ accepted' = accepted /\ live \in [Workers -> Nat] /\ Counted
      BY <1>2 DEF AcceptFails, StartAccepting, LoadInv, Counted
    <2>2. Total' = Total
      BY <2>1, TotalIsSum
    <2>3. accepting' # None => \A v \in Workers : live'[accepting'] <= live'[v] + 1
      <3>1. PICK held \in Workers \cup {None} : DoAccept(held)
                 /\ \A w \in Workers : length[w] = live[w] + (IF held = w THEN 1 ELSE 0)
        BY <1>2 DEF AcceptFails, StartAccepting, LoadInv, StartOrder, Counted, LengthCounts
      <3> QED
        BY <2>1, <3>1, ChosenIsSpread
    <2> QED
      BY <2>1, <2>2, <2>3 DEF Spread, LoadsStayClose
  <1>3. ASSUME NEW w \in Workers, ConnectionEnds(w) PROVE Spread'
    <2>1. /\ live' = [live EXCEPT ![w] = @ + (-1)] /\ live' \in [Workers -> Nat]
          /\ live \in [Workers -> Nat] /\ accepted \in Nat /\ accepted' = accepted
      <3>1. /\ live' = [live EXCEPT ![w] = @ - 1] /\ live[w] > 0 /\ live \in [Workers -> Nat]
            /\ accepted \in Nat /\ accepted' = accepted
        BY <1>3 DEF ConnectionEnds, LoadInv, Counted
      <3>2. live[w] \in Nat /\ live[w] - 1 \in Nat /\ live[w] - 1 = live[w] + (-1)
        BY <3>1
      <3> QED
        BY <3>1, <3>2
    <2>2. Total' = Total + (-1) /\ Total' \in Nat
      <3>1. Total' = Total + (-1)
        BY <2>1, SumOfOneMore, TotalIsSum
      <3>2. Total' \in Nat
        <4>1. PICK f : f \in [0 .. WorkerCount -> Nat] /\ SumOf(live') = f[WorkerCount]
          BY <2>1, SumUnfolds
        <4> QED
          BY <4>1, TotalIsSum, WorkersAssumption
      <3> QED
        BY <3>1, <3>2
    <2> QED
      BY <2>1, <2>2 DEF Spread, LoadsStayClose
  <1>4. CASE UNCHANGED <<live, accepted, accepting>>
    <2>1. Total' = Total
      BY <1>4, TotalIsSum
    <2> QED
      BY <1>4, <2>1 DEF Spread, LoadsStayClose
  <1>5. CASE BadAddress \/ Construct \/ RunAborts \/ CreateWorkers \/ NotifyStart \/ RunReturns
    BY <1>4, <1>5 DEF BadAddress, Construct, RunAborts, CreateWorkers, NotifyStart, RunReturns,
                      loadVars
  <1>6. CASE \E w \in Workers : WorkerStarts(w) \/ WorkerExits(w)
    BY <1>4, <1>6 DEF WorkerStarts, WorkerExits, loadVars
  <1>7. CASE (\E by \in {"signal", "thread"} : StopCalled(by)) \/ Stopping
    BY <1>4, <1>7 DEF StopCalled, Stopping, StopFlag, StopAcceptor, StopWorkers, StopMain,
                      StopStep, loadVars
  <1>8. CASE WaitApp \/ WaitServer \/ WaitTimeout \/ UNCHANGED vars
    BY <1>4, <1>8 DEF WaitApp, WaitServer, WaitTimeout, vars, loadVars
  <1> QED
    BY <1>1, <1>2, <1>3, <1>5, <1>6, <1>7, <1>8 DEF Next, Running

(* As long as no connection has ended, no worker has more than two          *)
(* connections more than another, whatever accepts fail in between and      *)
(* however many workers there are (pick_io_context_idx, do_accept).         *)
THEOREM SpreadsTheLoad == Spec => []LoadsStayClose
  <1>1. Init => LoadInv /\ Spread
    <2> SUFFICES ASSUME Init PROVE Spread
      BY InitLoadInv
    <2>1. live \in [Workers -> Nat] /\ (\A w \in Workers : live[w] = 0) /\ accepted = 0
      BY DEF Init
    <2>2. Total = 0
      BY <2>1, SumOfNone, TotalIsSum
    <2> QED
      BY <2>1, <2>2 DEF Spread, LoadsStayClose, Init
  <1>2. LoadInv /\ Spread /\ [Next]_vars => (LoadInv /\ Spread)'
    BY NextKeepsLoadInv, NextKeepsSpread
  <1>3. Spread => LoadsStayClose
    BY DEF Spread
  <1> QED
    BY <1>1, <1>2, <1>3, PTL DEF Spec

-----------------------------------------------------------------------------
(* What stop() has done by each of its steps.                               *)
StopOrder ==
  /\ stopper = [at |-> stopper.at, by |-> stopper.by]
  /\ stopper.at \in {"acceptor", "workers", "main", "done"} => shutting_down
  /\ Main \in stopped => shutting_down

(* What the start announces.                                                *)
Announced ==
  /\ run = "called" => ~startup_failed
  /\ server_started => run \in {"accepting", "returned"}
  /\ run = "returned" /\ server_started => Main \in stopped
  /\ run = "accepting" /\ ~shutting_down => accepting # None
  /\ waiter = "no_timeout" => server_started \/ startup_failed

(* While the server is not being stopped, do_accept always starts an accept. *)
LEMMA DoAcceptAccepts ==
  ASSUME LoadInv, NEW held, DoAccept(held), ~shutting_down
  PROVE  accepting' # None
  BY PickIsLeast DEF LoadInv, Counted, DoAccept, Workers, None

LEMMA StopStepMoves ==
  ASSUME NEW from, NEW to, StopOrder, StopStep(from, to)
  PROVE  /\ stopper.at = from /\ stopper'.at = to
         /\ stopper' = [at |-> stopper'.at, by |-> stopper'.by]
         /\ UNCHANGED <<run, worker, waiter, startVars, loadVars>>
  BY DEF StopOrder, StopStep

LEMMA StopKeepsAnnounced ==
  ASSUME StopOrder, Announced, (\E by \in {"signal", "thread"} : StopCalled(by)) \/ Stopping
  PROVE  StopOrder' /\ Announced'
  <1> USE DEF StopOrder, Announced, loadVars, startVars, Main
  <1>1. CASE \E by \in {"signal", "thread"} : StopCalled(by)
    BY <1>1 DEF StopCalled
  <1>2. CASE StopFlag
    BY <1>2, StopStepMoves DEF StopFlag
  <1>3. CASE StopAcceptor
    BY <1>3, StopStepMoves DEF StopAcceptor
  <1>4. CASE StopWorkers
    BY <1>4, StopStepMoves DEF StopWorkers, Workers
  <1>5. CASE StopMain
    BY <1>5, StopStepMoves DEF StopMain
  <1> QED
    BY <1>1, <1>2, <1>3, <1>4, <1>5 DEF Stopping

LEMMA NextKeepsAnnounced ==
  ASSUME LoadInv, StopOrder, Announced, [Next]_vars
  PROVE  StopOrder' /\ Announced'
  <1>1. CASE (\E by \in {"signal", "thread"} : StopCalled(by)) \/ Stopping
    BY <1>1, StopKeepsAnnounced
  <1> USE DEF StopOrder, Announced, startVars, stopVars
  <1>2. CASE BadAddress
    BY <1>2 DEF BadAddress, loadVars
  <1>3. CASE Construct
    BY <1>3 DEF Construct, loadVars
  <1>4. CASE RunAborts \/ CreateWorkers
    BY <1>4 DEF RunAborts, CreateWorkers, loadVars
  <1>5. CASE NotifyStart \/ RunReturns
    BY <1>5 DEF NotifyStart, Ready, RunReturns, loadVars
  <1>6. CASE StartAccepting \/ AcceptClient \/ AcceptFails
    BY <1>6, DoAcceptAccepts DEF StartAccepting, AcceptClient, AcceptFails, Looping
  <1>7. CASE \E w \in Workers : WorkerStarts(w) \/ ConnectionEnds(w) \/ WorkerExits(w)
    BY <1>7 DEF WorkerStarts, ConnectionEnds, WorkerExits, loadVars
  <1>8. CASE WaitApp \/ WaitServer \/ WaitTimeout
    BY <1>8 DEF WaitApp, WaitServer, StartKnown, WaitTimeout, loadVars
  <1>9. CASE UNCHANGED vars
    BY <1>9 DEF vars, loadVars
  <1> QED
    BY <1>1, <1>2, <1>3, <1>4, <1>5, <1>6, <1>7, <1>8, <1>9 DEF Next, Running

(* Whoever was told that the server has started, before any stop(), finds   *)
(* it accepting (wait_for_start, notify_start).                             *)
THEOREM AnnouncedIsAccepting == Spec => []StartedMeansAccepting
  <1>1. Init => LoadInv /\ StopOrder /\ Announced
    BY InitLoadInv DEF Init, StopOrder, Announced, Main
  <1>2. LoadInv /\ StopOrder /\ Announced /\ [Next]_vars => (LoadInv /\ StopOrder /\ Announced)'
    BY NextKeepsLoadInv, NextKeepsAnnounced
  <1>3. StopOrder /\ Announced => StartedMeansAccepting
    BY DEF StopOrder, Announced, StartedMeansAccepting
  <1> QED
    BY <1>1, <1>2, <1>3, PTL DEF Spec

=============================================================================
