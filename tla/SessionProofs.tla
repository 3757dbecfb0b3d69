--------------------------- MODULE SessionProofs ---------------------------
(***************************************************************************)
(* Proofs about SessionMiddleware, for any connections, requests and       *)
(* bounds, and for both stores.  A session is a node that is counted by    *)
(* hand (session.h, requested_session_id and referrers) and is held by     *)
(* contexts and by the cache.  What keeps it whole is that the node of a   *)
(* request in progress is the one in the cache, and that its referrers are *)
(* those requests (HeapInv); a session for which after_handle ran once too *)
(* often ("spoiled"), or not at all ("leaked"), is told apart by its fate. *)
(* On top of it, what was written is in the node or in the store (Keeps),  *)
(* and the tracker has the times that were promised (QueuedAsDue).         *)
(*                                                                         *)
(* First come the steps, one lemma for each thing that can happen to the   *)
(* heap, then the actions, which are made of them.  The last part is about *)
(* the calls of the middlewares (detail::middleware_call_helper): they     *)
(* nest, every before_handle that ran is answered by its after_handle, the *)
(* last first, for any application and any rules.                          *)
(***************************************************************************)
EXTENDS Sessions, FunctionTheorems, FiniteSetTheorems, Recursions

Phases == {"idle", "handling", "answered", "stuck", "upgraded"}

Nodes == [session : Ids \cup {NoId}, entries : Nat, dirty : BOOLEAN, refresh : BOOLEAN,
          referrers : Int]

ConnOK(k) ==
  /\ {"phase", "node", "request", "calls"} \subseteq DOMAIN k
  /\ k.phase \in Phases /\ k.node \in NodeIds \cup {Null}

StoreTypeOK ==
  /\ store \in {"memory", "file"}
  /\ stored \in [Ids -> Nat \cup {NoEntry}]
  /\ queue \subseteq Nat \X Ids /\ index \subseteq Nat \X Ids
  /\ now \in Nat

HeapTypeOK ==
  /\ node \in [NodeIds -> Nodes]
  /\ cache \in [Ids -> NodeIds \cup {Null}]
  /\ conn = [c \in Connections |-> conn[c]]
  /\ \A c \in Connections : ConnOK(conn[c])

HistoryTypeOK ==
  /\ issued \subseteq Ids
  /\ truth \in [Ids -> Nat]
  /\ due \in [Ids -> Int]
  /\ fate \in [Ids -> SUBSET Fates]

-----------------------------------------------------------------------------
(* The heap always has room: there are as many places as connections and    *)
(* sessions, and one of them has none.                                      *)
LEMMA LeastNumber ==
  ASSUME NEW S, S \subseteq Nat, S # {}
  PROVE  \E x \in S : \A y \in S : x <= y
  <1>1. \E x \in S : \A y \in S : ~ (<<y, x>> \in OpToRel(<, Nat))
    BY NatLessThanWellFounded, WFMin
  <1>2. \A x, y \in S : ~ (<<y, x>> \in OpToRel(<, Nat)) => x <= y
    BY DEF OpToRel
  <1> QED
    BY <1>1, <1>2

LEMMA HeldIsSmall ==
  ASSUME HeapTypeOK
  PROVE  LET H == Held(conn, cache)
         IN  IsFiniteSet(H) /\ Cardinality(H) <= Cardinality(Connections) + MaxIds
  <1> DEFINE A == {conn[c].node : c \in Connections}
             B == {cache[i] : i \in Ids}
             f == [c \in Connections |-> conn[c].node]
             g == [i \in Ids |-> cache[i]]
  <1>1. IsFiniteSet(Connections) /\ MaxIds \in Nat
    BY SessionsAssumption
  <1>2. IsFiniteSet(Ids) /\ Cardinality(Ids) = MaxIds
    BY <1>1, FS_Interval DEF Ids
  <1>3. f \in Surjection(Connections, A) /\ g \in Surjection(Ids, B)
    BY DEF Surjection
  <1> HIDE DEF A, B, f, g
  <1>4. /\ IsFiniteSet(A) /\ Cardinality(A) <= Cardinality(Connections)
        /\ IsFiniteSet(B) /\ Cardinality(B) <= MaxIds
    BY <1>1, <1>2, <1>3, FS_Surjection
  <1>5. /\ IsFiniteSet(A \cup B) /\ IsFiniteSet(A \cap B)
        /\ Cardinality(A \cup B) = Cardinality(A) + Cardinality(B) - Cardinality(A \cap B)
    <2>1. IsFiniteSet(A \cap B)
      BY <1>4, FS_Subset
    <2> QED
      BY <1>4, <2>1, FS_Union
  <1>6. /\ Cardinality(A) \in Nat /\ Cardinality(B) \in Nat /\ Cardinality(A \cap B) \in Nat
        /\ Cardinality(Connections) \in Nat
    BY <1>1, <1>4, <1>5, FS_CardinalityType
  <1>7. Held(conn, cache) = A \cup B
    BY DEF Held, A, B
  <1> QED
    BY <1>1, <1>4, <1>5, <1>6, <1>7

LEMMA FreeNodeIsFree ==
  ASSUME HeapTypeOK, Null \in Held(conn, cache)
  PROVE  FreeNode \in NodeIds /\ FreeNode \notin Held(conn, cache)
  <1> DEFINE H == Held(conn, cache)
             N == Cardinality(Connections) + MaxIds
  <1>1. N \in Nat /\ NodeIds = 1 .. N
    <2>1. IsFiniteSet(Connections) /\ MaxIds \in Nat
      BY SessionsAssumption
    <2>2. Cardinality(Connections) \in Nat
      BY <2>1, FS_CardinalityType
    <2> QED
      BY <2>1, <2>2 DEF NodeIds
  <1>2. IsFiniteSet(H) /\ Cardinality(H) <= N
    BY HeldIsSmall
  <1> HIDE DEF H, N
  <1>3. NodeIds \ H # {}
    <2> SUFFICES ASSUME NodeIds \subseteq H PROVE FALSE
      OBVIOUS
    <2>1. 0 .. N \subseteq H
      BY <1>1 DEF Null, H
    <2>2. IsFiniteSet(0 .. N) /\ Cardinality(0 .. N) = N + 1
      BY <1>1, FS_Interval
    <2>3. Cardinality(0 .. N) <= Cardinality(H) /\ Cardinality(H) \in Nat
      BY <1>2, <2>1, FS_Subset, FS_CardinalityType
    <2> QED
      BY <1>1, <1>2, <2>2, <2>3
  <1>4. \E n \in NodeIds \ H : \A m \in NodeIds \ H : n <= m
    <2>1. NodeIds \ H \subseteq Nat
      BY <1>1
    <2> QED
      BY <1>3, <2>1, LeastNumber
  <1>5. \E n \in NodeIds : n \notin H /\ \A m \in NodeIds \ H : n <= m
    BY <1>4
  <1> QED
    BY <1>5 DEF FreeNode, H
-----------------------------------------------------------------------------
(* The inductive invariant of the heap.                                     *)

\* The requests in progress that use a node.
Users(n) == {c \in Connections : InUse(c) /\ NodeOf(c) = n}

\* A node has a session that was issued, or is new and holds nothing unwritten.
NodesAreSound ==
  \A n \in NodeIds :
    /\ node[n].session \in issued \cup {NoId}
    /\ node[n].session = NoId =>
         node[n].referrers = 0 /\ (~node[n].dirty => node[n].entries = 0)

FreeIsEmpty == \A n \in NodeIds \ Held(conn, cache) : node[n] = NoNode

CachedBySession == \A i \in Ids : cache[i] # Null => node[cache[i]].session = i

\* A new session belongs to the one request that made it.
NewIsUnshared ==
  \A c, d \in Connections :
    NodeOf(c) # Null /\ Newborn(NodeOf(c)) =>
      Phase(c) = "handling" /\ (NodeOf(d) = NodeOf(c) => d = c)

UsedIsCached ==
  \A c \in Connections :
    InUse(c) /\ NodeOf(c) # Null /\ ~Newborn(NodeOf(c)) =>
      \/ cache[node[NodeOf(c)].session] = NodeOf(c)
      \/ "spoiled" \in fate[node[NodeOf(c)].session]

\* The referrers of a cached node are the requests that use it, and those that leaked.
ReferrersCount ==
  \A i \in Ids : cache[i] # Null /\ "spoiled" \notin fate[i] =>
    /\ node[cache[i]].referrers >= Cardinality(Users(cache[i]))
    /\ node[cache[i]].referrers >= 1
    /\ "leaked" \notin fate[i] => node[cache[i]].referrers = Cardinality(Users(cache[i]))

HeapInv ==
  /\ HeapTypeOK /\ HistoryTypeOK
  /\ NodesAreSound /\ FreeIsEmpty /\ CachedBySession
  /\ NewIsUnshared /\ UsedIsCached /\ ReferrersCount

-----------------------------------------------------------------------------
(* One connection changes.                                                  *)
LEMMA EnterChanges ==
  ASSUME HeapTypeOK, NEW c \in Connections, NEW k, ConnOK(k), Enter(c, k)
  PROVE  /\ conn' = [d \in Connections |-> conn'[d]]
         /\ \A d \in Connections : ConnOK(conn'[d])
         /\ conn'[c] = k
         /\ \A d \in Connections : d # c => conn'[d] = conn[d]
  <1>1. conn = [d \in Connections |-> conn[d]]
    BY DEF HeapTypeOK
  <1>2. conn' = [d \in Connections |-> IF d = c THEN k ELSE conn[d]]
    BY <1>1 DEF Enter
  <1> QED
    BY <1>2 DEF HeapTypeOK

LEMMA UsersAreFinite ==
  \A n : /\ IsFiniteSet(Users(n)) /\ Cardinality(Users(n)) \in Nat
         /\ IsFiniteSet(Users(n)') /\ Cardinality(Users(n)') \in Nat
  <1>1. IsFiniteSet(Connections)
    BY SessionsAssumption
  <1>2. \A n : Users(n) \in SUBSET Connections /\ Users(n)' \in SUBSET Connections
    BY DEF Users
  <1>3. \A S \in SUBSET Connections : IsFiniteSet(S) /\ Cardinality(S) \in Nat
    BY <1>1, FS_Subset, FS_CardinalityType
  <1> QED
    BY <1>2, <1>3

(* The users of a node change with the one connection that changes.         *)
LEMMA UsersChange ==
  ASSUME NEW c \in Connections, NEW n,
         \A d \in Connections : d # c => conn'[d] = conn[d]
  PROVE  /\ c \in Users(n) /\ c \notin Users(n)' =>
              Cardinality(Users(n)') = Cardinality(Users(n)) - 1
         /\ c \notin Users(n) /\ c \in Users(n)' =>
              Cardinality(Users(n)') = Cardinality(Users(n)) + 1
         /\ (c \in Users(n) <=> c \in Users(n)') => Users(n)' = Users(n)
  <1>1. \A d \in Connections : d # c => (d \in Users(n) <=> d \in Users(n)')
    BY DEF Users, InUse, NodeOf, Phase
  <1>2. Users(n) \subseteq Connections /\ Users(n)' \subseteq Connections
    BY DEF Users
  <1>3. IsFiniteSet(Users(n))
    BY UsersAreFinite
  <1> DEFINE U == Users(n)
             V == Users(n)'
  <1> HIDE DEF U, V
  <1>4. c \in U /\ c \notin V => V = U \ {c}
    BY <1>1, <1>2 DEF U, V
  <1>5. c \notin U /\ c \in V => V = U \cup {c}
    BY <1>1, <1>2 DEF U, V
  <1>6. (c \in U <=> c \in V) => V = U
    BY <1>1, <1>2 DEF U, V
  <1>7. IsFiniteSet(U)
    BY <1>3 DEF U
  <1>8. c \in U /\ c \notin V => Cardinality(V) = Cardinality(U) - 1
    BY <1>4, <1>7, FS_RemoveElement
  <1>9. c \notin U /\ c \in V => Cardinality(V) = Cardinality(U) + 1
    BY <1>5, <1>7, FS_AddElement
  <1> QED
    BY <1>6, <1>8, <1>9 DEF U, V

(* A node that is held stays as it is.                                      *)
LEMMA CountedKeeps ==
  ASSUME NEW nodes \in [NodeIds -> Nodes], node' = Counted(nodes, conn', cache')
  PROVE  /\ node' \in [NodeIds -> Nodes]
         /\ \A n \in NodeIds : n \in Held(conn', cache') => node'[n] = nodes[n]
         /\ \A n \in NodeIds : n \notin Held(conn', cache') => node'[n] = NoNode
         /\ \A n \in NodeIds : node'[n] \in {nodes[n], NoNode}
         /\ \A c \in Connections : conn'[c].node \in NodeIds =>
              node'[conn'[c].node] = nodes[conn'[c].node]
         /\ \A i \in Ids : cache'[i] \in NodeIds => node'[cache'[i]] = nodes[cache'[i]]
  <1>1. NoNode \in Nodes
    BY DEF NoNode, Nodes, NoId
  <1> DEFINE H == Held(conn', cache')
  <1>2. node' = [n \in NodeIds |-> IF n \in H THEN nodes[n] ELSE NoNode]
    BY DEF Counted
  <1>3. /\ \A c \in Connections : conn'[c].node \in H
        /\ \A i \in Ids : cache'[i] \in H
    BY DEF Held
  <1> HIDE DEF H
  <1>4. /\ node' \in [NodeIds -> Nodes]
        /\ \A n \in NodeIds : n \in H => node'[n] = nodes[n]
        /\ \A n \in NodeIds : n \notin H => node'[n] = NoNode
    BY <1>1, <1>2
  <1> QED
    BY <1>3, <1>4 DEF H

(* What the histories do: they grow.                                        *)
HistoryGrows ==
  /\ HistoryTypeOK'
  /\ issued \subseteq issued'
  /\ \A i \in Ids : fate[i] \subseteq fate'[i]

\* What a step must see to, besides what follows for every step of one connection.
SoundNodes(nodes) ==
  \A n \in NodeIds :
    /\ nodes[n].session \in issued' \cup {NoId}
    /\ nodes[n].session = NoId =>
         nodes[n].referrers = 0 /\ (~nodes[n].dirty => nodes[n].entries = 0)

SameSessions(c, nodes) ==
  \A d \in Connections : d # c /\ conn[d].node # Null =>
    nodes[conn[d].node].session = node[conn[d].node].session

NewStaysUnshared(c, k, nodes) ==
  /\ k.node # Null /\ nodes[k.node].session = NoId =>
       k.phase = "handling" /\ \A d \in Connections : conn[d].node = k.node => d = c
  /\ \A d \in Connections :
       d # c /\ conn[d].node # Null /\ node[conn[d].node].session = NoId => k.node # conn[d].node

UsedStaysCached(c, k, nodes) ==
  /\ k.phase # "idle" /\ k.node # Null /\ nodes[k.node].session # NoId =>
       \/ cache'[nodes[k.node].session] = k.node
       \/ "spoiled" \in fate'[nodes[k.node].session]
  /\ \A d \in Connections, i \in Ids :
       d # c /\ InUse(d) /\ NodeOf(d) # Null /\ node[NodeOf(d)].session = i =>
         cache'[i] = cache[i] \/ "spoiled" \in fate'[i]

ReferrersStay(nodes) ==
  \A i \in Ids, n \in NodeIds : cache'[i] = n /\ "spoiled" \notin fate'[i] =>
    /\ nodes[n].referrers >= Cardinality(Users(n)')
    /\ nodes[n].referrers >= 1
    /\ "leaked" \notin fate'[i] => nodes[n].referrers = Cardinality(Users(n)')

LEMMA HeapStep ==
  ASSUME HeapInv, NEW c \in Connections, NEW k, ConnOK(k), Enter(c, k),
         NEW nodes \in [NodeIds -> Nodes], node' = Counted(nodes, conn', cache'),
         cache' \in [Ids -> NodeIds \cup {Null}], HistoryGrows,
         \A i \in Ids : cache'[i] # Null => nodes[cache'[i]].session = i,
         SoundNodes(nodes), SameSessions(c, nodes), NewStaysUnshared(c, k, nodes),
         UsedStaysCached(c, k, nodes), ReferrersStay(nodes)
  PROVE  HeapInv'
  <1> DEFINE conns == conn'
             caches == cache'
             heap == node'
  <1>1. /\ conns = [d \in Connections |-> conns[d]]
        /\ \A d \in Connections : ConnOK(conns[d])
        /\ conns[c] = k
        /\ \A d \in Connections : d # c => conns[d] = conn[d]
    BY EnterChanges DEF HeapInv
  <1>2. /\ heap \in [NodeIds -> Nodes]
        /\ \A n \in NodeIds : n \in Held(conns, caches) => heap[n] = nodes[n]
        /\ \A n \in NodeIds : n \notin Held(conns, caches) => heap[n] = NoNode
        /\ \A n \in NodeIds : heap[n] \in {nodes[n], NoNode}
        /\ \A d \in Connections : conns[d].node \in NodeIds =>
             heap[conns[d].node] = nodes[conns[d].node]
        /\ \A i \in Ids : caches[i] \in NodeIds => heap[caches[i]] = nodes[caches[i]]
    BY CountedKeeps
  <1>3. \A i \in Ids : caches[i] = Null \/ caches[i] \in NodeIds
    OBVIOUS
  <1>4. \A d \in Connections : conns[d].node = Null \/ conns[d].node \in NodeIds
    BY <1>1 DEF ConnOK
  <1>5. HeapTypeOK' /\ HistoryTypeOK'
    BY <1>1, <1>2 DEF HeapTypeOK, HistoryGrows
  <1>6. NodesAreSound'
    <2> SUFFICES ASSUME NEW n \in NodeIds
                 PROVE  /\ heap[n].session \in issued' \cup {NoId}
                        /\ heap[n].session = NoId =>
                             heap[n].referrers = 0 /\ (~heap[n].dirty => heap[n].entries = 0)
      BY DEF NodesAreSound
    <2>1. CASE heap[n] = nodes[n]
      BY <2>1 DEF SoundNodes
    <2>2. CASE heap[n] = NoNode
      BY <2>2 DEF NoNode
    <2> QED
      BY <1>2, <2>1, <2>2
  <1>7. FreeIsEmpty'
    BY <1>2 DEF FreeIsEmpty
  <1>8. CachedBySession'
    BY <1>2, <1>3 DEF CachedBySession
  <1>9. NewIsUnshared'
    <2> SUFFICES ASSUME NEW a \in Connections, NEW b \in Connections,
                        conns[a].node # Null, heap[conns[a].node].session = NoId
                 PROVE  conns[a].phase = "handling" /\ (conns[b].node = conns[a].node => b = a)
      BY DEF NewIsUnshared, NodeOf, Newborn, Phase
    <2>1. nodes[conns[a].node].session = NoId
      BY <1>2, <1>4
    <2>2. CASE a = c
      BY <1>1, <2>1, <2>2 DEF NewStaysUnshared
    <2>3. CASE a # c
      <3>1. conns[a] = conn[a] /\ node[conn[a].node].session = NoId
        BY <1>1, <2>1, <2>3 DEF SameSessions
      <3>2. conn[a].phase = "handling" /\ \A d \in Connections : conn[d].node = conn[a].node => d = a
        BY <3>1 DEF HeapInv, NewIsUnshared, NodeOf, Newborn, Phase
      <3>3. k.node # conn[a].node
        BY <2>3, <3>1 DEF NewStaysUnshared
      <3> QED
        BY <1>1, <3>1, <3>2, <3>3
    <2> QED
      BY <2>2, <2>3
  <1>10. UsedIsCached'
    <2> SUFFICES ASSUME NEW a \in Connections, conns[a].phase # "idle",
                        conns[a].node # Null, heap[conns[a].node].session # NoId
                 PROVE  LET s == heap[conns[a].node].session
                        IN  caches[s] = conns[a].node \/ "spoiled" \in fate'[s]
      BY DEF UsedIsCached, NodeOf, Newborn, Phase, InUse
    <2> DEFINE n == conns[a].node
               s == nodes[n].session
    <2>1. n \in NodeIds /\ heap[n].session = s
      BY <1>2, <1>4
    <2>2. CASE a = c
      BY <1>1, <2>1, <2>2 DEF UsedStaysCached
    <2>3. CASE a # c
      <3>1. n = conn[a].node /\ s = node[n].session /\ s # NoId /\ InUse(a)
        <4>1. conns[a] = conn[a]
          BY <1>1, <2>3
        <4>2. s = node[n].session /\ s # NoId
          BY <2>1, <2>3, <4>1 DEF SameSessions
        <4>3. InUse(a)
          <5>1. conn[a].phase \in Phases
            BY DEF HeapInv, HeapTypeOK, ConnOK
          <5> QED
            BY <4>1, <5>1 DEF InUse, Phase, Phases
        <4> QED
          BY <4>1, <4>2, <4>3
      <3>2. s \in Ids
        BY <2>1, <3>1 DEF HeapInv, HeapTypeOK, Nodes
      <3>3. cache[s] = n \/ "spoiled" \in fate[s]
        BY <2>1, <3>1 DEF HeapInv, UsedIsCached, NodeOf, Newborn
      <3>4. fate[s] \subseteq fate'[s]
        BY <3>2 DEF HistoryGrows
      <3>5. cache'[s] = cache[s] \/ "spoiled" \in fate'[s]
        BY <2>1, <2>3, <3>1, <3>2 DEF UsedStaysCached, NodeOf
      <3> QED
        BY <2>1, <3>3, <3>4, <3>5
    <2> QED
      BY <2>2, <2>3
  <1>11. ReferrersCount'
    <2> SUFFICES ASSUME NEW i \in Ids, caches[i] # Null, "spoiled" \notin fate'[i]
                 PROVE  /\ heap[caches[i]].referrers >= Cardinality(Users(cache[i])')
                        /\ heap[caches[i]].referrers >= 1
                        /\ "leaked" \notin fate'[i] =>
                             heap[caches[i]].referrers = Cardinality(Users(cache[i])')
      BY DEF ReferrersCount
    <2>1. PICK n \in NodeIds : n = caches[i]
      BY <1>3
    <2>2. Users(cache[i])' = Users(n)'
      BY <2>1 DEF Users
    <2>3. heap[n] = nodes[n]
      BY <1>2, <2>1
    <2>4. /\ nodes[n].referrers >= Cardinality(Users(n)')
          /\ nodes[n].referrers >= 1
          /\ "leaked" \notin fate'[i] => nodes[n].referrers = Cardinality(Users(n)')
      BY <2>1 DEF ReferrersStay
    <2> QED
      BY <2>1, <2>2, <2>3, <2>4
  <1> QED
    BY <1>5, <1>6, <1>7, <1>8, <1>9, <1>10, <1>11 DEF HeapInv

-----------------------------------------------------------------------------
(* The steps, one lemma for each thing that can happen to the heap.         *)
LEMMA Apart == Null \notin NodeIds /\ NoId \notin Ids /\ NodeIds \subseteq Nat /\ Ids \subseteq Nat
  <1>1. MaxIds \in Nat /\ Cardinality(Connections) \in Nat
    BY SessionsAssumption, FS_CardinalityType
  <1> QED
    BY <1>1 DEF Null, NodeIds, NoId, Ids

HistoryStays == issued' = issued /\ truth' = truth /\ due' = due

\* A connection lets go of its node, or has none.
LEMMA DropStep ==
  ASSUME HeapInv, NEW c \in Connections, NEW k, ConnOK(k), Enter(c, k), k.node = Null,
         node' = Counted(node, conn', cache'), cache' = cache, HistoryGrows,
         \A i \in Ids : InUse(c) /\ NodeOf(c) # Null /\ node[NodeOf(c)].session = i =>
           "leaked" \in fate'[i]
  PROVE  HeapInv'
  <1>1. conn'[c] = k /\ \A d \in Connections : d # c => conn'[d] = conn[d]
    BY EnterChanges DEF HeapInv
  <1>2. node \in [NodeIds -> Nodes] /\ cache \in [Ids -> NodeIds \cup {Null}]
    BY DEF HeapInv, HeapTypeOK
  <1>3. SoundNodes(node)
    BY DEF SoundNodes, HeapInv, NodesAreSound, HistoryGrows
  <1>4. SameSessions(c, node)
    BY DEF SameSessions
  <1>5. NewStaysUnshared(c, k, node) /\ UsedStaysCached(c, k, node)
    BY DEF NewStaysUnshared, UsedStaysCached
  <1>6. ReferrersStay(node)
    <2> SUFFICES ASSUME NEW i \in Ids, NEW n \in NodeIds, cache[i] = n, "spoiled" \notin fate'[i]
                 PROVE  /\ node[n].referrers >= Cardinality(Users(n)')
                        /\ node[n].referrers >= 1
                        /\ "leaked" \notin fate'[i] => node[n].referrers = Cardinality(Users(n)')
      BY DEF ReferrersStay
    <2>1. n # Null
      BY Apart
    <2>2. fate[i] \subseteq fate'[i]
      BY DEF HistoryGrows
    <2>3. /\ node[n].referrers >= Cardinality(Users(n))
          /\ node[n].referrers >= 1
          /\ "leaked" \notin fate'[i] => node[n].referrers = Cardinality(Users(n))
      BY <2>1, <2>2 DEF HeapInv, ReferrersCount
    <2>4. c \notin Users(n)'
      BY <1>1, <2>1 DEF Users, NodeOf
    <2>5. Cardinality(Users(n)) \in Nat /\ node[n].referrers \in Int
      BY <1>2, UsersAreFinite DEF Nodes
    <2>6. CASE c \in Users(n)
      <3>1. Cardinality(Users(n)') = Cardinality(Users(n)) - 1
        BY <1>1, <2>4, <2>6, UsersChange
      <3>2. node[n].session = i /\ "leaked" \in fate'[i]
        BY <2>1, <2>6 DEF Users, HeapInv, CachedBySession
      <3> QED
        BY <2>3, <2>5, <3>1, <3>2
    <2>7. CASE c \notin Users(n)
      <3>1. Users(n)' = Users(n)
        BY <1>1, <2>4, <2>7, UsersChange
      <3> QED
        BY <2>3, <3>1
    <2> QED
      BY <2>6, <2>7
  <1>7. \A i \in Ids : cache'[i] # Null => node[cache'[i]].session = i
    BY DEF HeapInv, CachedBySession
  <1> QED
    BY <1>2, <1>3, <1>4, <1>5, <1>6, <1>7, HeapStep

\* An idle connection joins those that use a session.
LEMMA ShareStep ==
  ASSUME HeapInv, NEW c \in Connections, Phase(c) = "idle", NEW i \in Ids, cache[i] # Null,
         NEW k, ConnOK(k), Enter(c, k), k.node = cache[i], k.phase # "idle",
         node' = Counted([node EXCEPT ![cache[i]].referrers = @ + 1], conn', cache'),
         cache' = cache, HistoryGrows
  PROVE  HeapInv'
  <1> DEFINE n == cache[i]
             nodes == [node EXCEPT ![n].referrers = @ + 1]
  <1>1. conn'[c] = k /\ \A d \in Connections : d # c => conn'[d] = conn[d]
    BY EnterChanges DEF HeapInv
  <1>2. node \in [NodeIds -> Nodes] /\ cache \in [Ids -> NodeIds \cup {Null}]
    BY DEF HeapInv, HeapTypeOK
  <1>3. n \in NodeIds /\ node[n].session = i /\ i # NoId
    BY <1>2, Apart DEF HeapInv, CachedBySession
  <1>4. /\ nodes \in [NodeIds -> Nodes]
        /\ \A m \in NodeIds : m # n => nodes[m] = node[m]
        /\ nodes[n].session = i /\ nodes[n].referrers = node[n].referrers + 1
    BY <1>2, <1>3 DEF Nodes
  <1> HIDE DEF nodes
  <1>5. \A m \in NodeIds : nodes[m].session = node[m].session
    BY <1>3, <1>4
  <1>6. SoundNodes(nodes)
    BY <1>3, <1>4 DEF SoundNodes, HeapInv, NodesAreSound, HistoryGrows
  <1>7. \A d \in Connections : conn[d].node \in NodeIds \cup {Null}
    BY DEF HeapInv, HeapTypeOK, ConnOK
  <1>8. SameSessions(c, nodes)
    BY <1>5, <1>7 DEF SameSessions
  <1>9. NewStaysUnshared(c, k, nodes)
    BY <1>3, <1>4 DEF NewStaysUnshared
  <1>10. UsedStaysCached(c, k, nodes)
    BY <1>4 DEF UsedStaysCached
  <1>11. ReferrersStay(nodes)
    <2> SUFFICES ASSUME NEW j \in Ids, NEW m \in NodeIds, cache[j] = m, "spoiled" \notin fate'[j]
                 PROVE  /\ nodes[m].referrers >= Cardinality(Users(m)')
                        /\ nodes[m].referrers >= 1
                        /\ "leaked" \notin fate'[j] => nodes[m].referrers = Cardinality(Users(m)')
      BY DEF ReferrersStay
    <2>1. m # Null
      BY Apart
    <2>2. fate[j] \subseteq fate'[j]
      BY DEF HistoryGrows
    <2>3. /\ node[m].referrers >= Cardinality(Users(m))
          /\ node[m].referrers >= 1
          /\ "leaked" \notin fate'[j] => node[m].referrers = Cardinality(Users(m))
      BY <2>1, <2>2 DEF HeapInv, ReferrersCount
    <2>4. c \notin Users(m)
      BY DEF Users, InUse
    <2>5. Cardinality(Users(m)) \in Nat /\ node[m].referrers \in Int
      BY <1>2, UsersAreFinite DEF Nodes
    <2>6. CASE m = n
      <3>1. c \in Users(m)'
        BY <1>1, <2>6 DEF Users, InUse, Phase, NodeOf, ConnOK, Phases
      <3>2. Cardinality(Users(m)') = Cardinality(Users(m)) + 1
        BY <1>1, <2>4, <3>1, UsersChange
      <3> QED
        BY <1>4, <2>3, <2>5, <2>6, <3>2
    <2>7. CASE m # n
      <3>1. c \notin Users(m)'
        BY <1>1, <2>7 DEF Users, NodeOf
      <3>2. Users(m)' = Users(m)
        BY <1>1, <2>4, <3>1, UsersChange
      <3> QED
        BY <1>4, <2>3, <2>7, <3>2
    <2> QED
      BY <2>6, <2>7
  <1>12. \A j \in Ids : cache'[j] # Null => nodes[cache'[j]].session = j
    BY <1>2, <1>5 DEF HeapInv, CachedBySession
  <1>13. node' = Counted(nodes, conn', cache')
    BY DEF nodes
  <1> QED
    BY <1>2, <1>4, <1>6, <1>8, <1>9, <1>10, <1>11, <1>12, <1>13, HeapStep

\* An idle connection brings a session from the store into a free place.
LEMMA LoadStep ==
  ASSUME HeapInv, NEW c \in Connections, Phase(c) = "idle", NEW i \in issued,
         cache[i] = Null, NEW n \in NodeIds, n \notin Held(conn, cache),
         NEW loaded \in Nodes, loaded.session = i, loaded.referrers = 1,
         NEW k, ConnOK(k), Enter(c, k), k.node = n, k.phase # "idle",
         node' = Counted([node EXCEPT ![n] = loaded], conn', cache'),
         cache' = [cache EXCEPT ![i] = n], HistoryGrows
  PROVE  HeapInv'
  <1> DEFINE nodes == [node EXCEPT ![n] = loaded]
  <1>1. conn'[c] = k /\ \A d \in Connections : d # c => conn'[d] = conn[d]
    BY EnterChanges DEF HeapInv
  <1>2. /\ node \in [NodeIds -> Nodes] /\ cache \in [Ids -> NodeIds \cup {Null}]
        /\ issued \subseteq Ids /\ fate \in [Ids -> SUBSET Fates]
    BY DEF HeapInv, HeapTypeOK, HistoryTypeOK
  <1>3. i \in Ids /\ i # NoId
    BY <1>2, Apart
  <1>4. /\ nodes \in [NodeIds -> Nodes] /\ nodes[n] = loaded
        /\ \A m \in NodeIds : m # n => nodes[m] = node[m]
    BY <1>2
  <1>5. /\ cache' \in [Ids -> NodeIds \cup {Null}] /\ cache'[i] = n
        /\ \A j \in Ids : j # i => cache'[j] = cache[j]
    BY <1>2, <1>3
  <1> HIDE DEF nodes
  <1>6. /\ \A d \in Connections : conn[d].node # n /\ conn[d].node \in NodeIds \cup {Null}
        /\ \A j \in Ids : cache[j] # n
    BY DEF Held, HeapInv, HeapTypeOK, ConnOK
  <1>7. SoundNodes(nodes)
    BY <1>3, <1>4 DEF SoundNodes, HeapInv, NodesAreSound, HistoryGrows
  <1>8. SameSessions(c, nodes)
    BY <1>4, <1>6 DEF SameSessions
  <1>9. NewStaysUnshared(c, k, nodes)
    BY <1>3, <1>4, <1>6 DEF NewStaysUnshared
  <1>10. UsedStaysCached(c, k, nodes)
    <2>1. cache'[nodes[k.node].session] = k.node
      BY <1>4, <1>5
    <2>2. ASSUME NEW d \in Connections, NEW j \in Ids, InUse(d), NodeOf(d) # Null,
                 node[NodeOf(d)].session = j
          PROVE  cache'[j] = cache[j] \/ "spoiled" \in fate'[j]
      <3>1. cache[j] = NodeOf(d) \/ "spoiled" \in fate[j]
        BY <2>2, Apart DEF HeapInv, UsedIsCached, Newborn
      <3> QED
        BY <1>5, <2>2, <3>1 DEF HistoryGrows
    <2> QED
      BY <2>1, <2>2 DEF UsedStaysCached
  <1>11. ReferrersStay(nodes)
    <2> SUFFICES ASSUME NEW j \in Ids, NEW m \in NodeIds, cache'[j] = m, "spoiled" \notin fate'[j]
                 PROVE  /\ nodes[m].referrers >= Cardinality(Users(m)')
                        /\ nodes[m].referrers >= 1
                        /\ "leaked" \notin fate'[j] => nodes[m].referrers = Cardinality(Users(m)')
      BY DEF ReferrersStay
    <2>1. m # Null
      BY Apart
    <2>2. fate[j] \subseteq fate'[j]
      BY DEF HistoryGrows
    <2>4. c \notin Users(m)
      BY DEF Users, InUse
    <2>6. CASE m = n
      <3>1. c \in Users(m)'
        BY <1>1, <2>6 DEF Users, InUse, Phase, NodeOf, ConnOK, Phases
      <3>2. Users(m) = {}
        BY <1>6, <2>6 DEF Users, NodeOf
      <3>3. Cardinality(Users(m)') = 0 + 1
        BY <1>1, <2>4, <3>1, <3>2, UsersChange, FS_EmptySet
      <3> QED
        BY <1>4, <2>6, <3>3
    <2>7. CASE m # n
      <3>1. c \notin Users(m)'
        BY <1>1, <2>7 DEF Users, NodeOf
      <3>2. Users(m)' = Users(m)
        BY <1>1, <2>4, <3>1, UsersChange
      <3>3. cache[j] = m
        BY <1>5, <2>7
      <3>4. /\ node[m].referrers >= Cardinality(Users(m))
            /\ node[m].referrers >= 1
            /\ "leaked" \notin fate'[j] => node[m].referrers = Cardinality(Users(m))
        BY <2>1, <2>2, <3>3 DEF HeapInv, ReferrersCount
      <3> QED
        BY <1>4, <2>7, <3>2, <3>4
    <2> QED
      BY <2>6, <2>7
  <1>12. \A j \in Ids : cache'[j] # Null => nodes[cache'[j]].session = j
    <2> TAKE j \in Ids
    <2>1. CASE j = i
      BY <1>4, <1>5, <2>1
    <2>2. CASE j # i
      BY <1>2, <1>4, <1>5, <1>6, <2>2 DEF HeapInv, CachedBySession
    <2> QED
      BY <2>1, <2>2
  <1>13. node' = Counted(nodes, conn', cache')
    BY DEF nodes
  <1> QED
    BY <1>4, <1>5, <1>7, <1>8, <1>9, <1>10, <1>11, <1>12, <1>13, HeapStep

\* A request that is not the last one that refers to its session ends.
LEMMA LeaveStep ==
  ASSUME HeapInv, NEW c \in Connections, NodeOf(c) # Null, ~LastReferrer(NodeOf(c)),
         NEW k, ConnOK(k), Enter(c, k), k.node \in {Null, NodeOf(c)}, k.phase = "idle",
         node' = Counted([node EXCEPT ![NodeOf(c)].referrers = @ - 1], conn', cache'),
         cache' = cache, HistoryGrows, \A i \in Ids : "leaked" \in fate'[i] => "leaked" \in fate[i],
         InUse(c) \/ "spoiled" \in fate'[node[NodeOf(c)].session]
  PROVE  HeapInv'
  <1> DEFINE n == NodeOf(c)
             s == node[n].session
             nodes == [node EXCEPT ![n].referrers = @ - 1]
  <1>1. conn'[c] = k /\ \A d \in Connections : d # c => conn'[d] = conn[d]
    BY EnterChanges DEF HeapInv
  <1>2. node \in [NodeIds -> Nodes] /\ cache \in [Ids -> NodeIds \cup {Null}]
    BY DEF HeapInv, HeapTypeOK
  <1>3. n \in NodeIds /\ n # Null
    BY DEF HeapInv, HeapTypeOK, ConnOK, NodeOf
  <1>4. s # NoId
    BY <1>2, <1>3 DEF HeapInv, NodesAreSound, LastReferrer, Nodes
  <1>5. /\ nodes \in [NodeIds -> Nodes]
        /\ \A m \in NodeIds : m # n => nodes[m] = node[m]
        /\ nodes[n].session = s /\ nodes[n].referrers = node[n].referrers - 1
    BY <1>2, <1>3 DEF Nodes
  <1> HIDE DEF nodes
  <1>6. \A m \in NodeIds : nodes[m].session = node[m].session
    BY <1>3, <1>5
  <1>7. SoundNodes(nodes)
    BY <1>3, <1>4, <1>5 DEF SoundNodes, HeapInv, NodesAreSound, HistoryGrows
  <1>8. \A d \in Connections : conn[d].node \in NodeIds \cup {Null}
    BY DEF HeapInv, HeapTypeOK, ConnOK
  <1>9. SameSessions(c, nodes)
    BY <1>6, <1>8 DEF SameSessions
  <1>10. NewStaysUnshared(c, k, nodes)
    BY <1>4, <1>5 DEF NewStaysUnshared
  <1>11. UsedStaysCached(c, k, nodes)
    BY DEF UsedStaysCached
  <1>12. ReferrersStay(nodes)
    <2> SUFFICES ASSUME NEW j \in Ids, NEW m \in NodeIds, cache[j] = m, "spoiled" \notin fate'[j]
                 PROVE  /\ nodes[m].referrers >= Cardinality(Users(m)')
                        /\ nodes[m].referrers >= 1
                        /\ "leaked" \notin fate'[j] => nodes[m].referrers = Cardinality(Users(m)')
      BY DEF ReferrersStay
    <2>1. m # Null
      BY Apart
    <2>2. fate[j] \subseteq fate'[j]
      BY DEF HistoryGrows
    <2>3. /\ node[m].referrers >= Cardinality(Users(m))
          /\ node[m].referrers >= 1
          /\ "leaked" \notin fate'[j] => node[m].referrers = Cardinality(Users(m))
      BY <2>1, <2>2 DEF HeapInv, ReferrersCount
    <2>4. c \notin Users(m)'
      BY <1>1 DEF Users, InUse, Phase
    <2>5. Cardinality(Users(m)) \in Nat /\ node[m].referrers \in Int
      BY <1>2, UsersAreFinite DEF Nodes
    <2>6. CASE m = n
      <3>1. j = s
        BY <2>1, <2>6 DEF HeapInv, CachedBySession
      <3>2. c \in Users(m)
        BY <2>6, <3>1 DEF Users
      <3>3. Cardinality(Users(m)') = Cardinality(Users(m)) - 1
        BY <1>1, <2>4, <3>2, UsersChange
      <3>4. node[m].referrers - 1 > 0
        BY <2>5, <2>6 DEF LastReferrer
      <3> QED
        BY <1>5, <2>3, <2>5, <2>6, <3>3, <3>4
    <2>7. CASE m # n
      <3>1. c \notin Users(m)
        BY <2>7 DEF Users
      <3>2. Users(m)' = Users(m)
        BY <1>1, <2>4, <3>1, UsersChange
      <3> QED
        BY <1>5, <2>3, <2>7, <3>2
    <2> QED
      BY <2>6, <2>7
  <1>13. \A j \in Ids : cache'[j] # Null => nodes[cache'[j]].session = j
    BY <1>2, <1>6 DEF HeapInv, CachedBySession
  <1>14. node' = Counted(nodes, conn', cache')
    BY DEF nodes
  <1> QED
    BY <1>2, <1>5, <1>7, <1>9, <1>10, <1>11, <1>12, <1>13, <1>14, HeapStep

\* The last request that refers to a session gives it back to the store.
LEMMA GiveBackStep ==
  ASSUME HeapInv, NEW c \in Connections, NodeOf(c) # Null, LastReferrer(NodeOf(c)),
         ~Newborn(NodeOf(c)), NEW k, ConnOK(k), Enter(c, k), k.node \in {Null, NodeOf(c)},
         k.phase = "idle", NEW nodes \in [NodeIds -> Nodes],
         \A m \in NodeIds : m # NodeOf(c) => nodes[m] = node[m],
         nodes[NodeOf(c)].session = node[NodeOf(c)].session,
         node' = Counted(nodes, conn', cache'),
         cache' = [cache EXCEPT ![node[NodeOf(c)].session] = Null], HistoryGrows,
         \A i \in Ids : "leaked" \in fate'[i] => "leaked" \in fate[i],
         InUse(c) \/ "spoiled" \in fate'[node[NodeOf(c)].session]
  PROVE  HeapInv'
  <1> DEFINE n == NodeOf(c)
             s == node[n].session
  <1>1. conn'[c] = k /\ \A d \in Connections : d # c => conn'[d] = conn[d]
    BY EnterChanges DEF HeapInv
  <1>2. node \in [NodeIds -> Nodes] /\ cache \in [Ids -> NodeIds \cup {Null}]
    BY DEF HeapInv, HeapTypeOK
  <1>3. n \in NodeIds /\ n # Null
    BY DEF HeapInv, HeapTypeOK, ConnOK, NodeOf
  <1>4. s # NoId /\ s \in Ids /\ s \in issued
    BY <1>2, <1>3 DEF HeapInv, NodesAreSound, Newborn, HistoryTypeOK
  <1>5. \A m \in NodeIds : nodes[m].session = node[m].session
    BY <1>3
  <1>6. /\ cache' \in [Ids -> NodeIds \cup {Null}] /\ cache'[s] = Null
        /\ \A j \in Ids : j # s => cache'[j] = cache[j]
    BY <1>2, <1>4
  <1>7. SoundNodes(nodes)
    <2> SUFFICES ASSUME NEW m \in NodeIds
                 PROVE  /\ nodes[m].session \in issued' \cup {NoId}
                        /\ nodes[m].session = NoId =>
                             nodes[m].referrers = 0 /\ (~nodes[m].dirty => nodes[m].entries = 0)
      BY DEF SoundNodes
    <2>1. CASE m = n
      BY <1>4, <2>1 DEF HistoryGrows
    <2>2. CASE m # n
      BY <2>2 DEF HeapInv, NodesAreSound, HistoryGrows
    <2> QED
      BY <2>1, <2>2
  <1>8. \A d \in Connections : conn[d].node \in NodeIds \cup {Null}
    BY DEF HeapInv, HeapTypeOK, ConnOK
  <1>9. SameSessions(c, nodes)
    BY <1>5, <1>8 DEF SameSessions
  <1>10. NewStaysUnshared(c, k, nodes)
    BY <1>4 DEF NewStaysUnshared
  <1>11. UsedStaysCached(c, k, nodes)
    <2> SUFFICES ASSUME NEW d \in Connections, d # c, InUse(d), NodeOf(d) # Null,
                        node[NodeOf(d)].session = s, "spoiled" \notin fate'[s]
                 PROVE  FALSE
      BY <1>6 DEF UsedStaysCached
    <2>1. "spoiled" \notin fate[s]
      BY <1>4 DEF HistoryGrows
    <2>2. cache[s] = NodeOf(d) /\ cache[s] = n
      BY <1>3, <1>4, <2>1 DEF HeapInv, UsedIsCached, Newborn
    <2>3. c \in Users(n) /\ d \in Users(n)
      BY <2>2 DEF Users
    <2>4. node[n].referrers >= Cardinality(Users(n))
      BY <1>3, <1>4, <2>1, <2>2 DEF HeapInv, ReferrersCount
    <2>5. Cardinality(Users(n)) <= 1
      BY <1>2, <1>3, <2>4, UsersAreFinite DEF LastReferrer, Nodes
    <2>6. {c, d} \subseteq Users(n) /\ IsFiniteSet(Users(n)) /\ Cardinality(Users(n)) \in Nat
      BY <2>3, UsersAreFinite
    <2> DEFINE U == Users(n)
    <2> HIDE DEF U
    <2>7. Cardinality({c, d}) <= Cardinality(U) /\ Cardinality(U) <= 1 /\ Cardinality(U) \in Nat
      <3>1. {c, d} \in SUBSET U /\ IsFiniteSet(U)
        BY <2>6 DEF U
      <3>2. Cardinality({c, d}) <= Cardinality(U)
        BY <3>1, FS_Subset
      <3> QED
        BY <2>5, <2>6, <3>2 DEF U
    <2>8. Cardinality({c, d}) = 2
      <3>1. IsFiniteSet({c}) /\ Cardinality({c}) = 1
        BY FS_Singleton
      <3>2. {c, d} = {c} \cup {d}
        OBVIOUS
      <3>3. Cardinality({c} \cup {d}) = Cardinality({c}) + 1
        BY <3>1, FS_AddElement
      <3> QED
        BY <3>1, <3>2, <3>3
    <2> QED
      BY <2>7, <2>8
  <1>12. ReferrersStay(nodes)
    <2> SUFFICES ASSUME NEW j \in Ids, NEW m \in NodeIds, cache'[j] = m, "spoiled" \notin fate'[j]
                 PROVE  /\ nodes[m].referrers >= Cardinality(Users(m)')
                        /\ nodes[m].referrers >= 1
                        /\ "leaked" \notin fate'[j] => nodes[m].referrers = Cardinality(Users(m)')
      BY DEF ReferrersStay
    <2>1. m # Null /\ j # s /\ cache[j] = m
      BY <1>6, Apart
    <2>2. fate[j] \subseteq fate'[j]
      BY DEF HistoryGrows
    <2>3. /\ node[m].referrers >= Cardinality(Users(m))
          /\ node[m].referrers >= 1
          /\ "leaked" \notin fate'[j] => node[m].referrers = Cardinality(Users(m))
      BY <2>1, <2>2 DEF HeapInv, ReferrersCount
    <2>4. m # n
      BY <2>1 DEF HeapInv, CachedBySession
    <2>5. c \notin Users(m)' /\ c \notin Users(m)
      BY <1>1, <2>4 DEF Users, InUse, Phase
    <2>6. Users(m)' = Users(m)
      BY <1>1, <2>5, UsersChange
    <2> QED
      BY <2>3, <2>4, <2>6
  <1>13. \A j \in Ids : cache'[j] # Null => nodes[cache'[j]].session = j
    BY <1>2, <1>5, <1>6 DEF HeapInv, CachedBySession
  <1> QED
    BY <1>6, <1>7, <1>9, <1>10, <1>11, <1>12, <1>13, HeapStep

\* A new session is saved, and its id is given to the client.
LEMMA IssueStep ==
  ASSUME HeapInv, NEW c \in Connections, NodeOf(c) # Null, Newborn(NodeOf(c)),
         NEW k, ConnOK(k), Enter(c, k), k.node \in {Null, NodeOf(c)},
         k.phase = "idle", NEW nodes \in [NodeIds -> Nodes], NEW i \in Ids,
         \A m \in NodeIds : m # NodeOf(c) => nodes[m] = node[m],
         nodes[NodeOf(c)].session = i, i \in issued',
         node' = Counted(nodes, conn', cache'), cache' = cache, HistoryGrows,
         \A j \in Ids : "leaked" \in fate'[j] => "leaked" \in fate[j]
  PROVE  HeapInv'
  <1> DEFINE n == NodeOf(c)
  <1>1. conn'[c] = k /\ \A d \in Connections : d # c => conn'[d] = conn[d]
    BY EnterChanges DEF HeapInv
  <1>2. node \in [NodeIds -> Nodes] /\ cache \in [Ids -> NodeIds \cup {Null}]
    BY DEF HeapInv, HeapTypeOK
  <1>3. n \in NodeIds /\ n # Null /\ node[n].session = NoId /\ i # NoId
    BY Apart DEF HeapInv, HeapTypeOK, ConnOK, NodeOf, Newborn
  <1>4. \A d \in Connections : conn[d].node = n => d = c
    BY <1>3 DEF HeapInv, NewIsUnshared, NodeOf
  <1>5. \A d \in Connections : conn[d].node \in NodeIds \cup {Null}
    BY DEF HeapInv, HeapTypeOK, ConnOK
  <1>6. \A j \in Ids : cache[j] # n
    BY <1>3, Apart DEF HeapInv, CachedBySession
  <1>7. SoundNodes(nodes)
    BY <1>3 DEF SoundNodes, HeapInv, NodesAreSound, HistoryGrows
  <1>8. SameSessions(c, nodes)
    BY <1>4, <1>5 DEF SameSessions
  <1>9. NewStaysUnshared(c, k, nodes)
    BY <1>3, <1>4 DEF NewStaysUnshared
  <1>10. UsedStaysCached(c, k, nodes)
    BY DEF UsedStaysCached
  <1>11. ReferrersStay(nodes)
    <2> SUFFICES ASSUME NEW j \in Ids, NEW m \in NodeIds, cache[j] = m, "spoiled" \notin fate'[j]
                 PROVE  /\ nodes[m].referrers >= Cardinality(Users(m)')
                        /\ nodes[m].referrers >= 1
                        /\ "leaked" \notin fate'[j] => nodes[m].referrers = Cardinality(Users(m)')
      BY DEF ReferrersStay
    <2>1. m # Null /\ m # n
      BY <1>6, Apart
    <2>2. fate[j] \subseteq fate'[j]
      BY DEF HistoryGrows
    <2>3. /\ node[m].referrers >= Cardinality(Users(m))
          /\ node[m].referrers >= 1
          /\ "leaked" \notin fate'[j] => node[m].referrers = Cardinality(Users(m))
      BY <2>1, <2>2 DEF HeapInv, ReferrersCount
    <2>4. c \notin Users(m)' /\ c \notin Users(m)
      BY <1>1, <2>1 DEF Users, InUse, Phase
    <2>5. Users(m)' = Users(m)
      BY <1>1, <2>4, UsersChange
    <2> QED
      BY <2>1, <2>3, <2>5
  <1>12. \A j \in Ids : cache'[j] # Null => nodes[cache'[j]].session = j
    BY <1>2, <1>6 DEF HeapInv, CachedBySession
  <1> QED
    BY <1>2, <1>7, <1>8, <1>9, <1>10, <1>11, <1>12, HeapStep

\* The node that check_node gives a handler: its own, or a new one.
LEMMA CheckedNode ==
  ASSUME HeapInv, NEW c \in Connections
  PROVE  /\ CheckNode(c) \in NodeIds
         /\ NodeOf(c) # Null => CheckNode(c) = NodeOf(c)
         /\ NodeOf(c) = Null => CheckNode(c) \notin Held(conn, cache)
         /\ NodeOf(c) = Null => node[CheckNode(c)] = NoNode
  <1>1. conn[c].node \in NodeIds \cup {Null}
    BY DEF HeapInv, HeapTypeOK, ConnOK
  <1>2. CASE NodeOf(c) # Null
    BY <1>1, <1>2 DEF CheckNode, NodeOf
  <1>3. CASE NodeOf(c) = Null
    <2>1. Null \in Held(conn, cache)
      BY <1>3 DEF Held, NodeOf
    <2>2. CheckNode(c) \in NodeIds /\ CheckNode(c) \notin Held(conn, cache)
      BY <1>3, <2>1, FreeNodeIsFree DEF CheckNode, HeapInv
    <2> QED
      BY <1>3, <2>2 DEF HeapInv, FreeIsEmpty
  <1> QED
    BY <1>2, <1>3

\* A handler changes its session.
LEMMA ChangeStep ==
  ASSUME HeapInv, NEW c \in Connections, Phase(c) = "handling", NEW changed \in Nodes,
         changed.session = node[CheckNode(c)].session,
         changed.referrers = node[CheckNode(c)].referrers,
         changed.session = NoId /\ ~changed.dirty => changed.entries = 0,
         Change(c, CheckNode(c), changed)
  PROVE  HeapInv'
  <1> DEFINE n == CheckNode(c)
             k == [conn[c] EXCEPT !.node = n]
             nodes == [node EXCEPT ![n] = changed]
  <1>1. /\ n \in NodeIds
        /\ NodeOf(c) # Null => n = NodeOf(c)
        /\ NodeOf(c) = Null => n \notin Held(conn, cache) /\ node[n] = NoNode
    BY CheckedNode
  <1>2. /\ node \in [NodeIds -> Nodes] /\ cache \in [Ids -> NodeIds \cup {Null}]
        /\ \A d \in Connections : ConnOK(conn[d])
    BY DEF HeapInv, HeapTypeOK
  <1>3. ConnOK(k) /\ k.phase = "handling" /\ k.node = n
    BY <1>1, <1>2 DEF ConnOK, Phase
  <1>4. Enter(c, k) /\ node' = nodes
    BY DEF Change
  <1>5. /\ cache' = cache /\ issued' = issued /\ due' = due /\ fate' = fate
        /\ truth' = IF changed.session = NoId THEN truth
                      ELSE [truth EXCEPT ![changed.session] = changed.entries]
    BY DEF Change
  <1>6. /\ nodes \in [NodeIds -> Nodes] /\ nodes[n] = changed
        /\ \A m \in NodeIds : m # n => nodes[m] = node[m]
    BY <1>1, <1>2
  <1> HIDE DEF k, nodes
  <1>7. conn'[c] = k /\ \A d \in Connections : d # c => conn'[d] = conn[d]
    BY <1>3, <1>4, EnterChanges DEF HeapInv
  <1>8. HistoryGrows
    <2>1. truth' \in [Ids -> Nat]
      BY <1>5 DEF HeapInv, HistoryTypeOK, Nodes
    <2> QED
      BY <1>5, <2>1 DEF HistoryGrows, HistoryTypeOK, HeapInv
  <1>9. node' = Counted(nodes, conn', cache')
    <2>1. ASSUME NEW m \in NodeIds, m \notin Held(conn', cache') PROVE nodes[m] = NoNode
      <3>1. m # n
        BY <1>3, <1>7, <2>1 DEF Held
      <3>2. m \notin Held(conn, cache)
        <4> SUFFICES ASSUME m \in Held(conn, cache) PROVE FALSE
          OBVIOUS
        <4>1. CASE \E i \in Ids : m = cache[i]
          BY <1>5, <2>1, <4>1 DEF Held
        <4>2. CASE \E d \in Connections : m = conn[d].node
          <5>1. PICK d \in Connections : m = conn[d].node
            BY <4>2
          <5>2. d # c
            BY <1>1, <3>1, <5>1, Apart DEF NodeOf
          <5>3. conn'[d].node = m
            BY <1>7, <5>1, <5>2
          <5> QED
            BY <2>1, <5>3 DEF Held
        <4> QED
          BY <4>1, <4>2 DEF Held
      <3> QED
        BY <1>6, <3>1, <3>2 DEF HeapInv, FreeIsEmpty
    <2>2. nodes = [m \in NodeIds |-> nodes[m]]
      BY <1>6
    <2> QED
      BY <1>4, <2>1, <2>2 DEF Counted
  <1>10. SoundNodes(nodes)
    <2> SUFFICES ASSUME NEW m \in NodeIds
                 PROVE  /\ nodes[m].session \in issued' \cup {NoId}
                        /\ nodes[m].session = NoId =>
                             nodes[m].referrers = 0 /\ (~nodes[m].dirty => nodes[m].entries = 0)
      BY DEF SoundNodes
    <2>1. CASE m = n
      BY <1>1, <1>5, <1>6, <2>1 DEF HeapInv, NodesAreSound
    <2>2. CASE m # n
      BY <1>5, <1>6, <2>2 DEF HeapInv, NodesAreSound
    <2> QED
      BY <2>1, <2>2
  <1>11. SameSessions(c, nodes)
    <2> SUFFICES ASSUME NEW d \in Connections, d # c, conn[d].node # Null
                 PROVE  nodes[conn[d].node].session = node[conn[d].node].session
      BY DEF SameSessions
    <2>1. conn[d].node \in NodeIds
      BY <1>2 DEF ConnOK
    <2> QED
      BY <1>6, <2>1
  <1>12. NewStaysUnshared(c, k, nodes)
    <2>1. ASSUME nodes[n].session = NoId, NEW d \in Connections, conn[d].node = n PROVE d = c
      BY <1>1, <1>6, <2>1 DEF HeapInv, NewIsUnshared, NodeOf, Newborn, Held
    <2>2. ASSUME NEW d \in Connections, d # c, conn[d].node # Null, node[conn[d].node].session = NoId
          PROVE  n # conn[d].node
      BY <1>1, <2>2 DEF HeapInv, NewIsUnshared, NodeOf, Newborn, Held
    <2> QED
      BY <1>3, <2>1, <2>2 DEF NewStaysUnshared
  <1>13. UsedStaysCached(c, k, nodes)
    <2>1. ASSUME nodes[n].session # NoId
          PROVE  cache'[nodes[n].session] = n \/ "spoiled" \in fate'[nodes[n].session]
      <3>1. nodes[n].session = node[n].session /\ NodeOf(c) = n /\ NodeOf(c) # Null
        BY <1>1, <1>6, <2>1 DEF NoNode
      <3> QED
        BY <1>5, <2>1, <3>1 DEF HeapInv, UsedIsCached, InUse, Newborn
    <2> QED
      BY <1>3, <1>5, <2>1 DEF UsedStaysCached
  <1>14. ReferrersStay(nodes)
    <2> SUFFICES ASSUME NEW j \in Ids, NEW m \in NodeIds, cache[j] = m, "spoiled" \notin fate[j]
                 PROVE  /\ nodes[m].referrers >= Cardinality(Users(m)')
                        /\ nodes[m].referrers >= 1
                        /\ "leaked" \notin fate[j] => nodes[m].referrers = Cardinality(Users(m)')
      BY <1>5 DEF ReferrersStay
    <2>1. m # Null
      BY Apart
    <2>2. /\ node[m].referrers >= Cardinality(Users(m))
          /\ node[m].referrers >= 1
          /\ "leaked" \notin fate[j] => node[m].referrers = Cardinality(Users(m))
      BY <2>1 DEF HeapInv, ReferrersCount
    <2>3. nodes[m].referrers = node[m].referrers
      BY <1>6
    <2>4. c \in Users(m) <=> c \in Users(m)'
      <3>1. InUse(c) /\ InUse(c)'
        BY <1>3, <1>7 DEF InUse, Phase
      <3>2. NodeOf(c)' = n
        BY <1>3, <1>7 DEF NodeOf
      <3>3. NodeOf(c) = m <=> n = m
        <4>1. CASE NodeOf(c) # Null
          BY <1>1, <4>1
        <4>2. CASE NodeOf(c) = Null
          BY <1>1, <2>1, <4>2 DEF Held
        <4> QED
          BY <4>1, <4>2
      <3> QED
        BY <3>1, <3>2, <3>3 DEF Users
    <2>5. Users(m)' = Users(m)
      BY <1>7, <2>4, UsersChange
    <2> QED
      BY <2>2, <2>3, <2>5
  <1>15. \A j \in Ids : cache'[j] # Null => nodes[cache'[j]].session = j
    <2> TAKE j \in Ids
    <2> HAVE cache'[j] # Null
    <2>1. cache[j] \in NodeIds /\ node[cache[j]].session = j
      BY <1>2, <1>5 DEF HeapInv, CachedBySession
    <2> QED
      BY <1>5, <1>6, <2>1
  <1> QED
    BY <1>2, <1>3, <1>4, <1>5, <1>6, <1>8, <1>9, <1>10, <1>11, <1>12, <1>13, <1>14, <1>15, HeapStep

\* The process starts: nothing is in the heap.
LEMMA EmptyHeap ==
  ASSUME conn' = [c \in Connections |-> Idle], node' = [n \in NodeIds |-> NoNode],
         cache' = [i \in Ids |-> Null], HistoryTypeOK'
  PROVE  HeapInv'
  <1>1. \A c \in Connections : conn'[c].node = Null /\ conn'[c].phase = "idle"
    BY DEF Idle
  <1>2. HeapTypeOK'
    BY DEF HeapTypeOK, ConnOK, Idle, Phases, NoNode, Nodes, NoId
  <1>3. NodesAreSound' /\ FreeIsEmpty' /\ CachedBySession'
    BY DEF NodesAreSound, FreeIsEmpty, CachedBySession, NoNode
  <1>4. NewIsUnshared' /\ UsedIsCached' /\ ReferrersCount'
    BY <1>1 DEF NewIsUnshared, UsedIsCached, ReferrersCount, NodeOf, InUse, Phase
  <1> QED
    BY <1>2, <1>3, <1>4 DEF HeapInv

LEMMA SameHeap ==
  ASSUME HeapInv, UNCHANGED <<node, cache, conn, issued, truth, due, fate>>
  PROVE  HeapInv'
  <1>1. HeapTypeOK' /\ HistoryTypeOK'
    BY DEF HeapInv, HeapTypeOK, HistoryTypeOK
  <1>2. NodesAreSound' /\ FreeIsEmpty' /\ CachedBySession'
    BY DEF HeapInv, NodesAreSound, FreeIsEmpty, CachedBySession
  <1>3. NewIsUnshared' /\ UsedIsCached'
    BY DEF HeapInv, NewIsUnshared, UsedIsCached, NodeOf, Newborn, InUse, Phase
  <1>4. \A n : Users(n)' = Users(n)
    BY DEF Users, InUse, NodeOf, Phase
  <1>5. ReferrersCount'
    <2> SUFFICES ASSUME NEW i \in Ids, cache[i] # Null, "spoiled" \notin fate[i]
                 PROVE  /\ node[cache[i]].referrers >= Cardinality(Users(cache[i])')
                        /\ node[cache[i]].referrers >= 1
                        /\ "leaked" \notin fate[i] =>
                             node[cache[i]].referrers = Cardinality(Users(cache[i])')
      BY DEF ReferrersCount
    <2>1. PICK n : n = cache[i] /\ n = cache'[i]
      OBVIOUS
    <2>2. Users(cache[i])' = Users(n)'
      BY <2>1 DEF Users
    <2>3. Users(n)' = Users(n)
      BY <1>4
    <2> QED
      BY <2>1, <2>2, <2>3 DEF HeapInv, ReferrersCount
  <1> QED
    BY <1>1, <1>2, <1>3, <1>5 DEF HeapInv

-----------------------------------------------------------------------------
(* What the sessions hold.                                                  *)

\* Nothing befell the session that may lose what was written to it.
Whole(i) == fate[i] \cap {"spoiled", "expired", "lost"} = {}
Kept(i) == IF stored[i] = NoEntry THEN 0 ELSE stored[i]

\* A session is whole in its node while it has one, and else in the store; a file
\* that will not be written again is up to date already.
KeptAt(i) ==
  /\ i \notin issued => stored[i] = NoEntry
  /\ i \in issued /\ Whole(i) =>
       /\ cache[i] = Null => Kept(i) = truth[i]
       /\ cache[i] # Null =>
            /\ node[cache[i]].entries = truth[i]
            /\ store = "file" /\ ~node[cache[i]].dirty => Kept(i) = truth[i]

Keeps == \A i \in Ids : KeptAt(i)

\* The tracker has the times that were promised.
QueuedAsDue ==
  store = "file" => \A p \in queue : p[1] = due[p[2]] \/ "lost" \in fate[p[2]]

SessionInv == StoreTypeOK /\ HeapInv /\ Keeps /\ QueuedAsDue

ExpiryStep ==
  \A i \in Ids :
    store = "file" /\ stored[i] # NoEntry /\ stored'[i] = NoEntry =>
      now > due[i] \/ "lost" \in fate'[i]

LEMMA StaysKept ==
  ASSUME NEW i \in Ids, KeptAt(i), store' = store, stored'[i] = stored[i],
         cache'[i] = cache[i], truth'[i] = truth[i], fate[i] \subseteq fate'[i],
         i \in issued' <=> i \in issued,
         cache[i] # Null =>
           /\ node'[cache[i]].entries = node[cache[i]].entries
           /\ node'[cache[i]].dirty = node[cache[i]].dirty
  PROVE  KeptAt(i)'
  <1>1. Kept(i)' = Kept(i)
    BY DEF Kept
  <1>2. Whole(i)' => Whole(i)
    BY DEF Whole
  <1>3. CASE i \notin issued
    BY <1>3 DEF KeptAt
  <1>4. CASE i \in issued /\ Whole(i)' /\ cache[i] = Null
    BY <1>1, <1>2, <1>4 DEF KeptAt
  <1>5. CASE i \in issued /\ Whole(i)' /\ cache[i] # Null
    BY <1>1, <1>2, <1>5 DEF KeptAt
  <1>6. CASE i \in issued /\ ~Whole(i)'
    BY <1>6 DEF KeptAt
  <1> QED
    BY <1>3, <1>4, <1>5, <1>6

\* Steps that leave the store, what sessions hold and what was promised alone.
LEMMA SameContents ==
  ASSUME SessionInv, HeapInv', HistoryGrows, issued' = issued, truth' = truth, due' = due,
         UNCHANGED <<store, stored, queue, index, cache>>, now' \in Nat,
         \A i \in Ids : cache[i] # Null =>
           /\ node'[cache[i]].entries = node[cache[i]].entries
           /\ node'[cache[i]].dirty = node[cache[i]].dirty
  PROVE  SessionInv' /\ ExpiryStep
  <1>1. StoreTypeOK'
    BY DEF SessionInv, StoreTypeOK
  <1>2. ASSUME NEW i \in Ids PROVE KeptAt(i)'
    BY StaysKept DEF SessionInv, Keeps, HistoryGrows
  <1>3. QueuedAsDue'
    BY DEF SessionInv, StoreTypeOK, QueuedAsDue, HistoryGrows
  <1>4. ExpiryStep
    BY DEF ExpiryStep
  <1> QED
    BY <1>1, <1>2, <1>3, <1>4 DEF SessionInv, Keeps

LEMMA WithGrows ==
  ASSUME HistoryTypeOK, NEW S, NEW f \in Fates
  PROVE  /\ With(fate, S, f) \in [Ids -> SUBSET Fates]
         /\ \A i \in Ids : /\ fate[i] \subseteq With(fate, S, f)[i]
                           /\ i \in S => f \in With(fate, S, f)[i]
                           /\ i \notin S => With(fate, S, f)[i] = fate[i]
                           /\ \A g : g \in With(fate, S, f)[i] => g \in fate[i] \/ g = f
  BY DEF With, HistoryTypeOK

\* store_.load from files that may be deleted by it.
LEMMA LoadFileStep ==
  ASSUME SessionInv, store = "file", LoadFile, UNCHANGED <<store, index, now, issued, truth, due>>
  PROVE  /\ HistoryGrows /\ StoreTypeOK' /\ QueuedAsDue' /\ ExpiryStep
         /\ \A i \in Ids : \/ stored'[i] = stored[i]
                           \/ stored'[i] = NoEntry /\ "expired" \in fate'[i]
         /\ \A i \in Ids : ~ Throws(i) => stored'[i] = stored[i]
  <1> DEFINE E == IdsOf(Evicted)
  <1>1. HistoryTypeOK
    BY DEF SessionInv, HeapInv
  <1>2. Evicted \subseteq queue /\ \A p \in Evicted : now > p[1]
    BY DEF Evicted, Expired
  <1>3. /\ fate' \in [Ids -> SUBSET Fates]
        /\ \A i \in Ids : fate[i] \subseteq fate'[i] /\ (i \in E => "expired" \in fate'[i])
    BY <1>1, WithGrows DEF LoadFile, Fates
  <1>4. HistoryGrows
    BY <1>1, <1>3 DEF HistoryGrows, HistoryTypeOK
  <1>5. /\ stored' \in [Ids -> Nat \cup {NoEntry}]
        /\ \A i \in Ids : stored'[i] = IF i \in E THEN NoEntry ELSE stored[i]
    BY DEF LoadFile, Without, SessionInv, StoreTypeOK
  <1>6. queue' \subseteq queue
    BY DEF LoadFile
  <1>7. StoreTypeOK'
    BY <1>5, <1>6 DEF SessionInv, StoreTypeOK
  <1>8. \A p \in queue : p[2] \in Ids /\ (p[1] = due[p[2]] \/ "lost" \in fate[p[2]])
    BY DEF SessionInv, StoreTypeOK, QueuedAsDue
  <1>9. QueuedAsDue'
    BY <1>3, <1>6, <1>8 DEF QueuedAsDue
  <1>10. ExpiryStep
    <2> SUFFICES ASSUME NEW i \in Ids, stored[i] # NoEntry, stored'[i] = NoEntry
                 PROVE  now > due[i] \/ "lost" \in fate'[i]
      BY DEF ExpiryStep
    <2>1. PICK p \in Evicted : p[2] = i
      BY <1>5 DEF IdsOf
    <2> QED
      BY <1>2, <1>3, <1>8, <2>1
  <1>11. \A i \in Ids : ~ Throws(i) => stored'[i] = stored[i]
    BY <1>5 DEF Throws
  <1> QED
    BY <1>3, <1>4, <1>5, <1>7, <1>9, <1>10, <1>11

\* Nothing but the heap changes, and of it no node that is in the cache.
LEMMA OnlyHeap ==
  ASSUME SessionInv, HeapInv', NEW nodes \in [NodeIds -> Nodes],
         node' = Counted(nodes, conn', cache'), UNCHANGED <<store, storeVars, now, cache>>,
         UNCHANGED <<issued, truth, due>>, HistoryGrows,
         \A n \in NodeIds : nodes[n].entries = node[n].entries /\ nodes[n].dirty = node[n].dirty
  PROVE  SessionInv' /\ ExpiryStep
  <1>1. \A i \in Ids : cache'[i] \in NodeIds => node'[cache'[i]] = nodes[cache'[i]]
    BY CountedKeeps
  <1>2. \A i \in Ids : cache[i] # Null =>
           /\ node'[cache[i]].entries = node[cache[i]].entries
           /\ node'[cache[i]].dirty = node[cache[i]].dirty
    BY <1>1 DEF SessionInv, HeapInv, HeapTypeOK
  <1>3. now' \in Nat
    BY DEF SessionInv, StoreTypeOK
  <1> QED
    BY <1>2, <1>3, SameContents DEF storeVars

LEMMA LoadedNode ==
  ASSUME NEW i \in Ids, stored[i] \in Nat
  PROVE  /\ Loaded(i) \in Nodes /\ Loaded(i).session = i /\ Loaded(i).referrers = 1
         /\ Loaded(i).entries = stored[i] /\ Loaded(i).dirty = FALSE
  <1> DEFINE X == [NoNode EXCEPT !.session = i]
             Y == [X EXCEPT !.entries = stored[i]]
             Z == [Y EXCEPT !.referrers = 1]
  <1>1. NoNode \in Nodes /\ NoNode.dirty = FALSE
    BY DEF NoNode, Nodes, NoId
  <1> HIDE DEF NoNode
  <1>2. X \in Nodes /\ X.session = i /\ X.dirty = FALSE
    BY <1>1 DEF Nodes
  <1> HIDE DEF X
  <1>3. Y \in Nodes /\ Y.session = i /\ Y.dirty = FALSE /\ Y.entries = stored[i]
    BY <1>2 DEF Nodes
  <1> HIDE DEF Y
  <1>4. /\ Z \in Nodes /\ Z.session = i /\ Z.dirty = FALSE /\ Z.entries = stored[i]
        /\ Z.referrers = 1
    BY <1>3 DEF Nodes
  <1>5. Loaded(i) = Z
    BY DEF Loaded, X, Y
  <1> HIDE DEF Z
  <1> QED
    BY <1>4, <1>5

LEMMA BeforeHandleKeeps ==
  ASSUME SessionInv, NEW c \in Connections, Phase(c) = "idle", NEW i \in issued \cup {NoId},
         NEW next, ConnOK(next), next.node = Null, next.phase # "idle",
         BeforeHandle(c, i, next), UNCHANGED <<store, index, now, issued, truth, due>>
  PROVE  SessionInv' /\ ExpiryStep
  <1>1. /\ node \in [NodeIds -> Nodes] /\ cache \in [Ids -> NodeIds \cup {Null}]
        /\ HeapInv /\ HistoryTypeOK /\ StoreTypeOK
    BY DEF SessionInv, HeapInv, HeapTypeOK
  <1>2. i # NoId => i \in issued /\ i \in Ids
    BY <1>1 DEF HistoryTypeOK
  <1>3. fate' = fate => HistoryGrows
    BY <1>1 DEF HistoryGrows, HistoryTypeOK
  <1>4. ~ InUse(c)
    BY DEF InUse
  <1>5. \A n \in NodeIds : ConnOK([next EXCEPT !.node = n]) /\ [next EXCEPT !.node = n].node = n
                             /\ [next EXCEPT !.node = n].phase # "idle"
    BY DEF ConnOK
  <1>6. CASE /\ i # NoId /\ Find(i) # Null
             /\ Enter(c, [next EXCEPT !.node = Find(i)])
             /\ node' = Counted([node EXCEPT ![Find(i)].referrers = @ + 1], conn', cache)
             /\ UNCHANGED <<stored, queue, cache, fate>>
    <2> DEFINE nodes == [node EXCEPT ![Find(i)].referrers = @ + 1]
    <2>1. Find(i) = cache[i] /\ cache[i] \in NodeIds
      BY <1>1, <1>2, <1>6 DEF Find
    <2>2. HeapInv'
      BY <1>1, <1>2, <1>3, <1>5, <1>6, <2>1, ShareStep
    <2>3. /\ nodes \in [NodeIds -> Nodes]
          /\ \A n \in NodeIds : nodes[n].entries = node[n].entries /\ nodes[n].dirty = node[n].dirty
      BY <1>1, <2>1 DEF Nodes
    <2>4. node' = Counted(nodes, conn', cache')
      BY <1>6
    <2> HIDE DEF nodes
    <2> QED
      BY <1>3, <1>6, <2>2, <2>3, <2>4, OnlyHeap DEF storeVars
  <1>7. CASE /\ Enter(c, next)
             /\ node' = Counted(node, conn', cache)
             /\ UNCHANGED <<stored, queue, cache, fate>>
    <2>1. HeapInv'
      BY <1>1, <1>3, <1>4, <1>7, DropStep
    <2> QED
      BY <1>1, <1>3, <1>7, <2>1, OnlyHeap DEF storeVars
  <1>8. CASE /\ i # NoId /\ Find(i) = Null /\ stored[i] # NoEntry
             /\ IF store = "memory" THEN LoadMemory(i) ELSE LoadFile
             /\ Throws(i) /\ Enter(c, next)
             /\ node' = Counted(node, conn', cache)
             /\ cache' = cache
    <2>1. store = "file" /\ LoadFile
      BY <1>8 DEF Throws
    <2>2. /\ HistoryGrows /\ StoreTypeOK' /\ QueuedAsDue' /\ ExpiryStep
          /\ \A j \in Ids : \/ stored'[j] = stored[j]
                            \/ stored'[j] = NoEntry /\ "expired" \in fate'[j]
      BY <2>1, LoadFileStep
    <2>3. HeapInv'
      BY <1>1, <1>4, <1>8, <2>2, DropStep
    <2>4. \A j \in Ids : cache'[j] \in NodeIds => node'[cache'[j]] = node[cache'[j]]
      BY <1>1, <1>8, CountedKeeps
    <2>5. ASSUME NEW j \in Ids PROVE KeptAt(j)'
      <3>1. CASE stored'[j] = stored[j]
        BY <1>1, <1>8, <2>2, <2>4, <3>1, StaysKept DEF SessionInv, Keeps, HistoryGrows
      <3>2. CASE stored'[j] = NoEntry /\ "expired" \in fate'[j]
        BY <3>2 DEF KeptAt, Whole
      <3> QED
        BY <2>2, <3>1, <3>2
    <2> QED
      BY <2>2, <2>3, <2>5 DEF SessionInv, Keeps
  <1>9. CASE /\ i # NoId /\ Find(i) = Null /\ stored[i] # NoEntry
             /\ IF store = "memory" THEN LoadMemory(i) ELSE LoadFile
             /\ ~ Throws(i)
             /\ Enter(c, [next EXCEPT !.node = FreeNode])
             /\ cache' = [cache EXCEPT ![i] = FreeNode]
             /\ node' = Counted([node EXCEPT ![FreeNode] = Loaded(i)], conn', cache')
    <2> DEFINE n == FreeNode
               nodes == [node EXCEPT ![n] = Loaded(i)]
    <2>1. i \in issued /\ i \in Ids /\ cache[i] = Null /\ stored[i] \in Nat
      BY <1>1, <1>2, <1>9 DEF Find, StoreTypeOK
    <2>2. n \in NodeIds /\ n \notin Held(conn, cache)
      BY <1>1, <2>1, FreeNodeIsFree DEF Held, HeapInv
    <2>3. /\ Loaded(i) \in Nodes /\ Loaded(i).session = i /\ Loaded(i).referrers = 1
          /\ Loaded(i).entries = stored[i] /\ Loaded(i).dirty = FALSE
      BY <2>1, LoadedNode
    <2>4. /\ HistoryGrows /\ StoreTypeOK' /\ QueuedAsDue' /\ ExpiryStep
          /\ \A j \in Ids : \/ stored'[j] = stored[j]
                            \/ stored'[j] = NoEntry /\ "expired" \in fate'[j]
                            \/ j = i
          /\ store = "file" => stored'[i] = stored[i]
      <3>1. CASE store = "memory"
        <4>1. LoadMemory(i)
          BY <1>9, <3>1
        <4>2. /\ stored' \in [Ids -> Nat \cup {NoEntry}]
              /\ \A j \in Ids : j # i => stored'[j] = stored[j]
          BY <1>1, <4>1 DEF LoadMemory, StoreTypeOK
        <4>3. StoreTypeOK' /\ QueuedAsDue' /\ ExpiryStep
          BY <1>1, <3>1, <4>1, <4>2 DEF LoadMemory, StoreTypeOK, QueuedAsDue, ExpiryStep
        <4> QED
          BY <1>3, <3>1, <4>1, <4>2, <4>3 DEF LoadMemory
      <3>2. CASE store = "file"
        BY <1>9, <2>1, <3>2, LoadFileStep
      <3> QED
        BY <1>1, <3>1, <3>2 DEF StoreTypeOK
    <2>5. HeapInv'
      BY <1>1, <1>5, <1>9, <2>1, <2>2, <2>3, <2>4, LoadStep
    <2>6. nodes \in [NodeIds -> Nodes] /\ nodes[n] = Loaded(i)
            /\ \A m \in NodeIds : m # n => nodes[m] = node[m]
      BY <1>1, <2>2, <2>3
    <2>7. node' = Counted(nodes, conn', cache')
      BY <1>9
    <2>8. cache'[i] = n /\ \A j \in Ids : j # i => cache'[j] = cache[j]
      BY <1>1, <1>9, <2>1
    <2> HIDE DEF nodes, n
    <2>9. \A j \in Ids : cache'[j] \in NodeIds => node'[cache'[j]] = nodes[cache'[j]]
      BY <2>6, <2>7, CountedKeeps
    <2>10. ASSUME NEW j \in Ids PROVE KeptAt(j)'
      <3>1. CASE j # i /\ stored'[j] = stored[j]
        <4>1. cache[j] # Null => node'[cache[j]] = node[cache[j]]
          <5>1. cache[j] # n
            BY <2>2 DEF Held
          <5> QED
            BY <1>1, <2>6, <2>8, <2>9, <3>1, <5>1
        <4> QED
          BY <2>4, <2>8, <3>1, <4>1, StaysKept DEF SessionInv, Keeps, HistoryGrows
      <3>2. CASE stored'[j] = NoEntry /\ "expired" \in fate'[j]
        BY <3>2 DEF KeptAt, Whole
      <3>3. CASE j = i
        <4>1. cache'[j] = n /\ n # Null /\ node'[n] = Loaded(i)
          BY <2>2, <2>6, <2>8, <2>9, <3>3, Apart
        <4>2. Whole(j)' => Whole(j)
          <5>1. fate[j] \subseteq fate'[j]
            BY <2>4 DEF HistoryGrows
          <5> QED
            BY <5>1 DEF Whole
        <4>3. Whole(j) => Loaded(i).entries = truth[i]
          BY <1>9, <2>1, <2>3, <3>3 DEF SessionInv, Keeps, KeptAt, Kept
        <4>4. store = "file" => Kept(i)' = Loaded(i).entries
          BY <1>9, <2>3, <2>4 DEF Kept
        <4> QED
          BY <2>1, <3>3, <4>1, <4>2, <4>3, <4>4 DEF KeptAt
      <3> QED
        BY <2>4, <3>1, <3>2, <3>3
    <2> QED
      BY <2>4, <2>5, <2>10 DEF SessionInv, Keeps
  <1> QED
    BY <1>6, <1>7, <1>8, <1>9 DEF BeforeHandle

\* store_.save of the session i, which the node n holds.
Saved(n, i, nodes) ==
  /\ StoreTypeOK'
  /\ \A j \in Ids : j # i => stored'[j] = stored[j]
  /\ store = "memory" \/ nodes[n].dirty => stored'[i] = nodes[n].entries
  /\ store = "file" /\ ~nodes[n].dirty => stored'[i] = stored[i]
  /\ store = "file" =>
       queue' = IF nodes[n].refresh THEN Added(i, now + Lifetime) ELSE queue
  /\ \E saved \in [NodeIds -> Nodes] :
       /\ node' = Counted(saved, conn', cache')
       /\ \A m \in NodeIds : m # n => saved[m] = nodes[m]
       /\ saved[n].session = nodes[n].session

LEMMA SaveStep ==
  ASSUME StoreTypeOK, NEW nodes \in [NodeIds -> Nodes], NEW n \in NodeIds, NEW i \in Ids,
         Save(n, i, nodes), UNCHANGED <<store, index, now>>
  PROVE  Saved(n, i, nodes)
  <1>1. /\ stored \in [Ids -> Nat \cup {NoEntry}] /\ queue \subseteq Nat \X Ids
        /\ nodes[n].entries \in Nat /\ now + Lifetime \in Nat
    BY SessionsAssumption DEF StoreTypeOK, Nodes
  <1>2. CASE store = "memory"
    <2>1. SaveMemory(n, i, nodes)
      BY <1>2 DEF Save
    <2> DEFINE saved == [nodes EXCEPT ![n].entries = 0]
    <2>2. /\ saved \in [NodeIds -> Nodes] /\ saved[n].session = nodes[n].session
          /\ \A m \in NodeIds : m # n => saved[m] = nodes[m]
      BY DEF Nodes
    <2>3. node' = Counted(saved, conn', cache')
      BY <2>1 DEF SaveMemory
    <2>4. \E s \in [NodeIds -> Nodes] :
              /\ node' = Counted(s, conn', cache')
              /\ \A m \in NodeIds : m # n => s[m] = nodes[m]
              /\ s[n].session = nodes[n].session
      <3> HIDE DEF saved
      <3> QED
        BY <2>2, <2>3
    <2>5. stored' = [stored EXCEPT ![i] = nodes[n].entries] /\ queue' = queue
      BY <2>1 DEF SaveMemory
    <2> QED
      BY <1>1, <1>2, <2>4, <2>5 DEF Saved, StoreTypeOK
  <1>3. CASE store = "file"
    <2>1. SaveFile(n, i, nodes)
      BY <1>3 DEF Save
    <2>2. Added(i, now + Lifetime) \subseteq Nat \X Ids
      BY <1>1 DEF Added
    <2>3. StoreTypeOK'
      BY <1>1, <2>1, <2>2 DEF SaveFile, StoreTypeOK
    <2>4. /\ node' = Counted(nodes, conn', cache')
          /\ queue' = IF nodes[n].refresh THEN Added(i, now + Lifetime) ELSE queue
          /\ \A j \in Ids : j # i => stored'[j] = stored[j]
          /\ nodes[n].dirty => stored'[i] = nodes[n].entries
          /\ ~nodes[n].dirty => stored'[i] = stored[i]
      BY <1>1, <2>1 DEF SaveFile
    <2> QED
      BY <1>3, <2>3, <2>4 DEF Saved
  <1> QED
    BY <1>2, <1>3 DEF StoreTypeOK

\* The last request that refers to a session saves it.
GivesBack(c, n, i, next, nodes) ==
  /\ NodeOf(c) = n /\ LastReferrer(n)
  /\ IF Newborn(n) THEN i \notin issued ELSE i = node[n].session
  /\ ConnOK(next) /\ next.phase = "idle" /\ next.node \in {Null, n} /\ Enter(c, next)
  /\ \A m \in NodeIds : m # n => nodes[m] = node[m]
  /\ nodes[n].session = i /\ nodes[n].entries = node[n].entries
  /\ nodes[n].dirty = node[n].dirty /\ (Newborn(n) => nodes[n].refresh)
  /\ cache' = IF Newborn(n) THEN cache ELSE [cache EXCEPT ![i] = Null]
  /\ Save(n, i, nodes)
  /\ issued' = IF nodes[n].refresh THEN issued \cup {i} ELSE issued
  /\ truth' = IF Newborn(n) THEN [truth EXCEPT ![i] = node[n].entries] ELSE truth
  /\ due' = IF nodes[n].refresh THEN [due EXCEPT ![i] = now + Lifetime] ELSE due
  /\ UNCHANGED <<store, index, now>>
  /\ fate' \in [Ids -> SUBSET Fates]
  /\ \A j \in Ids : /\ fate[j] \subseteq fate'[j]
                    /\ "leaked" \in fate'[j] => "leaked" \in fate[j]
  /\ InUse(c) \/ Newborn(n) \/ "spoiled" \in fate'[i]

LEMMA LastAfterHandleKeeps ==
  ASSUME SessionInv, NEW c \in Connections, NEW n \in NodeIds, NEW i \in Ids, NEW next,
         NEW nodes \in [NodeIds -> Nodes], GivesBack(c, n, i, next, nodes)
  PROVE  SessionInv' /\ ExpiryStep
  <1>0. /\ NodeOf(c) = n /\ LastReferrer(n)
        /\ IF Newborn(n) THEN i \notin issued ELSE i = node[n].session
        /\ ConnOK(next) /\ next.phase = "idle" /\ next.node \in {Null, n} /\ Enter(c, next)
        /\ \A m \in NodeIds : m # n => nodes[m] = node[m]
        /\ nodes[n].session = i /\ nodes[n].entries = node[n].entries
        /\ nodes[n].dirty = node[n].dirty /\ (Newborn(n) => nodes[n].refresh)
        /\ cache' = IF Newborn(n) THEN cache ELSE [cache EXCEPT ![i] = Null]
        /\ Save(n, i, nodes)
        /\ issued' = IF nodes[n].refresh THEN issued \cup {i} ELSE issued
        /\ truth' = IF Newborn(n) THEN [truth EXCEPT ![i] = node[n].entries] ELSE truth
        /\ due' = IF nodes[n].refresh THEN [due EXCEPT ![i] = now + Lifetime] ELSE due
        /\ UNCHANGED <<store, index, now>>
        /\ fate' \in [Ids -> SUBSET Fates]
        /\ \A j \in Ids : /\ fate[j] \subseteq fate'[j]
                          /\ "leaked" \in fate'[j] => "leaked" \in fate[j]
        /\ InUse(c) \/ Newborn(n) \/ "spoiled" \in fate'[i]
    BY DEF GivesBack
  <1> USE <1>0
  <1>1. /\ node \in [NodeIds -> Nodes] /\ cache \in [Ids -> NodeIds \cup {Null}]
        /\ HeapInv /\ HistoryTypeOK /\ StoreTypeOK /\ n # Null
    BY Apart DEF SessionInv, HeapInv, HeapTypeOK
  <1>2. node[n].entries \in Nat /\ now + Lifetime \in Nat
    BY <1>1, SessionsAssumption DEF StoreTypeOK, Nodes
  <1>3. Newborn(n) <=> node[n].session = NoId
    BY DEF Newborn
  <1>4. ~Newborn(n) => i \in issued
    BY <1>1, <1>3 DEF HeapInv, NodesAreSound
  <1>5. HistoryGrows
    <2>1. issued' \subseteq Ids /\ issued \subseteq issued'
      BY <1>1 DEF HistoryTypeOK
    <2>2. truth' \in [Ids -> Nat] /\ due' \in [Ids -> Int]
      BY <1>1, <1>2 DEF HistoryTypeOK
    <2> QED
      BY <2>1, <2>2 DEF HistoryGrows, HistoryTypeOK
  <1>6. Saved(n, i, nodes)
    BY <1>1, SaveStep
  <1>7. PICK saved \in [NodeIds -> Nodes] :
              /\ node' = Counted(saved, conn', cache')
              /\ \A m \in NodeIds : m # n => saved[m] = node[m]
              /\ saved[n].session = i
    BY <1>6 DEF Saved
  <1>8. HeapInv'
    <2>1. CASE Newborn(n)
      BY <1>1, <1>5, <1>7, <2>1, IssueStep
    <2>2. CASE ~Newborn(n)
      BY <1>1, <1>5, <1>7, <2>2, GiveBackStep
    <2> QED
      BY <2>1, <2>2
  <1>9. i \notin issued => cache[i] = Null
    <2> SUFFICES ASSUME cache[i] # Null PROVE i \in issued
      OBVIOUS
    <2>1. cache[i] \in NodeIds /\ node[cache[i]].session = i
      BY <1>1 DEF HeapInv, CachedBySession
    <2>2. node[cache[i]].session \in issued \cup {NoId}
      BY <1>1, <2>1 DEF HeapInv, NodesAreSound
    <2> QED
      BY <2>1, <2>2, Apart
  <1>10. cache'[i] = Null /\ \A j \in Ids : j # i => cache'[j] = cache[j]
    BY <1>1, <1>9
  <1>11. \A j \in Ids : cache'[j] \in NodeIds => node'[cache'[j]] = saved[cache'[j]]
    BY <1>7, CountedKeeps
  <1>12. ASSUME NEW j \in Ids PROVE KeptAt(j)'
    <2>1. CASE j # i
      <3>1. cache[j] # Null => node'[cache[j]] = node[cache[j]]
        <4> SUFFICES ASSUME cache[j] # Null PROVE node'[cache[j]] = node[cache[j]]
          OBVIOUS
        <4>1. node[cache[j]].session = j /\ cache[j] \in NodeIds
          BY <1>1 DEF HeapInv, CachedBySession
        <4>2. cache[j] # n
          BY <1>3, <2>1, <4>1, Apart
        <4>3. cache'[j] = cache[j] /\ saved[cache[j]] = node[cache[j]]
          BY <1>7, <1>10, <2>1, <4>1, <4>2
        <4>4. node'[cache'[j]] = saved[cache'[j]]
          BY <1>11, <4>1, <4>3
        <4> QED
          BY <4>3, <4>4
      <3>2. truth'[j] = truth[j] /\ (j \in issued' <=> j \in issued)
        BY <1>1, <2>1 DEF HistoryTypeOK
      <3>3. KeptAt(j)
        BY DEF SessionInv, Keeps
      <3> QED
        BY <1>5, <1>6, <1>10, <2>1, <3>1, <3>2, <3>3, StaysKept DEF Saved, HistoryGrows
    <2>2. CASE j = i /\ Newborn(n)
      <3>1. stored[i] = NoEntry
        BY <2>2 DEF SessionInv, Keeps, KeptAt
      <3>2. ~node[n].dirty => node[n].entries = 0
        BY <1>1, <1>3, <2>2 DEF HeapInv, NodesAreSound
      <3>3. store = "memory" \/ store = "file"
        BY <1>1 DEF StoreTypeOK
      <3>4. Kept(i)' = node[n].entries
        <4>1. CASE store = "memory" \/ node[n].dirty
          BY <1>2, <1>6, <4>1 DEF Saved, Kept, NoEntry
        <4>2. CASE store = "file" /\ ~node[n].dirty
          BY <1>6, <3>1, <3>2, <4>2 DEF Saved, Kept
        <4> QED
          BY <3>3, <4>1, <4>2
      <3>5. truth'[i] = node[n].entries /\ i \in issued'
        BY <1>1, <2>2 DEF HistoryTypeOK
      <3> QED
        BY <1>10, <2>2, <3>4, <3>5 DEF KeptAt
    <2>3. CASE j = i /\ ~Newborn(n)
      <3> SUFFICES ASSUME Whole(i)' PROVE Kept(i)' = truth'[i]
        BY <1>4, <1>5, <1>10, <2>3 DEF KeptAt, HistoryGrows
      <3>1. Whole(i) /\ "spoiled" \notin fate'[i] /\ "spoiled" \notin fate[i]
        BY DEF Whole
      <3>2. cache[i] = n
        BY <1>1, <2>3, <3>1 DEF HeapInv, UsedIsCached
      <3>3. /\ node[n].entries = truth[i]
            /\ store = "file" /\ ~node[n].dirty => Kept(i) = truth[i]
        BY <1>1, <1>4, <2>3, <3>1, <3>2 DEF SessionInv, Keeps, KeptAt
      <3>4. store = "memory" \/ store = "file"
        BY <1>1 DEF StoreTypeOK
      <3>5. CASE store = "memory" \/ node[n].dirty
        BY <1>2, <1>6, <2>3, <3>3, <3>5 DEF Saved, Kept, NoEntry
      <3>6. CASE store = "file" /\ ~node[n].dirty
        BY <1>6, <2>3, <3>3, <3>6 DEF Saved, Kept
      <3> QED
        BY <3>4, <3>5, <3>6
    <2> QED
      BY <2>1, <2>2, <2>3
  <1>13. QueuedAsDue'
    <2> SUFFICES ASSUME store = "file", NEW p \in queue'
                 PROVE  p[1] = due'[p[2]] \/ "lost" \in fate'[p[2]]
      BY DEF QueuedAsDue
    <2>1. \A q \in queue : q[2] \in Ids /\ (q[1] = due[q[2]] \/ "lost" \in fate'[q[2]])
      BY <1>1 DEF SessionInv, QueuedAsDue, StoreTypeOK
    <2>2. CASE nodes[n].refresh
      <3>1. due' = [due EXCEPT ![i] = now + Lifetime] /\ due \in [Ids -> Int]
        BY <1>1, <2>2 DEF HistoryTypeOK
      <3>2. CASE p = <<now + Lifetime, i>>
        BY <3>1, <3>2
      <3>3. CASE p \in queue /\ p[2] # i
        BY <2>1, <3>1, <3>3
      <3> QED
        BY <1>6, <2>2, <3>2, <3>3 DEF Saved, Added
    <2>3. CASE ~nodes[n].refresh
      BY <1>6, <2>1, <2>3 DEF Saved
    <2> QED
      BY <2>2, <2>3
  <1>14. ExpiryStep
    <2> SUFFICES ASSUME store = "file", stored[i] # NoEntry, stored'[i] = NoEntry PROVE FALSE
      BY <1>6 DEF Saved, ExpiryStep
    <2> QED
      BY <1>2, <1>6 DEF Saved, NoEntry
  <1> QED
    BY <1>6, <1>8, <1>12, <1>13, <1>14 DEF Saved, SessionInv, Keeps

LEMMA AfterHandleKeeps ==
  ASSUME SessionInv, NEW c \in Connections, NEW next, ConnOK(next), next.phase = "idle",
         next.node \in {Null, NodeOf(c)}, AfterHandle(c, next), UNCHANGED <<store, index, now>>,
         fate' \in [Ids -> SUBSET Fates],
         \A j \in Ids : /\ fate[j] \subseteq fate'[j]
                        /\ "leaked" \in fate'[j] => "leaked" \in fate[j],
         NodeOf(c) # Null =>
           InUse(c) \/ Newborn(NodeOf(c)) \/ "spoiled" \in fate'[node[NodeOf(c)].session]
  PROVE  SessionInv' /\ ExpiryStep
  <1> DEFINE n == NodeOf(c)
             down == [node EXCEPT ![n].referrers = @ - 1]
  <1>1. /\ node \in [NodeIds -> Nodes] /\ cache \in [Ids -> NodeIds \cup {Null}]
        /\ HeapInv /\ HistoryTypeOK /\ StoreTypeOK /\ n \in NodeIds \cup {Null}
    BY DEF SessionInv, HeapInv, HeapTypeOK, ConnOK, NodeOf
  <1>2. UNCHANGED <<issued, truth, due>> => HistoryGrows
    BY <1>1 DEF HistoryGrows, HistoryTypeOK
  <1>3. CASE /\ n = Null
             /\ Enter(c, next)
             /\ UNCHANGED <<stored, queue, node, cache, issued, truth, due>>
    <2>1. \A d \in Connections : conn'[d].node = conn[d].node
      <3>1. conn'[c] = next /\ \A d \in Connections : d # c => conn'[d] = conn[d]
        BY <1>1, <1>3, EnterChanges DEF HeapInv
      <3> QED
        BY <1>3, <3>1 DEF NodeOf
    <2>2. Held(conn', cache') = Held(conn, cache)
      BY <1>3, <2>1 DEF Held
    <2>3. node' = Counted(node, conn', cache')
      <3>1. \A m \in NodeIds : m \notin Held(conn, cache) => node[m] = NoNode
        BY <1>1 DEF HeapInv, FreeIsEmpty
      <3>2. node = [m \in NodeIds |-> node[m]]
        BY <1>1
      <3> QED
        BY <1>3, <2>2, <3>1, <3>2 DEF Counted
    <2>4. HeapInv'
      BY <1>1, <1>2, <1>3, <2>3, DropStep
    <2> QED
      BY <1>1, <1>2, <1>3, <2>3, <2>4, OnlyHeap DEF storeVars
  <1>4. CASE /\ n # Null /\ ~LastReferrer(n)
             /\ Enter(c, next)
             /\ node' = Counted(down, conn', cache)
             /\ UNCHANGED <<stored, queue, cache, issued, truth, due>>
    <2>1. /\ down \in [NodeIds -> Nodes]
          /\ \A m \in NodeIds : down[m].entries = node[m].entries /\ down[m].dirty = node[m].dirty
      BY <1>1, <1>4 DEF Nodes
    <2>2. ~Newborn(n)
      BY <1>1, <1>4 DEF Newborn, LastReferrer, HeapInv, NodesAreSound
    <2>3. HeapInv'
      BY <1>1, <1>2, <1>4, <2>2, LeaveStep
    <2>4. node' = Counted(down, conn', cache')
      BY <1>4
    <2> HIDE DEF down
    <2> QED
      BY <1>1, <1>2, <1>4, <2>1, <2>3, <2>4, OnlyHeap DEF storeVars
  <1>5. ASSUME n # Null, LastReferrer(n),
               NEW i \in IF Newborn(n) THEN Ids \ issued ELSE {node[n].session},
               LET nodes == [down EXCEPT ![n].session = i, ![n].refresh = @ \/ Newborn(n)]
               IN  /\ Enter(c, next)
                   /\ cache' = IF Newborn(n) THEN cache ELSE [cache EXCEPT ![i] = Null]
                   /\ Save(n, i, nodes)
                   /\ issued' = IF nodes[n].refresh THEN issued \cup {i} ELSE issued
                   /\ truth' = IF Newborn(n) THEN [truth EXCEPT ![i] = node[n].entries] ELSE truth
                   /\ due' = IF nodes[n].refresh THEN [due EXCEPT ![i] = now + Lifetime] ELSE due
        PROVE  SessionInv' /\ ExpiryStep
    <2> DEFINE named == [down EXCEPT ![n].session = i]
               nodes == [named EXCEPT ![n].refresh = @ \/ Newborn(n)]
    <2>1. n \in NodeIds
      BY <1>1, <1>5
    <2>2. i \in Ids /\ (IF Newborn(n) THEN i \notin issued ELSE i = node[n].session)
      <3>1. CASE Newborn(n)
        BY <1>5, <3>1
      <3>2. CASE ~Newborn(n)
        BY <1>1, <1>5, <2>1, <3>2 DEF Newborn, Nodes
      <3> QED
        BY <3>1, <3>2
    <2>3. /\ down \in [NodeIds -> Nodes] /\ \A m \in NodeIds : m # n => down[m] = node[m]
          /\ down[n].entries = node[n].entries /\ down[n].dirty = node[n].dirty
      BY <1>1, <2>1 DEF Nodes
    <2> HIDE DEF down
    <2>4. /\ named \in [NodeIds -> Nodes] /\ \A m \in NodeIds : m # n => named[m] = node[m]
          /\ named[n].entries = node[n].entries /\ named[n].dirty = node[n].dirty
          /\ named[n].session = i
      BY <2>1, <2>2, <2>3 DEF Nodes
    <2> HIDE DEF named
    <2>5. (named[n].refresh \/ Newborn(n)) \in BOOLEAN
      OBVIOUS
    <2>6. /\ nodes \in [NodeIds -> Nodes] /\ \A m \in NodeIds : m # n => nodes[m] = node[m]
          /\ nodes[n].entries = node[n].entries /\ nodes[n].dirty = node[n].dirty
          /\ nodes[n].session = i /\ nodes[n].refresh = (named[n].refresh \/ Newborn(n))
      BY <2>1, <2>4, <2>5 DEF Nodes
    <2>7. /\ Enter(c, next)
          /\ cache' = IF Newborn(n) THEN cache ELSE [cache EXCEPT ![i] = Null]
          /\ Save(n, i, nodes)
          /\ issued' = IF nodes[n].refresh THEN issued \cup {i} ELSE issued
          /\ truth' = IF Newborn(n) THEN [truth EXCEPT ![i] = node[n].entries] ELSE truth
          /\ due' = IF nodes[n].refresh THEN [due EXCEPT ![i] = now + Lifetime] ELSE due
      BY <1>5 DEF named
    <2>8. Newborn(n) => nodes[n].refresh
      BY <2>6
    <2> HIDE DEF nodes
    <2>9. InUse(c) \/ Newborn(n) \/ "spoiled" \in fate'[i]
      BY <1>5, <2>2
    <2> HIDE DEF n
    <2>10. NodeOf(c) = n
      BY DEF n
    <2>11. next.node \in {Null, n}
      BY DEF n
    <2>12. LastReferrer(n)
      BY <1>5
    <2>13. GivesBack(c, n, i, next, nodes)
      BY <2>2, <2>6, <2>7, <2>8, <2>9, <2>10, <2>11, <2>12 DEF GivesBack
    <2> QED
      BY <2>1, <2>2, <2>6, <2>13, LastAfterHandleKeeps
  <1>6. \/ n = Null /\ Enter(c, next)
           /\ UNCHANGED <<stored, queue, node, cache, issued, truth, due>>
        \/ n # Null /\ ~LastReferrer(n) /\ Enter(c, next)
           /\ node' = Counted(down, conn', cache)
           /\ UNCHANGED <<stored, queue, cache, issued, truth, due>>
        \/ n # Null /\ LastReferrer(n)
           /\ \E i \in IF Newborn(n) THEN Ids \ issued ELSE {node[n].session} :
               LET nodes == [down EXCEPT ![n].session = i, ![n].refresh = @ \/ Newborn(n)]
               IN  /\ Enter(c, next)
                   /\ cache' = IF Newborn(n) THEN cache ELSE [cache EXCEPT ![i] = Null]
                   /\ Save(n, i, nodes)
                   /\ issued' = IF nodes[n].refresh THEN issued \cup {i} ELSE issued
                   /\ truth' = IF Newborn(n) THEN [truth EXCEPT ![i] = node[n].entries] ELSE truth
                   /\ due' = IF nodes[n].refresh THEN [due EXCEPT ![i] = now + Lifetime] ELSE due
    BY Zenon DEF AfterHandle
  <1> QED
    BY <1>3, <1>4, <1>5, <1>6

\* A handler's change is what the session holds from then on.
LEMMA ChangeKeeps ==
  ASSUME SessionInv, NEW c \in Connections, Phase(c) = "handling", NEW changed \in Nodes,
         changed.session = node[CheckNode(c)].session,
         changed.referrers = node[CheckNode(c)].referrers,
         changed.session = NoId /\ ~changed.dirty => changed.entries = 0,
         \/ changed.dirty
         \/ /\ changed.entries = node[CheckNode(c)].entries
            /\ changed.dirty = node[CheckNode(c)].dirty,
         Change(c, CheckNode(c), changed)
  PROVE  SessionInv' /\ ExpiryStep
  <1> DEFINE n == CheckNode(c)
             s == changed.session
  <1>1. /\ node \in [NodeIds -> Nodes] /\ cache \in [Ids -> NodeIds \cup {Null}]
        /\ HeapInv /\ HistoryTypeOK /\ StoreTypeOK
    BY DEF SessionInv, HeapInv, HeapTypeOK
  <1>2. /\ n \in NodeIds /\ n # Null
        /\ NodeOf(c) # Null => n = NodeOf(c)
        /\ NodeOf(c) = Null => node[n] = NoNode
    BY <1>1, CheckedNode, Apart
  <1>3. HeapInv'
    BY <1>1, ChangeStep
  <1>4. /\ UNCHANGED <<store, stored, queue, index, now, cache, issued, due, fate>>
        /\ truth' = IF s = NoId THEN truth ELSE [truth EXCEPT ![s] = changed.entries]
        /\ node' = [node EXCEPT ![n] = changed]
    BY DEF Change, storeVars
  <1>5. node'[n] = changed /\ \A m \in NodeIds : m # n => node'[m] = node[m]
    BY <1>1, <1>2, <1>4
  <1>6. ASSUME s # NoId, Whole(s) PROVE cache[s] = n
    <2>1. NodeOf(c) # Null /\ n = NodeOf(c)
      BY <1>2, <1>6 DEF NoNode
    <2>2. InUse(c) /\ ~Newborn(NodeOf(c))
      BY <1>6, <2>1 DEF InUse, Newborn
    <2> QED
      BY <1>1, <1>6, <2>1, <2>2 DEF HeapInv, UsedIsCached, Whole
  <1>7. ASSUME NEW j \in Ids PROVE KeptAt(j)'
    <2>1. KeptAt(j)
      BY DEF SessionInv, Keeps
    <2>2. Whole(j)' <=> Whole(j)
      BY <1>4 DEF Whole
    <2>3. Kept(j)' = Kept(j)
      BY <1>4 DEF Kept
    <2>4. CASE j = s /\ Whole(j) /\ j \in issued
      <3>1. cache[j] = n
        BY <1>6, <2>4, Apart
      <3>2. truth'[j] = changed.entries
        BY <1>1, <1>4, <2>4, Apart DEF HistoryTypeOK
      <3>3. /\ node[n].entries = truth[j]
            /\ store = "file" /\ ~node[n].dirty => Kept(j) = truth[j]
        BY <1>2, <2>1, <2>4, <3>1 DEF KeptAt
      <3>4. node'[cache'[j]] = changed
        BY <1>4, <1>5, <3>1
      <3>5. store' = "file" /\ ~changed.dirty => Kept(j)' = changed.entries
        BY <1>4, <2>3, <3>3
      <3>6. cache'[j] # Null /\ j \in issued'
        BY <1>2, <1>4, <2>4, <3>1
      <3> QED
        BY <3>2, <3>4, <3>5, <3>6 DEF KeptAt
    <2>5. CASE j # s
      <3>1. truth'[j] = truth[j]
        BY <1>1, <1>4, <2>5 DEF HistoryTypeOK
      <3>2. cache[j] # Null => node'[cache[j]] = node[cache[j]]
        <4> SUFFICES ASSUME cache[j] # Null PROVE node'[cache[j]] = node[cache[j]]
          OBVIOUS
        <4>1. cache[j] \in NodeIds /\ node[cache[j]].session = j
          BY <1>1 DEF HeapInv, CachedBySession
        <4>2. cache[j] # n
          BY <2>5, <4>1
        <4> QED
          BY <1>5, <4>1, <4>2
      <3> QED
        BY <1>4, <2>1, <3>1, <3>2, StaysKept
    <2>6. CASE ~Whole(j) \/ j \notin issued
      <3>1. j \notin issued => stored'[j] = NoEntry
        BY <1>4, <2>1 DEF KeptAt
      <3> QED
        BY <1>4, <2>2, <2>6, <3>1 DEF KeptAt
    <2> QED
      BY <2>4, <2>5, <2>6
  <1>8. StoreTypeOK' /\ QueuedAsDue' /\ ExpiryStep
    BY <1>4 DEF SessionInv, StoreTypeOK, QueuedAsDue, ExpiryStep
  <1> QED
    BY <1>3, <1>7, <1>8 DEF SessionInv, Keeps

\* The process starts with the times that were written down; what it cannot know is lost.
LEMMA StartKeeps ==
  ASSUME SessionInv, NEW times \in SUBSET (Nat \X Ids), NEW lost, Cached \subseteq lost,
         store = "file" => \A p \in times : p \in queue \/ p[2] \in lost,
         Start(times, lost)
  PROVE  SessionInv' /\ ExpiryStep
  <1>1. HistoryTypeOK /\ StoreTypeOK /\ HeapInv
    BY DEF SessionInv, HeapInv
  <1>2. UNCHANGED <<store, now, issued, truth, due>>
    BY DEF Start
  <1>3. CASE store = "memory"
    <2>1. /\ stored' = [i \in Ids |-> NoEntry] /\ queue' = {} /\ index' = times
          /\ fate' = With(fate, Ids, "lost") /\ cache' = [i \in Ids |-> Null]
      BY <1>3 DEF Start
    <2>2. fate' \in [Ids -> SUBSET Fates] /\ \A i \in Ids : "lost" \in fate'[i]
      BY <1>1, <2>1, WithGrows DEF Fates
    <2>3. HistoryTypeOK'
      BY <1>1, <1>2, <2>2 DEF HistoryTypeOK
    <2>4. HeapInv'
      BY <2>3, EmptyHeap DEF Start
    <2>5. StoreTypeOK'
      BY <1>1, <1>2, <2>1 DEF StoreTypeOK
    <2>6. ASSUME NEW i \in Ids PROVE KeptAt(i)'
      BY <2>1, <2>2 DEF KeptAt, Whole
    <2>7. QueuedAsDue' /\ ExpiryStep
      BY <1>2, <1>3, <2>1 DEF QueuedAsDue, ExpiryStep
    <2> QED
      BY <2>4, <2>5, <2>6, <2>7 DEF SessionInv, Keeps
  <1>4. CASE store = "file"
    <2> DEFINE O == IdsOf(Overdue(times))
    <2>1. /\ stored' = Without(O) /\ index' = times /\ cache' = [i \in Ids |-> Null]
          /\ queue' \subseteq times
          /\ fate' = With(With(fate, O, "expired"), lost, "lost")
      BY <1>4 DEF Start
    <2>2. /\ fate' \in [Ids -> SUBSET Fates]
          /\ \A i \in Ids : /\ fate[i] \subseteq fate'[i]
                            /\ i \in O => "expired" \in fate'[i]
                            /\ i \in lost => "lost" \in fate'[i]
      <3> HIDE DEF O
      <3> DEFINE F == With(fate, O, "expired")
      <3>1. fate' = [i \in Ids |-> IF i \in lost THEN F[i] \cup {"lost"} ELSE F[i]]
        BY <2>1 DEF With
      <3>2. /\ F \in [Ids -> SUBSET Fates]
            /\ \A i \in Ids : fate[i] \subseteq F[i] /\ (i \in O => "expired" \in F[i])
        BY <1>1, WithGrows DEF Fates
      <3> HIDE DEF F
      <3> QED
        BY <3>1, <3>2 DEF Fates
    <2>3. HistoryTypeOK'
      BY <1>1, <1>2, <2>2 DEF HistoryTypeOK
    <2>4. HeapInv'
      BY <2>3, EmptyHeap DEF Start
    <2>5. /\ stored' \in [Ids -> Nat \cup {NoEntry}]
          /\ \A i \in Ids : stored'[i] = IF i \in O THEN NoEntry ELSE stored[i]
      BY <1>1, <2>1 DEF Without, StoreTypeOK
    <2>6. StoreTypeOK'
      BY <1>1, <1>2, <2>1, <2>5 DEF StoreTypeOK
    <2>7. \A p \in times : /\ p[2] \in Ids
                           /\ p[1] = due[p[2]] \/ "lost" \in fate'[p[2]]
      <3> TAKE p \in times
      <3>1. p[2] \in Ids
        OBVIOUS
      <3>2. CASE p \in queue
        BY <1>4, <2>2, <3>1, <3>2 DEF SessionInv, QueuedAsDue
      <3>3. CASE p[2] \in lost
        BY <2>2, <3>1, <3>3
      <3> QED
        BY <1>4, <3>1, <3>2, <3>3
    <2>8. ASSUME NEW i \in Ids PROVE KeptAt(i)'
      <3>1. KeptAt(i)
        BY DEF SessionInv, Keeps
      <3>2. i \notin issued => stored'[i] = NoEntry
        BY <2>5, <3>1 DEF KeptAt
      <3>3. ASSUME i \in issued, Whole(i)' PROVE Kept(i)' = truth[i]
        <4>1. Whole(i) /\ i \notin O /\ i \notin lost
          BY <2>2, <3>3 DEF Whole
        <4>2. cache[i] = Null
          BY <4>1 DEF Cached
        <4> QED
          BY <2>5, <3>1, <3>3, <4>1, <4>2 DEF KeptAt, Kept
      <3> QED
        BY <1>2, <2>1, <3>2, <3>3 DEF KeptAt
    <2>9. QueuedAsDue'
      BY <1>2, <2>1, <2>7 DEF QueuedAsDue
    <2>10. ExpiryStep
      <3> SUFFICES ASSUME NEW i \in Ids, stored[i] # NoEntry, stored'[i] = NoEntry
                   PROVE  now > due[i] \/ "lost" \in fate'[i]
        BY DEF ExpiryStep
      <3>1. i \in O
        BY <2>5
      <3>2. PICK p \in times : now > p[1] /\ p[2] = i
        BY <3>1 DEF IdsOf, Overdue
      <3> QED
        BY <2>7, <3>2
    <2> QED
      BY <2>4, <2>6, <2>8, <2>9, <2>10 DEF SessionInv, Keeps
  <1> QED
    BY <1>1, <1>3, <1>4 DEF StoreTypeOK

-----------------------------------------------------------------------------
(* The actions                                                              *)
LEMMA Initially == Init => SessionInv
  <1> SUFFICES ASSUME Init PROVE SessionInv
    OBVIOUS
  <1>1. StoreTypeOK
    BY DEF Init, StoreTypeOK, NoEntry
  <1>2. HeapTypeOK /\ HistoryTypeOK
    BY DEF Init, HeapTypeOK, HistoryTypeOK, ConnOK, Idle, Phases, NoNode, Nodes, NoId, Null, Never
  <1>3. NodesAreSound /\ FreeIsEmpty /\ CachedBySession
    BY DEF Init, NodesAreSound, FreeIsEmpty, CachedBySession, NoNode
  <1>4. NewIsUnshared /\ UsedIsCached /\ ReferrersCount
    BY DEF Init, NewIsUnshared, UsedIsCached, ReferrersCount, NodeOf, InUse, Phase, Idle
  <1>5. Keeps /\ QueuedAsDue
    BY DEF Init, Keeps, KeptAt, QueuedAsDue
  <1> QED
    BY <1>1, <1>2, <1>3, <1>4, <1>5 DEF SessionInv, HeapInv

LEMMA IdleIsOK == ConnOK(Idle) /\ Idle.node = Null /\ Idle.phase = "idle"
  BY DEF ConnOK, Idle, Phases

LEMMA BeginKeeps ==
  ASSUME SessionInv, NEW c \in Connections, Begin(c)
  PROVE  SessionInv' /\ ExpiryStep
  <1>1. /\ Phase(c) = "idle" /\ UNCHANGED <<store, index, now, issued, truth, due>>
        /\ \E r \in Requests, i \in issued \cup {NoId} :
             BeginRefused(c, r) \/ BeginPage(c, r, i) \/ BeginUpgrade(c, r, i)
    BY DEF Begin
  <1>2. PICK r \in Requests, i \in issued \cup {NoId} :
             BeginRefused(c, r) \/ BeginPage(c, r, i) \/ BeginUpgrade(c, r, i)
    BY <1>1
  <1>3. CASE BeginRefused(c, r)
    <2>1. /\ Enter(c, Idle) /\ node' = Counted(node, conn', cache)
          /\ UNCHANGED <<stored, queue, cache, fate>>
      BY <1>3 DEF BeginRefused
    <2>2. HistoryGrows
      BY <1>1, <2>1 DEF HistoryGrows, HistoryTypeOK, SessionInv, HeapInv
    <2>3. node \in [NodeIds -> Nodes] /\ HeapInv /\ ~InUse(c)
      BY <1>1 DEF SessionInv, HeapInv, HeapTypeOK, InUse
    <2>4. HeapInv'
      BY <2>1, <2>2, <2>3, IdleIsOK, DropStep
    <2> QED
      BY <1>1, <2>1, <2>2, <2>3, <2>4, OnlyHeap DEF storeVars
  <1>4. CASE BeginPage(c, r, i)
    <2> DEFINE next == [phase |-> PhaseAfter(r), node |-> Null, request |-> r,
                        calls |-> CallHelper(Globals, r.stop) \o LocalCalls(r)]
    <2>1. BeforeHandle(c, i, next)
      BY <1>4 DEF BeginPage
    <2>2. ConnOK(next) /\ next.node = Null /\ next.phase # "idle"
      BY DEF ConnOK, PhaseAfter, Phases
    <2> HIDE DEF next
    <2> QED
      BY <1>1, <2>1, <2>2, BeforeHandleKeeps
  <1>5. CASE BeginUpgrade(c, r, i)
    <2> DEFINE next == [Idle EXCEPT !.phase = "upgraded"]
    <2>1. BeforeHandle(c, i, next)
      BY <1>5 DEF BeginUpgrade
    <2>2. ConnOK(next) /\ next.node = Null /\ next.phase # "idle"
      BY DEF ConnOK, Idle, Phases
    <2> HIDE DEF next
    <2> QED
      BY <1>1, <2>1, <2>2, BeforeHandleKeeps
  <1> QED
    BY <1>2, <1>3, <1>4, <1>5

LEMMA MissingKeeps ==
  ASSUME SessionInv, NEW c \in Connections, Missing(c)
  PROVE  SessionInv' /\ ExpiryStep
  <1>1. /\ AfterHandle(c, Idle) /\ UNCHANGED <<store, index, now>>
        /\ fate' = IF NodeOf(c) = Null THEN fate
                     ELSE With(fate, {node[NodeOf(c)].session}, "spoiled")
    BY DEF Missing
  <1>2. HeapInv /\ HistoryTypeOK /\ NodeOf(c) \in NodeIds \cup {Null} /\ node \in [NodeIds -> Nodes]
    BY DEF SessionInv, HeapInv, HeapTypeOK, ConnOK, NodeOf
  <1>3. /\ fate' \in [Ids -> SUBSET Fates]
        /\ \A j \in Ids : /\ fate[j] \subseteq fate'[j]
                          /\ "leaked" \in fate'[j] => "leaked" \in fate[j]
    <2>1. CASE NodeOf(c) = Null
      BY <1>1, <1>2, <2>1 DEF HistoryTypeOK
    <2>2. CASE NodeOf(c) # Null
      BY <1>1, <1>2, <2>2, WithGrows DEF Fates
    <2> QED
      BY <2>1, <2>2
  <1>4. NodeOf(c) # Null =>
           InUse(c) \/ Newborn(NodeOf(c)) \/ "spoiled" \in fate'[node[NodeOf(c)].session]
    <2> SUFFICES ASSUME NodeOf(c) # Null, ~Newborn(NodeOf(c))
                 PROVE  "spoiled" \in fate'[node[NodeOf(c)].session]
      OBVIOUS
    <2>1. node[NodeOf(c)].session \in Ids
      BY <1>2 DEF Newborn, Nodes
    <2> QED
      BY <1>1, <1>2, <2>1, WithGrows DEF Fates
  <1> QED
    BY <1>1, <1>3, <1>4, IdleIsOK, AfterHandleKeeps

LEMMA FinishKeeps ==
  ASSUME SessionInv, NEW c \in Connections, Finish(c)
  PROVE  SessionInv' /\ ExpiryStep
  <1> DEFINE next == [Idle EXCEPT !.node = NodeOf(c)]
  <1>1. /\ AfterHandle(c, next) /\ UNCHANGED <<store, index, now, fate>> /\ InUse(c)
    BY DEF Finish, InUse
  <1>2. HistoryTypeOK /\ NodeOf(c) \in NodeIds \cup {Null}
    BY DEF SessionInv, HeapInv, HeapTypeOK, ConnOK, NodeOf
  <1>3. ConnOK(next) /\ next.phase = "idle" /\ next.node = NodeOf(c)
    BY <1>2 DEF ConnOK, Idle, Phases
  <1>4. /\ fate' \in [Ids -> SUBSET Fates]
        /\ \A j \in Ids : /\ fate[j] \subseteq fate'[j]
                          /\ "leaked" \in fate'[j] => "leaked" \in fate[j]
    BY <1>1, <1>2 DEF HistoryTypeOK
  <1> HIDE DEF next
  <1> QED
    BY <1>1, <1>3, <1>4, AfterHandleKeeps

LEMMA ReconnectKeeps ==
  ASSUME SessionInv, NEW c \in Connections, Reconnect(c)
  PROVE  SessionInv' /\ ExpiryStep
  <1>1. /\ Phase(c) \in {"idle", "stuck", "upgraded"}
        /\ Enter(c, Idle) /\ node' = Counted(node, conn', cache')
        /\ fate' = IF Phase(c) = "idle" \/ NodeOf(c) = Null \/ Newborn(NodeOf(c)) THEN fate
                     ELSE With(fate, {node[NodeOf(c)].session}, "leaked")
        /\ UNCHANGED <<store, storeVars, now, cache, issued, truth, due>>
    BY DEF Reconnect
  <1>2. HeapInv /\ HistoryTypeOK /\ node \in [NodeIds -> Nodes]
    BY DEF SessionInv, HeapInv, HeapTypeOK
  <1>3. /\ fate' \in [Ids -> SUBSET Fates]
        /\ \A j \in Ids : fate[j] \subseteq fate'[j]
        /\ \A j \in Ids : InUse(c) /\ NodeOf(c) # Null /\ node[NodeOf(c)].session = j =>
             "leaked" \in fate'[j]
    <2>1. CASE Phase(c) = "idle" \/ NodeOf(c) = Null \/ Newborn(NodeOf(c))
      BY <1>1, <1>2, <2>1, Apart DEF HistoryTypeOK, InUse, Newborn
    <2>2. CASE ~(Phase(c) = "idle" \/ NodeOf(c) = Null \/ Newborn(NodeOf(c)))
      BY <1>1, <1>2, <2>2, WithGrows DEF Fates
    <2> QED
      BY <2>1, <2>2
  <1>4. HistoryGrows
    BY <1>1, <1>2, <1>3 DEF HistoryGrows, HistoryTypeOK
  <1>5. HeapInv'
    BY <1>1, <1>2, <1>3, <1>4, IdleIsOK, DropStep
  <1> QED
    BY <1>1, <1>2, <1>4, <1>5, OnlyHeap

\* What the handlers may do with a node.
LEMMA HandlerKeeps ==
  ASSUME SessionInv, NEW c \in Connections,
         Apply(c) \/ Set(c) \/ RemoveKey(c) \/ RefreshExpiration(c) \/ Mutex(c)
  PROVE  SessionInv' /\ ExpiryStep
  <1> DEFINE n == CheckNode(c)
             m == node[n]
  <1>1. n \in NodeIds /\ m \in Nodes /\ (NodeOf(c) = Null => m = NoNode)
    BY CheckedNode DEF SessionInv, HeapInv, HeapTypeOK
  <1>2. Phase(c) = "handling"
    BY DEF Apply, Set, RemoveKey, RefreshExpiration, Mutex
  <1>3. m.session = NoId /\ ~m.dirty => m.entries = 0
    BY <1>1 DEF SessionInv, HeapInv, NodesAreSound
  <1>4. NodeOf(c) # Null => n = NodeOf(c)
    BY CheckedNode DEF SessionInv
  <1>5. \E changed \in Nodes :
          /\ changed.session = m.session /\ changed.referrers = m.referrers
          /\ changed.dirty \/ (changed.entries = m.entries /\ changed.dirty = m.dirty)
          /\ Change(c, n, changed)
    <2>1. CASE Apply(c)
      <3>1. /\ Applied(m) \in Nodes /\ Applied(m).session = m.session
            /\ Applied(m).referrers = m.referrers /\ Applied(m).dirty
        <4> DEFINE a == [m EXCEPT !.entries = @ + 1]
        <4>1. a \in Nodes /\ a.session = m.session /\ a.referrers = m.referrers
          BY <1>1 DEF Nodes
        <4> HIDE DEF a
        <4>2. LET b == [a EXCEPT !.dirty = TRUE]
              IN  b \in Nodes /\ b.session = m.session /\ b.referrers = m.referrers /\ b.dirty
          BY <4>1 DEF Nodes
        <4> QED
          BY <4>2 DEF Applied, a
      <3>2. Change(c, n, Applied(m))
        BY <2>1 DEF Apply
      <3> QED
        BY <3>1, <3>2
    <2>2. CASE Set(c)
      <3>1. PICK v \in 1 .. MaxValue : Change(c, n, [m EXCEPT !.entries = v, !.dirty = TRUE])
        BY <2>2 DEF Set
      <3> DEFINE a == [m EXCEPT !.entries = v]
                 b == [a EXCEPT !.dirty = TRUE]
      <3>2. v \in Nat
        BY SessionsAssumption
      <3>3. a \in Nodes /\ a.session = m.session /\ a.referrers = m.referrers
        BY <1>1, <3>2 DEF Nodes
      <3>4. Change(c, n, b)
        BY <3>1
      <3> HIDE DEF a
      <3>5. b \in Nodes /\ b.session = m.session /\ b.referrers = m.referrers /\ b.dirty
        BY <3>3 DEF Nodes
      <3> HIDE DEF b
      <3> QED
        BY <3>4, <3>5
    <2>3. CASE RemoveKey(c)
      <3>1. Change(c, n, [m EXCEPT !.entries = 0, !.dirty = TRUE])
        BY <1>4, <2>3 DEF RemoveKey
      <3> DEFINE a == [m EXCEPT !.entries = 0]
                 b == [a EXCEPT !.dirty = TRUE]
      <3>3. a \in Nodes /\ a.session = m.session /\ a.referrers = m.referrers
        BY <1>1 DEF Nodes
      <3>4. Change(c, n, b)
        BY <3>1
      <3> HIDE DEF a
      <3>5. b \in Nodes /\ b.session = m.session /\ b.referrers = m.referrers /\ b.dirty
        BY <3>3 DEF Nodes
      <3> HIDE DEF b
      <3> QED
        BY <3>4, <3>5
    <2>4. CASE RefreshExpiration(c)
      <3> DEFINE b == [m EXCEPT !.refresh = TRUE]
      <3>1. Change(c, n, b)
        BY <1>4, <2>4 DEF RefreshExpiration
      <3>2. /\ b \in Nodes /\ b.session = m.session /\ b.referrers = m.referrers
            /\ b.entries = m.entries /\ b.dirty = m.dirty
        BY <1>1 DEF Nodes
      <3> HIDE DEF b
      <3> QED
        BY <3>1, <3>2
    <2>5. CASE Mutex(c)
      <3>1. NodeOf(c) = Null /\ Change(c, FreeNode, NoNode)
        BY <2>5 DEF Mutex
      <3>2. FreeNode = n /\ m = NoNode
        BY <1>1, <3>1 DEF CheckNode
      <3> QED
        BY <1>1, <3>1, <3>2
    <2> QED
      BY <2>1, <2>2, <2>3, <2>4, <2>5
  <1>6. PICK changed \in Nodes :
          /\ changed.session = m.session /\ changed.referrers = m.referrers
          /\ changed.dirty \/ (changed.entries = m.entries /\ changed.dirty = m.dirty)
          /\ Change(c, n, changed)
    BY <1>5
  <1>7. changed.session = NoId /\ ~changed.dirty => changed.entries = 0
    BY <1>3, <1>6
  <1> QED
    BY <1>2, <1>6, <1>7, ChangeKeeps

LEMMA TickKeeps ==
  ASSUME SessionInv, Tick
  PROVE  SessionInv' /\ ExpiryStep
  <1>1. /\ now' \in Nat
        /\ UNCHANGED <<store, stored, queue, index, node, cache, conn, issued, truth, due, fate>>
    BY DEF Tick, SessionInv, StoreTypeOK, storeVars, history
  <1>2. HeapInv'
    BY <1>1, SameHeap DEF SessionInv
  <1>3. HistoryGrows
    BY <1>1 DEF HistoryGrows, HistoryTypeOK, SessionInv, HeapInv
  <1> QED
    BY <1>1, <1>2, <1>3, SameContents

LEMMA ProcessKeeps ==
  ASSUME SessionInv, Restart \/ Crash
  PROVE  SessionInv' /\ ExpiryStep
  <1>1. /\ queue \in SUBSET (Nat \X Ids) /\ index \in SUBSET (Nat \X Ids)
        /\ {} \in SUBSET (Nat \X Ids)
    BY DEF SessionInv, StoreTypeOK
  <1>2. CASE Restart
    <2> DEFINE times == IF store = "file" THEN queue ELSE {}
    <2>1. Start(times, Cached)
      BY <1>2 DEF Restart
    <2>2. times \in SUBSET (Nat \X Ids) /\ (store = "file" => times = queue)
      BY <1>1
    <2> HIDE DEF times
    <2> QED
      BY <2>1, <2>2, StartKeeps
  <1>3. CASE Crash
    <2>1. Start(index, Cached \cup Forgotten)
      BY <1>3 DEF Crash
    <2>2. \A p \in index : p \in queue \/ p[2] \in Cached \cup Forgotten
      BY DEF Forgotten, IdsOf
    <2>3. Cached \subseteq Cached \cup Forgotten
      OBVIOUS
    <2> QED
      BY <1>1, <2>1, <2>2, <2>3, StartKeeps
  <1> QED
    BY <1>2, <1>3

LEMMA Stutters ==
  ASSUME SessionInv, UNCHANGED vars
  PROVE  SessionInv' /\ ExpiryStep
  <1>1. UNCHANGED <<store, stored, queue, index, now, node, cache, conn, issued, truth, due, fate>>
    BY DEF vars, storeVars, heapVars, history
  <1>2. HeapInv'
    BY <1>1, SameHeap DEF SessionInv
  <1>3. HistoryGrows /\ now' \in Nat
    BY <1>1 DEF HistoryGrows, HistoryTypeOK, SessionInv, HeapInv, StoreTypeOK
  <1> QED
    BY <1>1, <1>2, <1>3, SameContents

LEMMA NextKeeps == SessionInv /\ [Next]_vars => SessionInv' /\ ExpiryStep
  <1> SUFFICES ASSUME SessionInv, [Next]_vars PROVE SessionInv' /\ ExpiryStep
    OBVIOUS
  <1>1. ASSUME NEW c \in Connections, Begin(c) PROVE SessionInv' /\ ExpiryStep
    BY <1>1, BeginKeeps
  <1>2. ASSUME NEW c \in Connections, Missing(c) PROVE SessionInv' /\ ExpiryStep
    BY <1>2, MissingKeeps
  <1>3. ASSUME NEW c \in Connections, Finish(c) PROVE SessionInv' /\ ExpiryStep
    BY <1>3, FinishKeeps
  <1>4. ASSUME NEW c \in Connections, Reconnect(c) PROVE SessionInv' /\ ExpiryStep
    BY <1>4, ReconnectKeeps
  <1>5. ASSUME NEW c \in Connections,
               Apply(c) \/ Set(c) \/ RemoveKey(c) \/ RefreshExpiration(c) \/ Mutex(c)
        PROVE  SessionInv' /\ ExpiryStep
    BY <1>5, HandlerKeeps
  <1>6. CASE Tick
    BY <1>6, TickKeeps
  <1>7. CASE Restart \/ Crash
    BY <1>7, ProcessKeeps
  <1>8. CASE UNCHANGED vars
    BY <1>8, Stutters
  <1> QED
    BY <1>1, <1>2, <1>3, <1>4, <1>5, <1>6, <1>7, <1>8 DEF Next

LEMMA SessionInvHolds == Spec => []SessionInv
  BY Initially, NextKeeps, PTL DEF Spec

-----------------------------------------------------------------------------
(* Requests of one session that overlap share one node, which is in the     *)
(* cache; and what is in the cache is in use, or its reference was never    *)
(* given back (SessionMiddleware::before_handle and after_handle).          *)
THEOREM SessionsAreShared == Spec => []CachedWhileInUse
  <1>1. ASSUME SessionInv PROVE CachedWhileInUse
    <2>1. UsedIsCached /\ ReferrersCount /\ HeapTypeOK
      BY <1>1 DEF SessionInv, HeapInv
    <2>2. ASSUME NEW i \in Ids, cache[i] # Null,
                 ~ \E c \in Connections : InUse(c) /\ NodeOf(c) = cache[i]
          PROVE  fate[i] \cap {"leaked", "spoiled"} # {}
      <3> SUFFICES ASSUME "leaked" \notin fate[i], "spoiled" \notin fate[i] PROVE FALSE
        OBVIOUS
      <3>1. Users(cache[i]) = {}
        BY <2>2 DEF Users
      <3>2. Cardinality(Users(cache[i])) = 0
        BY <3>1, FS_EmptySet
      <3> QED
        BY <2>1, <2>2, <3>2 DEF ReferrersCount
    <2> QED
      BY <2>1, <2>2 DEF CachedWhileInUse, UsedIsCached
  <1> QED
    BY <1>1, SessionInvHolds, PTL

(* A session holds what was last written to it, by whichever request, in    *)
(* the cache or in the store, until it expires or the process is killed; a  *)
(* 404 on a connection that used it is the one exception.                   *)
THEOREM WritesAreKept == Spec => []SessionsAreKept
  <1>1. ASSUME SessionInv PROVE SessionsAreKept
    <2> SUFFICES ASSUME NEW i \in issued, fate[i] \cap {"spoiled", "expired", "lost"} = {}
                 PROVE  Visible(i) = truth[i]
      BY DEF SessionsAreKept
    <2>1. KeptAt(i)
      BY <1>1 DEF SessionInv, Keeps, HeapInv, HistoryTypeOK
    <2> QED
      BY <2>1 DEF KeptAt, Whole, Kept, Visible
  <1> QED
    BY <1>1, SessionInvHolds, PTL

(* A session's file is deleted only after the time its last cookie promised, *)
(* unless the process was killed before it wrote the times down (FileStore   *)
(* and its ExpirationTracker).                                               *)
THEOREM PromisesAreKept == Spec => ExpiryIsKept
  <1>1. SessionInv /\ [Next]_vars => [ExpiryStep]_vars
    BY NextKeeps
  <1> QED
    BY <1>1, SessionInvHolds, PTL DEF Spec, ExpiryIsKept, ExpiryStep
-----------------------------------------------------------------------------
(* That the calls nest.  First the lists of middlewares: a set of numbers    *)
(* has one ascending list (InOrder), and the criteria pick from the          *)
(* application's middlewares those that a rule enabled, by a slider that     *)
(* walks that list.  Then nests of calls, made by surrounding and by joining. *)
(* CallsInv adds to the property what it needs of a request in progress: the *)
(* calls it has made are those of the global middlewares and of its rule, up *)
(* to where it is.                                                          *)
-----------------------------------------------------------------------------
(* Ascending lists.                                                         *)

\* A list of k numbers that ascends and has all of a set.
Lists(list, k, ms) ==
  /\ list \in [1 .. k -> ms]
  /\ \A i, j \in 1 .. k : i < j => list[i] < list[j]
  /\ \A m \in ms : \E i \in 1 .. k : list[i] = m

Listable(n) == \A ms \in SUBSET (1 .. n) : \E k \in Nat : \E list : Lists(list, k, ms)

LEMMA AscendingLists == \A n \in Nat : Listable(n)
  <1> DEFINE P == {n \in Nat : Listable(n)}
  <1>1. Listable(0)
    <2>1. Lists([i \in 1 .. 0 |-> i], 0, {})
      BY DEF Lists
    <2>2. \A ms \in SUBSET (1 .. 0) : ms = {}
      OBVIOUS
    <2> QED
      BY <2>1, <2>2 DEF Listable
  <1>2. ASSUME NEW n \in Nat, Listable(n) PROVE Listable(n + 1)
    <2> SUFFICES ASSUME NEW S \in SUBSET (1 .. n + 1)
                 PROVE  \E k \in Nat : \E list : Lists(list, k, S)
      BY DEF Listable
    <2> DEFINE T == S \ {n + 1}
    <2>1. T \in SUBSET (1 .. n)
      OBVIOUS
    <2>2. PICK k \in Nat : \E list : Lists(list, k, T)
      BY <1>2, <2>1 DEF Listable
    <2>3. PICK list : Lists(list, k, T)
      BY <2>2
    <2>4. CASE n + 1 \notin S
      <3>1. T = S
        BY <2>4
      <3> QED
        BY <2>3, <3>1
    <2>5. CASE n + 1 \in S
      <3> DEFINE longer == [i \in 1 .. k + 1 |-> IF i = k + 1 THEN n + 1 ELSE list[i]]
      <3>1. longer \in [1 .. k + 1 -> S]
        BY <2>3, <2>5 DEF Lists
      <3>2. ASSUME NEW i \in 1 .. k + 1, NEW j \in 1 .. k + 1, i < j
            PROVE  longer[i] < longer[j]
        <4>1. i \in 1 .. k /\ longer[i] = list[i] /\ list[i] \in 1 .. n
          <5>1. i \in 1 .. k
            BY <3>2
          <5>2. list[i] \in T
            BY <2>3, <5>1 DEF Lists
          <5>3. longer[i] = list[i]
            BY <5>1
          <5> HIDE DEF longer, T
          <5> QED
            BY <2>1, <5>1, <5>2, <5>3
        <4>2. CASE j = k + 1
          BY <4>1, <4>2
        <4>3. CASE j # k + 1
          <5>1. j \in 1 .. k /\ longer[j] = list[j]
            BY <4>3
          <5> QED
            BY <2>3, <3>2, <4>1, <5>1 DEF Lists
        <4> QED
          BY <4>2, <4>3
      <3>3. ASSUME NEW m \in S PROVE \E i \in 1 .. k + 1 : longer[i] = m
        <4>1. CASE m = n + 1
          BY <4>1
        <4>2. CASE m # n + 1
          <5>1. PICK i \in 1 .. k : list[i] = m
            BY <2>3, <4>2 DEF Lists
          <5> QED
            BY <5>1
        <4> QED
          BY <4>1, <4>2
      <3>4. k + 1 \in Nat /\ Lists(longer, k + 1, S)
        <4> HIDE DEF longer
        <4> QED
          BY <3>1, <3>2, <3>3 DEF Lists
      <3> QED
        BY <3>4
    <2> QED
      BY <2>4, <2>5
  <1>3. Nat \subseteq P
    <2>1. 0 \in P /\ \A n \in Nat : n \in P => n + 1 \in P
      BY <1>1, <1>2
    <2> HIDE DEF P
    <2> QED
      BY <2>1, Induction
  <1> QED
    BY <1>3

\* InOrder(ms) is the one that has them all.
Ascends(t, ms) ==
  /\ t \in Seq(ms)
  /\ \A i, j \in 1 .. Len(t) : i < j => t[i] < t[j]
  /\ \A m \in ms : \E i \in 1 .. Len(t) : t[i] = m

LEMMA InOrderAscends ==
  ASSUME NEW n \in Nat, NEW S \in SUBSET (1 .. n)
  PROVE  Ascends(InOrder(S), S)
  <1>1. PICK k \in Nat : \E list : Lists(list, k, S)
    BY AscendingLists DEF Listable
  <1>0. PICK list : Lists(list, k, S)
    BY <1>1
  <1>2. IsFiniteSet(S) /\ Cardinality(S) = k
    <2>1. list \in Injection(1 .. k, S)
      <3>1. ASSUME NEW i \in 1 .. k, NEW j \in 1 .. k, list[i] = list[j] PROVE i = j
        <4>1. list[i] \in 1 .. n /\ list[j] \in 1 .. n
          BY <1>0 DEF Lists
        <4> QED
          BY <1>0, <3>1, <4>1 DEF Lists
      <3> QED
        BY <1>0, <3>1 DEF Injection, IsInjective, Lists
    <2>2. list \in Surjection(1 .. k, S)
      BY <1>0 DEF Surjection, Lists
    <2>3. ExistsBijection(1 .. k, S)
      BY <2>1, <2>2 DEF ExistsBijection, Bijection
    <2> QED
      BY <2>3, FS_CountingElements, FS_NatBijection
  <1> DEFINE t == InOrder(S)
  <1>3. t \in [1 .. k -> S] /\ \A i, j \in 1 .. k : i < j => t[i] < t[j]
    <2>1. \A l \in [1 .. k -> S] :
            IsSorted(l, <) <=> \A i, j \in 1 .. k : i < j => l[i] < l[j]
      BY DEF IsSorted
    <2>2. list \in [1 .. k -> S] /\ IsSorted(list, <)
      BY <1>0, <2>1 DEF Lists
    <2>3. t \in [1 .. k -> S] /\ IsSorted(t, <)
      BY <1>2, <2>2 DEF InOrder
    <2> QED
      BY <2>1, <2>3
  <1> HIDE DEF t
  <1>4. t \in Seq(S) /\ Len(t) = k
    BY <1>3
  <1>5. \A m \in S : \E i \in 1 .. k : t[i] = m
    <2>1. t \in Injection(1 .. k, S)
      <3>1. ASSUME NEW i \in 1 .. k, NEW j \in 1 .. k, t[i] = t[j] PROVE i = j
        <4>1. t[i] \in 1 .. n /\ t[j] \in 1 .. n
          BY <1>3
        <4> QED
          BY <1>3, <3>1, <4>1
      <3> QED
        BY <1>3, <3>1 DEF Injection, IsInjective
    <2>2. Cardinality(1 .. k) = Cardinality(S)
      BY <1>2, FS_Interval
    <2>3. t \in Surjection(1 .. k, S)
      BY <1>2, <2>1, <2>2, FS_Injection
    <2> QED
      BY <2>3 DEF Surjection
  <1> QED
    BY <1>3, <1>4, <1>5 DEF t, Ascends

-----------------------------------------------------------------------------
(* The criteria.                                                            *)
SliderUpTo(f, middlewares, list) ==
  f = [n \in 0 .. Len(middlewares) |->
         IF n = 0 THEN 0
         ELSE LET s == f[n - 1]
              IN  IF s < Len(list) /\ list[s + 1] = middlewares[n] THEN s + 1 ELSE s]

\* A criterion lets all of its list through that comes in the order of the walk:
\* place[i] is where the walk meets the i-th of the list.
LEMMA CriterionPassesAll ==
  ASSUME NEW S, NEW ms \in Seq(S), NEW list \in Seq(S),
         NEW place \in [1 .. Len(list) -> 1 .. Len(ms)],
         \A i, j \in 1 .. Len(list) : i < j => place[i] < place[j],
         \A i \in 1 .. Len(list) : \A n \in 1 .. Len(ms) : list[i] = ms[n] <=> n = place[i]
  PROVE  Enabled(ms, list) = list
  <1> DEFINE N == Len(ms)
             L == Len(list)
             Move(n, s) == IF s < L /\ list[s + 1] = ms[n] THEN s + 1 ELSE s
             step == [x \in (1 .. N) \X Nat |-> Move(x[1], x[2])]
  <1>0. N \in Nat /\ L \in Nat
    OBVIOUS
  <1>1. step \in [(1 .. N) \X Nat -> Nat]
    OBVIOUS
  <1>2. PICK f : Builds(f, N, Nat, 0, step)
    <2> HIDE DEF step, N
    <2> QED
      BY <1>0, <1>1, Recursion
  <1>3. SliderUpTo(f, ms, list)
    <2>1. ASSUME NEW n \in 1 .. N PROVE f[n] = Move(n, f[n - 1])
      <3>1. n - 1 \in 0 .. N /\ f[n - 1] \in Nat
        BY <1>0, <1>2 DEF Builds
      <3> QED
        BY <1>2, <3>1 DEF Builds
    <2>2. \A n \in 0 .. N : n = 0 \/ n \in 1 .. N
      BY <1>0
    <2>3. f = [n \in 0 .. N |-> f[n]] /\ f[0] = 0
      BY <1>2 DEF Builds
    <2> HIDE DEF step
    <2> QED
      BY <2>1, <2>2, <2>3 DEF SliderUpTo
  <1> DEFINE g == CHOOSE g : SliderUpTo(g, ms, list)
  <1>4. SliderUpTo(g, ms, list)
    BY <1>3
  <1>5. Enabled(ms, list) = SubSeq(list, 1, g[N])
    BY DEF Enabled, SliderUpTo
  <1> HIDE DEF g, step
  <1>6. g[0] = 0
    BY <1>0, <1>4 DEF SliderUpTo
  <1>7. ASSUME NEW n \in Nat, n + 1 <= N
        PROVE  g[n + 1] = Move(n + 1, g[n])
    <2>1. n + 1 \in 0 .. N /\ n + 1 # 0 /\ (n + 1) - 1 = n
      BY <1>0, <1>7
    <2> QED
      BY <1>4, <2>1 DEF SliderUpTo
  <1> DEFINE Passed(n) == /\ g[n] \in 0 .. L
                          /\ \A i \in 1 .. L : place[i] <= n <=> i <= g[n]
             Fine == {n \in Nat : n <= N => Passed(n)}
  <1>8. 0 \in Fine
    <2>1. \A i \in 1 .. L : ~(place[i] <= 0) /\ ~(i <= 0)
      BY <1>0
    <2> QED
      BY <1>0, <1>6, <2>1
  <1>9. ASSUME NEW n \in Nat, n \in Fine PROVE n + 1 \in Fine
    <2> SUFFICES ASSUME n + 1 <= N PROVE Passed(n + 1)
      OBVIOUS
    <2>1. Passed(n)
      BY <1>0, <1>9
    <2>2. g[n + 1] = Move(n + 1, g[n]) /\ n + 1 \in 1 .. N
      BY <1>0, <1>7
    <2> DEFINE s == g[n]
    <2>3. s \in 0 .. L
      BY <2>1
    <2>4. CASE s < L /\ list[s + 1] = ms[n + 1]
      <3>1. s + 1 \in 1 .. L /\ place[s + 1] = n + 1 /\ g[n + 1] = s + 1
        BY <1>0, <2>2, <2>3, <2>4
      <3>2. ASSUME NEW i \in 1 .. L PROVE place[i] <= n + 1 <=> i <= s + 1
        <4>1. place[i] \in 1 .. N
          BY <1>0
        <4>2. CASE i <= s
          BY <2>1, <2>3, <4>1, <4>2
        <4>3. CASE i = s + 1
          BY <3>1, <4>3
        <4>4. CASE i > s + 1
          BY <2>3, <3>1, <4>1, <4>4
        <4> QED
          BY <2>3, <4>2, <4>3, <4>4
      <3> QED
        BY <2>3, <3>1, <3>2
    <2>5. CASE ~(s < L /\ list[s + 1] = ms[n + 1])
      <3>1. g[n + 1] = s
        BY <2>2, <2>5
      <3>2. ASSUME NEW i \in 1 .. L PROVE place[i] # n + 1
        <4>1. CASE i <= s
          BY <2>1, <2>3, <4>1
        <4>2. CASE i = s + 1
          BY <2>2, <2>3, <2>5, <4>2
        <4>3. CASE i > s + 1
          <5>1. s + 1 \in 1 .. L /\ place[s + 1] < place[i]
            BY <2>3, <4>3
          <5>2. place[s + 1] > n /\ place[s + 1] \in 1 .. N /\ place[i] \in 1 .. N
            BY <2>1, <2>3, <5>1
          <5> QED
            BY <5>1, <5>2
        <4> QED
          BY <2>3, <4>1, <4>2, <4>3
      <3>3. ASSUME NEW i \in 1 .. L PROVE place[i] <= n + 1 <=> i <= s
        <4>1. place[i] \in 1 .. N /\ place[i] # n + 1 /\ (place[i] <= n <=> i <= s)
          BY <1>0, <2>1, <3>2
        <4> QED
          BY <4>1
      <3> QED
        BY <2>3, <3>1, <3>3
    <2> QED
      BY <2>4, <2>5
  <1>10. N \in Fine
    <2> HIDE DEF Fine
    <2> QED
      BY <1>0, <1>8, <1>9, Induction
  <1>11. g[N] = L
    <2>1. Passed(N)
      BY <1>0, <1>10
    <2>2. CASE L = 0
      BY <2>1, <2>2
    <2>3. CASE L # 0
      <3>1. L \in 1 .. L /\ place[L] <= N
        BY <1>0, <2>3
      <3> QED
        BY <1>0, <2>1, <3>1
    <2> QED
      BY <2>2, <2>3
  <1> QED
    BY <1>5, <1>11

Places == 1 .. AppSize

LEMMA AllPlaces ==
  /\ AppSize \in Nat /\ All \in Seq(Places) /\ Len(All) = AppSize
  /\ \A m \in Places : All[m] = m
  /\ ToSet(All) = Places
  /\ Local \subseteq Places /\ Cookies \in Places \ Local /\ Nobody \notin Places
  <1>1. AppSize \in Nat /\ AppSize >= 2 /\ Local \subseteq 3 .. AppSize
    BY MiddlewaresAssumption DEF Session
  <1>2. All = [m \in 1 .. AppSize |-> m]
    BY DEF All
  <1>3. ToSet(All) = Places
    BY <1>1, <1>2 DEF ToSet, Places
  <1> QED
    BY <1>1, <1>2, <1>3 DEF Places, Cookies, Nobody

LEMMA WalkPassesAll ==
  ASSUME NEW ms \in SUBSET Places, NEW t, Ascends(t, ms)
  PROVE  Enabled(All, t) = t
  <1>1. t \in Seq(Places) /\ \A i \in 1 .. Len(t) : t[i] \in Places
    BY DEF Ascends
  <1>2. t \in [1 .. Len(t) -> 1 .. Len(All)]
    BY <1>1, AllPlaces DEF Places
  <1>3. \A i \in 1 .. Len(t) : \A n \in 1 .. Len(All) : t[i] = All[n] <=> n = t[i]
    BY AllPlaces DEF Places
  <1>4. \A i, j \in 1 .. Len(t) : i < j => t[i] < t[j]
    BY DEF Ascends
  <1>5. All \in Seq(Places)
    BY AllPlaces
  <1> QED
    BY <1>1, <1>2, <1>3, <1>4, <1>5, CriterionPassesAll

LEMMA WalkBackPassesAll ==
  ASSUME NEW ms \in SUBSET Places, NEW t, Ascends(t, ms)
  PROVE  Enabled(Reverse(All), Reverse(t)) = Reverse(t)
  <1> DEFINE N == AppSize
             L == Len(t)
             back == Reverse(All)
             list == Reverse(t)
             place == [i \in 1 .. L |-> N + 1 - t[L - i + 1]]
  <1>1. /\ N \in Nat /\ L \in Nat /\ t \in Seq(Places)
        /\ \A i \in 1 .. L : t[i] \in 1 .. N
        /\ \A i, j \in 1 .. L : i < j => t[i] < t[j]
    <2>1. N \in Nat /\ t \in Seq(Places)
      BY AllPlaces DEF Ascends
    <2>2. L \in Nat /\ \A i \in 1 .. L : t[i] \in Places
      BY <2>1
    <2>3. \A i, j \in 1 .. L : i < j => t[i] < t[j]
      BY DEF Ascends
    <2> QED
      BY <2>1, <2>2, <2>3 DEF Places
  <1>2. /\ back \in Seq(Places) /\ Len(back) = N
        /\ \A n \in 1 .. N : back[n] = N + 1 - n
    <2>1. back = [n \in 1 .. N |-> All[(N - n) + 1]]
      BY AllPlaces DEF Reverse
    <2>2. \A n \in 1 .. N : (N - n) + 1 \in 1 .. N /\ (N - n) + 1 = N + 1 - n
      BY <1>1
    <2>3. \A n \in 1 .. N : All[(N - n) + 1] = N + 1 - n
      BY <2>2, AllPlaces DEF Places
    <2>4. \A n \in 1 .. N : back[n] = All[(N - n) + 1]
      BY <2>1
    <2>5. \A n \in 1 .. N : All[(N - n) + 1] \in Places
      BY <2>2 , <2>3 DEF Places
    <2> HIDE DEF back
    <2>6. back \in [1 .. N -> Places]
      BY <2>1, <2>5
    <2> QED
      BY <1>1, <2>2, <2>3, <2>4, <2>6
  <1>3. /\ list \in Seq(Places) /\ Len(list) = L
        /\ \A i \in 1 .. L : L - i + 1 \in 1 .. L /\ list[i] = t[L - i + 1]
    <2>1. list = [i \in 1 .. L |-> t[(L - i) + 1]]
      BY DEF Reverse
    <2>2. \A i \in 1 .. L : L - i + 1 \in 1 .. L
      BY <1>1
    <2>3. \A i \in 1 .. L : list[i] = t[L - i + 1] /\ t[L - i + 1] \in Places
      BY <1>1, <2>1, <2>2 DEF Places
    <2> HIDE DEF list
    <2>4. list \in [1 .. L -> Places]
      BY <2>1, <2>2, <2>3
    <2>5. L \in Nat
      BY <1>1
    <2> HIDE DEF L
    <2>6. list \in Seq(Places) /\ Len(list) = L
      BY <2>4, <2>5
    <2> QED
      BY <2>2, <2>3, <2>6
  <1>4. place \in [1 .. L -> 1 .. N]
    <2>1. ASSUME NEW i \in 1 .. L PROVE N + 1 - t[L - i + 1] \in 1 .. N
      <3>1. t[L - i + 1] \in 1 .. N
        BY <1>1, <1>3
      <3> QED
        BY <1>1, <3>1
    <2> QED
      BY <2>1
  <1>5. ASSUME NEW i \in 1 .. L, NEW j \in 1 .. L, i < j PROVE place[i] < place[j]
    <2>1. L - j + 1 < L - i + 1 /\ L - j + 1 \in 1 .. L /\ L - i + 1 \in 1 .. L
      BY <1>1, <1>3, <1>5
    <2>2. t[L - j + 1] < t[L - i + 1] /\ t[L - j + 1] \in 1 .. N /\ t[L - i + 1] \in 1 .. N
      BY <1>1, <2>1
    <2> QED
      BY <1>1, <2>2
  <1>6. ASSUME NEW i \in 1 .. L, NEW n \in 1 .. N PROVE list[i] = back[n] <=> n = place[i]
    <2>1. t[L - i + 1] \in 1 .. N
      BY <1>1, <1>3
    <2> QED
      BY <1>1, <1>2, <1>3, <2>1
  <1> HIDE DEF back, list, place, N, L
  <1>7. /\ place \in [1 .. Len(list) -> 1 .. Len(back)]
        /\ \A i, j \in 1 .. Len(list) : i < j => place[i] < place[j]
        /\ \A i \in 1 .. Len(list) : \A n \in 1 .. Len(back) : list[i] = back[n] <=> n = place[i]
    BY <1>2, <1>3, <1>4, <1>5, <1>6
  <1>8. Enabled(back, list) = list
    BY <1>2, <1>3, <1>7, CriterionPassesAll
  <1> QED
    BY <1>8 DEF back, list
-----------------------------------------------------------------------------
(* Lists of calls.                                                          *)
Calls == {"before", "after"} \X Nat

LEMMA CallsOfLists ==
  ASSUME NEW t \in Seq(Nat)
  PROVE  /\ Befores(t) \in Seq(Calls) /\ Len(Befores(t)) = Len(t)
         /\ Afters(t) \in Seq(Calls) /\ Len(Afters(t)) = Len(t)
         /\ \A i \in 1 .. Len(t) : Befores(t)[i] = Before(t[i]) /\ Afters(t)[i] = After(t[i])
  <1>1. \A i \in 1 .. Len(t) : Before(t[i]) \in Calls /\ After(t[i]) \in Calls
    BY DEF Before, After, Calls
  <1>2. DOMAIN t = 1 .. Len(t) /\ Len(t) \in Nat
    OBVIOUS
  <1> QED
    BY <1>1, <1>2 DEF Befores, Afters

LEMMA CallsOfConcat ==
  ASSUME NEW s \in Seq(Nat), NEW t \in Seq(Nat)
  PROVE  /\ Befores(s \o t) = Befores(s) \o Befores(t)
         /\ Afters(s \o t) = Afters(s) \o Afters(t)
  <1> DEFINE u == s \o t
  <1>1. /\ u \in Seq(Nat) /\ Len(u) = Len(s) + Len(t)
        /\ \A i \in 1 .. Len(u) : u[i] = IF i <= Len(s) THEN s[i] ELSE t[i - Len(s)]
        /\ Len(s) \in Nat /\ Len(t) \in Nat
    BY ConcatProperties
  <1> HIDE DEF u
  <1>2. Befores(u) = Befores(s) \o Befores(t)
    <2> DEFINE v == Befores(s) \o Befores(t)
    <2>1. /\ v \in Seq(Calls) /\ Len(v) = Len(u)
          /\ \A i \in 1 .. Len(u) : v[i] = IF i <= Len(s) THEN Befores(s)[i]
                                                         ELSE Befores(t)[i - Len(s)]
      <3> DEFINE a == Befores(s)
                 b == Befores(t)
      <3>1. a \in Seq(Calls) /\ b \in Seq(Calls) /\ Len(a) = Len(s) /\ Len(b) = Len(t)
        BY CallsOfLists
      <3> HIDE DEF a, b
      <3>2. /\ a \o b \in Seq(Calls) /\ Len(a \o b) = Len(u)
            /\ \A i \in 1 .. Len(u) : (a \o b)[i] = IF i <= Len(s) THEN a[i]
                                                                   ELSE b[i - Len(s)]
        <4>1. /\ a \o b \in Seq(Calls) /\ Len(a \o b) = Len(a) + Len(b)
              /\ \A i \in 1 .. Len(a) + Len(b) :
                   (a \o b)[i] = IF i <= Len(a) THEN a[i] ELSE b[i - Len(a)]
          BY <3>1, ConcatProperties
        <4> QED
          BY <1>1, <3>1, <4>1
      <3>3. v = a \o b
        BY DEF a, b
      <3> HIDE DEF v
      <3>4. Befores(s) = a /\ Befores(t) = b
        BY DEF a, b
      <3> QED
        BY <3>2, <3>3, <3>4
    <2> HIDE DEF v
    <2>2. ASSUME NEW i \in 1 .. Len(u) PROVE Befores(u)[i] = v[i]
      <3>1. i <= Len(s) => i \in 1 .. Len(s)
        BY <1>1
      <3>2. ~(i <= Len(s)) => i - Len(s) \in 1 .. Len(t)
        BY <1>1
      <3> QED
        BY <1>1, <2>1, <3>1, <3>2, CallsOfLists
    <2>3. Befores(u) \in Seq(Calls) /\ Len(Befores(u)) = Len(u)
      BY <1>1, CallsOfLists
    <2>4. Befores(u) = v
      BY <2>1, <2>2, <2>3, SeqEqual
    <2> QED
      BY <2>4 DEF v
  <1>3. Afters(u) = Afters(s) \o Afters(t)
    <2> DEFINE v == Afters(s) \o Afters(t)
    <2>1. /\ v \in Seq(Calls) /\ Len(v) = Len(u)
          /\ \A i \in 1 .. Len(u) : v[i] = IF i <= Len(s) THEN Afters(s)[i]
                                                         ELSE Afters(t)[i - Len(s)]
      <3> DEFINE a == Afters(s)
                 b == Afters(t)
      <3>1. a \in Seq(Calls) /\ b \in Seq(Calls) /\ Len(a) = Len(s) /\ Len(b) = Len(t)
        BY CallsOfLists
      <3> HIDE DEF a, b
      <3>2. /\ a \o b \in Seq(Calls) /\ Len(a \o b) = Len(u)
            /\ \A i \in 1 .. Len(u) : (a \o b)[i] = IF i <= Len(s) THEN a[i]
                                                                   ELSE b[i - Len(s)]
        <4>1. /\ a \o b \in Seq(Calls) /\ Len(a \o b) = Len(a) + Len(b)
              /\ \A i \in 1 .. Len(a) + Len(b) :
                   (a \o b)[i] = IF i <= Len(a) THEN a[i] ELSE b[i - Len(a)]
          BY <3>1, ConcatProperties
        <4> QED
          BY <1>1, <3>1, <4>1
      <3>3. v = a \o b
        BY DEF a, b
      <3> HIDE DEF v
      <3>4. Afters(s) = a /\ Afters(t) = b
        BY DEF a, b
      <3> QED
        BY <3>2, <3>3, <3>4
    <2> HIDE DEF v
    <2>2. ASSUME NEW i \in 1 .. Len(u) PROVE Afters(u)[i] = v[i]
      <3>1. i <= Len(s) => i \in 1 .. Len(s)
        BY <1>1
      <3>2. ~(i <= Len(s)) => i - Len(s) \in 1 .. Len(t)
        BY <1>1
      <3> QED
        BY <1>1, <2>1, <3>1, <3>2, CallsOfLists
    <2>3. Afters(u) \in Seq(Calls) /\ Len(Afters(u)) = Len(u)
      BY <1>1, CallsOfLists
    <2>4. Afters(u) = v
      BY <2>1, <2>2, <2>3, SeqEqual
    <2> QED
      BY <2>4 DEF v
  <1> QED
    BY <1>2, <1>3 DEF u

-----------------------------------------------------------------------------
(* Prefixes and reversals.                                                  *)
LEMMA UpToIsPrefix ==
  ASSUME NEW S, NEW t \in Seq(S), NEW k \in 1 .. Len(t), NEW x, t[k] = x,
         \A i \in 1 .. Len(t) : t[i] = x => i = k
  PROVE  Contains(t, x) /\ UpTo(t, x) = SubSeq(t, 1, k)
  <1>1. DOMAIN t = 1 .. Len(t)
    OBVIOUS
  <1>2. (CHOOSE i \in DOMAIN t : t[i] = x) = k
    BY <1>1
  <1> QED
    BY <1>1, <1>2 DEF UpTo, Contains

LEMMA UpToIsAll ==
  ASSUME NEW S, NEW t \in Seq(S), NEW x, ~Contains(t, x)
  PROVE  UpTo(t, x) = t
  <1>1. DOMAIN t = 1 .. Len(t)
    OBVIOUS
  <1> QED
    BY <1>1 DEF UpTo, Contains

LEMMA ReverseIsSeq ==
  ASSUME NEW S, NEW t \in Seq(S)
  PROVE  /\ Reverse(t) \in Seq(S) /\ Len(Reverse(t)) = Len(t)
         /\ \A i \in 1 .. Len(t) : Reverse(t)[i] = t[(Len(t) - i) + 1]
  <1>1. Len(t) \in Nat /\ \A i \in 1 .. Len(t) : t[i] \in S
    OBVIOUS
  <1>2. \A i \in 1 .. Len(t) : (Len(t) - i) + 1 \in 1 .. Len(t)
    BY <1>1
  <1>3. \A i \in 1 .. Len(t) : t[(Len(t) - i) + 1] \in S
    BY <1>1, <1>2
  <1>4. Reverse(t) = [i \in 1 .. Len(t) |-> t[(Len(t) - i) + 1]]
    BY DEF Reverse
  <1>5. Reverse(t) \in [1 .. Len(t) -> S]
    BY <1>3, <1>4
  <1> QED
    BY <1>1, <1>4, <1>5

LEMMA ReverseOfConcat ==
  ASSUME NEW S, NEW s \in Seq(S), NEW t \in Seq(S)
  PROVE  Reverse(s \o t) = Reverse(t) \o Reverse(s)
  <1> DEFINE u == s \o t
             a == Reverse(t)
             b == Reverse(s)
             v == a \o b
  <1>1. /\ Len(s) \in Nat /\ Len(t) \in Nat
        /\ u \in Seq(S) /\ Len(u) = Len(s) + Len(t)
        /\ \A i \in 1 .. Len(s) + Len(t) : u[i] = IF i <= Len(s) THEN s[i] ELSE t[i - Len(s)]
    BY ConcatProperties
  <1>2. /\ a \in Seq(S) /\ Len(a) = Len(t) /\ \A i \in 1 .. Len(t) : a[i] = t[(Len(t) - i) + 1]
        /\ b \in Seq(S) /\ Len(b) = Len(s) /\ \A i \in 1 .. Len(s) : b[i] = s[(Len(s) - i) + 1]
    BY ReverseIsSeq
  <1>3. /\ Reverse(u) \in Seq(S) /\ Len(Reverse(u)) = Len(u)
        /\ \A i \in 1 .. Len(u) : Reverse(u)[i] = u[(Len(u) - i) + 1]
    BY <1>1, ReverseIsSeq
  <1> HIDE DEF u, a, b
  <1>4. /\ v \in Seq(S) /\ Len(v) = Len(a) + Len(b)
        /\ \A i \in 1 .. Len(a) + Len(b) : v[i] = IF i <= Len(a) THEN a[i] ELSE b[i - Len(a)]
    BY <1>2, ConcatProperties
  <1> HIDE DEF v
  <1>5. ASSUME NEW i \in 1 .. Len(u) PROVE Reverse(u)[i] = v[i]
    <2>1. Len(u) = Len(s) + Len(t) /\ (Len(u) - i) + 1 \in 1 .. Len(s) + Len(t)
      BY <1>1
    <2>2. CASE i <= Len(t)
      <3>1. i \in 1 .. Len(t) /\ ~((Len(u) - i) + 1 <= Len(s))
        BY <1>1, <2>2
      <3>2. v[i] = t[(Len(t) - i) + 1]
        <4>1. i \in 1 .. Len(a) + Len(b) /\ i <= Len(a)
          BY <1>1, <1>2, <3>1
        <4>2. v[i] = a[i]
          BY <1>4, <4>1
        <4>3. a[i] = t[(Len(t) - i) + 1]
          BY <1>2, <3>1
        <4> QED
          BY <4>2, <4>3
      <3>3. u[(Len(u) - i) + 1] = t[((Len(u) - i) + 1) - Len(s)]
        <4>1. \A j \in 1 .. Len(s) + Len(t) : ~(j <= Len(s)) => u[j] = t[j - Len(s)]
          BY <1>1
        <4> QED
          BY <2>1, <3>1, <4>1
      <3>4. ((Len(u) - i) + 1) - Len(s) = (Len(t) - i) + 1
        BY <1>1
      <3> QED
        BY <1>3, <3>2, <3>3, <3>4
    <2>3. CASE ~(i <= Len(t))
      <3>1. i - Len(t) \in 1 .. Len(s) /\ (Len(u) - i) + 1 <= Len(s)
        BY <1>1, <2>3
      <3>2. v[i] = b[i - Len(t)]
        BY <1>1, <1>2, <1>4, <2>1, <2>3
      <3>3. b[i - Len(t)] = s[(Len(s) - (i - Len(t))) + 1]
        BY <1>2, <3>1
      <3>4. u[(Len(u) - i) + 1] = s[(Len(u) - i) + 1]
        BY <1>1, <2>1, <3>1
      <3>5. (Len(s) - (i - Len(t))) + 1 = (Len(u) - i) + 1
        BY <1>1
      <3> QED
        BY <1>3, <3>2, <3>3, <3>4, <3>5
    <2> QED
      BY <2>2, <2>3
  <1>6. Len(v) = Len(u)
    BY <1>1, <1>2, <1>4
  <1>7. Reverse(u) = v
    BY <1>3, <1>4, <1>5, <1>6, SeqEqual
  <1> QED
    BY <1>7 DEF u, v, a, b

LEMMA PrefixOfConcat ==
  ASSUME NEW S, NEW s \in Seq(S), NEW t \in Seq(S), s # <<>>, NEW k \in 1 .. Len(t)
  PROVE  SubSeq(s \o t, 1, Len(s) + k) = s \o SubSeq(t, 1, k)
  <1> DEFINE u == s \o t
  <1>1. /\ Len(s) \in Nat /\ Len(t) \in Nat /\ Len(s) # 0
        /\ u \in Seq(S) /\ Len(u) = Len(s) + Len(t)
    BY EmptySeq, ConcatProperties
  <1>2. SubSeq(u, 1, Len(s)) = s
    BY <1>1, SubSeqOfConcat1, SubSeqFull
  <1>3. SubSeq(u, Len(s) + 1, Len(s) + k) = SubSeq(t, 1, k)
    <2>1. /\ Len(s) + 1 \in Len(s)+1 .. Len(s)+Len(t) /\ Len(s) + k \in Len(s)+1 .. Len(s)+Len(t)
          /\ (Len(s) + 1) - Len(s) = 1 /\ (Len(s) + k) - Len(s) = k
      BY <1>1
    <2> QED
      BY <2>1, SubSeqOfConcat2
  <1> HIDE DEF u
  <1>4. SubSeq(u, 1, Len(s)) \o SubSeq(u, Len(s) + 1, Len(s) + k) = SubSeq(u, 1, Len(s) + k)
    <2>1. 1 \in 1 .. Len(u) + 1 /\ Len(s) \in 1 - 1 .. Len(u) /\ Len(s) + k \in Len(s) .. Len(u)
      BY <1>1
    <2> QED
      BY <1>1, <2>1, ConcatAdjacentSubSeq
  <1> QED
    BY <1>2, <1>3, <1>4 DEF u
-----------------------------------------------------------------------------
(* What a request calls.                                                    *)
Named(r) == ToSet(r.rule.own) \cup ToSet(r.rule.blueprint)
LocalWay(r) == InOrder(Named(r))

LEMMA GlobalsAscend ==
  /\ Ascends(Globals, Places \ Local)
  /\ Globals = InOrder(ToSet(All) \ Local)
  /\ GlobalsBack = Reverse(Globals)
  <1>1. Globals = InOrder(Places \ Local)
    BY AllPlaces DEF Globals
  <1>2. Ascends(Globals, Places \ Local)
    <2>1. AppSize \in Nat /\ Places \ Local \in SUBSET (1 .. AppSize)
      BY AllPlaces DEF Places
    <2> QED
      BY <1>1, <2>1, InOrderAscends
  <1>3. Places \ Local \in SUBSET Places
    OBVIOUS
  <1>4. GlobalsBack = Reverse(Globals)
    BY <1>2, <1>3, WalkBackPassesAll DEF GlobalsBack
  <1> QED
    BY <1>2, <1>4 DEF Globals

LEMMA LocalsAscend ==
  ASSUME NEW r \in Requests
  PROVE  /\ Named(r) \subseteq Local
         /\ Ascends(LocalWay(r), Named(r))
         /\ Locals(r.rule) = LocalWay(r)
         /\ LocalsBack(r.rule) = Reverse(LocalWay(r))
  <1> DEFINE own == r.rule.own
             blueprint == r.rule.blueprint
  <1>1. own \in Seq(Local) /\ blueprint \in Seq(Local)
    BY RequestsAssumption
  <1> HIDE DEF own, blueprint
  <1>2. ToSet(blueprint \o own) = ToSet(own) \cup ToSet(blueprint)
    <2>1. \A s : ToSet(s) = Range(s)
      BY DEF ToSet, Range
    <2> QED
      BY <1>1, <2>1, RangeConcatenation
  <1>3. ToSet(own) \subseteq Local /\ ToSet(blueprint) \subseteq Local
    BY <1>1 DEF ToSet
  <1>4. Named(r) = ToSet(own) \cup ToSet(blueprint)
    BY DEF Named, own, blueprint
  <1>5. Indices(r.rule) = LocalWay(r)
    BY <1>2, <1>4 DEF Indices, LocalWay, own, blueprint
  <1>6. Named(r) \subseteq Local /\ Named(r) \in SUBSET Places
    BY <1>3, <1>4, AllPlaces
  <1>7. Ascends(LocalWay(r), Named(r))
    BY <1>6, AllPlaces, InOrderAscends DEF LocalWay, Places
  <1> QED
    BY <1>5, <1>6, <1>7, WalkPassesAll, WalkBackPassesAll DEF Locals, LocalsBack

\* What a request calls: the global ones and those that it names, up to the
\* one that answers.
LEMMA CalledIs ==
  ASSUME NEW r \in Requests
  PROVE  /\ Globals \in Seq(Nat) /\ LocalWay(r) \in Seq(Nat)
         /\ r.stop = Cookies => /\ Contains(Globals, r.stop)
                                /\ Called(r) = UpTo(Globals, r.stop)
         /\ r.stop # Cookies => ~Contains(Globals, r.stop)
         /\ r.stop # Cookies /\ Contains(LocalWay(r), r.stop) =>
              Called(r) = Globals \o UpTo(LocalWay(r), r.stop)
         /\ r.stop # Cookies /\ ~Contains(LocalWay(r), r.stop) =>
              Called(r) = Globals \o LocalWay(r)
  <1> DEFINE G == Globals
             L == LocalWay(r)
             way == G \o L
             stop == r.stop
  <1>1. /\ Ascends(G, Places \ Local) /\ G = InOrder(ToSet(All) \ Local)
        /\ Ascends(L, Named(r)) /\ Named(r) \subseteq Local
    BY GlobalsAscend, LocalsAscend
  <1>2. /\ AppSize \in Nat /\ Places \subseteq Nat
        /\ Local \subseteq Places /\ Cookies \in Places \ Local /\ Nobody \notin Places
    BY AllPlaces DEF Places
  <1>3. stop \in Local \cup {Nobody, Cookies}
    BY RequestsAssumption
  <1>4. Called(r) = SubSeq(way, 1, IF \E k \in DOMAIN way : way[k] = stop
                                     THEN CHOOSE k \in DOMAIN way : way[k] = stop
                                     ELSE Len(way))
    BY <1>1 DEF Called, LocalWay, Named
  <1> HIDE DEF G, L, stop
  <1>5. /\ G \in Seq(Places \ Local) /\ L \in Seq(Local)
        /\ G \in Seq(Nat) /\ L \in Seq(Nat)
        /\ Len(G) \in Nat /\ Len(L) \in Nat
    <2>1. G \in Seq(Places \ Local) /\ L \in Seq(Named(r))
      BY <1>1 DEF Ascends
    <2>2. Places \ Local \subseteq Nat /\ Local \subseteq Nat /\ Named(r) \subseteq Local
      BY <1>1, <1>2
    <2>3. L \in Seq(Local)
      BY <2>1, <2>2, SeqMonotonic
    <2>4. G \in Seq(Nat)
      BY <2>1, <2>2, SeqMonotonic
    <2>5. L \in Seq(Nat)
      BY <2>2, <2>3, SeqMonotonic
    <2> QED
      BY <2>1, <2>3, <2>4, <2>5, LenProperties
  <1>6. /\ way \in Seq(Nat) /\ Len(way) = Len(G) + Len(L) /\ DOMAIN way = 1 .. Len(G) + Len(L)
        /\ \A i \in 1 .. Len(G) + Len(L) : way[i] = IF i <= Len(G) THEN G[i] ELSE L[i - Len(G)]
    <2>1. /\ way \in Seq(Nat) /\ Len(way) = Len(G) + Len(L)
          /\ \A i \in 1 .. Len(G) + Len(L) : way[i] = IF i <= Len(G) THEN G[i] ELSE L[i - Len(G)]
      BY <1>5, ConcatProperties
    <2>2. DOMAIN way = 1 .. Len(way)
      BY <2>1, LenProperties
    <2> QED
      BY <2>1, <2>2
  <1>7. /\ \A i \in 1 .. Len(G) : G[i] \in Places \ Local /\ G[i] \in Nat
        /\ \A i \in 1 .. Len(L) : L[i] \in Local /\ L[i] \in Nat
    BY <1>5, ElementOfSeq
  <1>8. /\ \A i, j \in 1 .. Len(G) : G[i] = G[j] => i = j
        /\ \A i, j \in 1 .. Len(L) : L[i] = L[j] => i = j
    <2>1. /\ \A i, j \in 1 .. Len(G) : i < j => G[i] < G[j]
          /\ \A i, j \in 1 .. Len(L) : i < j => L[i] < L[j]
      BY <1>1 DEF Ascends
    <2>2. ASSUME NEW i \in 1 .. Len(G), NEW j \in 1 .. Len(G), G[i] = G[j] PROVE i = j
      BY <1>5, <1>7, <2>1, <2>2
    <2>3. ASSUME NEW i \in 1 .. Len(L), NEW j \in 1 .. Len(L), L[i] = L[j] PROVE i = j
      BY <1>5, <1>7, <2>1, <2>3
    <2> QED
      BY <2>2, <2>3
  <1>9. PICK k \in 1 .. Len(G) : G[k] = Cookies
    BY <1>1, <1>2 DEF Ascends
  <1>10. CASE stop = Cookies
    <2>1. k \in DOMAIN way /\ way[k] = stop
      BY <1>5, <1>6, <1>9, <1>10
    <2>2. ASSUME NEW i \in DOMAIN way, way[i] = stop PROVE i = k
      <3>1. i \in 1 .. Len(G) + Len(L)
        BY <1>6
      <3>2. CASE i <= Len(G)
        <4>1. i \in 1 .. Len(G) /\ G[i] = G[k]
          BY <1>6, <1>9, <1>10, <2>2, <3>1, <3>2
        <4> QED
          BY <1>8, <4>1
      <3>3. CASE ~(i <= Len(G))
        <4>1. i - Len(G) \in 1 .. Len(L) /\ way[i] = L[i - Len(G)]
          BY <1>5, <1>6, <3>1, <3>3
        <4> QED
          BY <1>2, <1>7, <1>10, <2>2, <4>1
      <3> QED
        BY <3>2, <3>3
    <2>3. Called(r) = SubSeq(way, 1, k)
      <3>1. (CHOOSE i \in DOMAIN way : way[i] = stop) = k
        BY <2>1, <2>2
      <3> HIDE DEF way
      <3> QED
        BY <1>4, <2>1, <3>1
    <2>4. SubSeq(way, 1, k) = SubSeq(G, 1, k)
      <3>1. 1 \in 1 .. Len(G)
        BY <1>5
      <3> QED
        BY <1>5, <3>1, SubSeqOfConcat1
    <2>5. Contains(G, stop) /\ UpTo(G, stop) = SubSeq(G, 1, k)
      <3>1. \A i \in 1 .. Len(G) : G[i] = stop => i = k
        BY <1>8, <1>9, <1>10
      <3> QED
        BY <1>5, <1>9, <1>10, <3>1, UpToIsPrefix
    <2> QED
      BY <1>5, <1>10, <2>3, <2>4, <2>5 DEF G, L, stop
  <1>11. stop # Cookies => stop \notin Places \ Local
    BY <1>2, <1>3
  <1>12. stop # Cookies => ~Contains(G, stop)
    BY <1>7, <1>11 DEF Contains
  <1>13. CASE stop # Cookies /\ Contains(L, stop)
    <2>1. PICK j \in 1 .. Len(L) : L[j] = stop
      BY <1>13 DEF Contains
    <2>2. Len(G) + j \in DOMAIN way /\ way[Len(G) + j] = stop
      <3>1. /\ Len(G) + j \in 1 .. Len(G) + Len(L) /\ ~(Len(G) + j <= Len(G))
            /\ (Len(G) + j) - Len(G) = j
        BY <1>5
      <3> QED
        BY <1>6, <2>1, <3>1
    <2>3. ASSUME NEW i \in DOMAIN way, way[i] = stop PROVE i = Len(G) + j
      <3>1. i \in 1 .. Len(G) + Len(L)
        BY <1>6
      <3>2. ~(i <= Len(G))
        <4>1. SUFFICES ASSUME i <= Len(G) PROVE FALSE
          OBVIOUS
        <4>2. i \in 1 .. Len(G) /\ G[i] = stop
          BY <1>6, <2>3, <3>1, <4>1
        <4> QED
          BY <1>7, <1>11, <1>13, <4>2
      <3>3. i - Len(G) \in 1 .. Len(L) /\ L[i - Len(G)] = L[j]
        BY <1>5, <1>6, <2>1, <2>3, <3>1, <3>2
      <3>4. i - Len(G) = j
        BY <1>8, <3>3
      <3>5. i \in Int /\ j \in Int /\ Len(G) \in Int
        BY <1>5, <3>1
      <3> QED
        BY <3>4, <3>5
    <2>4. Called(r) = SubSeq(way, 1, Len(G) + j)
      <3>1. (CHOOSE i \in DOMAIN way : way[i] = stop) = Len(G) + j
        BY <2>2, <2>3
      <3> HIDE DEF way
      <3> QED
        BY <1>4, <2>2, <3>1
    <2>5. SubSeq(way, 1, Len(G) + j) = G \o SubSeq(L, 1, j)
      <3>1. G # <<>>
        BY <1>5, <1>9
      <3> QED
        BY <1>5, <3>1, PrefixOfConcat
    <2>6. UpTo(L, stop) = SubSeq(L, 1, j)
      <3>1. \A i \in 1 .. Len(L) : L[i] = stop => i = j
        BY <1>8, <2>1
      <3> QED
        BY <1>5, <2>1, <3>1, UpToIsPrefix
    <2> QED
      BY <1>5, <1>12, <1>13, <2>4, <2>5, <2>6 DEF G, L, stop
  <1>14. CASE stop # Cookies /\ ~Contains(L, stop)
    <2>1. ~ \E i \in DOMAIN way : way[i] = stop
      <3> SUFFICES ASSUME NEW i \in DOMAIN way, way[i] = stop PROVE FALSE
        OBVIOUS
      <3>1. i \in 1 .. Len(G) + Len(L)
        BY <1>6
      <3>2. CASE i <= Len(G)
        <4>1. i \in 1 .. Len(G) /\ G[i] = stop
          BY <1>6, <3>1, <3>2
        <4> QED
          BY <1>7, <1>11, <1>14, <4>1
      <3>3. CASE ~(i <= Len(G))
        <4>1. i - Len(G) \in 1 .. Len(L) /\ L[i - Len(G)] = stop
          BY <1>5, <1>6, <3>1, <3>3
        <4> QED
          BY <1>14, <4>1 DEF Contains
      <3> QED
        BY <3>2, <3>3
    <2>2. Called(r) = SubSeq(way, 1, Len(way))
      <3> HIDE DEF way
      <3> QED
        BY <1>4, <2>1
    <2>3. Called(r) = way
      <3> HIDE DEF way
      <3> QED
        BY <1>6, <2>2, SubSeqFull
    <2> QED
      BY <1>5, <1>12, <1>14, <2>3 DEF G, L, stop
  <1> QED
    BY <1>10, <1>13, <1>14 DEF G, L, stop

-----------------------------------------------------------------------------
(* Nests of calls.                                                          *)
Nest(called) == Befores(called) \o Afters(Reverse(called))

LEMMA NestOfConcat ==
  ASSUME NEW s \in Seq(Nat), NEW t \in Seq(Nat)
  PROVE  /\ Nest(s \o t) = (Befores(s) \o Nest(t)) \o Afters(Reverse(s))
         /\ Befores(s) \in Seq(Calls) /\ Befores(t) \in Seq(Calls) /\ Nest(t) \in Seq(Calls)
         /\ Afters(Reverse(s)) \in Seq(Calls) /\ Afters(Reverse(t)) \in Seq(Calls)
  <1> DEFINE a == Befores(s)
             b == Befores(t)
             c == Afters(Reverse(t))
             d == Afters(Reverse(s))
  <1>1. Reverse(s) \in Seq(Nat) /\ Reverse(t) \in Seq(Nat)
    BY ReverseIsSeq
  <1>2. a \in Seq(Calls) /\ b \in Seq(Calls) /\ c \in Seq(Calls) /\ d \in Seq(Calls)
    BY <1>1, CallsOfLists
  <1>3. Befores(s \o t) = a \o b
    BY CallsOfConcat
  <1>4. Afters(Reverse(s \o t)) = c \o d
    <2>1. Reverse(s \o t) = Reverse(t) \o Reverse(s)
      BY ReverseOfConcat
    <2>2. Afters(Reverse(t) \o Reverse(s)) = c \o d
      BY <1>1, CallsOfConcat
    <2> QED
      BY <2>1, <2>2
  <1>5. Nest(s \o t) = (a \o b) \o (c \o d) /\ Nest(t) = b \o c
    BY <1>3, <1>4 DEF Nest
  <1> HIDE DEF a, b, c, d
  <1>6. b \o c \in Seq(Calls)
    BY <1>2, ConcatProperties
  <1>7. (a \o b) \o (c \o d) = (a \o (b \o c)) \o d
    BY <1>2, SMTT(30)
  <1> QED
    BY <1>2, <1>5, <1>6, <1>7 DEF a, b, c, d

\* What was called of a page when it reaches its handler, or is answered.
CalledSoFar(r) == CallHelper(Globals, r.stop) \o LocalCalls(r)

LEMMA RefusedNests ==
  ASSUME NEW r \in Requests, r.stop = Cookies
  PROVE  CallHelper(Globals, Cookies) = Nest(Called(r))
  BY CalledIs DEF CallHelper, Turned, Nest

LEMMA HandledNests ==
  ASSUME NEW r \in Requests, r.stop # Cookies, ~Answered(r)
  PROVE  CalledSoFar(r) \o Afters(LocalsBack(r.rule)) \o Afters(GlobalsBack) = Nest(Called(r))
  <1> DEFINE G == Globals
             L == LocalWay(r)
  <1>1. /\ G \in Seq(Nat) /\ L \in Seq(Nat)
        /\ Locals(r.rule) = L /\ LocalsBack(r.rule) = Reverse(L) /\ GlobalsBack = Reverse(G)
        /\ ~Contains(G, r.stop) /\ ~Contains(L, r.stop)
    BY CalledIs, LocalsAscend, GlobalsAscend DEF Answered
  <1>2. Called(r) = G \o L
    BY <1>1, CalledIs
  <1>3. CallHelper(G, r.stop) = Befores(G) /\ LocalCalls(r) = Befores(L)
    BY <1>1, UpToIsAll DEF CallHelper, LocalCalls
  <1> HIDE DEF G, L
  <1>4. Nest(G \o L) = (Befores(G) \o (Befores(L) \o Afters(Reverse(L)))) \o Afters(Reverse(G))
    BY <1>1, NestOfConcat DEF Nest
  <1>5. (Befores(G) \o Befores(L)) \o Afters(Reverse(L))
          = Befores(G) \o (Befores(L) \o Afters(Reverse(L)))
    <2>1. /\ Befores(G) \in Seq(Calls) /\ Befores(L) \in Seq(Calls)
          /\ Afters(Reverse(L)) \in Seq(Calls)
      BY <1>1, NestOfConcat
    <2> QED
      BY <2>1, SMTT(30)
  <1>6. CalledSoFar(r) = Befores(G) \o Befores(L)
    BY <1>3 DEF CalledSoFar, G, L
  <1> QED
    BY <1>1, <1>2, <1>4, <1>5, <1>6

LEMMA AnsweredNests ==
  ASSUME NEW r \in Requests, r.stop # Cookies, Answered(r), ~r.throws
  PROVE  CalledSoFar(r) \o <<>> \o Afters(GlobalsBack) = Nest(Called(r))
  <1> DEFINE G == Globals
             L == LocalWay(r)
             t == UpTo(L, r.stop)
  <1>1. /\ G \in Seq(Nat) /\ L \in Seq(Nat)
        /\ Locals(r.rule) = L /\ GlobalsBack = Reverse(G)
        /\ ~Contains(G, r.stop) /\ Contains(L, r.stop)
    BY CalledIs, LocalsAscend, GlobalsAscend DEF Answered
  <1>2. Called(r) = G \o t
    BY <1>1, CalledIs
  <1>3. CallHelper(G, r.stop) = Befores(G) /\ LocalCalls(r) = Nest(t)
    BY <1>1 DEF CallHelper, LocalCalls, Turned, Nest
  <1>4. t \in Seq(Nat)
    <2> HIDE DEF G, L
    <2>1. PICK j \in 1 .. Len(L) : L[j] = r.stop
      BY <1>1 DEF Contains
    <2>2. DOMAIN L = 1 .. Len(L) /\ Len(L) \in Nat
      BY <1>1
    <2>3. \E i \in DOMAIN L : L[i] = r.stop
      BY <2>1, <2>2
    <2>4. t = SubSeq(L, 1, CHOOSE i \in DOMAIN L : L[i] = r.stop)
      BY <2>3 DEF UpTo
    <2>5. PICK k \in 1 .. Len(L) : t = SubSeq(L, 1, k)
      BY <2>2, <2>3, <2>4
    <2> HIDE DEF t
    <2>6. \A i \in 1 .. k : L[i] \in Nat
      BY <1>1, <2>2, ElementOfSeq
    <2>7. 1 \in Int /\ k \in Int
      BY <2>2
    <2> QED
      BY <2>5, <2>6, <2>7, SubSeqProperties
  <1> HIDE DEF G, L, t
  <1>5. /\ Nest(G \o t) = (Befores(G) \o Nest(t)) \o Afters(Reverse(G))
        /\ Befores(G) \in Seq(Calls) /\ Nest(t) \in Seq(Calls)
    BY <1>1, <1>4, NestOfConcat
  <1>6. CalledSoFar(r) = Befores(G) \o Nest(t)
    BY <1>3 DEF CalledSoFar, G
  <1>7. CalledSoFar(r) \o <<>> = CalledSoFar(r)
    BY <1>5, <1>6, ConcatProperties, ConcatEmptySeq
  <1> QED
    BY <1>1, <1>2, <1>5, <1>6, <1>7

-----------------------------------------------------------------------------
(* The calls of the requests that are being handled.                        *)
CallsAt(k) ==
  k.phase \in {"handling", "answered"} =>
    /\ k.request \in Requests /\ k.request.kind = "page" /\ k.request.stop # Cookies
    /\ k.phase = PhaseAfter(k.request)
    /\ k.calls = CalledSoFar(k.request)

CallsInv ==
  /\ CallsAreNested
  /\ \A c \in Connections : CallsAt(conn[c])

LEMMA EnterKeepsCalls ==
  ASSUME HeapTypeOK, CallsInv, NEW c \in Connections, NEW k, Enter(c, k), CallsAt(k)
  PROVE  \A d \in Connections : CallsAt(conn'[d])
  <1>1. conn = [d \in Connections |-> conn[d]]
    BY DEF HeapTypeOK
  <1>2. conn' = [d \in Connections |-> IF d = c THEN k ELSE conn[d]]
    BY <1>1 DEF Enter
  <1> QED
    BY <1>2 DEF CallsInv

\* Calls do not ask for the node.
LEMMA NodeKeepsCalls ==
  ASSUME NEW k, ConnOK(k), CallsAt(k), NEW n
  PROVE  CallsAt([k EXCEPT !.node = n])
  <1> DEFINE l == [k EXCEPT !.node = n]
  <1>1. l.phase = k.phase /\ l.request = k.request /\ l.calls = k.calls
    BY DEF ConnOK
  <1> HIDE DEF l
  <1>2. CallsAt(l)
    BY <1>1 DEF CallsAt
  <1> QED
    BY <1>2 DEF l

LEMMA IdleKeepsCalls ==
  ASSUME NEW n
  PROVE  CallsAt(Idle) /\ CallsAt([Idle EXCEPT !.node = n]) /\ CallsAt([Idle EXCEPT !.phase = "upgraded"])
  BY DEF CallsAt, Idle

LEMMA BeforeHandleKeepsCalls ==
  ASSUME HeapTypeOK, CallsInv, NEW c \in Connections, NEW i, NEW k, ConnOK(k), CallsAt(k),
         BeforeHandle(c, i, k)
  PROVE  \A d \in Connections : CallsAt(conn'[d])
  <1>1. \E n : Enter(c, [k EXCEPT !.node = n]) \/ Enter(c, k)
    BY DEF BeforeHandle
  <1> QED
    BY <1>1, NodeKeepsCalls, EnterKeepsCalls

LEMMA AfterHandleKeepsCalls ==
  ASSUME HeapTypeOK, CallsInv, NEW c \in Connections, NEW k, CallsAt(k), AfterHandle(c, k)
  PROVE  \A d \in Connections : CallsAt(conn'[d])
  <1>1. Enter(c, k)
    BY DEF AfterHandle
  <1> QED
    BY <1>1, EnterKeepsCalls

LEMMA Unanswered == served' = Unserved => CallsAreNested'
  BY DEF CallsAreNested, Unserved, Served, NoRequest

LEMMA BeginKeepsCalls ==
  ASSUME HeapTypeOK, CallsInv, NEW c \in Connections, Begin(c)
  PROVE  CallsInv'
  <1>1. PICK r \in Requests, i \in issued \cup {NoId} :
             BeginRefused(c, r) \/ BeginPage(c, r, i) \/ BeginUpgrade(c, r, i)
    BY DEF Begin
  <1>2. CASE BeginRefused(c, r)
    <2>1. \A d \in Connections : CallsAt(conn'[d])
      BY <1>2, IdleKeepsCalls, EnterKeepsCalls DEF BeginRefused
    <2>2. r.stop = Cookies /\ served' = Served(r, CallHelper(Globals, Cookies))
      BY <1>2 DEF BeginRefused
    <2>3. CallHelper(Globals, Cookies) = Nest(Called(r))
      BY <2>2, RefusedNests
    <2>4. CallsAreNested'
      BY <2>2, <2>3 DEF CallsAreNested, Served, Nest
    <2> QED
      BY <2>1, <2>4 DEF CallsInv
  <1>3. CASE BeginPage(c, r, i)
    <2> DEFINE k == [phase |-> PhaseAfter(r), node |-> Null, request |-> r,
                     calls |-> CallHelper(Globals, r.stop) \o LocalCalls(r)]
    <2>1. /\ r.kind = "page" /\ r.stop # Cookies /\ BeforeHandle(c, i, k)
          /\ served' = Unserved
      BY <1>3 DEF BeginPage
    <2>2. ConnOK(k)
      BY DEF ConnOK, PhaseAfter, Phases
    <2>3. CallsAt(k)
      BY <2>1 DEF CallsAt, CalledSoFar
    <2> HIDE DEF k
    <2> QED
      BY <2>1, <2>2, <2>3, BeforeHandleKeepsCalls, Unanswered DEF CallsInv
  <1>4. CASE BeginUpgrade(c, r, i)
    <2> DEFINE k == [Idle EXCEPT !.phase = "upgraded"]
    <2>1. BeforeHandle(c, i, k) /\ served' = Unserved
      BY <1>4 DEF BeginUpgrade
    <2>2. ConnOK(k)
      BY DEF ConnOK, Idle, Phases
    <2>3. CallsAt(k)
      BY IdleKeepsCalls
    <2> HIDE DEF k
    <2> QED
      BY <2>1, <2>2, <2>3, BeforeHandleKeepsCalls, Unanswered DEF CallsInv
  <1> QED
    BY <1>1, <1>2, <1>3, <1>4

LEMMA MissingKeepsCalls ==
  ASSUME HeapTypeOK, CallsInv, NEW c \in Connections, Missing(c)
  PROVE  CallsInv'
  <1>1. AfterHandle(c, Idle) /\ served' = Served(NoRequest, Afters(GlobalsBack))
    BY DEF Missing
  <1>2. CallsAreNested'
    BY <1>1 DEF CallsAreNested, Served, NoRequest
  <1> QED
    BY <1>1, <1>2, IdleKeepsCalls, AfterHandleKeepsCalls DEF CallsInv

LEMMA FinishKeepsCalls ==
  ASSUME HeapTypeOK, CallsInv, NEW c \in Connections, Finish(c)
  PROVE  CallsInv'
  <1> DEFINE r == conn[c].request
  <1>1. AfterHandle(c, [Idle EXCEPT !.node = NodeOf(c)])
    BY DEF Finish
  <1>2. \A d \in Connections : CallsAt(conn'[d])
    BY <1>1, IdleKeepsCalls, AfterHandleKeepsCalls
  <1>3. /\ Phase(c) \in {"handling", "answered"} /\ r \in Requests /\ r.stop # Cookies
        /\ Phase(c) = PhaseAfter(r) /\ conn[c].calls = CalledSoFar(r)
    BY DEF Finish, Phase, CallsInv, CallsAt
  <1>4. served' = Served(r, CalledSoFar(r)
                              \o (IF Phase(c) = "answered" THEN <<>>
                                   ELSE Afters(LocalsBack(r.rule)))
                              \o Afters(GlobalsBack))
    BY <1>3 DEF Finish
  <1> HIDE DEF r
  <1>5. served' = Served(r, Nest(Called(r)))
    <2>1. CASE Phase(c) = "answered"
      <3>1. Answered(r) /\ ~r.throws
        BY <1>3, <2>1 DEF PhaseAfter
      <3>2. CalledSoFar(r) \o <<>> \o Afters(GlobalsBack) = Nest(Called(r))
        BY <1>3, <3>1, AnsweredNests
      <3> QED
        BY <1>4, <2>1, <3>2
    <2>2. CASE Phase(c) = "handling"
      <3>1. ~Answered(r)
        BY <1>3, <2>2 DEF PhaseAfter
      <3>2. CalledSoFar(r) \o Afters(LocalsBack(r.rule)) \o Afters(GlobalsBack) = Nest(Called(r))
        BY <1>3, <3>1, HandledNests
      <3> QED
        BY <1>4, <2>2, <3>2
    <2> QED
      BY <1>3, <2>1, <2>2
  <1>6. CallsAreNested'
    BY <1>5 DEF CallsAreNested, Served, Nest
  <1> QED
    BY <1>2, <1>6 DEF CallsInv

LEMMA HandlerKeepsCalls ==
  ASSUME HeapTypeOK, CallsInv, NEW c \in Connections,
         Apply(c) \/ Set(c) \/ RemoveKey(c) \/ RefreshExpiration(c) \/ Mutex(c)
  PROVE  CallsInv'
  <1>1. PICK n, m : Change(c, n, m)
    BY DEF Apply, Set, RemoveKey, RefreshExpiration, Mutex
  <1>2. Enter(c, [conn[c] EXCEPT !.node = n]) /\ served' = Unserved
    BY <1>1 DEF Change
  <1>3. CallsAt([conn[c] EXCEPT !.node = n])
    BY NodeKeepsCalls DEF HeapTypeOK, CallsInv
  <1> QED
    BY <1>2, <1>3, EnterKeepsCalls, Unanswered DEF CallsInv

LEMMA NextKeepsCalls == HeapTypeOK /\ CallsInv /\ [Next]_vars => CallsInv'
  <1> SUFFICES ASSUME HeapTypeOK, CallsInv, [Next]_vars PROVE CallsInv'
    OBVIOUS
  <1>1. ASSUME NEW c \in Connections, Begin(c) PROVE CallsInv'
    BY <1>1, BeginKeepsCalls
  <1>2. ASSUME NEW c \in Connections, Missing(c) PROVE CallsInv'
    BY <1>2, MissingKeepsCalls
  <1>3. ASSUME NEW c \in Connections, Finish(c) PROVE CallsInv'
    BY <1>3, FinishKeepsCalls
  <1>4. ASSUME NEW c \in Connections, Reconnect(c) PROVE CallsInv'
    <2>1. Enter(c, Idle) /\ served' = Unserved
      BY <1>4 DEF Reconnect
    <2> QED
      BY <2>1, IdleKeepsCalls, EnterKeepsCalls, Unanswered DEF CallsInv
  <1>5. ASSUME NEW c \in Connections,
               Apply(c) \/ Set(c) \/ RemoveKey(c) \/ RefreshExpiration(c) \/ Mutex(c)
        PROVE  CallsInv'
    BY <1>5, HandlerKeepsCalls
  <1>6. CASE Tick
    <2>1. served' = Unserved /\ conn' = conn
      BY <1>6 DEF Tick
    <2> QED
      BY <2>1, Unanswered DEF CallsInv
  <1>7. CASE Restart \/ Crash
    <2>1. served' = Unserved /\ conn' = [c \in Connections |-> Idle]
      BY <1>7 DEF Restart, Crash, Start
    <2> QED
      BY <2>1, IdleKeepsCalls, Unanswered DEF CallsInv
  <1>8. CASE UNCHANGED vars
    <2>1. served' = served /\ conn' = conn
      BY <1>8 DEF vars, heapVars
    <2> QED
      BY <2>1 DEF CallsInv, CallsAreNested
  <1> QED
    BY <1>1, <1>2, <1>3, <1>4, <1>5, <1>6, <1>7, <1>8 DEF Next

(* Whatever a rule and its blueprint name, in whatever order, and whichever *)
(* middleware answers: those that are called before are called after, once  *)
(* and the other way round (middleware_call_helper and                      *)
(* after_handlers_call_helper over the sorted indices of a rule).           *)
THEOREM CallsNest == Spec => []CallsAreNested
  <1>1. ASSUME Init PROVE CallsInv
    <2>1. conn = [c \in Connections |-> Idle] /\ served = Unserved
      BY <1>1 DEF Init
    <2>2. CallsAreNested
      BY <2>1 DEF CallsAreNested, Unserved, Served, NoRequest
    <2> QED
      BY <2>1, <2>2, IdleKeepsCalls DEF CallsInv
  <1>2. SessionInv => HeapTypeOK
    BY DEF SessionInv, HeapInv
  <1>3. CallsInv => CallsAreNested
    BY DEF CallsInv
  <1> QED
    BY <1>1, <1>2, <1>3, SessionInvHolds, NextKeepsCalls, PTL DEF Spec
=============================================================================
