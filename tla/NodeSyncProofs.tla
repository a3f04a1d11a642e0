--------------------------- MODULE NodeSyncProofs ---------------------------
(***************************************************************************)
(* Theorems about NodeSync, for any number of nodes, transactions, heights *)
(* and lost connections: what a return of JoinNodes means, and what the    *)
(* wait of ConnectNode relies on.                                          *)
(***************************************************************************)
EXTENDS NodeSync, FiniteSetTheorems, TLAPS

\* The locals of JoinNodes form a record.
IsJoiner(j) ==
    j = [at |-> j.at, type |-> j.type, next |-> j.next, blockHeights |-> j.blockHeights,
         firstPool |-> j.firstPool]

\* What the joiner has seen in this round, each node had since the round began.
SeenInv ==
    LET seen == 1..(joiner.next - 1) IN
    /\ joiner.type = "blocks" =>
          IF joiner.next = 1 THEN joiner.blockHeights = {}
          ELSE \E v : joiner.blockHeights = {v} /\ \A n \in seen : v \in had[n]
    /\ joiner.type = "mempools" => \A n \in seen : ToSet(joiner.firstPool) \in had[n]

JoinInv ==
    /\ pools \in [Nodes -> SUBSET Txs]
    /\ IsJoiner(joiner) /\ joiner.type \in JoinTypes
    /\ joiner.at \in {"idle", "read", "ok"}
    /\ joiner.at = "read" =>
          /\ joiner.next \in Nodes
          /\ \A n \in Nodes : Value(joiner.type, heights[n], pools[n]) \in had[n]
    /\ joiner.at = "ok" => joiner.next = NumNodes + 1
    /\ joiner.at # "idle" => SeenInv

\* A listing of a memory pool has the transactions of the pool, whatever their
\* order (GetRawMempool).
LEMMA ListingOfPool ==
    ASSUME NEW pool \in SUBSET Txs, NEW list \in Listings(pool)
    PROVE  ToSet(list) = pool
<1>1. IsFiniteSet(pool)
  BY FS_Subset, NodeSyncAssumption
<1>2. Cardinality(pool) \in Nat
  BY <1>1, FS_CardinalityType
<1> DEFINE D == 1..Cardinality(pool)
<1>3. IsFiniteSet(D) /\ Cardinality(D) = Cardinality(pool)
  BY <1>2, FS_Interval
<1>4. list \in [D -> pool] /\ \A i, j \in D : i # j => list[i] # list[j]
  BY DEF Listings, SetToSeqs
<1> HIDE DEF D
<1>5. list \in Injection(D, pool)
  BY <1>4 DEF Injection, IsInjective
<1>6. list \in Surjection(D, pool)
  BY <1>1, <1>3, <1>5, FS_Injection
<1>7. \A t \in pool : \E i \in D : list[i] = t
  BY <1>6 DEF Surjection
<1> QED
  BY <1>4, <1>7 DEF ToSet

\* Two heights are one when the joiner found no mismatch (syncBlocks).
LEMMA NoMismatch ==
    ASSUME NEW v, NEW h, ~Mismatch({v} \union {h})
    PROVE  v = h
<1> SUFFICES ASSUME v # h PROVE FALSE
  OBVIOUS
<1>1. IsFiniteSet({}) /\ Cardinality({}) = 0
  BY FS_EmptySet
<1>2. IsFiniteSet({v}) /\ Cardinality({v}) = 1
  BY <1>1, FS_AddElement, {} \union {v} = {v}
<1>3. Cardinality({v} \union {h}) = 2
  BY <1>2, FS_AddElement
<1> QED
  BY <1>3 DEF Mismatch

-----------------------------------------------------------------------------
(* The steps of the nodes                                                  *)

\* A node that changes only adds to what the nodes had.
LEMMA Observed ==
    ASSUME JoinInv, Observe, UNCHANGED joiner, pools' \in [Nodes -> SUBSET Txs]
    PROVE  JoinInv'
<1>1. \A n \in Nodes : joiner.at # "idle" => had[n] \subseteq had'[n]
  BY DEF Observe
<1>2. joiner.at = "read" =>
        \A n \in Nodes : Value(joiner.type, heights'[n], pools'[n]) \in had'[n]
  BY DEF Observe
<1>3. joiner.at # "idle" => 1..(joiner.next - 1) \subseteq Nodes
  <2>1. NumNodes \in Nat
    BY NodeSyncAssumption
  <2>2. CASE joiner.at = "read"
    BY <2>1, <2>2 DEF JoinInv, Nodes
  <2>3. CASE joiner.at = "ok"
    BY <2>1, <2>3 DEF JoinInv, Nodes
  <2> QED
    BY <2>2, <2>3 DEF JoinInv
<1>4. joiner.at # "idle" => SeenInv'
  <2> SUFFICES ASSUME joiner.at # "idle" PROVE SeenInv'
    OBVIOUS
  <2>1. SeenInv
    BY DEF JoinInv
  <2>2. \A n \in 1..(joiner.next - 1) : had[n] \subseteq had'[n]
    BY <1>1, <1>3
  <2> QED
    BY <2>1, <2>2 DEF SeenInv
<1>5. IsJoiner(joiner)'
  BY DEF JoinInv, IsJoiner
<1> QED
  BY <1>2, <1>4, <1>5 DEF JoinInv, Value

\* A step that changes neither the nodes nor the joiner.
LEMMA PeersStep ==
    ASSUME JoinInv, UNCHANGED <<heights, pools, joiner, had>>
    PROVE  JoinInv'
  BY DEF JoinInv, SeenInv, IsJoiner, Value

\* Mining, relay and connections.
LEMMA NodesStep ==
    ASSUME JoinInv, NodesNext
    PROVE  JoinInv'
<1>1. ASSUME NEW n \in Nodes, Mine(n) PROVE JoinInv'
  <2>1. pools' \in [Nodes -> SUBSET Txs]
    BY <1>1 DEF Mine, JoinInv
  <2> QED
    BY <1>1, <2>1, Observed DEF Mine
<1>2. ASSUME NEW n \in Nodes, NEW tx \in Txs, SendTx(n, tx) PROVE JoinInv'
  <2>1. pools' \in [Nodes -> SUBSET Txs]
    BY <1>2 DEF SendTx, JoinInv
  <2> QED
    BY <1>2, <2>1, Observed DEF SendTx
<1>3. ASSUME NEW a \in Nodes, NEW b \in Nodes, RelayBlocks(a, b) PROVE JoinInv'
  <2>1. pools' \in [Nodes -> SUBSET Txs]
    BY <1>3 DEF RelayBlocks, JoinInv
  <2> QED
    BY <1>3, <2>1, Observed DEF RelayBlocks
<1>4. ASSUME NEW a \in Nodes, NEW b \in Nodes, NEW tx \in Txs, RelayTx(a, b, tx)
      PROVE  JoinInv'
  <2>1. pools' \in [Nodes -> SUBSET Txs]
    BY <1>4 DEF RelayTx, JoinInv
  <2> QED
    BY <1>4, <2>1, Observed DEF RelayTx
<1>5. ASSUME NEW a \in Nodes, NEW b \in Nodes,
             Establish(a, b) \/ Drop(a, b) \/ Disconnect(a, b)
      PROVE  JoinInv'
  BY <1>5, PeersStep DEF Establish, Drop, Disconnect, Leave, nodeVars, joinVars
<1> QED
  BY <1>1, <1>2, <1>3, <1>4, <1>5 DEF NodesNext, Relay

-----------------------------------------------------------------------------
(* The steps of JoinNodes                                                  *)

\* The loop begins with nothing seen and one value for each node.
LEMMA BeginStep ==
    ASSUME JoinInv, NEW STATE j, IsJoiner(j), j.type \in JoinTypes, Begin(j),
           UNCHANGED <<heights, pools>>
    PROVE  JoinInv'
<1>1. /\ joiner'.at = "read" /\ joiner'.type = j.type /\ joiner'.next = 1
      /\ joiner'.blockHeights = {} /\ IsJoiner(joiner)'
  BY DEF Begin, FromTheTop, IsJoiner
<1>2. \A n \in Nodes : had'[n] = {Value(j.type, heights[n], pools[n])}
  BY DEF Begin
<1>3. 1 \in Nodes /\ 1..(joiner'.next - 1) = {}
  BY <1>1, NodeSyncAssumption DEF Nodes
<1>4. SeenInv'
  BY <1>1, <1>3 DEF SeenInv
<1>5. \A n \in Nodes : Value(joiner'.type, heights'[n], pools'[n]) \in had'[n]
  BY <1>1, <1>2 DEF Value
<1> QED
  BY <1>1, <1>3, <1>4, <1>5 DEF JoinInv

\* The joiner goes on to the next node, with j for its locals but for that.
LEMMA AgreesStep ==
    ASSUME JoinInv, joiner.at = "read", UNCHANGED <<heights, pools>>,
           NEW STATE j, IsJoiner(j), j.at = "read", j.type = joiner.type,
           j.next = joiner.next, Agrees(j), SeenInv'
    PROVE  JoinInv'
<1>1. NumNodes \in Nat /\ joiner.next \in 1..NumNodes
  BY NodeSyncAssumption DEF JoinInv, Nodes
<1>2. CASE joiner.next = NumNodes
  <2>1. joiner'.at = "ok" /\ joiner'.type = joiner.type /\ joiner'.next = NumNodes + 1
        /\ IsJoiner(joiner)'
    BY <1>2 DEF Agrees, IsJoiner
  <2> QED
    BY <2>1 DEF JoinInv
<1>3. CASE joiner.next # NumNodes
  <2>1. joiner'.at = "read" /\ joiner'.type = joiner.type
        /\ joiner'.next = joiner.next + 1 /\ IsJoiner(joiner)' /\ had' = had
    BY <1>3 DEF Agrees, IsJoiner
  <2>2. joiner'.next \in Nodes
    BY <1>1, <1>3, <2>1 DEF Nodes
  <2>3. \A n \in Nodes : Value(joiner'.type, heights'[n], pools'[n]) \in had'[n]
    BY <2>1 DEF JoinInv
  <2> QED
    BY <2>1, <2>2, <2>3 DEF JoinInv
<1> QED
  BY <1>2, <1>3

\* One look of JoinNodes at the block count of a node (syncBlocks).
LEMMA BlocksStep ==
    ASSUME JoinInv, syncBlocks
    PROVE  JoinInv'
<1> DEFINE h == heights[joiner.next]
           seen == joiner.blockHeights \union {h}
           j == [joiner EXCEPT !.blockHeights = seen]
<1>1. /\ joiner.at = "read" /\ joiner.type = "blocks" /\ UNCHANGED <<heights, pools>>
      /\ IF Mismatch(seen) THEN Begin(j) ELSE Agrees(j)
  BY DEF syncBlocks, nonJoinVars, nodeVars
<1>2. IsJoiner(j) /\ j.at = joiner.at /\ j.type = joiner.type /\ j.next = joiner.next
      /\ j.blockHeights = seen
  BY DEF JoinInv, IsJoiner
<1>3. NumNodes \in Nat /\ joiner.next \in 1..NumNodes /\ h \in had[joiner.next] /\ SeenInv
  BY <1>1, NodeSyncAssumption DEF JoinInv, Nodes, Value
<1> HIDE DEF j
<1>4. CASE Mismatch(seen)
  BY <1>1, <1>2, <1>4, BeginStep DEF JoinInv
<1>5. CASE ~Mismatch(seen)
  <2>1. seen = {h} /\ \A n \in 1..(joiner.next - 1) : h \in had[n]
    <3>1. CASE joiner.next = 1
      BY <1>1, <1>3, <3>1 DEF SeenInv
    <3>2. CASE joiner.next # 1
      <4>1. PICK v : joiner.blockHeights = {v} /\ \A n \in 1..(joiner.next - 1) : v \in had[n]
        BY <1>1, <1>3, <3>2 DEF SeenInv
      <4>2. v = h
        BY <1>5, <4>1, NoMismatch
      <4> QED
        BY <4>1, <4>2
    <3> QED
      BY <3>1, <3>2
  <2>2. \A n \in 1..joiner.next : h \in had[n]
    BY <1>3, <2>1
  <2>3. /\ joiner'.next = joiner.next + 1 /\ joiner'.type = "blocks"
        /\ joiner'.blockHeights = {h} /\ had' = had
    BY <1>1, <1>2, <1>5, <2>1 DEF Agrees, IsJoiner
  <2>4. SeenInv'
    BY <1>3, <2>2, <2>3 DEF SeenInv
  <2> HIDE DEF h, seen
  <2> QED
    BY <1>1, <1>2, <1>5, <2>4, AgreesStep
<1> QED
  BY <1>4, <1>5

\* One look of JoinNodes at the memory pool of a node (syncMempools).
LEMMA MempoolsStep ==
    ASSUME JoinInv, syncMempools
    PROVE  JoinInv'
<1>1. /\ joiner.at = "read" /\ joiner.type = "mempools" /\ UNCHANGED <<heights, pools>>
      /\ IsJoiner(joiner)
  BY DEF syncMempools, nonJoinVars, nodeVars, JoinInv
<1>2. /\ NumNodes \in Nat /\ joiner.next \in 1..NumNodes
      /\ pools[joiner.next] \in had[joiner.next] /\ pools[joiner.next] \in SUBSET Txs
      /\ \A n \in 1..(joiner.next - 1) : ToSet(joiner.firstPool) \in had[n]
  BY <1>1, NodeSyncAssumption DEF JoinInv, SeenInv, Nodes, Value
<1>3. PICK pool \in Listings(pools[joiner.next]) :
        \/ joiner.next = 1 /\ Agrees([joiner EXCEPT !.firstPool = pool])
        \/ joiner.next > 1 /\ pool = joiner.firstPool /\ Agrees(joiner)
        \/ joiner.next > 1 /\ pool # joiner.firstPool /\ Begin(joiner)
  BY DEF syncMempools
<1>4. ToSet(pool) = pools[joiner.next]
  BY <1>2, ListingOfPool
<1> DEFINE j == [joiner EXCEPT !.firstPool = pool]
<1>5. CASE joiner.next = 1 /\ Agrees(j)
  <2>1. IsJoiner(j) /\ j.at = joiner.at /\ j.type = joiner.type /\ j.next = joiner.next
        /\ j.firstPool = pool
    BY <1>1 DEF IsJoiner
  <2> HIDE DEF j
  <2>2. /\ joiner'.next = 2 /\ joiner'.type = "mempools"
        /\ joiner'.firstPool = pool /\ had' = had
    BY <1>1, <1>5, <2>1 DEF Agrees, IsJoiner
  <2>3. SeenInv'
    BY <1>2, <1>4, <1>5, <2>2 DEF SeenInv
  <2> QED
    BY <1>1, <1>5, <2>1, <2>3, AgreesStep
<1>6. CASE joiner.next > 1 /\ pool = joiner.firstPool /\ Agrees(joiner)
  <2>1. /\ joiner'.next = joiner.next + 1 /\ joiner'.type = "mempools"
        /\ joiner'.firstPool = pool /\ had' = had
    BY <1>1, <1>6 DEF Agrees, IsJoiner
  <2>2. \A n \in 1..joiner.next : ToSet(pool) \in had[n]
    BY <1>2, <1>4, <1>6
  <2>3. SeenInv'
    BY <1>2, <2>1, <2>2 DEF SeenInv
  <2> QED
    BY <1>1, <1>6, <2>3, AgreesStep
<1>7. CASE Begin(joiner)
  BY <1>1, <1>7, BeginStep DEF JoinTypes
<1> QED
  BY <1>3, <1>5, <1>6, <1>7

\* The call returns.
LEMMA ReturnStep ==
    ASSUME JoinInv, JoinReturned
    PROVE  JoinInv'
<1>1. joiner'.at = "idle" /\ joiner'.type = joiner.type /\ IsJoiner(joiner)'
  BY DEF JoinReturned, FromTheTop, JoinInv, IsJoiner
<1> QED
  BY <1>1 DEF JoinInv, JoinReturned, nonJoinVars, nodeVars

-----------------------------------------------------------------------------

\* The calls of the other goroutine leave the nodes and the joiner alone.
LEMMA MainStep ==
    ASSUME JoinInv,
           \/ \E p \in Pairs : \/ ConnectNode(p[1], p[2]) \/ RemoveNode(p[1], p[2])
                               \/ NodesConnected(p[1], p[2])
           \/ MainNext \/ CallFails
    PROVE  JoinInv'
<1>1. UNCHANGED nonMainVars
  BY DEF ConnectNode, RemoveNode, NodesConnected, Call, MainNext, ConnectCount,
         ConnectAdd, ConnectWait, RemoveRemove, RemoveLook, ConnectedFrom, ConnectedTo,
         CallFails
<1> QED
  BY <1>1, PeersStep DEF nonMainVars, nodeVars, joinVars

\* What the joiner knows of the nodes holds in every state (JoinNodes).
LEMMA JoinInvariance == Spec => []JoinInv
<1>1. ASSUME Init PROVE JoinInv
  <2>1. IsJoiner(joiner) /\ joiner.at = "idle" /\ joiner.type \in JoinTypes
    BY <1>1 DEF Init, IsJoiner
  <2> QED
    BY <1>1, <2>1 DEF Init, JoinInv
<1>2. ASSUME JoinInv, [Next]_vars PROVE JoinInv'
  <2>1. CASE JoinNodes
    BY <1>2, <2>1, BeginStep DEF JoinNodes, nonJoinVars, nodeVars, JoinInv
  <2>2. CASE UNCHANGED vars
    BY <1>2, <2>2, PeersStep DEF vars, nodeVars, joinVars
  <2> QED
    BY <1>2, <2>1, <2>2, NodesStep, BlocksStep, MempoolsStep, ReturnStep, MainStep
       DEF Next, JoinNext
<1> QED
  BY <1>1, <1>2, PTL DEF Spec

\* JoinNodes reads one node after another while they all change: when it
\* returns nil there is a value that each of them had since the last mismatch
\* (syncBlocks, syncMempools).
THEOREM JoinCorrect == Spec => []JoinSawOneValue
<1>1. ASSUME JoinInv PROVE JoinSawOneValue
  <2> SUFFICES ASSUME joiner.at = "ok"
               PROVE  \E v \in had[1] : \A n \in Nodes : v \in had[n]
    BY DEF JoinSawOneValue
  <2>1. joiner.next = NumNodes + 1 /\ SeenInv /\ joiner.type \in JoinTypes
    BY <1>1 DEF JoinInv
  <2>2. NumNodes \in Nat /\ 1 \in Nodes /\ joiner.next # 1 /\ 1..(joiner.next - 1) = Nodes
    BY <2>1, NodeSyncAssumption DEF Nodes
  <2>3. \E v : \A n \in Nodes : v \in had[n]
    BY <2>1, <2>2 DEF SeenInv, JoinTypes
  <2> QED
    BY <2>2, <2>3
<1> QED
  BY <1>1, JoinInvariance, PTL

-----------------------------------------------------------------------------
(* Types                                                                   *)

\* The locals of main's call form a record.
IsCall(m) == m = [at |-> m.at, from |-> m.from, to |-> m.to, numPeers |-> m.numPeers]

CallTypes == {"idle", "count", "add", "wait", "remove", "gone", "from", "to"}

\* What the nodes keep for main, and main's call.
PeersType ==
    /\ wanted \subseteq Nodes \X Nodes /\ links \subseteq Nodes \X Nodes
    /\ drops \in 0..MaxDrops
    /\ IsCall(main) /\ main.at \in CallTypes
    /\ <<main.from, main.to>> \in Pairs \union {<<1, 1>>}
    /\ main.numPeers \in 0..(NumNodes * NumNodes) /\ left \in BOOLEAN

\* What the nodes keep for the joiner, and its place in the list of nodes.
NodesType ==
    /\ heights \in [Nodes -> 0..MaxHeight] /\ sent \subseteq Txs
    /\ joiner.next \in 1..(NumNodes + 1)

\* Connections are between nodes, so the count of peers is bounded (GetPeerInfo).
LEMMA PeersCount ==
    ASSUME links \subseteq Nodes \X Nodes, NEW n
    PROVE  IsFiniteSet(Peers(n)) /\ Cardinality(Peers(n)) \in 0..(NumNodes * NumNodes)
<1>1. NumNodes \in Nat
  BY NodeSyncAssumption
<1>2. IsFiniteSet(Nodes) /\ Cardinality(Nodes) = NumNodes
  <2>1. /\ IsFiniteSet(1..NumNodes)
        /\ Cardinality(1..NumNodes) = IF 1 > NumNodes THEN 0 ELSE NumNodes - 1 + 1
    BY <1>1, FS_Interval
  <2> QED
    BY <1>1, <2>1 DEF Nodes
<1>3. /\ IsFiniteSet(Nodes \X Nodes)
      /\ Cardinality(Nodes \X Nodes) = Cardinality(Nodes) * Cardinality(Nodes)
  BY <1>2, FS_Product
<1>4. Peers(n) \subseteq Nodes \X Nodes
  BY DEF Peers
<1>5. IsFiniteSet(Peers(n)) /\ Cardinality(Peers(n)) <= NumNodes * NumNodes
  BY <1>2, <1>3, <1>4, FS_Subset
<1>6. Cardinality(Peers(n)) \in Nat
  BY <1>5, FS_CardinalityType
<1>7. NumNodes * NumNodes \in Nat
  BY <1>1
<1> QED
  BY <1>5, <1>6, <1>7

\* A call that returned.
LEMMA IdleCall ==
    /\ IsCall(NoCall) /\ NoCall.at \in CallTypes
    /\ <<NoCall.from, NoCall.to>> \in Pairs \union {<<1, 1>>}
    /\ NoCall.numPeers \in 0..(NumNodes * NumNodes)
<1>1. NumNodes * NumNodes \in Nat
  BY NodeSyncAssumption
<1>2. 0 \in 0..(NumNodes * NumNodes)
  BY <1>1
<1> QED
  BY <1>2 DEF NoCall, IsCall, CallTypes

\* Main's step keeps the types of the connections (ConnectNode, RemoveNode,
\* NodesConnected).
LEMMA MainType ==
    ASSUME PeersType,
           \/ \E p \in Pairs : \/ ConnectNode(p[1], p[2]) \/ RemoveNode(p[1], p[2])
                               \/ NodesConnected(p[1], p[2])
           \/ MainNext
           \/ CallFails
    PROVE  PeersType'
<1>1. <<main.from, main.to>> \in Nodes \X Nodes /\ Pairs \subseteq Nodes \X Nodes
  BY NodeSyncAssumption DEF PeersType, Nodes
<1>2. NumNodes * NumNodes \in Nat
  BY NodeSyncAssumption
<1>3. ASSUME CallReturns, links' = links, drops' = drops, wanted' \subseteq Nodes \X Nodes
      PROVE  PeersType'
  BY <1>2, <1>3, IdleCall DEF PeersType, CallReturns
<1>4. ASSUME NEW p \in Pairs, NEW at \in CallTypes, Call(at, p[1], p[2])
      PROVE  PeersType'
  <2>1. main' = [at |-> at, from |-> p[1], to |-> p[2], numPeers |-> 0]
    BY <1>4 DEF Call, NoCall
  <2>2. p = <<p[1], p[2]>>
    BY <1>1
  <2> QED
    <3>1. IsCall(main') /\ main'.at \in CallTypes /\ <<main'.from, main'.to>> \in Pairs
      BY <2>1, <2>2 DEF IsCall
    <3>2. main'.numPeers \in 0..(NumNodes * NumNodes)
      BY <1>2, <2>1
    <3>3. left' \in BOOLEAN /\ UNCHANGED peerVars
      BY <1>4 DEF Call
    <3> QED
      BY <3>1, <3>2, <3>3 DEF PeersType, peerVars, IsCall
<1>5. ASSUME NEW at \in CallTypes, NEW n \in 0..(NumNodes * NumNodes),
             main' = [main EXCEPT !.at = at, !.numPeers = n],
             links' = links, drops' = drops, wanted' \subseteq Nodes \X Nodes,
             left' \in BOOLEAN
      PROVE  PeersType'
  <2>1. main' = [at |-> at, from |-> main.from, to |-> main.to, numPeers |-> n]
    BY <1>5 DEF PeersType, IsCall
  <2> QED
    BY <1>5, <2>1 DEF PeersType, IsCall
<1>6. ASSUME NEW at \in CallTypes, Continue([main EXCEPT !.at = at]),
             links' = links, drops' = drops, wanted' \subseteq Nodes \X Nodes
      PROVE  PeersType'
  <2>1. main' = [main EXCEPT !.at = at, !.numPeers = main.numPeers]
    BY <1>6 DEF PeersType, IsCall, Continue
  <2> QED
    BY <1>5, <1>6, <2>1 DEF PeersType, Continue
<1>7. CASE ConnectCount
  BY <1>5, <1>7, PeersCount DEF ConnectCount, PeersType, CallTypes, peerVars
<1>8. CASE ConnectAdd
  BY <1>1, <1>3, <1>6, <1>8 DEF ConnectAdd, PeersType, CallTypes
<1>9. CASE RemoveRemove
  BY <1>3, <1>6, <1>9 DEF RemoveRemove, PeersType, CallTypes
<1>10. CASE ConnectedFrom
  BY <1>3, <1>6, <1>10 DEF ConnectedFrom, PeersType, CallTypes, peerVars
<1>11. CASE ConnectWait \/ RemoveLook \/ ConnectedTo \/ CallFails
  BY <1>3, <1>11
     DEF ConnectWait, RemoveLook, ConnectedTo, CallFails, PeersType, peerVars
<1>12. CASE \E p \in Pairs : \/ ConnectNode(p[1], p[2]) \/ RemoveNode(p[1], p[2])
                             \/ NodesConnected(p[1], p[2])
  BY <1>4, <1>12 DEF ConnectNode, RemoveNode, NodesConnected, CallTypes
<1> QED
  BY <1>7, <1>8, <1>9, <1>10, <1>11, <1>12 DEF MainNext

\* A step of the nodes or of the joiner keeps the types of the connections.
LEMMA OtherType ==
    ASSUME PeersType, NodesNext \/ JoinNodes \/ JoinNext \/ JoinReturned \/ UNCHANGED vars
    PROVE  PeersType'
<1>1. ASSUME NEW a \in Nodes, NEW b \in Nodes, Establish(a, b) PROVE PeersType'
  BY <1>1 DEF Establish, PeersType, mainVars, IsCall
<1>2. ASSUME NEW a \in Nodes, NEW b \in Nodes, Drop(a, b) PROVE PeersType'
  BY <1>2, NodeSyncAssumption DEF Drop, Leave, PeersType, IsCall
<1>3. ASSUME NEW a \in Nodes, NEW b \in Nodes, Disconnect(a, b) PROVE PeersType'
  BY <1>3 DEF Disconnect, Leave, PeersType, IsCall
<1>4. CASE UNCHANGED <<peerVars, mainVars>>
  BY <1>4 DEF peerVars, mainVars, PeersType, IsCall
<1>5. ASSUME NEW a \in Nodes, NEW b \in Nodes, Relay(a, b) PROVE PeersType'
  BY <1>4, <1>5 DEF Relay, RelayBlocks, RelayTx
<1>6. ASSUME NEW n \in Nodes, Mine(n) \/ (\E tx \in Txs : SendTx(n, tx)) PROVE PeersType'
  BY <1>4, <1>6 DEF Mine, SendTx
<1>7. CASE JoinNodes \/ JoinNext \/ JoinReturned \/ UNCHANGED vars
  BY <1>4, <1>7 DEF JoinNodes, JoinNext, syncBlocks, syncMempools, JoinReturned,
                    nonJoinVars, vars
<1> QED
  BY <1>1, <1>2, <1>3, <1>5, <1>6, <1>7 DEF NodesNext

\* Every step keeps the heights and the joiner's place in the list (JoinNodes).
LEMMA NodesTyped ==
    ASSUME NodesType, JoinInv, [Next]_vars
    PROVE  NodesType'
<1>1. NumNodes \in Nat \ {0} /\ MaxHeight \in Nat
  BY NodeSyncAssumption
<1>2. ASSUME joiner' = joiner, heights' \in [Nodes -> 0..MaxHeight], sent' \subseteq Txs
      PROVE  NodesType'
  BY <1>2 DEF NodesType
<1>3. ASSUME UNCHANGED <<heights, sent>>, joiner'.next \in 1..(NumNodes + 1)
      PROVE  NodesType'
  BY <1>3 DEF NodesType
<1>4. ASSUME NEW n \in Nodes, Mine(n) PROVE NodesType'
  BY <1>1, <1>2, <1>4 DEF Mine, NodesType
<1>5. ASSUME NEW n \in Nodes, NEW tx \in Txs, SendTx(n, tx) PROVE NodesType'
  BY <1>2, <1>5 DEF SendTx, NodesType
<1>6. ASSUME NEW a \in Nodes, NEW b \in Nodes, RelayBlocks(a, b) PROVE NodesType'
  BY <1>2, <1>6 DEF RelayBlocks, NodesType
<1>7. ASSUME UNCHANGED <<heights, sent, joiner>> PROVE NodesType'
  BY <1>2, <1>7 DEF NodesType
<1>8. ASSUME NEW a \in Nodes, NEW b \in Nodes,
             \/ \E tx \in Txs : RelayTx(a, b, tx)
             \/ Establish(a, b) \/ Drop(a, b) \/ Disconnect(a, b)
      PROVE  NodesType'
  BY <1>7, <1>8 DEF RelayTx, Establish, Drop, Disconnect, Leave, nodeVars, joinVars
<1>9. CASE NodesNext
  BY <1>4, <1>5, <1>6, <1>8, <1>9 DEF NodesNext, Relay
<1>10. CASE \/ \E p \in Pairs : \/ ConnectNode(p[1], p[2]) \/ RemoveNode(p[1], p[2])
                                \/ NodesConnected(p[1], p[2])
            \/ MainNext \/ CallFails \/ UNCHANGED vars
  BY <1>7, <1>10
     DEF ConnectNode, RemoveNode, NodesConnected, Call, MainNext, ConnectCount, ConnectAdd,
         ConnectWait, RemoveRemove, RemoveLook, ConnectedFrom, ConnectedTo, CallFails,
         nonMainVars, nodeVars, joinVars, vars
<1>11. ASSUME NEW STATE j, IsJoiner(j), Begin(j), UNCHANGED nonJoinVars PROVE NodesType'
  <2>1. joiner'.next = 1
    BY <1>11 DEF Begin, FromTheTop, IsJoiner
  <2> QED
    BY <1>1, <1>3, <1>11, <2>1 DEF nonJoinVars, nodeVars
<1>12. ASSUME NEW STATE j, IsJoiner(j), j.next = joiner.next, joiner.at = "read", Agrees(j),
              UNCHANGED nonJoinVars
       PROVE  NodesType'
  <2>1. joiner'.next = joiner.next + 1 /\ joiner.next \in Nodes
    BY <1>12 DEF Agrees, IsJoiner, JoinInv
  <2> QED
    BY <1>1, <1>3, <1>12, <2>1 DEF nonJoinVars, nodeVars, Nodes
<1>13. IsJoiner(joiner)
  BY DEF JoinInv
<1>14. CASE JoinNodes
  BY <1>11, <1>13, <1>14 DEF JoinNodes
<1>15. CASE syncBlocks
  <2> DEFINE j == [joiner EXCEPT !.blockHeights = joiner.blockHeights
                                                    \union {heights[joiner.next]}]
  <2>1. IsJoiner(j) /\ j.next = joiner.next
    BY <1>13 DEF IsJoiner
  <2>2. (Begin(j) \/ Agrees(j)) /\ joiner.at = "read" /\ UNCHANGED nonJoinVars
    BY <1>15 DEF syncBlocks
  <2> HIDE DEF j
  <2> QED
    BY <1>11, <1>12, <2>1, <2>2
<1>16. CASE syncMempools
  <2>1. PICK pool : \/ Agrees([joiner EXCEPT !.firstPool = pool])
                    \/ Agrees(joiner)
                    \/ Begin(joiner)
    BY <1>16 DEF syncMempools
  <2> DEFINE j == [joiner EXCEPT !.firstPool = pool]
  <2>2. IsJoiner(j) /\ j.next = joiner.next
    BY <1>13 DEF IsJoiner
  <2>3. joiner.at = "read" /\ UNCHANGED nonJoinVars /\ (Agrees(j) \/ Agrees(joiner) \/ Begin(joiner))
    BY <1>16, <2>1 DEF syncMempools
  <2> HIDE DEF j
  <2> QED
    BY <1>11, <1>12, <1>13, <2>2, <2>3
<1>17. CASE JoinReturned
  <2>1. joiner'.next = 1
    BY <1>13, <1>17 DEF JoinReturned, FromTheTop, IsJoiner
  <2> QED
    BY <1>1, <1>3, <1>17, <2>1 DEF JoinReturned, nonJoinVars, nodeVars
<1> QED
  BY <1>9, <1>10, <1>14, <1>15, <1>16, <1>17 DEF Next, JoinNext

\* The types of the connections and of main's call hold in every state.
LEMMA PeersInvariance == Spec => []PeersType
<1>1. Init => PeersType
  <2> SUFFICES ASSUME Init PROVE PeersType
    OBVIOUS
  <2>1. 0 \in 0..MaxDrops
    BY NodeSyncAssumption
  <2>2. main = NoCall /\ left \in BOOLEAN
    BY DEF Init
  <2>3. wanted \subseteq Nodes \X Nodes /\ links \subseteq Nodes \X Nodes
    BY NodeSyncAssumption DEF Init
  <2> QED
    BY <2>1, <2>2, <2>3, IdleCall DEF Init, PeersType
<1>2. PeersType /\ [Next]_vars => PeersType'
  BY MainType, OtherType DEF Next
<1> QED
  BY <1>1, <1>2, PTL DEF Spec

\* Every reachable state of the nodes, the joiner and main is well typed
\* (JoinNodes, ConnectNode, RemoveNode, NodesConnected).
THEOREM TypeCorrect == Spec => []TypeOK
<1>1. Init => NodesType
  <2> SUFFICES ASSUME Init PROVE NodesType
    OBVIOUS
  <2>1. heights \in [Nodes -> 0..MaxHeight]
    BY NodeSyncAssumption DEF Init
  <2>2. joiner.next = 1
    BY DEF Init
  <2> QED
    BY <2>1, <2>2, NodeSyncAssumption DEF Init, NodesType
<1>2. NodesType /\ JoinInv /\ [Next]_vars => NodesType'
  BY NodesTyped
<1>3. PeersType /\ NodesType /\ JoinInv => TypeOK
  BY DEF PeersType, NodesType, JoinInv, TypeOK, CallTypes
<1> QED
  BY <1>1, <1>2, <1>3, PeersInvariance, JoinInvariance, PTL DEF Spec

-----------------------------------------------------------------------------
(* The wait of ConnectNode                                                 *)

\* The connection ConnectNode asks for.
Wanted == <<main.from, main.to>>

\* The peers are at least those ConnectNode counted, and the connection if it
\* is there is none of those.
Counted ==
    LET n == Cardinality(Peers(main.from))
    IN IF Wanted \in links THEN n > main.numPeers ELSE n >= main.numPeers

\* The wait is for a connection that is wanted, with a count that still holds.
WaitInv ==
    /\ main.at = "wait" => Wanted \in wanted
    /\ main.at \in {"add", "wait"} => left \/ Counted

\* ConnectNode waits only for a connection that is wanted, and until a peer of
\* its node leaves the wait is over as soon as there is that connection.
WaitEnds ==
    main.at = "wait" =>
        /\ <<main.from, main.to>> \in wanted
        /\ <<main.from, main.to>> \in links => left \/ ~StillWaiting

\* A connection more or less is a peer more or less for its two nodes only.
LEMMA PeersEstablished ==
    ASSUME PeersType, NEW a \in Nodes, NEW b \in Nodes, Establish(a, b), WaitInv
    PROVE  WaitInv'
<1>1. /\ links' = links \union {<<a, b>>} /\ <<a, b>> \notin links
      /\ UNCHANGED <<main, left, wanted>>
  BY DEF Establish, mainVars
<1> DEFINE from == main.from  old == Peers(from)  new == Peers(from)'
<1>2. links' \subseteq Nodes \X Nodes
  BY <1>1 DEF PeersType
<1>3. IsFiniteSet(old) /\ Cardinality(old) \in Nat
  BY PeersCount, FS_CardinalityType DEF PeersType
<1>4. main.numPeers \in Nat
  BY NodeSyncAssumption DEF PeersType
<1>5. CASE from \in {a, b}
  <2>1. new = old \union {<<a, b>>} /\ <<a, b>> \notin old
    BY <1>1, <1>5 DEF Peers
  <2>2. Cardinality(new) = Cardinality(old) + 1
    BY <1>3, <2>1, FS_AddElement
  <2>3. Counted => Counted'
    BY <1>1, <1>3, <1>4, <2>2 DEF Counted, Wanted
  <2> QED
    BY <1>1, <2>3 DEF WaitInv, Wanted
<1>6. CASE from \notin {a, b}
  <2>1. new = old /\ (Wanted \in links' <=> Wanted \in links)
    BY <1>1, <1>6 DEF Peers, Wanted
  <2>2. Counted => Counted'
    BY <1>1, <2>1 DEF Counted, Wanted
  <2> QED
    BY <1>1, <2>2 DEF WaitInv, Wanted
<1> QED
  BY <1>5, <1>6

\* A connection that goes is a peer less, and left is set for a node of main's.
LEMMA PeersLeft ==
    ASSUME NEW a, NEW b, Leave(a, b), WaitInv
    PROVE  WaitInv'
<1>1. /\ links' = links \ {<<a, b>>} /\ UNCHANGED <<main, wanted>>
      /\ left' = (left \/ (main.at # "idle" /\ main.from \in {a, b}))
  BY DEF Leave
<1>2. CASE main.at = "idle" \/ main.from \in {a, b}
  BY <1>1, <1>2 DEF WaitInv, Wanted
<1>3. CASE main.from \notin {a, b}
  <2>1. Peers(main.from)' = Peers(main.from)
    BY <1>1, <1>3 DEF Peers
  <2>2. Wanted \in links' <=> Wanted \in links
    BY <1>1, <1>3 DEF Wanted
  <2>3. Counted' = Counted
    BY <1>1, <2>1, <2>2 DEF Counted, Wanted
  <2> QED
    BY <1>1, <2>3 DEF WaitInv, Wanted
<1> QED
  BY <1>2, <1>3

\* A step that changes neither the connections nor main's call.
LEMMA WaitSame ==
    ASSUME WaitInv, UNCHANGED <<wanted, links, main, left>>
    PROVE  WaitInv'
  BY DEF WaitInv, Wanted, Counted, Peers

\* No step breaks what the wait relies on (ConnectNode).
LEMMA WaitStep ==
    ASSUME PeersType, WaitInv, [Next]_vars
    PROVE  WaitInv'
<1>1. ASSUME main'.at \notin {"add", "wait"} PROVE WaitInv'
  BY <1>1 DEF WaitInv
<1>2. ASSUME NEW at \in CallTypes \ {"add", "wait"}, NEW from, NEW to, Call(at, from, to)
      PROVE  WaitInv'
  BY <1>1, <1>2 DEF Call, NoCall
<1>3. ASSUME CallReturns PROVE WaitInv'
  BY <1>1, <1>3 DEF CallReturns, NoCall
<1>4. IsCall(main)
  BY DEF PeersType
<1>5. ASSUME NEW at \in CallTypes \ {"add", "wait"}, Continue([main EXCEPT !.at = at])
      PROVE  WaitInv'
  BY <1>1, <1>4, <1>5 DEF Continue, IsCall
<1>6. CASE ConnectCount
  <2>1. /\ main'.at = "add" /\ main'.from = main.from /\ main'.to = main.to
        /\ main'.numPeers = Cardinality(Peers(main.from)) /\ UNCHANGED <<wanted, links>>
        /\ left' = (left \/ Wanted \in links)
    BY <1>4, <1>6 DEF ConnectCount, IsCall, peerVars, Wanted
  <2>2. Peers(main.from)' = Peers(main.from)
    BY <2>1 DEF Peers
  <2>3. Cardinality(Peers(main.from)) \in Nat
    BY PeersCount, FS_CardinalityType DEF PeersType
  <2>4. Wanted \notin links => Counted'
    <3>1. Wanted \notin links => Wanted' \notin links'
      BY <2>1 DEF Wanted
    <3> QED
      BY <2>1, <2>2, <2>3, <3>1 DEF Counted
  <2>5. left' \/ Counted'
    BY <2>1, <2>4
  <2> QED
    BY <2>1, <2>5 DEF WaitInv
<1>7. CASE ConnectAdd
  <2>1. CASE Wanted \in wanted
    BY <1>3, <1>7, <2>1 DEF ConnectAdd, Wanted
  <2>2. CASE Wanted \notin wanted
    <3>1. /\ main'.at = "wait" /\ main'.from = main.from /\ main'.to = main.to
          /\ main'.numPeers = main.numPeers
          /\ wanted' = wanted \union {Wanted} /\ UNCHANGED <<links, left>>
      BY <1>4, <1>7, <2>2 DEF ConnectAdd, Continue, IsCall, Wanted
    <3>2. Counted' = Counted /\ Wanted' = Wanted
      BY <3>1 DEF Counted, Wanted, Peers
    <3> QED
      BY <1>7, <3>1, <3>2 DEF WaitInv, ConnectAdd
  <2> QED
    BY <2>1, <2>2
<1>8. CASE RemoveRemove
  BY <1>3, <1>5, <1>8 DEF RemoveRemove, CallTypes
<1>9. CASE ConnectedFrom
  BY <1>3, <1>5, <1>9 DEF ConnectedFrom, CallTypes
<1>10. CASE ConnectWait \/ RemoveLook \/ ConnectedTo \/ CallFails
  BY <1>3, <1>10 DEF ConnectWait, RemoveLook, ConnectedTo, CallFails
<1>11. CASE \E p \in Pairs : \/ ConnectNode(p[1], p[2]) \/ RemoveNode(p[1], p[2])
                             \/ NodesConnected(p[1], p[2])
  BY <1>2, <1>11 DEF ConnectNode, RemoveNode, NodesConnected, CallTypes
<1>12. CASE JoinNodes \/ JoinNext \/ JoinReturned \/ UNCHANGED vars
  BY <1>12, WaitSame DEF JoinNodes, JoinNext, syncBlocks, syncMempools, JoinReturned,
                         nonJoinVars, peerVars, mainVars, vars
<1>13. ASSUME NEW n \in Nodes, Mine(n) \/ (\E tx \in Txs : SendTx(n, tx)) PROVE WaitInv'
  BY <1>13, WaitSame DEF Mine, SendTx, peerVars, mainVars
<1>14. ASSUME NEW a \in Nodes, NEW b \in Nodes, Relay(a, b) PROVE WaitInv'
  BY <1>14, WaitSame DEF Relay, RelayBlocks, RelayTx, peerVars, mainVars
<1>15. CASE NodesNext
  BY <1>13, <1>14, <1>15, PeersEstablished, PeersLeft DEF NodesNext, Drop, Disconnect
<1> QED
  BY <1>6, <1>7, <1>8, <1>9, <1>10, <1>11, <1>12, <1>15 DEF Next, MainNext

\* As long as no peer leaves while ConnectNode counts, asks and waits, the new
\* connection raises the count above the one it remembers, whatever other
\* connections come: the wait is not for a connection that is there already, or
\* that nobody wants (ConnectNode).
THEOREM ConnectCorrect == Spec => []WaitEnds
<1>1. Init => WaitInv
  BY DEF Init, NoCall, WaitInv
<1>2. PeersType /\ WaitInv /\ [Next]_vars => WaitInv'
  BY WaitStep
<1>3. PeersType /\ WaitInv => WaitEnds
  <2> SUFFICES ASSUME PeersType, WaitInv, main.at = "wait", Wanted \in links, ~left
               PROVE  ~StillWaiting
    BY DEF WaitInv, WaitEnds, Wanted
  <2>1. Cardinality(Peers(main.from)) > main.numPeers
    BY DEF WaitInv, Counted
  <2>2. Cardinality(Peers(main.from)) \in Nat /\ main.numPeers \in Nat
    BY PeersCount, FS_CardinalityType, NodeSyncAssumption DEF PeersType
  <2> QED
    BY <2>1, <2>2 DEF StillWaiting
<1> QED
  BY <1>1, <1>2, <1>3, PeersInvariance, PTL DEF Spec
=============================================================================
