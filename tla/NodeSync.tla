------------------------------ MODULE NodeSync ------------------------------
(***************************************************************************)
(* The helpers of src/dcrdtest/utils.go that make tests of several nodes   *)
(* wait: JoinNodes, which polls the nodes one after another until they     *)
(* agree, and ConnectNode, RemoveNode and NodesConnected, which change and *)
(* look at the peers of a node.                                            *)
(*                                                                         *)
(*   joiner   a goroutine of the test inside JoinNodes                     *)
(*   main     a goroutine of the test inside one of the other three        *)
(*   nodes    dcrd: mining, relay, connections; each of them changes       *)
(*            between any two RPCs of a goroutine (external)               *)
(*                                                                         *)
(* X_Fault is X with a plausible programming error, used by no formula.    *)
(***************************************************************************)
EXTENDS Naturals, Sequences, FiniteSets, SequencesExt

CONSTANTS
    NumNodes,   \* the nodes given to JoinNodes, in their order
    Pairs,      \* the <<from, to>> that main connects and removes
    InitWanted, \* connections that other calls asked for before
    Txs,        \* transactions a test may send
    MaxHeight,  \* bound on the height of a node
    MaxDrops    \* bound on connections lost without RemoveNode

Nodes == 1..NumNodes

ASSUME NodeSyncAssumption ==
    /\ NumNodes \in Nat \ {0}
    /\ Pairs \subseteq Nodes \X Nodes /\ InitWanted \subseteq Nodes \X Nodes
    /\ IsFiniteSet(Txs)
    /\ MaxHeight \in Nat \ {0} /\ MaxDrops \in Nat

VARIABLES
    heights,    \* block count of each node
    pools,      \* memory pool of each node
    wanted,     \* <<a, b>>: a keeps up a persistent connection to b
    links,      \* <<a, b>>: a connection that a made to b
    drops,      \* connections lost so far
    sent,       \* transactions sent so far
    joiner,     \* the locals of JoinNodes
    had,        \* the values each node had since the joiner's loop began anew
    main,       \* the locals of main's call
    left        \* a peer of main's from left since its call began, or the one
                \* it connects to was still there, from before RemoveNode

nodeVars == <<heights, pools, sent>>
peerVars == <<wanted, links, drops>>
joinVars == <<joiner, had>>
mainVars == <<main, left>>
vars == <<nodeVars, peerVars, joinVars, mainVars>>

-----------------------------------------------------------------------------

JoinTypes == {"blocks", "mempools"}
NoCall == [at |-> "idle", from |-> 1, to |-> 1, numPeers |-> 0]

TypeOK ==
    /\ heights \in [Nodes -> 0..MaxHeight] /\ pools \in [Nodes -> SUBSET Txs]
    /\ wanted \subseteq Nodes \X Nodes /\ links \subseteq Nodes \X Nodes
    /\ drops \in 0..MaxDrops /\ sent \subseteq Txs
    /\ joiner.at \in {"idle", "read", "ok"} /\ joiner.next \in 1..(NumNodes + 1)
    /\ main.at \in {"idle", "count", "add", "wait", "remove", "gone", "from", "to"}
    /\ <<main.from, main.to>> \in Pairs \union {<<1, 1>>}
    /\ main.numPeers \in 0..(NumNodes * NumNodes) /\ left \in BOOLEAN

Init ==
    /\ heights \in [Nodes -> {0, 1}] /\ pools = [n \in Nodes |-> {}]
    /\ wanted = InitWanted /\ links = {} /\ drops = 0 /\ sent = {}
    /\ joiner \in [at : {"idle"}, type : JoinTypes, next : {1}, blockHeights : {{}},
                  firstPool : {<<>>}]
    /\ had = [n \in Nodes |-> {}]
    /\ main = NoCall /\ left = FALSE

\* GetRawMempool lists the pool in no particular order.
Listings(pool) == SetToSeqs(pool)

\* What the joiner compares of a node.
Value(type, height, pool) == IF type = "blocks" THEN height ELSE pool

-----------------------------------------------------------------------------
(* The nodes.                                                              *)

Observe ==
    had' = IF joiner.at # "read" THEN had
           ELSE [n \in Nodes |-> had[n] \union {Value(joiner.type, heights'[n], pools'[n])}]

Linked(a, b) == <<a, b>> \in links \/ <<b, a>> \in links

\* A block takes what there is in the memory pool.
Mine(n) ==
    /\ heights[n] < MaxHeight
    /\ heights' = [heights EXCEPT ![n] = @ + 1]
    /\ pools' = [pools EXCEPT ![n] = {}]
    /\ UNCHANGED <<sent, peerVars, joiner, mainVars>>
    /\ Observe

RelayBlocks(a, b) ==
    /\ Linked(a, b) /\ heights[a] < heights[b]
    /\ heights' = [heights EXCEPT ![a] = heights[b]]
    /\ pools' = [pools EXCEPT ![a] = {}]
    /\ UNCHANGED <<sent, peerVars, joiner, mainVars>>
    /\ Observe

\* Transactions are sent only where the joiner looks at them, a bound.
SendTx(n, tx) ==
    /\ joiner.type = "mempools" /\ tx \notin sent
    /\ sent' = sent \union {tx}
    /\ pools' = [pools EXCEPT ![n] = @ \union {tx}]
    /\ UNCHANGED <<heights, peerVars, joiner, mainVars>>
    /\ Observe

RelayTx(a, b, tx) ==
    /\ Linked(a, b) /\ tx \in pools[b] \ pools[a]
    /\ pools' = [pools EXCEPT ![a] = @ \union {tx}]
    /\ UNCHANGED <<heights, sent, peerVars, joiner, mainVars>>
    /\ Observe

\* Connections come, when they are wanted, and go.
Establish(a, b) ==
    /\ <<a, b>> \in wanted \ links
    /\ links' = links \union {<<a, b>>}
    /\ UNCHANGED <<nodeVars, wanted, drops, joinVars, mainVars>>

Leave(a, b) ==
    /\ links' = links \ {<<a, b>>}
    /\ left' = (left \/ (main.at # "idle" /\ main.from \in {a, b}))
    /\ UNCHANGED <<nodeVars, wanted, joinVars, main>>

Drop(a, b) ==
    /\ <<a, b>> \in links /\ drops < MaxDrops
    /\ drops' = drops + 1
    /\ Leave(a, b)

Disconnect(a, b) ==
    /\ <<a, b>> \in links \ wanted
    /\ Leave(a, b)
    /\ UNCHANGED drops

-----------------------------------------------------------------------------
(* JoinNodes                                                               *)

nonJoinVars == <<nodeVars, peerVars, mainVars>>

\* The loop begins, or begins anew after a mismatch.
FromTheTop_Fault(j) == [j EXCEPT !.at = "read", !.next = 1, !.firstPool = <<>>]

FromTheTop(j) ==
    [j EXCEPT !.at = "read", !.next = 1, !.blockHeights = {}, !.firstPool = <<>>]

Begin(j) ==
    /\ joiner' = FromTheTop(j)
    /\ had' = [n \in Nodes |-> {Value(j.type, heights[n], pools[n])}]

\* The type is an argument, chosen in Init.
JoinNodes ==
    /\ joiner.at = "idle"
    /\ Begin(joiner)
    /\ UNCHANGED nonJoinVars

\* The next node agrees with those before it.
Agrees(j) ==
    /\ joiner' = IF joiner.next = NumNodes THEN [j EXCEPT !.at = "ok", !.next = @ + 1]
                 ELSE [j EXCEPT !.next = @ + 1]
    /\ UNCHANGED had

Mismatch_Fault(seen) == Cardinality(seen) > NumNodes

\* More than one height was collected.
Mismatch(seen) == Cardinality(seen) > 1

syncBlocks ==
    /\ joiner.at = "read" /\ joiner.type = "blocks"
    /\ LET seen == joiner.blockHeights \union {heights[joiner.next]}
       IN IF Mismatch(seen) THEN Begin([joiner EXCEPT !.blockHeights = seen])
          ELSE Agrees([joiner EXCEPT !.blockHeights = seen])
    /\ UNCHANGED nonJoinVars

\* Lists are compared, so two equal pools listed in different orders differ.
syncMempools ==
    /\ joiner.at = "read" /\ joiner.type = "mempools"
    /\ \E pool \in Listings(pools[joiner.next]) :
          \/ joiner.next = 1 /\ Agrees([joiner EXCEPT !.firstPool = pool])
          \/ joiner.next > 1 /\ pool = joiner.firstPool /\ Agrees(joiner)
          \/ joiner.next > 1 /\ pool # joiner.firstPool /\ Begin(joiner)
    /\ UNCHANGED nonJoinVars

\* An RPC of the joiner fails, or JoinNodes returned nil: the test goes on.
JoinReturned ==
    /\ joiner.at \in {"read", "ok"}
    /\ joiner' = [FromTheTop(joiner) EXCEPT !.at = "idle"]
    /\ had' = [n \in Nodes |-> {}]
    /\ UNCHANGED nonJoinVars

-----------------------------------------------------------------------------
(* ConnectNode, RemoveNode and NodesConnected                              *)

nonMainVars == <<nodeVars, joinVars>>

\* GetPeerInfo lists the connections in both directions, but gives the
\* address of a node only for those made to it.
Peers(n) == {l \in links : n \in {l[1], l[2]}}

Call(at, from, to) ==
    /\ main.at = "idle"
    /\ main' = [NoCall EXCEPT !.at = at, !.from = from, !.to = to]
    /\ left' = FALSE
    /\ UNCHANGED <<nonMainVars, peerVars>>

CallReturns == main' = NoCall /\ left' = FALSE

Continue(m) == main' = m /\ UNCHANGED left

ConnectNode(from, to) == Call("count", from, to)

ConnectCount ==
    /\ main.at = "count"
    /\ main' = [main EXCEPT !.at = "add", !.numPeers = Cardinality(Peers(main.from))]
    /\ left' = (left \/ <<main.from, main.to>> \in links)
    /\ UNCHANGED <<nonMainVars, peerVars>>

\* AddNode with ANAdd fails for a node added already.
ConnectAdd ==
    /\ main.at = "add"
    /\ IF <<main.from, main.to>> \in wanted
         THEN CallReturns /\ UNCHANGED wanted
         ELSE /\ Continue([main EXCEPT !.at = "wait"])
              /\ wanted' = wanted \union {<<main.from, main.to>>}
    /\ UNCHANGED <<nonMainVars, links, drops>>

StillWaiting_Fault == Cardinality(Peers(main.from)) <= main.numPeers + 1

StillWaiting == Cardinality(Peers(main.from)) <= main.numPeers

ConnectWait ==
    /\ main.at = "wait"
    /\ ~StillWaiting
    /\ CallReturns
    /\ UNCHANGED <<nonMainVars, peerVars>>

RemoveNode(from, to) == Call("remove", from, to)

RemoveRemove ==
    /\ main.at = "remove"
    /\ IF <<main.from, main.to>> \in wanted
         THEN /\ wanted' = wanted \ {<<main.from, main.to>>}
              /\ Continue([main EXCEPT !.at = "gone"])
         ELSE CallReturns /\ UNCHANGED wanted
    /\ UNCHANGED <<nonMainVars, links, drops>>

\* The continue for a peer that is still there goes on with the next peer of
\* the same list, so RemoveNode returns after one look whatever it saw.
RemoveLook ==
    /\ main.at = "gone"
    /\ CallReturns
    /\ UNCHANGED <<nonMainVars, peerVars>>

NodesConnected(from, to) == Call("from", from, to)

\* The direction from -> to first, the other one if the caller allows it.
ConnectedFrom ==
    /\ main.at = "from"
    /\ \/ CallReturns
       \/ <<main.from, main.to>> \notin links /\ Continue([main EXCEPT !.at = "to"])
    /\ UNCHANGED <<nonMainVars, peerVars>>

ConnectedTo ==
    /\ main.at = "to"
    /\ CallReturns
    /\ UNCHANGED <<nonMainVars, peerVars>>

\* An RPC of main fails.
CallFails ==
    /\ main.at # "idle"
    /\ CallReturns
    /\ UNCHANGED <<nonMainVars, peerVars>>

-----------------------------------------------------------------------------

Relay(a, b) == RelayBlocks(a, b) \/ (\E tx \in Txs : RelayTx(a, b, tx))

NodesNext ==
    \/ \E n \in Nodes : Mine(n) \/ (\E tx \in Txs : SendTx(n, tx))
    \/ \E a, b \in Nodes : Relay(a, b) \/ Establish(a, b) \/ Drop(a, b) \/ Disconnect(a, b)

JoinNext == syncBlocks \/ syncMempools

MainNext ==
    \/ ConnectCount \/ ConnectAdd \/ ConnectWait
    \/ RemoveRemove \/ RemoveLook \/ ConnectedFrom \/ ConnectedTo

Next ==
    \/ NodesNext
    \/ JoinNodes \/ JoinNext \/ JoinReturned
    \/ (\E p \in Pairs : \/ ConnectNode(p[1], p[2]) \/ RemoveNode(p[1], p[2])
                         \/ NodesConnected(p[1], p[2]))
    \/ MainNext \/ CallFails

Spec == Init /\ [][Next]_vars

\* The goroutines run, linked nodes exchange blocks, wanted connections come
\* up and others are closed.  Nothing makes a test mine or connect.
Fairness ==
    /\ WF_vars(JoinNext) /\ WF_vars(MainNext)
    /\ WF_vars(\E a, b \in Nodes : RelayBlocks(a, b))
    /\ WF_vars(\E a, b \in Nodes : Establish(a, b))
    /\ WF_vars(\E a, b \in Nodes : Disconnect(a, b))

FairSpec == Spec /\ Fairness

-----------------------------------------------------------------------------
(* Properties                                                              *)

\* JoinNodes reads one node after another while they all change.  When it
\* returns nil there is still one value, a height or a set of transactions,
\* that every node had at some time since the last mismatch (syncBlocks,
\* syncMempools).
JoinSawOneValue ==
    joiner.at = "ok" => \E v \in had[1] : \A n \in Nodes : v \in had[n]

\* Linked is connected: every node reaches every other one over links.
Connected ==
    \A S \in (SUBSET Nodes) \ {{}, Nodes} : \E a \in S, b \in Nodes \ S : Linked(a, b)

\* A mismatch in one round does not spoil the later ones: once the nodes stay
\* connected, blocks reach all of them and JoinNodes returns (syncBlocks).
JoinBlocksReturns ==
    <>[]Connected => (joiner.at = "read" /\ joiner.type = "blocks") ~> joiner.at # "read"

\* ConnectNode counts peers before it adds one and waits for a larger count.
\* As long as no peer leaves in between, and an earlier connection to the same
\* node was gone when it counted, the wait ends, however many others come.
\* RemoveNode does not see to the latter (ConnectNode, RemoveNode).
ConnectReturns == main.at = "wait" ~> (main.at # "wait" \/ left)
=============================================================================
