-------------------------- MODULE MemWalletProofs --------------------------
(***************************************************************************)
(* Proofs about MemWallet for every value of its constants.                *)
(***************************************************************************)
EXTENDS MemWallet, ChainProofs

\* The queue and the update in flight are the last blocks of a valid chain.
OrderInv ==
    /\ Len(chainUpdates) + InFlight <= Len(chain)
    /\ \A i \in 1..Len(chainUpdates) :
          chainUpdates[i] = chain[Len(chain) - Len(chainUpdates) + i]
    /\ InFlight = 1 => update = chain[Len(chain) - Len(chainUpdates)]
    /\ unwinding => chain # <<>>
    /\ ti \in 1..(Len(update.txns) + 1)
    /\ spc # "eval" => ti = 1
    /\ ValidChain(chain)

\* The journal tells what each applied block created and destroyed, and undo
\* what the transactions evaluated so far did.
JournalInv ==
    /\ DOMAIN reorgJournal = 1..Applied
    /\ \A k \in 1..Applied : /\ reorgJournal[k].created = Outs(chain[k])
                             /\ reorgJournal[k].destroyed = Ins(chain[k])
    /\ spc = "eval" => /\ undo.created = OutsOf(update.txns, ti - 1)
                       /\ undo.destroyed = InsOf(update.txns, ti - 1)

\* The coins the chain gives the wallet after what it has evaluated.
Earned ==
    IF spc = "eval"
    THEN (Unspent(chain, Applied) \cup OutsOf(update.txns, ti - 1))
            \ InsOf(update.txns, ti - 1)
    ELSE Unspent(chain, Applied)

CoinsInv == Earned \subseteq utxos /\ utxos \subseteq Earned \cup Phantoms

CoreInv == TypeOK /\ OrderInv /\ JournalInv /\ CoinsInv

-----------------------------------------------------------------------------
(* Types                                                                   *)

\* A block dcrd may connect next is a Block.
LEMMA NextBlocksType ==
    ASSUME TypeOK, NEW b \in NextBlocks
    PROVE  /\ b \in Block
           /\ \A i \in 1..Len(b.txns) : b.txns[i] \in Tx
           /\ Outs(b) \subseteq OutPoints
<1>1. Candidates \subseteq Tx
  BY DEF Candidates, Fresh, Tx, TypeOK, DispatcherTypes, CallerTypes
<1>2. PICK n \in 0..MaxBlockTxs :
          \E txns \in [1..n -> Candidates] :
              b = [height |-> Len(chain) + 1, txns |-> txns]
  BY DEF NextBlocks
<1>3. PICK txns \in [1..n -> Candidates] :
          b = [height |-> Len(chain) + 1, txns |-> txns]
  BY <1>2
<1> n \in Nat /\ txns \in Seq(Tx)
  BY <1>1, <1>3, BoundsAssumption
<1>4. Len(chain) + 1 \in Nat
  BY DEF TypeOK, DispatcherTypes
<1>5. \A i \in 1..Len(b.txns) : b.txns[i] \in Tx
  BY <1>3
<1> QED
  BY <1>3, <1>4, <1>5 DEF Block, Outs, OutsOf, Tx

\* Every transaction of a block has the type of a transaction.
LEMMA BlockTxs ==
    ASSUME NEW b \in Block, NEW i \in 1..Len(b.txns)
    PROVE  /\ b.txns[i] \in Tx
           /\ b.txns[i].outs \subseteq OutPoints
           /\ b.txns[i].ins \subseteq OutPoints
<1>1. b.txns \in Seq(Tx)
  BY DEF Block
<1>2. b.txns[i] \in Tx
  BY <1>1
<1> QED
  BY <1>2 DEF Tx

\* The wallet newMemWallet builds, before dcrd connects a block (newMemWallet).
LEMMA CoreInit == Init => CoreInv
<1> SUFFICES ASSUME Init PROVE CoreInv
  OBVIOUS
<1>1. <<>> \in Seq(Block) /\ <<>> \in Seq(Tx)
  OBVIOUS
<1>2. NoBlock \in Block
  BY <1>1 DEF NoBlock, Block
<1>3. TypeOK
  <2>1. DispatcherTypes /\ QueueTypes
    BY <1>1 DEF Init, DispatcherTypes, QueueTypes
  <2>2. SyncerTypes
    BY <1>2 DEF Init, SyncerTypes, NoUndo
  <2>3. CoinTypes
    BY DEF Init, CoinTypes
  <2>4. JournalTypes
    BY DEF Init, JournalTypes
  <2>5. CallerTypes
    BY DEF Init, CallerTypes, Idle
  <2> QED
    BY <2>1, <2>2, <2>3, <2>4, <2>5 DEF TypeOK
<1>4. OrderInv
  BY DEF Init, OrderInv, InFlight, NoBlock, ValidChain
<1>5. Applied = 0 /\ spc # "eval"
  <2>1. Len(chain) = 0 /\ Len(chainUpdates) = 0 /\ spc = "recv"
    BY DEF Init
  <2>2. InFlight = 0
    BY <2>1 DEF InFlight
  <2> QED
    BY <2>1, <2>2 DEF Applied
<1>6. JournalInv
  BY <1>5 DEF Init, JournalInv
<1>7. CoinsInv
  <2>1. Unspent(chain, 0) = {} /\ utxos = {}
    BY BlockStep DEF Init, Unspent
  <2> QED
    BY <1>5, <2>1 DEF CoinsInv, Earned
<1> QED
  BY <1>3, <1>4, <1>6, <1>7 DEF CoreInv

\* A part of the state that a step leaves alone keeps its type.
LEMMA TypeFrames ==
    ASSUME TypeOK
    PROVE  /\ UNCHANGED <<dispatcherVars, unwound>> => DispatcherTypes'
           /\ UNCHANGED <<queueVars, panic>> => QueueTypes'
           /\ UNCHANGED syncerVars => SyncerTypes'
           /\ UNCHANGED <<currentHeight, utxos, maturityHeight, locked>> => CoinTypes'
           /\ UNCHANGED reorgJournal => JournalTypes'
           /\ UNCHANGED <<addrVars, callerVars>> => CallerTypes'
<1> USE DEF TypeOK, dispatcherVars, queueVars, syncerVars, addrVars, callerVars
<1>1. UNCHANGED <<dispatcherVars, unwound>> => DispatcherTypes'
  BY DEF DispatcherTypes
<1>2. UNCHANGED <<queueVars, panic>> => QueueTypes'
  BY DEF QueueTypes
<1>3. UNCHANGED syncerVars => SyncerTypes'
  BY DEF SyncerTypes
<1>4. UNCHANGED <<currentHeight, utxos, maturityHeight, locked>> => CoinTypes'
  BY DEF CoinTypes
<1>5. UNCHANGED reorgJournal => JournalTypes'
  BY DEF JournalTypes
<1>6. UNCHANGED <<addrVars, callerVars>> => CallerTypes'
  BY DEF CallerTypes
<1> QED
  BY <1>1, <1>2, <1>3, <1>4, <1>5, <1>6

\* A finished call leaves well-typed locks and transactions.
LEMMA CompleteType ==
    ASSUME TypeOK, NEW u \in Callers, NEW send \in BOOLEAN,
           NEW ins \in SUBSET OutPoints, NEW outs \in SUBSET OutPoints,
           Complete(u, ins, outs, send)
    PROVE  /\ locked' \subseteq OutPoints /\ used' \subseteq OutPoints
           /\ held' \subseteq Tx
           /\ call' \in [Callers -> [pc : {"idle", "loadfilter", "sending"},
                              index : Nat, ins : SUBSET OutPoints,
                              outs : SUBSET OutPoints, send : BOOLEAN]]
<1>1. locked' \subseteq OutPoints /\ used' \subseteq OutPoints
  BY DEF Complete, LockedBy, TypeOK, CoinTypes, DispatcherTypes
<1>2. held' \subseteq Tx
  <2>1. WalletTx(ins, outs) \in Tx /\ held \subseteq Tx
    BY DEF WalletTx, Tx, TypeOK, CallerTypes
  <2> QED
    BY <2>1 DEF Complete
<1>3. call' \in [Callers -> [pc : {"idle", "loadfilter", "sending"},
                    index : Nat, ins : SUBSET OutPoints,
                    outs : SUBSET OutPoints, send : BOOLEAN]]
  <2> DEFINE Calls == [pc : {"idle", "loadfilter", "sending"}, index : Nat,
                       ins : SUBSET OutPoints, outs : SUBSET OutPoints,
                       send : BOOLEAN]
  <2>1. call \in [Callers -> Calls]
    BY DEF TypeOK, CallerTypes
  <2>2. /\ Idle \in Calls
        /\ [pc |-> "sending", index |-> 0, ins |-> ins, outs |-> outs,
            send |-> TRUE] \in Calls
    BY DEF Idle
  <2>3. \E c \in Calls : call' = [call EXCEPT ![u] = c]
    BY <2>2 DEF Complete
  <2> HIDE DEF Calls
  <2>4. call' \in [Callers -> Calls]
    BY <2>1, <2>3
  <2> QED
    BY <2>4 DEF Calls
<1> QED
  BY <1>1, <1>2, <1>3

\* The steps of a caller keep the types (NewAddress, CreateTransaction,
\* SendOutputs).
LEMMA CallerTypeNext ==
    ASSUME TypeOK, NEW u \in Callers, Caller(u)
    PROVE  TypeOK'
<1> USE DEF TypeOK, dispatcherVars, queueVars, syncerVars, coinVars, addrVars, callerVars
<1>1. CASE NewAddress(u)
  <2>1. CallerTypes'
    BY <1>1 DEF NewAddress, CallerTypes
  <2> QED
    BY TypeFrames, <1>1, <2>1 DEF NewAddress
<1>2. CASE CreateTransaction(u)
  <2>1. PICK ins \in (SUBSET Spendable) \ {{}}, send \in BOOLEAN :
          \/ Complete(u, ins, {}, send)
          \/ /\ \E op \in Fresh :
                  call' = [call EXCEPT ![u] = [pc |-> "loadfilter",
                            index |-> hdIndex, ins |-> ins, outs |-> {op},
                            send |-> send]]
             /\ UNCHANGED <<locked, used, held>>
    BY <1>2 DEF CreateTransaction
  <2>2. ins \in SUBSET OutPoints
    BY DEF Spendable, CoinTypes
  <2>3. /\ locked' \subseteq OutPoints /\ used' \subseteq OutPoints
        /\ held' \subseteq Tx
        /\ call' \in [Callers -> [pc : {"idle", "loadfilter", "sending"},
                            index : Nat, ins : SUBSET OutPoints,
                            outs : SUBSET OutPoints, send : BOOLEAN]]
    <3>1. CASE Complete(u, ins, {}, send)
      BY <2>2, <3>1, CompleteType
    <3>2. ASSUME NEW op \in Fresh,
                 call' = [call EXCEPT ![u] = [pc |-> "loadfilter",
                            index |-> hdIndex, ins |-> ins, outs |-> {op},
                            send |-> send]],
                 UNCHANGED <<locked, used, held>>
          PROVE  /\ locked' \subseteq OutPoints /\ used' \subseteq OutPoints
                 /\ held' \subseteq Tx
                 /\ call' \in [Callers -> [pc : {"idle", "loadfilter", "sending"},
                                    index : Nat, ins : SUBSET OutPoints,
                                    outs : SUBSET OutPoints, send : BOOLEAN]]
      BY <2>2, <3>2 DEF Fresh, CallerTypes, CoinTypes, DispatcherTypes
    <3> QED
      BY <2>1, <3>1, <3>2
  <2>4. DispatcherTypes' /\ CoinTypes' /\ CallerTypes'
    BY <1>2, <2>3 DEF CreateTransaction, DispatcherTypes, CoinTypes, CallerTypes
  <2> QED
    BY TypeFrames, <1>2, <2>4 DEF CreateTransaction
<1>3. CASE FilterLoaded(u)
  <2>1. /\ call[u].ins \in SUBSET OutPoints /\ call[u].outs \in SUBSET OutPoints
        /\ call[u].send \in BOOLEAN /\ call[u].index \in Nat
    BY DEF CallerTypes
  <2>2. /\ locked' \subseteq OutPoints /\ used' \subseteq OutPoints
        /\ held' \subseteq Tx
        /\ call' \in [Callers -> [pc : {"idle", "loadfilter", "sending"},
                            index : Nat, ins : SUBSET OutPoints,
                            outs : SUBSET OutPoints, send : BOOLEAN]]
    <3>1. CASE UNCHANGED <<locked, used, held>> /\ call' = [call EXCEPT ![u] = Idle]
      BY <3>1 DEF Idle, CallerTypes, CoinTypes, DispatcherTypes
    <3>2. CASE Complete(u, call[u].ins, call[u].outs, call[u].send)
      BY <2>1, <3>2, CompleteType
    <3> QED
      BY <1>3, <3>1, <3>2 DEF FilterLoaded
  <2>3. addrs' \subseteq Nat /\ hdIndex' \in Nat
    <3>1. addrs' = addrs \cup {call[u].index} /\ hdIndex' = hdIndex + 1
      BY <1>3 DEF FilterLoaded
    <3>2. addrs \subseteq Nat /\ hdIndex \in Nat
      BY DEF CallerTypes
    <3>3. hdIndex' \in Nat
      BY <3>1, <3>2
    <3>4. addrs' \subseteq Nat
      BY <2>1, <3>1, <3>2, Zenon
    <3> QED
      BY <3>3, <3>4
  <2>4. DispatcherTypes' /\ CoinTypes' /\ CallerTypes'
    <3>1. client' \in {"up", "closing", "down"}
      BY <1>3 DEF FilterLoaded, Dispatched, DispatcherTypes
    <3> QED
      BY <1>3, <2>2, <2>3, <3>1 DEF FilterLoaded, DispatcherTypes, CoinTypes, CallerTypes
  <2> QED
    BY TypeFrames, <1>3, <2>4 DEF FilterLoaded
<1>4. CASE LoadFailed(u)
  <2>1. CallerTypes'
    BY <1>4 DEF LoadFailed, Idle, CallerTypes
  <2> QED
    BY TypeFrames, <1>4, <2>1 DEF LoadFailed
<1>5. CASE SendOutputsDone(u)
  <2>1. TxOf(u) \in Tx
    BY DEF TxOf, WalletTx, Tx, CallerTypes
  <2>2. DispatcherTypes'
    BY <1>5, <2>1 DEF SendOutputsDone, DispatcherTypes
  <2>3. CallerTypes'
    BY <1>5, <2>1 DEF SendOutputsDone, Idle, CallerTypes
  <2> QED
    BY TypeFrames, <1>5, <2>2, <2>3 DEF SendOutputsDone
<1> QED
  BY <1>1, <1>2, <1>3, <1>4, <1>5 DEF Caller

\* Every step keeps the types (all handlers of memWallet).
LEMMA TypeNext == TypeOK /\ OrderInv /\ [Next]_vars => TypeOK'
<1> SUFFICES ASSUME TypeOK, OrderInv, [Next]_vars
             PROVE  TypeOK'
  OBVIOUS
<1> USE DEF TypeOK, dispatcherVars, queueVars, syncerVars, coinVars, addrVars, callerVars
<1>1. CASE BlockConnected
  <2>1. PICK b \in NextBlocks :
          /\ chain' = Append(chain, b)
          /\ broadcast' = broadcast \cup
                {b.txns[i] : i \in {j \in 1..Len(b.txns) : ~b.txns[j].coinbase}}
          /\ used' = used \cup Outs(b)
          /\ IngestBlock(b)
    BY <1>1 DEF BlockConnected
  <2>2. b \in Block /\ Outs(b) \subseteq OutPoints
    BY NextBlocksType
  <2>3. broadcast' \subseteq Tx
    BY <2>1, NextBlocksType DEF DispatcherTypes
  <2>4. client' \in {"up", "closing", "down"}
    BY <1>1 DEF BlockConnected, Dispatched, DispatcherTypes
  <2>5. DispatcherTypes'
    BY <1>1, <2>1, <2>2, <2>3, <2>4 DEF BlockConnected, DispatcherTypes
  <2>6. QueueTypes'
    <3>1. quit' = quit /\ panic' = panic
      BY <1>1 DEF BlockConnected
    <3>2. chainUpdates' = Append(chainUpdates, b) /\ signals' = signals + 1
      BY <2>1 DEF IngestBlock
    <3> QED
      BY <2>2, <3>1, <3>2 DEF QueueTypes
  <2> QED
    BY TypeFrames, <1>1, <2>5, <2>6 DEF BlockConnected
<1>2. CASE BlockDisconnected
  <2>1. DispatcherTypes'
    BY <1>2 DEF BlockDisconnected, Dispatched, DispatcherTypes
  <2> QED
    BY TypeFrames, <1>2, <2>1 DEF BlockDisconnected
<1>3. CASE UnwindBlock
  <2>1. /\ chain[Len(chain)] \in Block
        /\ SubSeq(chain, 1, Len(chain) - 1) \in Seq(Block)
    BY <1>3 DEF UnwindBlock, OrderInv, DispatcherTypes
  <2>2. DispatcherTypes'
    BY <1>3, <2>1 DEF UnwindBlock, DispatcherTypes
  <2>3. QueueTypes'
    BY <1>3 DEF UnwindBlock, QueueTypes
  <2>4. CoinTypes'
    BY <1>3 DEF UnwindBlock, UtxosUnwound, CoinTypes, JournalTypes
  <2>5. JournalTypes'
    BY <1>3 DEF UnwindBlock, JournalUnwound, JournalTypes
  <2> QED
    BY TypeFrames, <1>3, <2>2, <2>3, <2>4, <2>5 DEF UnwindBlock
<1>4. CASE ShutdownClient \/ DispatcherExit
  <2>1. DispatcherTypes'
    BY <1>4 DEF ShutdownClient, DispatcherExit, DispatcherTypes
  <2> QED
    BY TypeFrames, <1>4, <2>1 DEF ShutdownClient, DispatcherExit
<1>5. CASE Stop \/ SignalQuit
  <2>1. QueueTypes'
    <3>1. CASE Stop
      BY <3>1 DEF Stop, QueueTypes
    <3>2. CASE SignalQuit
      BY <3>2 DEF SignalQuit, SignalTaken, QueueTypes
    <3> QED
      BY <1>5, <3>1, <3>2
  <2> QED
    BY TypeFrames, <1>5, <2>1 DEF Stop, SignalQuit
<1>6. CASE SyncerRecv \/ SyncerQuit
  <2>1. QueueTypes'
    BY <1>6 DEF SyncerRecv, SyncerQuit, SignalTaken, QueueTypes
  <2>2. SyncerTypes'
    BY <1>6 DEF SyncerRecv, SyncerQuit, SyncerTypes
  <2> QED
    BY TypeFrames, <1>6, <2>1, <2>2 DEF SyncerRecv, SyncerQuit
<1>7. CASE SyncerPop
  <2>1. QueueTypes'
    BY <1>7 DEF SyncerPop, QueueTypes
  <2>2. SyncerTypes'
    BY <1>7 DEF SyncerPop, SyncerTypes, QueueTypes
  <2> QED
    BY TypeFrames, <1>7, <2>1, <2>2 DEF SyncerPop
<1>8. CASE SyncerLock
  <2>1. SyncerTypes'
    BY <1>8 DEF SyncerLock, NoUndo, SyncerTypes
  <2>2. CoinTypes'
    BY <1>8 DEF SyncerLock, SyncerTypes, CoinTypes, Block
  <2> QED
    BY TypeFrames, <1>8, <2>1, <2>2 DEF SyncerLock
<1>9. CASE EvalTx
  <2> DEFINE tx == update.txns[ti]
  <2>1. ti \in 1..Len(update.txns) /\ update \in Block
    BY <1>9 DEF EvalTx, OrderInv, SyncerTypes
  <2>2. tx.outs \subseteq OutPoints /\ tx.ins \subseteq OutPoints
    BY <2>1, BlockTxs
  <2>3. SyncerTypes'
    BY <1>9, <2>2 DEF EvalTx, DestroyedBy, SyncerTypes
  <2>4. CoinTypes'
    <3>1. MaturityOf(tx) \in Nat
      BY CoinbaseMaturityAssumption DEF MaturityOf, CoinTypes
    <3> QED
      BY <1>9, <2>2, <3>1 DEF EvalTx, UtxosAfter, LockedAfter, CoinTypes
  <2> QED
    BY TypeFrames, <1>9, <2>3, <2>4 DEF EvalTx
<1>10. CASE SyncerCommit
  <2>1. update.height \in Nat /\ NoBlock \in Block
    BY DEF Block, NoBlock, SyncerTypes
  <2>2. JournalTypes'
    <3>1. undo \in [created : SUBSET OutPoints, destroyed : SUBSET OutPoints]
      BY DEF SyncerTypes
    <3> QED
      BY <1>10, <2>1, <3>1 DEF SyncerCommit, JournalTypes
  <2>3. SyncerTypes'
    BY <1>10, <2>1 DEF SyncerCommit, NoUndo, SyncerTypes
  <2> QED
    BY TypeFrames, <1>10, <2>2, <2>3 DEF SyncerCommit
<1>11. ASSUME NEW u \in Callers, Caller(u)
       PROVE  TypeOK'
  BY <1>11, CallerTypeNext
<1>12. ASSUME NEW tx \in held, SendHeld(tx) \/ UnlockOutputs(tx)
       PROVE  TypeOK'
  <2>1. DispatcherTypes' /\ CallerTypes'
    BY <1>12 DEF SendHeld, UnlockOutputs, DispatcherTypes, CallerTypes
  <2>2. CoinTypes'
    BY <1>12 DEF SendHeld, UnlockOutputs, Unlocked, CoinTypes
  <2> QED
    BY TypeFrames, <1>12, <2>1, <2>2 DEF SendHeld, UnlockOutputs
<1>13. CASE UNCHANGED vars
  BY <1>13, TypeFrames DEF vars
<1> QED
  BY <1>1, <1>2, <1>3, <1>4, <1>5, <1>6, <1>7, <1>8, <1>9, <1>10, <1>11, <1>12,
     <1>13 DEF Next, Dispatcher, ChainSyncer

-----------------------------------------------------------------------------
(* The chain, the queue and the coins                                      *)

\* The numbers the invariants speak of.
LEMMA Counts ==
    ASSUME TypeOK, OrderInv
    PROVE  /\ Len(chain) \in Nat /\ Len(chainUpdates) \in Nat
           /\ InFlight \in {0, 1}
           /\ Applied \in 0..Len(chain)
           /\ InFlight = 1 => /\ Applied + 1 \in 1..Len(chain)
                              /\ update = chain[Applied + 1]
           /\ \A k \in 1..Len(chain) : /\ chain[k] \in Block
                                       /\ chain[k].height = k
                                       /\ ValidBlock(chain, k - 1, chain[k])
<1>1. chain \in Seq(Block) /\ chainUpdates \in Seq(Block)
  BY DEF TypeOK, DispatcherTypes, QueueTypes
<1>2. /\ Len(chain) \in Nat /\ Len(chainUpdates) \in Nat
      /\ InFlight \in {0, 1}
  BY <1>1 DEF InFlight
<1>3. ASSUME NEW k \in 1..Len(chain)
      PROVE  /\ chain[k] \in Block /\ chain[k].height = k
             /\ ValidBlock(chain, k - 1, chain[k])
  BY <1>1 DEF OrderInv, ValidChain, ValidBlock
<1>4. /\ Applied \in 0..Len(chain)
      /\ InFlight = 1 => /\ Applied + 1 \in 1..Len(chain)
                         /\ update = chain[Applied + 1]
  BY <1>2 DEF OrderInv, Applied
<1> QED
  BY <1>2, <1>3, <1>4

\* Steps that leave the chain, the queue, chainSyncer and the coins alone.
LEMMA CoreFrame ==
    ASSUME OrderInv, JournalInv, CoinsInv,
           UNCHANGED <<chain, unwinding, chainUpdates, syncerVars, utxos,
                       reorgJournal, unwound>>
    PROVE  OrderInv' /\ JournalInv' /\ CoinsInv'
<1> USE DEF syncerVars, InFlight, Applied
<1>1. OrderInv'
  BY DEF OrderInv
<1>2. JournalInv'
  BY DEF JournalInv
<1>3. CoinsInv'
  BY DEF CoinsInv, Earned, Phantoms
<1> QED
  BY <1>1, <1>2, <1>3

\* A block dcrd connects goes to the end of the queue (IngestBlock).
LEMMA CoreConnected ==
    ASSUME CoreInv, BlockConnected
    PROVE  OrderInv' /\ JournalInv' /\ CoinsInv'
<1> USE DEF CoreInv
<1> DEFINE L == Len(chain)
           l == Len(chainUpdates)
<1>1. PICK b \in NextBlocks :
        /\ ValidBlock(chain, L, b)
        /\ chain' = Append(chain, b)
        /\ IngestBlock(b)
  BY DEF BlockConnected
<1>2. chain \in Seq(Block) /\ chainUpdates \in Seq(Block) /\ b \in Block
  BY NextBlocksType DEF TypeOK, DispatcherTypes, QueueTypes
<1>3. chain' = Append(chain, b) /\ chainUpdates' = Append(chainUpdates, b)
  BY <1>1 DEF IngestBlock
<1>4. UNCHANGED <<unwinding, spc, update, ti, undo, utxos, reorgJournal, unwound>>
  BY DEF BlockConnected, syncerVars, coinVars
<1>5. /\ L \in Nat /\ l \in Nat /\ Len(chain') = L + 1 /\ Len(chainUpdates') = l + 1
      /\ \A k \in 1..L : chain'[k] = chain[k]
      /\ \A k \in 1..l : chainUpdates'[k] = chainUpdates[k]
      /\ chain'[L + 1] = b /\ chainUpdates'[l + 1] = b
  BY <1>2, <1>3
<1>6. InFlight' = InFlight /\ Applied' = Applied /\ Applied \in 0..L
  BY <1>4, <1>5, Counts DEF InFlight, Applied
<1>7. ValidChain(chain')
  <2>1. ASSUME NEW k \in 1..(L + 1)
        PROVE  ValidBlock(chain', k - 1, chain'[k])
    <3>1. /\ k - 1 \in Nat /\ \A j \in 1..(k - 1) : chain[j] = chain'[j]
      BY <1>5
    <3>2. CASE k \in 1..L
      BY <1>5, <3>1, <3>2, PrefixSame DEF OrderInv, ValidChain
    <3>3. CASE k = L + 1
      <4>1. k - 1 = L /\ chain'[k] = b
        BY <1>5, <3>3
      <4>2. L \in Nat /\ \A j \in 1..L : chain[j] = chain'[j]
        BY <1>5
      <4>3. ValidBlock(chain, L, b) <=> ValidBlock(chain', L, b)
        BY <4>2, PrefixSame
      <4> QED
        BY <1>1, <4>1, <4>3
    <3> QED
      BY <1>5, <3>2, <3>3
  <2> QED
    BY <1>5, <2>1 DEF ValidChain
<1>8. OrderInv'
  <2>1. Len(chainUpdates') + InFlight' <= Len(chain')
    BY <1>5, <1>6, Counts DEF OrderInv
  <2>2. ASSUME NEW i \in 1..Len(chainUpdates')
        PROVE  chainUpdates'[i] = chain'[Len(chain') - Len(chainUpdates') + i]
    <3>1. l <= L
      BY <1>5, Counts DEF OrderInv
    <3>2. CASE i \in 1..l
      <4>1. L - l + i \in 1..L /\ (L + 1) - (l + 1) + i = L - l + i
        BY <1>5, <3>1, <3>2
      <4> QED
        BY <1>5, <3>2, <4>1 DEF OrderInv
    <3>3. CASE i = l + 1
      BY <1>5, <3>3
    <3> QED
      BY <1>5, <3>2, <3>3
  <2>3. InFlight' = 1 => update' = chain'[Len(chain') - Len(chainUpdates')]
    <3> SUFFICES ASSUME InFlight = 1
                 PROVE  update = chain'[(L + 1) - (l + 1)]
      BY <1>4, <1>5, <1>6
    <3>1. L - l \in 1..L /\ (L + 1) - (l + 1) = L - l
      BY <1>5 DEF OrderInv
    <3> QED
      BY <1>5, <3>1 DEF OrderInv
  <2>4. unwinding' => chain' # <<>>
    BY <1>4, <1>2, <1>3
  <2>5. ti' \in 1..(Len(update'.txns) + 1) /\ (spc' # "eval" => ti' = 1)
    BY <1>4 DEF OrderInv
  <2> QED
    BY <1>7, <2>1, <2>2, <2>3, <2>4, <2>5 DEF OrderInv
<1>9. JournalInv'
  BY <1>4, <1>5, <1>6 DEF JournalInv
<1>10. CoinsInv'
  <2>1. Unspent(chain', Applied') = Unspent(chain, Applied)
    <3>1. Applied \in Nat /\ \A k \in 1..Applied : chain'[k] = chain[k]
      BY <1>5, <1>6
    <3> QED
      BY <1>6, <3>1, PrefixSame
  <2>2. Earned' = Earned /\ Phantoms' = Phantoms
    BY <1>4, <2>1 DEF Earned, Phantoms
  <2> QED
    BY <1>4, <2>2 DEF CoinsInv
<1> QED
  BY <1>8, <1>9, <1>10

\* UnwindBlock undoes the last block if it was applied, and changes no coin if
\* it was not (UnwindBlock).
LEMMA CoreUnwound ==
    ASSUME CoreInv, UnwindBlock
    PROVE  OrderInv' /\ JournalInv' /\ CoinsInv'
<1> USE DEF CoreInv
<1> DEFINE L == Len(chain)
           b == chain[L]
<1>1. chain \in Seq(Block) /\ L \in 1..L /\ b \in Block /\ b.height = L
  <2>1. chain \in Seq(Block) /\ unwinding
    BY DEF TypeOK, DispatcherTypes, UnwindBlock
  <2>2. L \in 1..L
    BY <2>1 DEF OrderInv
  <2> QED
    BY <2>1, <2>2, Counts
<1>2. CASE L \notin DOMAIN reorgJournal
  BY <1>1, <1>2, CoreFrame DEF UnwindBlock, queueVars
<1>3. CASE L \in DOMAIN reorgJournal
  <2>1. /\ utxos' = (utxos \ reorgJournal[L].created) \cup reorgJournal[L].destroyed
        /\ reorgJournal' = [h \in DOMAIN reorgJournal \ {L} |-> reorgJournal[h]]
        /\ chain' = SubSeq(chain, 1, L - 1)
        /\ unwinding' = FALSE
        /\ unwound' = unwound \cup {b}
        /\ UNCHANGED <<chainUpdates, spc, update, ti, undo>>
        /\ spc # "eval"
    BY <1>1, <1>3 DEF UnwindBlock, UtxosUnwound, JournalUnwound, queueVars,
       syncerVars, MutexFree
  <2>2. Applied = L /\ Len(chainUpdates) = 0 /\ InFlight = 0
    BY <1>1, <1>3, Counts DEF JournalInv, Applied
  <2>3. /\ chain' \in Seq(Block) /\ Len(chain') = L - 1 /\ L - 1 \in Nat
        /\ \A k \in 1..(L - 1) : chain'[k] = chain[k]
    <3>1. L \in Nat /\ L >= 1 /\ L - 1 \in Nat
      BY <1>1
    <3> DEFINE front == SubSeq(chain, 1, L - 1)
    <3>2. front \in Seq(Block)
      BY <1>1, <3>1
    <3>3. Len(front) = L - 1
      BY <1>1, <3>1
    <3>4. ASSUME NEW k \in 1..(L - 1) PROVE front[k] = chain[k]
      BY <1>1, <3>1
    <3> QED
      BY <2>1, <3>1, <3>2, <3>3, <3>4
  <2>4. Applied' = L - 1 /\ InFlight' = 0
    BY <2>1, <2>2, <2>3 DEF Applied, InFlight
  <2>5. OrderInv'
    <3>1. ValidChain(chain')
      <4>1. ASSUME NEW k \in 1..(L - 1)
            PROVE  ValidBlock(chain', k - 1, chain'[k])
        <5>1. /\ k - 1 \in Nat /\ \A j \in 1..(k - 1) : chain[j] = chain'[j]
              /\ k \in 1..L /\ chain'[k] = chain[k]
          BY <1>1, <2>3
        <5>2. ValidBlock(chain, k - 1, chain[k])
          BY <5>1, Counts
        <5> QED
          BY <5>1, <5>2, PrefixSame
      <4> QED
        BY <2>3, <4>1 DEF ValidChain
    <3>2. ti' \in 1..(Len(update'.txns) + 1) /\ (spc' # "eval" => ti' = 1)
      BY <2>1 DEF OrderInv
    <3> QED
      BY <2>1, <2>2, <2>3, <2>4, <3>1, <3>2 DEF OrderInv
  <2>6. JournalInv'
    BY <1>1, <2>1, <2>2, <2>3, <2>4 DEF JournalInv
  <2>7. CoinsInv'
    <3>1. Unspent(chain', L - 1) = Unspent(chain, L - 1)
      BY <2>3, PrefixSame
    <3>2. Earned = Unspent(chain, L) /\ Earned' = Unspent(chain, L - 1)
      BY <2>1, <2>2, <2>4, <3>1 DEF Earned
    <3>3. reorgJournal[L].created = Outs(b) /\ reorgJournal[L].destroyed = Ins(b)
      BY <1>1, <2>2 DEF JournalInv
    <3>4. Phantoms' = Phantoms \cup (Outs(b) \cap Ins(b))
      BY <2>1 DEF Phantoms
    <3>5. /\ Unspent(chain, L - 1) \subseteq (Unspent(chain, L) \ Outs(b)) \cup Ins(b)
          /\ Unspent(chain, L) \ Outs(b) \subseteq Unspent(chain, L - 1)
          /\ Ins(b) \ Outs(b) \subseteq Unspent(chain, L - 1)
      BY <1>1, UnspentStep DEF OrderInv
    <3> QED
      BY <2>1, <3>2, <3>3, <3>4, <3>5 DEF CoinsInv
  <2> QED
    BY <2>5, <2>6, <2>7
<1> QED
  BY <1>2, <1>3

\* chainSyncer: receiving a signal, popping, acquiring the mutex, leaving.
LEMMA CoreSyncer ==
    ASSUME CoreInv, SyncerRecv \/ SyncerQuit \/ SyncerPop \/ SyncerLock
    PROVE  OrderInv' /\ JournalInv' /\ CoinsInv'
<1> USE DEF CoreInv
<1>1. CASE SyncerRecv \/ SyncerQuit
  <2>1. /\ UNCHANGED <<chain, unwinding, chainUpdates, update, ti, undo, utxos,
                       reorgJournal, unwound>>
        /\ spc = "recv" /\ spc' \in {"pop", "exited"}
    BY <1>1 DEF SyncerRecv, SyncerQuit, dispatcherVars, queueVars, coinVars
  <2>2. InFlight = 0 /\ InFlight' = 0 /\ Applied' = Applied
    BY <2>1 DEF InFlight, Applied
  <2> QED
    BY <2>1, <2>2 DEF OrderInv, JournalInv, CoinsInv, Earned, Phantoms
<1>2. CASE SyncerPop /\ chainUpdates = <<>>
  BY <1>2, CoreFrame DEF SyncerPop, dispatcherVars, coinVars, syncerVars
<1>3. CASE SyncerPop /\ chainUpdates # <<>>
  <2>1. /\ UNCHANGED <<chain, unwinding, ti, undo, utxos, reorgJournal, unwound>>
        /\ spc = "pop" /\ spc' = "lock"
        /\ update' = Head(chainUpdates) /\ chainUpdates' = Tail(chainUpdates)
    BY <1>3 DEF SyncerPop, dispatcherVars, coinVars
  <2>2. /\ chainUpdates \in Seq(Block) /\ chainUpdates # <<>>
        /\ Len(chain) \in Nat
    BY <1>3 DEF TypeOK, QueueTypes, DispatcherTypes
  <2>3. /\ Len(chainUpdates) \in Nat \ {0}
        /\ Len(chainUpdates') = Len(chainUpdates) - 1
        /\ update' = chainUpdates[1]
        /\ \A i \in 1..(Len(chainUpdates) - 1) : chainUpdates'[i] = chainUpdates[i + 1]
    BY <2>1, <2>2
  <2>4. InFlight = 0 /\ InFlight' = 1 /\ Applied' = Applied
    BY <2>1, <2>2, <2>3 DEF InFlight, Applied
  <2>5. OrderInv'
    <3>1. Len(chainUpdates') + InFlight' <= Len(chain')
      BY <2>1, <2>2, <2>3, <2>4 DEF OrderInv
    <3>2. ASSUME NEW i \in 1..Len(chainUpdates')
          PROVE  chainUpdates'[i] = chain'[Len(chain') - Len(chainUpdates') + i]
      <4>1. i + 1 \in 1..Len(chainUpdates) /\ i \in 1..(Len(chainUpdates) - 1)
        BY <2>3
      <4>2. Len(chain) - (Len(chainUpdates) - 1) + i
              = Len(chain) - Len(chainUpdates) + (i + 1)
        BY <2>2, <2>3
      <4> QED
        BY <2>1, <2>3, <4>1, <4>2 DEF OrderInv
    <3>3. update' = chain'[Len(chain') - Len(chainUpdates')]
      <4>1. Len(chain) - (Len(chainUpdates) - 1) = Len(chain) - Len(chainUpdates) + 1
        BY <2>2, <2>3
      <4>2. 1 \in 1..Len(chainUpdates)
        BY <2>3
      <4> QED
        BY <2>1, <2>3, <4>1, <4>2 DEF OrderInv
    <3>4. ti' = 1 /\ 1 \in 1..(Len(update'.txns) + 1)
      <4>1. update' \in Block
        BY <2>2, <2>3
      <4>2. Len(update'.txns) \in Nat
        BY <4>1 DEF Block
      <4> QED
        BY <2>1, <4>2 DEF OrderInv
    <3> QED
      BY <2>1, <3>1, <3>2, <3>3, <3>4 DEF OrderInv
  <2> QED
    BY <2>1, <2>4, <2>5 DEF JournalInv, CoinsInv, Earned, Phantoms
<1>4. CASE SyncerLock
  <2>1. /\ UNCHANGED <<chain, unwinding, chainUpdates, update, utxos,
                       reorgJournal, unwound>>
        /\ spc = "lock" /\ spc' = "eval" /\ ti' = 1 /\ undo' = NoUndo
    BY <1>4 DEF SyncerLock, dispatcherVars, queueVars
  <2>2. InFlight' = InFlight /\ Applied' = Applied
    BY <2>1 DEF InFlight, Applied
  <2>3. OrderInv'
    BY <2>1, <2>2 DEF OrderInv
  <2>4. OutsOf(update.txns, 1 - 1) = {} /\ InsOf(update.txns, 1 - 1) = {}
    BY TxStep
  <2>5. JournalInv'
    BY <2>1, <2>2, <2>4 DEF JournalInv, NoUndo
  <2>6. CoinsInv'
    <3>1. Earned' = Earned /\ Phantoms' = Phantoms
      BY <2>1, <2>2, <2>4 DEF Earned, Phantoms
    <3> QED
      BY <2>1, <3>1 DEF CoinsInv
  <2> QED
    BY <2>3, <2>5, <2>6
<1> QED
  BY <1>1, <1>2, <1>3, <1>4

\* chainSyncer evaluates the next transaction of a block.
LEMMA CoreEval ==
    ASSUME CoreInv, EvalTx
    PROVE  OrderInv' /\ JournalInv' /\ CoinsInv'
<1> USE DEF CoreInv
<1> DEFINE txns == update.txns
           tx == txns[ti]
           base == Unspent(chain, Applied)
<1>1. /\ spc = "eval" /\ spc' = "eval" /\ ti' = ti + 1
      /\ UNCHANGED <<chain, unwinding, chainUpdates, update, reorgJournal, unwound>>
      /\ utxos' = (utxos \cup tx.outs) \ tx.ins
      /\ undo' = [created   |-> undo.created \cup tx.outs,
                  destroyed |-> undo.destroyed \cup (tx.ins \cap (utxos \cup tx.outs))]
  BY DEF EvalTx, UtxosAfter, DestroyedBy, dispatcherVars, queueVars
<1>2. ti \in 1..Len(txns) /\ Len(txns) \in Nat /\ update \in Block
  <2>1. update \in Block
    BY DEF TypeOK, SyncerTypes
  <2>2. Len(txns) \in Nat
    BY <2>1 DEF Block
  <2> QED
    BY <2>1, <2>2 DEF EvalTx, OrderInv
<1>3. InFlight = 1 /\ InFlight' = 1 /\ Applied' = Applied /\ Applied \in Nat
  BY <1>1, Counts DEF InFlight, Applied
<1>4. OrderInv'
  <2>1. ti' \in 1..(Len(update'.txns) + 1)
    BY <1>1, <1>2
  <2> QED
    BY <1>1, <1>3, <2>1 DEF OrderInv
<1>5. /\ OutsOf(txns, ti) = OutsOf(txns, ti - 1) \cup tx.outs
      /\ InsOf(txns, ti) = InsOf(txns, ti - 1) \cup tx.ins
  <2>1. ti - 1 \in Nat /\ (ti - 1) + 1 = ti
    BY <1>2
  <2> QED
    BY <2>1, TxStep
<1>6. /\ tx.ins \subseteq (base \cup OutsOf(txns, ti - 1)) \ InsOf(txns, ti - 1)
      /\ tx.outs \cap InsOf(txns, ti - 1) = {}
  <2>1. ValidBlock(chain, Applied, update)
    <3>1. /\ Applied + 1 \in 1..Len(chain) /\ update = chain[Applied + 1]
          /\ (Applied + 1) - 1 = Applied
      BY <1>3, Counts
    <3>2. ValidBlock(chain, (Applied + 1) - 1, chain[Applied + 1])
      BY <3>1, Counts
    <3> QED
      BY <3>1, <3>2
  <2> QED
    BY <1>2, <1>3, <2>1, ValidTxStep
<1>7. Earned = (base \cup OutsOf(txns, ti - 1)) \ InsOf(txns, ti - 1)
  BY <1>1 DEF Earned
<1>8. Earned' = (base \cup OutsOf(txns, ti)) \ InsOf(txns, ti)
  <2>1. ti' - 1 = ti
    BY <1>1, <1>2
  <2> QED
    BY <1>1, <1>3, <2>1 DEF Earned
<1>9. CoinsInv'
  <2>1. Phantoms' = Phantoms
    BY <1>1 DEF Phantoms
  <2> QED
    BY <1>1, <1>5, <1>6, <1>7, <1>8, <2>1 DEF CoinsInv
<1>10. JournalInv'
  <2>1. tx.ins \subseteq utxos
    BY <1>6, <1>7 DEF CoinsInv
  <2>2. /\ undo'.created = OutsOf(txns, ti)
        /\ undo'.destroyed = InsOf(txns, ti)
    BY <1>1, <1>5, <2>1 DEF JournalInv
  <2>3. ti' - 1 = ti
    BY <1>1, <1>2
  <2> QED
    BY <1>1, <1>3, <2>2, <2>3 DEF JournalInv
<1> QED
  BY <1>4, <1>9, <1>10

\* chainSyncer records the undo entry: the block is applied.
LEMMA CoreCommit ==
    ASSUME CoreInv, SyncerCommit
    PROVE  OrderInv' /\ JournalInv' /\ CoinsInv'
<1> USE DEF CoreInv
<1> DEFINE n == Len(update.txns)
           k == Applied + 1
<1>1. /\ spc = "eval" /\ spc' = "recv" /\ ti' = 1 /\ ti > n
      /\ update' = NoBlock
      /\ UNCHANGED <<chain, unwinding, chainUpdates, utxos, unwound>>
      /\ reorgJournal' = [h \in DOMAIN reorgJournal \cup {update.height} |->
                            IF h = update.height THEN undo ELSE reorgJournal[h]]
  BY DEF SyncerCommit, dispatcherVars, queueVars
<1>2. InFlight = 1 /\ InFlight' = 0 /\ Applied' = k /\ Applied \in Nat
  <2>1. InFlight = 1 /\ InFlight' = 0
    BY <1>1 DEF InFlight
  <2> QED
    BY <1>1, <2>1, Counts DEF Applied
<1>3. /\ k \in 1..Len(chain) /\ update = chain[k] /\ update.height = k
      /\ Len(chain) \in Nat /\ Len(chainUpdates) \in Nat
  BY <1>2, Counts
<1>4. n \in Nat /\ ti - 1 = n
  <2>1. update \in Block
    BY DEF TypeOK, SyncerTypes
  <2>2. n \in Nat
    BY <2>1 DEF Block
  <2> QED
    BY <1>1, <2>2 DEF OrderInv
<1>5. OutsOf(update.txns, ti - 1) = Outs(chain[k])
      /\ InsOf(update.txns, ti - 1) = Ins(chain[k])
  BY <1>3, <1>4 DEF Outs, Ins
<1>6. OrderInv'
  <2>1. Len(chainUpdates') + InFlight' <= Len(chain')
    BY <1>1, <1>2, <1>3 DEF OrderInv
  <2>2. ti' \in 1..(Len(update'.txns) + 1)
    BY <1>1 DEF NoBlock
  <2> QED
    BY <1>1, <1>2, <2>1, <2>2 DEF OrderInv
<1>7. JournalInv'
  <2>1. DOMAIN reorgJournal' = 1..k
    BY <1>1, <1>2, <1>3 DEF JournalInv
  <2>2. ASSUME NEW h \in 1..k
        PROVE  /\ reorgJournal'[h].created = Outs(chain[h])
               /\ reorgJournal'[h].destroyed = Ins(chain[h])
    <3>1. CASE h = k
      <4>1. reorgJournal'[h] = undo
        BY <1>1, <1>3, <3>1
      <4> QED
        BY <1>1, <1>5, <3>1, <4>1 DEF JournalInv
    <3>2. CASE h # k
      <4>1. h \in 1..Applied
        BY <1>2, <3>2
      <4>2. reorgJournal'[h] = reorgJournal[h]
        BY <1>1, <1>3, <3>2, <4>1 DEF JournalInv
      <4> QED
        BY <4>1, <4>2 DEF JournalInv
    <3> QED
      BY <3>1, <3>2
  <2> QED
    BY <1>1, <1>2, <2>1, <2>2 DEF JournalInv
<1>8. CoinsInv'
  <2>1. Unspent(chain, k) = (Unspent(chain, Applied) \cup Outs(chain[k])) \ Ins(chain[k])
    <3>1. k - 1 = Applied /\ chain \in Seq(Block)
      BY <1>2 DEF TypeOK, DispatcherTypes
    <3> QED
      BY <1>3, <3>1, UnspentStep DEF OrderInv
  <2>2. Earned' = Earned /\ Phantoms' = Phantoms
    BY <1>1, <1>2, <1>5, <2>1 DEF Earned, Phantoms
  <2> QED
    BY <1>1, <2>2 DEF CoinsInv
<1> QED
  BY <1>6, <1>7, <1>8

\* The strengthened invariant is inductive (all handlers of memWallet).
LEMMA CoreNext == CoreInv /\ [Next]_vars => CoreInv'
<1> SUFFICES ASSUME CoreInv, [Next]_vars
             PROVE  OrderInv' /\ JournalInv' /\ CoinsInv'
  BY TypeNext DEF CoreInv
<1>1. OrderInv /\ JournalInv /\ CoinsInv
  BY DEF CoreInv
<1>2. CASE BlockConnected
  BY <1>2, CoreConnected
<1>3. CASE UnwindBlock
  BY <1>3, CoreUnwound
<1>4. CASE SyncerRecv \/ SyncerQuit \/ SyncerPop \/ SyncerLock
  BY <1>4, CoreSyncer
<1>5. CASE EvalTx
  BY <1>5, CoreEval
<1>6. CASE SyncerCommit
  BY <1>6, CoreCommit
<1>7. CASE BlockDisconnected
  <2>1. /\ UNCHANGED <<chain, chainUpdates, spc, update, ti, undo, utxos,
                       reorgJournal, unwound>>
        /\ Len(chain) > 0
    BY <1>7 DEF BlockDisconnected, queueVars, syncerVars, coinVars
  <2>2. chain # <<>>
    BY <2>1
  <2>3. InFlight' = InFlight /\ Applied' = Applied
    BY <2>1 DEF InFlight, Applied
  <2> QED
    BY <1>1, <2>1, <2>2, <2>3 DEF OrderInv, JournalInv, CoinsInv, Earned, Phantoms
<1> DEFINE Frame == UNCHANGED <<chain, unwinding, chainUpdates, syncerVars, utxos,
                                reorgJournal, unwound>>
<1> USE DEF dispatcherVars, queueVars, coinVars
<1>8. CASE ShutdownClient \/ DispatcherExit \/ Stop \/ SignalQuit
  <2>1. Frame
    BY <1>8 DEF ShutdownClient, DispatcherExit, Stop, SignalQuit
  <2> QED
    BY <1>1, <2>1, CoreFrame
<1>9. ASSUME NEW u \in Callers, Caller(u)
      PROVE  OrderInv' /\ JournalInv' /\ CoinsInv'
  <2>1. Frame
    BY <1>9 DEF Caller, NewAddress, CreateTransaction, FilterLoaded, LoadFailed,
       SendOutputsDone
  <2> QED
    BY <1>1, <2>1, CoreFrame
<1>10. ASSUME NEW tx \in held, SendHeld(tx) \/ UnlockOutputs(tx)
       PROVE  OrderInv' /\ JournalInv' /\ CoinsInv'
  <2>1. Frame
    BY <1>10 DEF SendHeld, UnlockOutputs
  <2> QED
    BY <1>1, <2>1, CoreFrame
<1>11. CASE UNCHANGED vars
  <2>1. Frame
    BY <1>11 DEF vars
  <2> QED
    BY <1>1, <2>1, CoreFrame
<1> QED
  BY <1>2, <1>3, <1>4, <1>5, <1>6, <1>7, <1>8, <1>9, <1>10, <1>11
     DEF Next, Dispatcher, ChainSyncer

\* The types, the order of the queue, the journal and the coins hold together
\* as one inductive invariant.
THEOREM CoreInvariant == Spec => []CoreInv
<1> QED
  BY CoreInit, CoreNext, PTL DEF Spec

\* Every reachable state is well typed (all handlers of memWallet).
THEOREM TypeCorrect == Spec => []TypeOK
<1>1. CoreInv => TypeOK
  BY DEF CoreInv
<1> QED
  BY <1>1, CoreInvariant, PTL

\* Between two blocks the wallet's coins are the unspent outputs of the blocks
\* it applied, whatever chain, reorganization and calls (evalOutputs,
\* evalInputs, UnwindBlock).
THEOREM CoinsCorrect == Spec => []UtxosMatchChain
<1>1. CoreInv => UtxosMatchChain
  BY DEF CoreInv, CoinsInv, Earned, UtxosMatchChain
<1> QED
  BY <1>1, CoreInvariant, PTL

\* Exactly the applied blocks have an undo entry (chainSyncer, UnwindBlock).
THEOREM JournalCorrect == Spec => []JournalCoversApplied
<1>1. CoreInv => JournalCoversApplied
  BY DEF CoreInv, JournalInv, JournalCoversApplied
<1> QED
  BY <1>1, CoreInvariant, PTL

-----------------------------------------------------------------------------
(* The signals                                                             *)

\* The pending signals are the queued updates (IngestBlock, chainSyncer).
LEMMA SignalsNext == TypeOK /\ SignalsCoverQueue /\ [Next]_vars => SignalsCoverQueue'
<1> DEFINE Popping == IF spc = "pop" THEN 1 ELSE 0
<1> SUFFICES ASSUME TypeOK, SignalsCoverQueue, [Next]_vars
             PROVE  SignalsCoverQueue'
  OBVIOUS
<1>1. /\ signals \in Nat /\ chainUpdates \in Seq(Block) /\ Len(chainUpdates) \in Nat
      /\ quit \in BOOLEAN
  BY DEF TypeOK, QueueTypes
<1> USE DEF SignalsCoverQueue
<1>2. CASE BlockConnected
  <2>1. PICK b : IngestBlock(b)
    BY <1>2 DEF BlockConnected
  <2>2. UNCHANGED <<quit, spc, panic>>
    BY <1>2 DEF BlockConnected, syncerVars
  <2>3. signals' = signals + 1 /\ Len(chainUpdates') = Len(chainUpdates) + 1
    BY <1>1, <2>1 DEF IngestBlock
  <2> QED
    BY <1>1, <2>2, <2>3
<1>3. CASE SyncerRecv \/ SignalQuit
  <2>1. UNCHANGED <<chainUpdates, quit, panic>> /\ signals' = signals - 1
    BY <1>3 DEF SyncerRecv, SignalQuit, SignalTaken
  <2>2. (spc = "recv" /\ spc' = "pop") \/ (quit /\ spc' = spc)
    BY <1>3 DEF SyncerRecv, SignalQuit, syncerVars
  <2> QED
    BY <1>1, <2>1, <2>2
<1>4. CASE SyncerPop
  <2>1. chainUpdates # <<>>
    BY <1>1, <1>4 DEF SyncerPop
  <2>2. /\ chainUpdates' = Tail(chainUpdates) /\ spc = "pop" /\ spc' = "lock"
        /\ UNCHANGED <<signals, quit, panic>>
    BY <1>4, <2>1 DEF SyncerPop
  <2>3. Len(chainUpdates') = Len(chainUpdates) - 1
    BY <1>1, <2>1, <2>2
  <2> QED
    BY <1>1, <2>2, <2>3
<1>5. CASE SyncerQuit \/ SyncerLock \/ EvalTx \/ SyncerCommit
  <2>1. /\ UNCHANGED <<chainUpdates, signals, quit, panic>>
        /\ spc # "pop" /\ spc' # "pop"
    BY <1>5 DEF SyncerQuit, SyncerLock, EvalTx, SyncerCommit, queueVars
  <2> QED
    BY <2>1
<1>6. CASE UnwindBlock
  <2>1. UNCHANGED <<chainUpdates, signals, quit, spc>> /\ panic' \in {panic, "nilUndo"}
    BY <1>6 DEF UnwindBlock, queueVars, syncerVars
  <2> QED
    BY <2>1
<1>7. CASE Stop
  <2>1. UNCHANGED <<chainUpdates, signals, spc, panic>> /\ quit' = TRUE
    BY <1>7 DEF Stop, syncerVars
  <2> QED
    BY <1>1, <2>1
<1> DEFINE Frame == UNCHANGED <<queueVars, spc, panic>>
<1>8. Frame => SignalsCoverQueue'
  BY DEF queueVars
<1>9. CASE BlockDisconnected \/ ShutdownClient \/ DispatcherExit
  BY <1>8, <1>9 DEF BlockDisconnected, ShutdownClient, DispatcherExit, syncerVars
<1>10. ASSUME NEW u \in Callers, Caller(u)
       PROVE  SignalsCoverQueue'
  BY <1>8, <1>10 DEF Caller, NewAddress, CreateTransaction, FilterLoaded,
     LoadFailed, SendOutputsDone, syncerVars
<1>11. ASSUME NEW tx \in held, SendHeld(tx) \/ UnlockOutputs(tx)
       PROVE  SignalsCoverQueue'
  BY <1>8, <1>11 DEF SendHeld, UnlockOutputs, syncerVars
<1>12. CASE UNCHANGED vars
  BY <1>8, <1>12 DEF vars, queueVars, syncerVars
<1> QED
  BY <1>2, <1>3, <1>4, <1>5, <1>6, <1>7, <1>9, <1>10, <1>11, <1>12
     DEF Next, Dispatcher, ChainSyncer

\* chainSyncer never pops an empty queue, and as long as the wallet runs no
\* queued update is without its signal (IngestBlock, chainSyncer).
THEOREM SignalsCorrect == Spec => []SignalsCoverQueue
<1>1. Init => SignalsCoverQueue
  BY DEF Init, SignalsCoverQueue
<1> QED
  BY <1>1, SignalsNext, TypeCorrect, PTL DEF Spec

-----------------------------------------------------------------------------
(* The mutex and the addresses                                             *)

\* At most one goroutine keeps the mutex between two steps.
Exclusion ==
    /\ \A u, v \in Callers : Holds(u) /\ Holds(v) => u = v
    /\ \A u \in Callers : Holds(u) => spc # "eval"

AddressInv == Exclusion /\ AddressesContiguous

\* Steps that leave the mutex and the addresses alone.
LEMMA AddressFrame ==
    ASSUME AddressInv, UNCHANGED <<call, addrVars>>, spc' = "eval" => spc = "eval"
    PROVE  AddressInv'
  BY DEF AddressInv, Exclusion, AddressesContiguous, Holds, addrVars

\* A caller that comes to hold nothing, with the addresses unchanged.
LEMMA AddressReleased ==
    ASSUME TypeOK, AddressInv, NEW u \in Callers, UNCHANGED <<addrVars, spc>>,
           \A v \in Callers \ {u} : call'[v] = call[v],
           call'[u].pc # "loadfilter"
    PROVE  AddressInv'
  BY DEF AddressInv, Exclusion, AddressesContiguous, Holds, addrVars

\* A caller that acquires the free mutex and keeps it, with the index it read.
LEMMA AddressAcquired ==
    ASSUME TypeOK, AddressInv, NEW u \in Callers, UNCHANGED <<addrVars, spc>>,
           MutexFree,
           \A v \in Callers \ {u} : call'[v] = call[v],
           call'[u].index = hdIndex
    PROVE  AddressInv'
  BY DEF AddressInv, Exclusion, AddressesContiguous, Holds, addrVars, MutexFree

\* The mutex and the addresses are kept by every step (newAddress and every
\* other holder of the mutex).
LEMMA AddressNext == TypeOK /\ AddressInv /\ [Next]_vars => AddressInv'
<1> SUFFICES ASSUME TypeOK, AddressInv, [Next]_vars
             PROVE  AddressInv'
  OBVIOUS
<1>1. CASE \/ BlockConnected \/ BlockDisconnected \/ UnwindBlock
           \/ ShutdownClient \/ DispatcherExit
  BY <1>1, AddressFrame DEF BlockConnected, BlockDisconnected, UnwindBlock,
     ShutdownClient, DispatcherExit, syncerVars, callerVars
<1>2. CASE Stop \/ SignalQuit
  BY <1>2, AddressFrame DEF Stop, SignalQuit, syncerVars, callerVars
<1>3. CASE SyncerRecv \/ SyncerPop \/ EvalTx \/ SyncerCommit \/ SyncerQuit
  BY <1>3, AddressFrame DEF SyncerRecv, SyncerPop, EvalTx, SyncerCommit,
     SyncerQuit, callerVars
<1>4. CASE SyncerLock
  <2>1. UNCHANGED <<call, addrVars>> /\ MutexFree
    BY <1>4 DEF SyncerLock, callerVars
  <2> QED
    BY <2>1 DEF AddressInv, Exclusion, AddressesContiguous, Holds, addrVars,
       MutexFree
<1>5. ASSUME NEW u \in Callers, Caller(u)
      PROVE  AddressInv'
  <2>1. call \in [Callers -> [pc : {"idle", "loadfilter", "sending"}, index : Nat,
                              ins : SUBSET OutPoints, outs : SUBSET OutPoints,
                              send : BOOLEAN]]
        /\ hdIndex \in Nat /\ Idle.pc = "idle"
    BY DEF TypeOK, CallerTypes, Idle
  <2>2. CASE NewAddress(u)
    <3>1. /\ call' = [call EXCEPT ![u].pc = "loadfilter", ![u].index = hdIndex]
          /\ UNCHANGED <<addrVars, spc>> /\ MutexFree
      BY <2>2 DEF NewAddress, syncerVars
    <3>2. /\ \A v \in Callers \ {u} : call'[v] = call[v]
          /\ call'[u].index = hdIndex
      BY <2>1, <3>1
    <3> QED
      BY <3>1, <3>2, AddressAcquired
  <2>3. CASE CreateTransaction(u)
    <3>1. UNCHANGED <<addrVars, spc>> /\ MutexFree
      BY <2>3 DEF CreateTransaction, syncerVars
    <3>2. PICK ins \in (SUBSET Spendable) \ {{}}, send \in BOOLEAN :
            \/ Complete(u, ins, {}, send)
            \/ \E op \in Fresh :
                  call' = [call EXCEPT ![u] = [pc |-> "loadfilter",
                            index |-> hdIndex, ins |-> ins, outs |-> {op},
                            send |-> send]]
      BY <2>3 DEF CreateTransaction
    <3>3. CASE Complete(u, ins, {}, send)
      <4>1. /\ \A v \in Callers \ {u} : call'[v] = call[v]
            /\ call'[u].pc # "loadfilter"
        BY <2>1, <3>3 DEF Complete
      <4> QED
        BY <3>1, <4>1, AddressReleased
    <3>4. ASSUME NEW op \in Fresh,
                 call' = [call EXCEPT ![u] = [pc |-> "loadfilter",
                            index |-> hdIndex, ins |-> ins, outs |-> {op},
                            send |-> send]]
          PROVE  AddressInv'
      <4>1. /\ \A v \in Callers \ {u} : call'[v] = call[v]
            /\ call'[u].index = hdIndex
        BY <2>1, <3>4
      <4> QED
        BY <3>1, <4>1, AddressAcquired
    <3> QED
      BY <3>2, <3>3, <3>4
  <2>4. CASE FilterLoaded(u)
    <3>1. /\ call[u].pc = "loadfilter" /\ spc' = spc
          /\ addrs' = addrs \cup {call[u].index} /\ hdIndex' = hdIndex + 1
      BY <2>4 DEF FilterLoaded, syncerVars
    <3>2. /\ \A v \in Callers \ {u} : call'[v] = call[v]
          /\ call'[u].pc # "loadfilter"
      BY <2>1, <2>4 DEF FilterLoaded, Complete
    <3>3. \A v \in Callers : ~(call'[v].pc = "loadfilter")
      BY <3>1, <3>2 DEF AddressInv, Exclusion, Holds
    <3>4. addrs' = 0..(hdIndex' - 1)
      <4>1. addrs = 0..(hdIndex - 1) /\ call[u].index = hdIndex
        BY <3>1 DEF AddressInv, AddressesContiguous, Holds
      <4> QED
        BY <2>1, <3>1, <4>1
    <3> QED
      BY <3>1, <3>3, <3>4 DEF AddressInv, Exclusion, AddressesContiguous, Holds
  <2>5. CASE LoadFailed(u) \/ SendOutputsDone(u)
    <3>1. UNCHANGED <<addrVars, spc>> /\ call' = [call EXCEPT ![u] = Idle]
      BY <2>5 DEF LoadFailed, SendOutputsDone, syncerVars
    <3>2. /\ \A v \in Callers \ {u} : call'[v] = call[v]
          /\ call'[u].pc # "loadfilter"
      BY <2>1, <3>1
    <3> QED
      BY <3>1, <3>2, AddressReleased
  <2> QED
    BY <1>5, <2>2, <2>3, <2>4, <2>5 DEF Caller
<1>6. ASSUME NEW tx \in held, SendHeld(tx) \/ UnlockOutputs(tx)
      PROVE  AddressInv'
  BY <1>6, AddressFrame DEF SendHeld, UnlockOutputs, syncerVars
<1>7. CASE UNCHANGED vars
  BY <1>7, AddressFrame DEF vars, syncerVars, callerVars
<1> QED
  BY <1>1, <1>2, <1>3, <1>4, <1>5, <1>6, <1>7 DEF Next, Dispatcher, ChainSyncer

\* No address index is issued twice or skipped (newAddress), because the mutex
\* is held from the reading of hdIndex to its increment.
THEOREM AddressesCorrect == Spec => []AddressesContiguous
<1>1. Init => AddressInv
  BY DEF Init, AddressInv, Exclusion, AddressesContiguous, Holds, Idle
<1>2. AddressInv => AddressesContiguous
  BY DEF AddressInv
<1> QED
  BY <1>1, <1>2, AddressNext, TypeCorrect, PTL DEF Spec
=============================================================================
