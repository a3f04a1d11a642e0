------------------------ MODULE MemWalletCallProofs ------------------------
(***************************************************************************)
(* Proofs about what callers of MemWallet rely on: the synced height, the  *)
(* coins that a call selected, that blocks take effect as a whole, the     *)
(* maturity of the coins and their locks.                                  *)
(***************************************************************************)
EXTENDS MemWalletProofs, Integers

-----------------------------------------------------------------------------
(* The synced height                                                       *)

\* Within an evaluation the height is the block's; between two it is not behind
\* the applied blocks, and exact before the first disconnection.
HeightInv ==
    /\ spc = "eval" => currentHeight = Applied + 1
    /\ SyncedHeightNotBehind
    /\ unwinding => disconnects # 0

\* Steps that leave alone what the height depends on.
LEMMA HeightFrame ==
    ASSUME HeightInv,
           UNCHANGED <<currentHeight, spc, disconnects, unwinding, Applied>>
    PROVE  HeightInv'
  BY DEF HeightInv, SyncedHeightNotBehind

\* Every step keeps the height in step with the applied blocks (chainSyncer,
\* UnwindBlock, SyncedHeight).
LEMMA HeightNext == CoreInv /\ HeightInv /\ [Next]_vars => HeightInv'
<1> SUFFICES ASSUME CoreInv, HeightInv, [Next]_vars PROVE HeightInv'
  OBVIOUS
<1>1. /\ TypeOK /\ OrderInv
      /\ chain \in Seq(Block) /\ chainUpdates \in Seq(Block)
      /\ currentHeight \in Nat /\ disconnects \in Nat
  BY DEF CoreInv, TypeOK, DispatcherTypes, QueueTypes, CoinTypes
<1>2. /\ Len(chain) \in Nat /\ Len(chainUpdates) \in Nat /\ Applied \in Nat
      /\ InFlight = 1 => /\ Applied + 1 \in 1..Len(chain)
                         /\ update = chain[Applied + 1]
                         /\ chain[Applied + 1].height = Applied + 1
  <2>1. Applied \in 0..Len(chain)
    BY <1>1, Counts
  <2> QED
    BY <1>1, <2>1, Counts
<1>3. CASE BlockConnected
  <2>1. PICK b : chain' = Append(chain, b) /\ IngestBlock(b)
    BY <1>3 DEF BlockConnected
  <2>2. /\ UNCHANGED <<currentHeight, spc, disconnects, unwinding>>
        /\ Len(chain') = Len(chain) + 1
        /\ Len(chainUpdates') = Len(chainUpdates) + 1
    BY <1>1, <1>3, <2>1 DEF BlockConnected, IngestBlock, syncerVars, coinVars
  <2>3. Applied' = Applied
    BY <1>2, <2>2 DEF Applied, InFlight
  <2> QED
    BY <2>2, <2>3, HeightFrame
<1>4. CASE BlockDisconnected
  <2>1. /\ UNCHANGED <<chain, chainUpdates, currentHeight, spc>>
        /\ disconnects' = disconnects + 1
    BY <1>4 DEF BlockDisconnected, queueVars, syncerVars, coinVars
  <2>2. Applied' = Applied /\ disconnects' # 0
    BY <1>1, <2>1 DEF Applied, InFlight
  <2> QED
    BY <2>1, <2>2 DEF HeightInv, SyncedHeightNotBehind
<1>5. CASE UnwindBlock
  <2>1. /\ UNCHANGED <<chainUpdates, currentHeight, spc, disconnects>>
        /\ unwinding /\ spc # "eval"
        /\ chain # <<>>
    BY <1>1, <1>5 DEF UnwindBlock, MutexFree, OrderInv, queueVars, syncerVars
  <2>2. Len(chain') \in {Len(chain), Len(chain) - 1}
    <3>1. chain' \in {chain, SubSeq(chain, 1, Len(chain) - 1)}
      BY <1>5 DEF UnwindBlock
    <3>2. Len(chain) # 0
      BY <1>1, <2>1
    <3>3. Len(SubSeq(chain, 1, Len(chain) - 1)) = Len(chain) - 1
      <4> DEFINE L == Len(chain)
      <4>1. L \in Nat /\ L >= 1 /\ L - 1 \in Nat
        BY <1>2, <3>2
      <4>2. chain \in Seq(Block)
        BY <1>1
      <4> HIDE DEF L
      <4>3. Len(SubSeq(chain, 1, L - 1)) = L - 1
        BY <4>1, <4>2
      <4> QED
        BY <4>3 DEF L
    <3> QED
      BY <3>1, <3>3
  <2>3. Applied' <= Applied
    BY <1>2, <2>1, <2>2 DEF Applied, InFlight
  <2>4. disconnects # 0
    BY <2>1 DEF HeightInv
  <2>5. currentHeight >= Applied'
    <3>1. Applied' \in Int
      BY <1>2, <2>1, <2>2 DEF Applied, InFlight
    <3> QED
      BY <1>1, <1>2, <2>1, <2>3, <3>1 DEF HeightInv, SyncedHeightNotBehind
  <2> QED
    BY <2>1, <2>4, <2>5 DEF HeightInv, SyncedHeightNotBehind
<1>6. CASE SyncerRecv \/ SyncerQuit
  <2>1. /\ UNCHANGED <<chain, chainUpdates, currentHeight, disconnects, unwinding>>
        /\ spc = "recv" /\ spc' \in {"pop", "exited"}
    BY <1>6 DEF SyncerRecv, SyncerQuit, dispatcherVars, queueVars, coinVars
  <2>2. Applied' = Applied
    BY <2>1 DEF Applied, InFlight
  <2> QED
    BY <2>1, <2>2 DEF HeightInv, SyncedHeightNotBehind
<1>7. CASE SyncerPop
  <2>1. UNCHANGED <<chain, currentHeight, disconnects, unwinding>> /\ spc = "pop"
    BY <1>7 DEF SyncerPop, dispatcherVars, coinVars
  <2>2. \/ UNCHANGED <<chainUpdates, spc>>
        \/ Len(chainUpdates') = Len(chainUpdates) - 1 /\ spc' = "lock"
    BY <1>1, <1>7 DEF SyncerPop
  <2>3. Applied' = Applied /\ spc' # "eval"
    BY <1>2, <2>1, <2>2 DEF Applied, InFlight
  <2> QED
    BY <2>1, <2>3 DEF HeightInv, SyncedHeightNotBehind
<1>8. CASE SyncerLock
  <2>1. /\ UNCHANGED <<chain, chainUpdates, disconnects, unwinding>>
        /\ spc = "lock" /\ spc' = "eval" /\ currentHeight' = update.height
    BY <1>8 DEF SyncerLock, dispatcherVars, queueVars
  <2>2. Applied' = Applied /\ InFlight = 1
    BY <2>1 DEF Applied, InFlight
  <2> QED
    BY <1>2, <2>1, <2>2 DEF HeightInv, SyncedHeightNotBehind
<1>9. CASE SyncerCommit
  <2>1. /\ UNCHANGED <<chain, chainUpdates, currentHeight, disconnects, unwinding>>
        /\ spc = "eval" /\ spc' = "recv"
    BY <1>9 DEF SyncerCommit, dispatcherVars, queueVars
  <2>2. Applied' = Applied + 1
    BY <1>2, <2>1 DEF Applied, InFlight
  <2> QED
    BY <1>1, <1>2, <2>1, <2>2 DEF HeightInv, SyncedHeightNotBehind
<1> DEFINE Frame == UNCHANGED <<chain, chainUpdates, currentHeight, spc, disconnects,
                                unwinding>>
<1>10. Frame => HeightInv'
  BY HeightFrame DEF Applied, InFlight
<1> USE DEF dispatcherVars, queueVars, syncerVars, coinVars
<1>11. CASE EvalTx \/ ShutdownClient \/ DispatcherExit \/ Stop \/ SignalQuit
  BY <1>10, <1>11 DEF EvalTx, ShutdownClient, DispatcherExit, Stop, SignalQuit
<1>12. ASSUME NEW u \in Callers, Caller(u) PROVE HeightInv'
  BY <1>10, <1>12 DEF Caller, NewAddress, CreateTransaction, FilterLoaded, LoadFailed,
     SendOutputsDone
<1>13. ASSUME NEW tx \in held, SendHeld(tx) \/ UnlockOutputs(tx) PROVE HeightInv'
  BY <1>10, <1>13 DEF SendHeld, UnlockOutputs
<1>14. CASE UNCHANGED vars
  BY <1>10, <1>14 DEF vars
<1> QED
  BY <1>3, <1>4, <1>5, <1>6, <1>7, <1>8, <1>9, <1>11, <1>12, <1>13, <1>14
     DEF Next, Dispatcher, ChainSyncer

\* Before the first block the height is zero (newMemWallet).
LEMMA HeightInit == Init => HeightInv
<1> SUFFICES ASSUME Init PROVE HeightInv
  OBVIOUS
<1>1. /\ Len(chain) = 0 /\ Len(chainUpdates) = 0 /\ spc = "recv"
      /\ currentHeight = 0 /\ ~unwinding
  BY DEF Init
<1>2. InFlight = 0
  BY <1>1 DEF InFlight
<1>3. Applied = 0
  BY <1>1, <1>2 DEF Applied
<1> QED
  BY <1>1, <1>3 DEF HeightInv, SyncedHeightNotBehind

\* The height SetUp waits for is never behind the blocks whose coins the wallet
\* has, and equals their number until a block is disconnected (SyncedHeight).
THEOREM HeightCorrect == Spec => []SyncedHeightNotBehind
<1>1. HeightInv => SyncedHeightNotBehind
  BY DEF HeightInv
<1> QED
  BY <1>1, HeightInit, HeightNext, CoreInvariant, PTL DEF Spec

-----------------------------------------------------------------------------
(* The coins a call selected                                               *)

\* A call that has not begun selected nothing.
IdleInv == \A u \in Callers : call[u].pc = "idle" => call[u] = Idle

SelectInv == Exclusion /\ IdleInv /\ SelectionStaysSpendable

\* Steps that leave the calls and the coins alone.
LEMMA SelectFrame ==
    ASSUME SelectInv, UNCHANGED <<call, utxos, locked, currentHeight, maturityHeight>>
    PROVE  IdleInv' /\ SelectionStaysSpendable'
  BY DEF SelectInv, IdleInv, SelectionStaysSpendable, Holds, Spendable

\* Steps for which the mutex has to be free, or is kept by chainSyncer: there is
\* no call whose selection they could disturb.
LEMMA SelectUndisturbed ==
    ASSUME SelectInv, UNCHANGED call, MutexFree \/ spc = "eval"
    PROVE  IdleInv' /\ SelectionStaysSpendable'
  BY DEF SelectInv, Exclusion, IdleInv, SelectionStaysSpendable, Holds, MutexFree

\* The selection is kept by every step of a caller (fundTx, CreateTransaction,
\* newAddress).
LEMMA SelectCaller ==
    ASSUME TypeOK, SelectInv, NEW u \in Callers, Caller(u)
    PROVE  IdleInv' /\ SelectionStaysSpendable'
<1>1. call \in [Callers -> [pc : {"idle", "loadfilter", "sending"}, index : Nat,
                            ins : SUBSET OutPoints, outs : SUBSET OutPoints,
                            send : BOOLEAN]]
      /\ Idle.pc = "idle" /\ Idle.ins = {}
  BY DEF TypeOK, CallerTypes, Idle
<1>2. CASE NewAddress(u)
  <2>1. /\ call' = [call EXCEPT ![u].pc = "loadfilter", ![u].index = hdIndex]
        /\ UNCHANGED coinVars /\ call[u].pc = "idle" /\ MutexFree
    BY <1>2 DEF NewAddress
  <2>2. /\ \A v \in Callers \ {u} : call'[v] = call[v]
        /\ call'[u].pc = "loadfilter" /\ call'[u].ins = {}
    BY <1>1, <2>1 DEF SelectInv, IdleInv
  <2> QED
    BY <2>1, <2>2 DEF SelectInv, IdleInv, SelectionStaysSpendable, Holds, MutexFree
<1>3. CASE CreateTransaction(u)
  <2>1. MutexFree /\ UNCHANGED <<utxos, currentHeight, maturityHeight>>
    BY <1>3 DEF CreateTransaction
  <2>2. PICK ins \in (SUBSET Spendable) \ {{}}, send \in BOOLEAN :
          \/ Complete(u, ins, {}, send)
          \/ /\ \E op \in Fresh :
                  call' = [call EXCEPT ![u] = [pc |-> "loadfilter",
                            index |-> hdIndex, ins |-> ins, outs |-> {op},
                            send |-> send]]
             /\ UNCHANGED locked
    BY <1>3 DEF CreateTransaction
  <2>3. CASE Complete(u, ins, {}, send)
    <3>1. /\ \A v \in Callers \ {u} : call'[v] = call[v]
          /\ call'[u] = Idle \/ call'[u].pc = "sending"
      BY <1>1, <2>3 DEF Complete
    <3> QED
      BY <1>1, <2>1, <3>1 DEF SelectInv, IdleInv, SelectionStaysSpendable, Holds,
         MutexFree
  <2>4. ASSUME NEW op \in Fresh, UNCHANGED locked,
               call' = [call EXCEPT ![u] = [pc |-> "loadfilter",
                          index |-> hdIndex, ins |-> ins, outs |-> {op},
                          send |-> send]]
        PROVE  IdleInv' /\ SelectionStaysSpendable'
    <3>1. /\ \A v \in Callers \ {u} : call'[v] = call[v]
          /\ call'[u].pc = "loadfilter" /\ call'[u].ins = ins
      BY <1>1, <2>4
    <3>2. Spendable' = Spendable
      BY <2>1, <2>4 DEF Spendable
    <3> QED
      BY <2>1, <3>1, <3>2 DEF SelectInv, IdleInv, SelectionStaysSpendable, Holds,
         MutexFree
  <2> QED
    BY <2>2, <2>3, <2>4
<1>4. CASE FilterLoaded(u)
  <2>1. /\ call[u].pc = "loadfilter"
        /\ \A v \in Callers \ {u} : call'[v] = call[v]
        /\ call'[u] = Idle \/ call'[u].pc = "sending"
    BY <1>1, <1>4 DEF FilterLoaded, Complete
  <2>2. \A v \in Callers : ~(call'[v].pc = "loadfilter")
    BY <1>1, <2>1 DEF SelectInv, Exclusion, Holds
  <2> QED
    BY <1>1, <2>1, <2>2 DEF SelectInv, IdleInv, SelectionStaysSpendable, Holds
<1>5. CASE LoadFailed(u) \/ SendOutputsDone(u)
  <2>1. UNCHANGED coinVars /\ call' = [call EXCEPT ![u] = Idle]
    BY <1>5 DEF LoadFailed, SendOutputsDone
  <2>2. /\ \A v \in Callers \ {u} : call'[v] = call[v]
        /\ call'[u] = Idle
    BY <1>1, <2>1
  <2>3. Spendable' = Spendable
    BY <2>1 DEF Spendable, coinVars
  <2> QED
    BY <1>1, <2>2, <2>3 DEF SelectInv, IdleInv, SelectionStaysSpendable, Holds
<1> QED
  BY <1>2, <1>3, <1>4, <1>5 DEF Caller

\* The mutex keeps every other step away from a selection (fundTx,
\* CreateTransaction).
LEMMA SelectNext ==
    TypeOK /\ AddressInv /\ SelectInv /\ [Next]_vars => SelectInv'
<1> SUFFICES ASSUME TypeOK, AddressInv, SelectInv, [Next]_vars
             PROVE  IdleInv' /\ SelectionStaysSpendable'
  BY AddressNext DEF SelectInv, AddressInv
<1>1. CASE \/ BlockConnected \/ BlockDisconnected \/ ShutdownClient \/ DispatcherExit
           \/ Stop \/ SignalQuit \/ SyncerRecv \/ SyncerPop \/ SyncerQuit \/ SyncerCommit
  BY <1>1, SelectFrame DEF BlockConnected, BlockDisconnected, ShutdownClient,
     DispatcherExit, Stop, SignalQuit, SyncerRecv, SyncerPop, SyncerQuit, SyncerCommit,
     coinVars, callerVars
<1>2. CASE UnwindBlock \/ SyncerLock \/ EvalTx
  BY <1>2, SelectUndisturbed DEF UnwindBlock, SyncerLock, EvalTx, callerVars
<1>3. ASSUME NEW u \in Callers, Caller(u)
      PROVE  IdleInv' /\ SelectionStaysSpendable'
  BY <1>3, SelectCaller
<1>4. ASSUME NEW tx \in held, SendHeld(tx)
      PROVE  IdleInv' /\ SelectionStaysSpendable'
  BY <1>4, SelectFrame DEF SendHeld, coinVars
<1>5. ASSUME NEW tx \in held, UnlockOutputs(tx)
      PROVE  IdleInv' /\ SelectionStaysSpendable'
  BY <1>5, SelectUndisturbed DEF UnlockOutputs
<1>6. CASE UNCHANGED vars
  BY <1>6, SelectFrame DEF vars, coinVars, callerVars
<1> QED
  BY <1>1, <1>2, <1>3, <1>4, <1>5, <1>6 DEF Next, Dispatcher, ChainSyncer

\* The three hold together (all handlers of memWallet).
LEMMA SelectInvariant == Spec => []SelectInv
<1>1. Init => AddressInv /\ SelectInv
  BY DEF Init, AddressInv, AddressesContiguous, SelectInv, Exclusion, IdleInv,
     SelectionStaysSpendable, Holds, Idle
<1>2. TypeOK /\ AddressInv /\ [Next]_vars => AddressInv'
  BY AddressNext
<1> QED
  BY <1>1, <1>2, SelectNext, TypeCorrect, PTL DEF Spec

\* The coins a call selected stay the wallet's and spendable until the call
\* locks them, however long LoadTxFilter takes (fundTx, CreateTransaction).
THEOREM SelectionCorrect == Spec => []SelectionStaysSpendable
<1>1. SelectInv => SelectionStaysSpendable
  BY DEF SelectInv
<1> QED
  BY <1>1, SelectInvariant, PTL

-----------------------------------------------------------------------------
(* The applied blocks                                                      *)

\* A step that applies no block, undoes none and evaluates no transaction.
Kept ==
    /\ Applied' = Applied
    /\ \A k \in 1..(Applied + InFlight) : chain'[k] = chain[k]
    /\ (spc' = "eval") = (spc = "eval")
    /\ spc = "eval" => UNCHANGED <<update, ti>>
    /\ UNCHANGED <<utxos, maturityHeight, unwound>>

\* A step that undoes the last applied block.
Undone ==
    LET b == chain[Applied] IN
    /\ Applied \in Nat \ {0} /\ Applied' = Applied - 1
    /\ Len(chain) = Applied /\ Len(chain') = Applied - 1
    /\ \A k \in 1..(Applied - 1) : chain'[k] = chain[k]
    /\ spc # "eval" /\ spc' = spc /\ MutexFree
    /\ utxos' = (utxos \ Outs(b)) \cup Ins(b)
    /\ unwound' = unwound \cup {b}
    /\ UNCHANGED <<maturityHeight, locked, call, held, abandoned, broadcast>>

\* A step of a transaction's evaluation, of the block after the applied ones.
Evaluated ==
    LET tx == update.txns[ti] IN
    /\ spc = "eval" /\ spc' = "eval" /\ Applied' = Applied /\ UNCHANGED <<chain, update>>
    /\ ti \in 1..Len(update.txns) /\ ti' = ti + 1
    /\ ValidTx(chain, Applied, update.txns, ti)
    /\ utxos' = (utxos \cup tx.outs) \ tx.ins
    /\ locked' = locked \ tx.outs
    /\ maturityHeight' = [op \in OutPoints |->
            IF op \in tx.outs THEN MaturityOf(tx) ELSE maturityHeight[op]]
    /\ UNCHANGED <<currentHeight, unwound, call, held, abandoned, broadcast>>

\* The evaluation of a block begins.
Begun ==
    /\ spc = "lock" /\ spc' = "eval" /\ MutexFree
    /\ Applied' = Applied /\ ti' = 1
    /\ UNCHANGED <<chain, update, utxos, maturityHeight, unwound>>

\* The evaluation ends and the block is applied.
Committed ==
    /\ spc = "eval" /\ spc' = "recv" /\ ti = Len(update.txns) + 1
    /\ Applied' = Applied + 1
    /\ UNCHANGED <<chain, utxos, maturityHeight, unwound>>

\* UnwindBlock undoes the last applied block, or finds no entry and changes
\* nothing (UnwindBlock).
LEMMA UnwindSteps ==
    ASSUME CoreInv, UnwindBlock
    PROVE  (Kept /\ UNCHANGED chain) \/ Undone
<1> DEFINE L == Len(chain)
           b == chain[L]
<1>1. chain \in Seq(Block) /\ L \in 1..L /\ b \in Block /\ b.height = L
  <2>1. chain \in Seq(Block) /\ unwinding
    BY DEF CoreInv, TypeOK, DispatcherTypes, UnwindBlock
  <2>2. L \in 1..L
    BY <2>1 DEF CoreInv, OrderInv
  <2> QED
    BY <2>1, <2>2, Counts DEF CoreInv
<1>2. CASE L \notin DOMAIN reorgJournal
  BY <1>1, <1>2 DEF UnwindBlock, queueVars, syncerVars, Kept, Applied, InFlight
<1>3. CASE L \in DOMAIN reorgJournal
  <2>1. /\ utxos' = (utxos \ reorgJournal[L].created) \cup reorgJournal[L].destroyed
        /\ chain' = SubSeq(chain, 1, L - 1)
        /\ unwound' = unwound \cup {b}
        /\ UNCHANGED <<chainUpdates, spc, maturityHeight, locked, call, held, abandoned,
                       broadcast>>
        /\ spc # "eval" /\ MutexFree
    BY <1>1, <1>3 DEF UnwindBlock, UtxosUnwound, JournalUnwound, queueVars,
       syncerVars, callerVars, MutexFree
  <2>2. Applied = L /\ Len(chainUpdates) = 0 /\ InFlight = 0
    BY <1>1, <1>3, Counts DEF CoreInv, JournalInv, Applied
  <2>3. Len(chain') = L - 1 /\ \A k \in 1..(L - 1) : chain'[k] = chain[k]
    <3>1. L \in Nat /\ L >= 1 /\ L - 1 \in Nat
      BY <1>1
    <3> DEFINE front == SubSeq(chain, 1, L - 1)
    <3>2. Len(front) = L - 1
      <4>1. chain \in Seq(Block)
        BY <1>1
      <4> HIDE DEF L
      <4> QED
        BY <3>1, <4>1
    <3>3. ASSUME NEW k \in 1..(L - 1) PROVE front[k] = chain[k]
      BY <1>1, <3>1
    <3> QED
      BY <2>1, <3>2, <3>3
  <2>4. Applied' = L - 1
    BY <2>1, <2>2, <2>3 DEF Applied, InFlight
  <2>5. reorgJournal[L].created = Outs(b) /\ reorgJournal[L].destroyed = Ins(b)
    BY <1>1, <2>2 DEF CoreInv, JournalInv
  <2> QED
    BY <1>1, <2>1, <2>2, <2>3, <2>4, <2>5 DEF Undone
<1> QED
  BY <1>2, <1>3

\* The steps of chainSyncer on a block (chainSyncer, evalOutputs, evalInputs).
LEMMA BlockSteps ==
    ASSUME CoreInv
    PROVE  /\ SyncerLock => Begun
           /\ EvalTx => Evaluated
           /\ SyncerCommit => Committed
<1> USE DEF dispatcherVars, queueVars, callerVars
<1>1. ASSUME SyncerLock PROVE Begun
  BY <1>1 DEF SyncerLock, Begun, Applied, InFlight
<1>2. ASSUME EvalTx PROVE Evaluated
  <2>1. spc = "eval" /\ spc' = "eval" /\ UNCHANGED <<chain, chainUpdates, update>>
    BY <1>2 DEF EvalTx
  <2>2. InFlight = 1 /\ Applied' = Applied
    BY <2>1 DEF Applied, InFlight
  <2>3. ValidBlock(chain, Applied, update) /\ Applied \in Nat
    <3>1. /\ Applied + 1 \in 1..Len(chain) /\ update = chain[Applied + 1]
          /\ (Applied + 1) - 1 = Applied
      BY <2>2, Counts DEF CoreInv
    <3>2. ValidBlock(chain, (Applied + 1) - 1, chain[Applied + 1])
      BY <3>1, Counts DEF CoreInv
    <3> QED
      BY <3>1, <3>2, Counts DEF CoreInv
  <2>4. ti \in 1..Len(update.txns)
    <3>1. update \in Block /\ ti \in Nat \ {0}
      BY DEF CoreInv, TypeOK, SyncerTypes
    <3>2. Len(update.txns) \in Nat
      BY <3>1 DEF Block
    <3> QED
      BY <1>2, <3>1, <3>2 DEF EvalTx
  <2>5. ValidTx(chain, Applied, update.txns, ti)
    BY <2>3, <2>4 DEF ValidBlock
  <2> QED
    BY <1>2, <2>1, <2>2, <2>4, <2>5 DEF EvalTx, Evaluated, UtxosAfter, LockedAfter
<1>3. ASSUME SyncerCommit PROVE Committed
  <2>1. /\ spc = "eval" /\ spc' = "recv" /\ ti > Len(update.txns)
        /\ UNCHANGED <<chain, chainUpdates, utxos, maturityHeight, unwound>>
    BY <1>3 DEF SyncerCommit
  <2>2. Applied' = Applied + 1
    BY <2>1, Counts DEF CoreInv, Applied, InFlight
  <2>3. ti = Len(update.txns) + 1
    <3>1. update \in Block
      BY DEF CoreInv, TypeOK, SyncerTypes
    <3>2. Len(update.txns) \in Nat
      BY <3>1 DEF Block
    <3> QED
      BY <2>1, <3>2 DEF CoreInv, OrderInv
  <2> QED
    BY <2>1, <2>2, <2>3 DEF Committed
<1> QED
  BY <1>1, <1>2, <1>3

\* Every other step keeps the applied blocks and the coins (all handlers of
\* memWallet).
LEMMA OtherSteps ==
    ASSUME CoreInv, [Next]_vars,
           ~(UnwindBlock \/ SyncerLock \/ EvalTx \/ SyncerCommit)
    PROVE  Kept
<1>1. /\ chain \in Seq(Block) /\ chainUpdates \in Seq(Block)
      /\ Len(chain) \in Nat /\ Len(chainUpdates) \in Nat /\ Applied + InFlight <= Len(chain)
  <2>1. chain \in Seq(Block) /\ chainUpdates \in Seq(Block)
    BY DEF CoreInv, TypeOK, DispatcherTypes, QueueTypes
  <2>2. Len(chain) \in Nat /\ Len(chainUpdates) \in Nat /\ InFlight \in {0, 1}
    BY Counts DEF CoreInv
  <2> QED
    BY <2>1, <2>2 DEF Applied
<1>2. CASE BlockConnected
  <2>1. PICK b \in NextBlocks : chain' = Append(chain, b) /\ IngestBlock(b)
    BY <1>2 DEF BlockConnected
  <2>2. b \in Block
    BY <2>1, NextBlocksType DEF CoreInv
  <2>3. /\ Len(chain') = Len(chain) + 1 /\ Len(chainUpdates') = Len(chainUpdates) + 1
        /\ \A k \in 1..Len(chain) : chain'[k] = chain[k]
    BY <1>1, <2>1, <2>2 DEF IngestBlock
  <2>4. UNCHANGED <<spc, update, ti, utxos, maturityHeight, unwound>>
    BY <1>2 DEF BlockConnected, syncerVars, coinVars
  <2>5. Applied' = Applied
    BY <1>1, <2>3, <2>4 DEF Applied, InFlight
  <2>6. InFlight \in {0, 1}
    BY DEF InFlight
  <2>7. \A k \in 1..(Applied + InFlight) : k \in 1..Len(chain)
    BY <1>1, <2>6 DEF Applied
  <2>8. \A k \in 1..(Applied + InFlight) : chain'[k] = chain[k]
    BY <2>3, <2>7
  <2> QED
    BY <2>4, <2>5, <2>8 DEF Kept
<1>3. CASE SyncerRecv \/ SyncerQuit
  BY <1>3 DEF SyncerRecv, SyncerQuit, dispatcherVars, queueVars, coinVars, Kept, Applied,
     InFlight
<1>4. CASE SyncerPop
  <2>1. /\ spc = "pop" /\ UNCHANGED <<chain, utxos, maturityHeight, unwound>>
        /\ \/ UNCHANGED <<chainUpdates, spc>>
           \/ Len(chainUpdates') = Len(chainUpdates) - 1 /\ spc' = "lock"
    BY <1>1, <1>4 DEF SyncerPop, dispatcherVars, coinVars
  <2>2. Applied' = Applied
    BY <1>1, <2>1 DEF Applied, InFlight
  <2> QED
    BY <2>1, <2>2 DEF Kept
<1> DEFINE Frame == UNCHANGED <<chain, chainUpdates, spc, update, ti, utxos, maturityHeight,
                                unwound>>
<1>5. Frame => Kept
  BY DEF Kept, Applied, InFlight
<1> USE DEF dispatcherVars, queueVars, syncerVars, coinVars
<1>6. CASE BlockDisconnected \/ ShutdownClient \/ DispatcherExit \/ Stop \/ SignalQuit
  BY <1>5, <1>6 DEF BlockDisconnected, ShutdownClient, DispatcherExit, Stop, SignalQuit
<1>7. ASSUME NEW u \in Callers, Caller(u) PROVE Kept
  BY <1>5, <1>7 DEF Caller, NewAddress, CreateTransaction, FilterLoaded, LoadFailed,
     SendOutputsDone
<1>8. ASSUME NEW tx \in held, SendHeld(tx) \/ UnlockOutputs(tx) PROVE Kept
  BY <1>5, <1>8 DEF SendHeld, UnlockOutputs
<1>9. CASE UNCHANGED vars
  BY <1>5, <1>9 DEF vars
<1> QED
  BY <1>2, <1>3, <1>4, <1>6, <1>7, <1>8, <1>9 DEF Next, Dispatcher, ChainSyncer

-----------------------------------------------------------------------------
(* The implementation of WalletView                                        *)

\* WalletView speaks of blocks as MemWallet does.
LEMMA ViewBlocks ==
    ASSUME NEW c, NEW n, NEW b
    PROVE  /\ View!Outs(b) = Outs(b) /\ View!Ins(b) = Ins(b)
           /\ View!ValidBlock(c, n, b) = ValidBlock(c, n, b)
<1>1. \A t, m : View!OutsOf(t, m) = OutsOf(t, m) /\ View!InsOf(t, m) = InsOf(t, m)
  BY DEF View!OutsOf, View!InsOf, OutsOf, InsOf
<1>2. \A d : View!Outs(d) = Outs(d) /\ View!Ins(d) = Ins(d)
  BY <1>1 DEF View!Outs, View!Ins, Outs, Ins
<1>3. View!Created(c, n) = Created(c, n) /\ View!Spent(c, n) = Spent(c, n)
  BY <1>2 DEF View!Created, View!Spent, Created, Spent
<1>4. View!Immature(c, n, n + 1) = Immature(c, n, n + 1)
  BY DEF View!Immature, Immature
<1>5. \A t, i : View!ValidTx(c, n, t, i) = ValidTx(c, n, t, i)
  BY <1>1, <1>3, <1>4 DEF View!ValidTx, ValidTx
<1>6. View!ValidBlock(c, n, b) = ValidBlock(c, n, b)
  BY <1>5 DEF View!ValidBlock, ValidBlock
<1> QED
  BY <1>2, <1>6

\* The coins during an evaluation follow from what is still to be evaluated.
CoinsInEffect ==
    spc = "eval" =>
        LET t == update.txns
            todo == ti..Len(t)
        IN  Coins = (utxos \cup UNION {t[j].outs : j \in todo})
                       \ UNION {t[j].ins : j \in todo}

\* The blocks the wallet has in effect are the first of the chain.
BlocksInEffect ==
    LET n == Applied + (IF spc = "eval" THEN 1 ELSE 0) IN
    n \in 0..Len(chain) /\ AppliedBlocks = SubSeq(chain, 1, n)

InEffect == CoreInv /\ CoinsInEffect /\ BlocksInEffect

\* What the coins and blocks in effect are in every reachable state.
LEMMA EffectFacts == CoreInv => InEffect
<1> SUFFICES ASSUME CoreInv PROVE CoinsInEffect /\ BlocksInEffect
  BY DEF InEffect
<1>1. ASSUME spc = "eval" PROVE CoinsInEffect
  <2>1. update.txns \in Seq(Tx) /\ ti \in 1..(Len(update.txns) + 1)
    BY DEF CoreInv, TypeOK, SyncerTypes, Block, OrderInv
  <2> QED
    BY <1>1, <2>1, Rest DEF CoinsInEffect, Coins, RemainingTxs
<1>2. Applied \in 0..Len(chain) /\ Len(chain) \in Nat
      /\ (InFlight = 1 => Applied + 1 \in 1..Len(chain))
  BY Counts DEF CoreInv
<1>3. BlocksInEffect
  BY <1>2 DEF BlocksInEffect, AppliedBlocks, InFlight
<1> QED
  BY <1>1, <1>3 DEF CoinsInEffect

\* Every step of the wallet is one of WalletView, or changes neither the blocks
\* in effect nor the coins (all handlers of memWallet).
LEMMA ViewNext ==
    ASSUME InEffect, InEffect', [Next]_vars
    PROVE  View!Extend \/ View!Retract \/ UNCHANGED View!viewVars
<1> USE DEF InEffect
<1> DEFINE n == Applied + (IF spc = "eval" THEN 1 ELSE 0)
<1>1. /\ n \in 0..Len(chain) /\ n' \in 0..Len(chain') /\ n \in Nat /\ Applied \in Nat
      /\ chain \in Seq(Block) /\ chain' \in Seq(Block) /\ Len(chain) \in Nat
      /\ Len(chain') \in Nat
      /\ AppliedBlocks = SubSeq(chain, 1, n) /\ AppliedBlocks' = SubSeq(chain', 1, n')
  <2>1. chain \in Seq(Block) /\ chain' \in Seq(Block)
    BY DEF CoreInv, TypeOK, DispatcherTypes
  <2>2. Len(chain) \in Nat /\ Len(chain') \in Nat
    BY <2>1
  <2>3. Applied \in Nat
    BY <2>2, Counts DEF CoreInv
  <2> QED
    BY <2>1, <2>2, <2>3 DEF BlocksInEffect
<1>2. CASE Kept
  <2>1. n' = n /\ n \in 0..Len(chain') /\ \A k \in 1..n : chain'[k] = chain[k]
    BY <1>1, <1>2 DEF Kept, InFlight
  <2>2. AppliedBlocks' = AppliedBlocks
    BY <1>1, <2>1, PrefixEqual
  <2>3. Coins' = Coins
    BY <1>2 DEF Kept, Coins, RemainingTxs
  <2> QED
    BY <2>2, <2>3 DEF View!viewVars
<1>3. CASE Undone
  <2> DEFINE b == chain[Applied]
  <2>1. /\ n = Applied /\ n' = n - 1 /\ Len(chain) = n /\ Len(chain') = n - 1
        /\ n \in Nat \ {0} /\ \A k \in 1..(n - 1) : chain'[k] = chain[k]
    BY <1>1, <1>3 DEF Undone
  <2>2. Coins = utxos /\ Coins' = (utxos \ Outs(b)) \cup Ins(b)
    BY <1>3 DEF Undone, Coins
  <2>3. AppliedBlocks = chain
    BY <1>1, <2>1, PrefixEqual
  <2>4. AppliedBlocks' = SubSeq(AppliedBlocks, 1, Len(AppliedBlocks) - 1)
    BY <1>1, <2>1, <2>3, PrefixEqual
  <2>5. AppliedBlocks # <<>> /\ AppliedBlocks[Len(AppliedBlocks)] = b
    BY <2>1, <2>3
  <2> QED
    BY <2>2, <2>4, <2>5, ViewBlocks DEF View!Retract
<1>4. CASE Begun
  <2>1. /\ n = Applied /\ n' = n + 1 /\ chain' = chain /\ update' = update
        /\ utxos' = utxos /\ ti' = 1 /\ spc = "lock"
    BY <1>1, <1>4 DEF Begun
  <2>2. n + 1 \in 1..Len(chain) /\ update = chain[n + 1] /\ update \in Block
        /\ ValidBlock(chain, (n + 1) - 1, chain[n + 1])
    BY <2>1, Counts DEF CoreInv, InFlight, TypeOK, SyncerTypes
  <2>3. Coins = utxos
    BY <2>1 DEF Coins
  <2>4. Coins' = (utxos \cup Outs(update)) \ Ins(update)
    <3>1. spc' = "eval"
      BY <1>4 DEF Begun
    <3> QED
      BY <2>1, <3>1 DEF CoinsInEffect, Outs, Ins, OutsOf, InsOf
  <2> DEFINE a == AppliedBlocks
  <2>5. a \in Seq(Block) /\ Len(a) = n /\ \A k \in 1..n : a[k] = chain[k]
    BY <1>1, Prefix
  <2>6. a' \in Seq(Block) /\ Len(a') = n + 1 /\ \A k \in 1..(n + 1) : a'[k] = chain[k]
    BY <1>1, <2>1, Prefix
  <2>7. a'[Len(a')] = update
    BY <1>1, <2>2, <2>6
  <2>8. a' = Append(a, update)
    <3>1. Len(a') = Len(a) + 1 /\ a'[Len(a) + 1] = update
          /\ \A k \in 1..Len(a) : a'[k] = a[k]
      <4>1. n \in Nat
        BY <1>1
      <4> HIDE DEF a, n
      <4>2. n + 1 \in 1..(n + 1) /\ \A k \in 1..n : k \in 1..(n + 1)
        BY <4>1
      <4>3. a'[n + 1] = update /\ \A k \in 1..n : a'[k] = a[k]
        BY <2>2, <2>5, <2>6, <4>2
      <4> QED
        BY <2>5, <2>6, <4>3
    <3> HIDE DEF a, n
    <3> QED
      BY <2>2, <2>5, <2>6, <3>1, AppendEqual
  <2>9. ValidBlock(a, Len(a), update)
    <3>1. ValidBlock(chain, n, update)
      <4>1. (n + 1) - 1 = n
        BY <1>1
      <4> QED
        BY <2>2, <4>1
    <3> HIDE DEF a, n
    <3>2. ValidBlock(a, n, update)
      BY <1>1, <2>5, <3>1, PrefixSame
    <3> QED
      BY <2>5, <3>2
  <2>10. Len(a') = Len(a) + 1
    BY <2>5, <2>6
  <2> QED
    BY <2>3, <2>4, <2>7, <2>8, <2>9, <2>10, ViewBlocks DEF View!Extend
<1>5. CASE Committed
  <2>1. n' = n /\ chain' = chain /\ utxos' = utxos /\ spc = "eval" /\ spc' = "recv"
        /\ ti = Len(update.txns) + 1
    BY <1>1, <1>5 DEF Committed
  <2>2. Coins' = utxos
    BY <2>1 DEF Coins
  <2>3. Coins = utxos
    <3>1. Len(update.txns) \in Nat
      BY DEF CoreInv, TypeOK, SyncerTypes, Block
    <3>2. ti..Len(update.txns) = {}
      BY <2>1, <3>1
    <3>3. /\ UNION {update.txns[j].outs : j \in ti..Len(update.txns)} = {}
          /\ UNION {update.txns[j].ins : j \in ti..Len(update.txns)} = {}
      BY <3>2
    <3> QED
      BY <2>1, <3>3 DEF CoinsInEffect
  <2> QED
    BY <1>1, <2>1, <2>2, <2>3 DEF View!viewVars
<1>6. CASE Evaluated
  <2> DEFINE t == update.txns
             m == Len(t)
  <2>1. /\ n' = n /\ chain' = chain /\ update' = update /\ spc = "eval" /\ spc' = "eval"
        /\ ti \in 1..m /\ ti' = ti + 1
        /\ utxos' = (utxos \cup t[ti].outs) \ t[ti].ins
        /\ t[ti].ins \subseteq Created(chain, Applied) \cup OutsOf(t, ti - 1)
    BY <1>1, <1>6 DEF Evaluated, ValidTx
  <2>2. m \in Nat /\ update \in Block
    BY DEF CoreInv, TypeOK, SyncerTypes, Block
  <2>3. ti..m = {ti} \cup ((ti + 1)..m)
    BY <2>1, <2>2
  <2> DEFINE outs == UNION {t[j].outs : j \in (ti + 1)..m}
             ins == UNION {t[j].ins : j \in (ti + 1)..m}
  <2>4. Coins = (utxos \cup t[ti].outs \cup outs) \ (t[ti].ins \cup ins)
    BY <2>1, <2>3 DEF CoinsInEffect
  <2>5. Coins' = (utxos' \cup outs) \ ins
    BY <2>1 DEF CoinsInEffect
  <2>6. outs \cap t[ti].ins = {}
    <3>1. ASSUME NEW j \in (ti + 1)..m PROVE t[j].outs \cap t[ti].ins = {}
      <4>1. j \in 1..m /\ ti - 1 \in Nat /\ j - 1 \in Nat /\ ti - 1 <= j - 1
        BY <2>1, <2>2
      <4>2. ValidTx(chain, Applied, t, j)
        <5>1. InFlight = 1
          BY <2>1 DEF InFlight
        <5>2. Applied + 1 \in 1..Len(chain) /\ update = chain[Applied + 1]
              /\ ValidBlock(chain, (Applied + 1) - 1, chain[Applied + 1])
          BY <5>1, Counts DEF CoreInv
        <5>3. (Applied + 1) - 1 = Applied
          BY <1>1
        <5> QED
          BY <4>1, <5>2, <5>3 DEF ValidBlock
      <4>3. OutsOf(t, ti - 1) \subseteq OutsOf(t, j - 1)
        BY <4>1, Monotone
      <4> QED
        BY <2>1, <4>2, <4>3 DEF ValidTx
    <3> QED
      BY <3>1
  <2> HIDE DEF outs, ins
  <2>7. Coins' = Coins
    BY <2>1, <2>4, <2>5, <2>6
  <2> QED
    BY <1>1, <2>1, <2>7 DEF View!viewVars
<1> QED
  BY <1>2, <1>3, <1>4, <1>5, <1>6, UnwindSteps, BlockSteps, OtherSteps

\* The wallet implements WalletView: queueing, evaluation transaction by
\* transaction, calls and teardown never show a test a half-applied block, a
\* block out of order or a block twice.
THEOREM ViewImplemented == Spec => ImplementsView
<1>1. Init => View!Init
  <2> SUFFICES ASSUME Init PROVE View!Init
    OBVIOUS
  <2>1. chain = <<>> /\ Len(chain) = 0 /\ Len(chainUpdates) = 0 /\ spc = "recv"
        /\ utxos = {}
    BY DEF Init
  <2>2. InFlight = 0
    BY <2>1 DEF InFlight
  <2>3. Applied = 0
    BY <2>1, <2>2 DEF Applied
  <2>4. AppliedBlocks = <<>> /\ Coins = {}
    BY <2>1, <2>3 DEF AppliedBlocks, Coins
  <2> QED
    BY <2>4 DEF View!Init
<1>2. InEffect /\ InEffect' /\ [Next]_vars => [View!Extend \/ View!Retract]_View!viewVars
  BY ViewNext
<1> QED
  BY <1>1, <1>2, EffectFacts, CoreInvariant, PTL DEF Spec, ImplementsView, View!Spec

-----------------------------------------------------------------------------
(* The maturity of the coins                                               *)

\* When the outputs of a transaction mature that the block at a height holds.
MaturityAt(tx, height) == IF tx.coinbase THEN height + CoinbaseMaturity ELSE 0

\* What is recorded of the outputs of one transaction.
Recorded(tx, height) == \A op \in tx.outs : maturityHeight[op] = MaturityAt(tx, height)

MaturityInv ==
    /\ \A k \in 1..Applied : \A i \in 1..Len(chain[k].txns) : Recorded(chain[k].txns[i], k)
    /\ spc = "eval" => \A i \in 1..(ti - 1) : Recorded(update.txns[i], Applied + 1)

\* The maturity is recorded with the outputs and never overwritten, because a
\* valid block creates only new ones (evalOutputs, UnwindBlock).
LEMMA MaturityNext == CoreInv /\ HeightInv /\ MaturityInv /\ [Next]_vars => MaturityInv'
<1> SUFFICES ASSUME CoreInv, HeightInv, MaturityInv, [Next]_vars PROVE MaturityInv'
  OBVIOUS
<1>1. Applied \in Nat /\ InFlight \in {0, 1}
  BY Counts DEF CoreInv
<1>3. CASE Kept
  <2>1. \A k \in 1..Applied : chain'[k] = chain[k]
    BY <1>1, <1>3 DEF Kept
  <2> QED
    BY <1>3, <2>1 DEF Kept, MaturityInv, Recorded, MaturityAt
<1>4. CASE Undone
  <2>1. 1..(Applied - 1) \subseteq 1..Applied
    BY <1>1
  <2> QED
    BY <1>4, <2>1 DEF Undone, MaturityInv, Recorded, MaturityAt
<1>5. CASE Begun
  <2>1. 1..(ti' - 1) = {}
    BY <1>5 DEF Begun
  <2> QED
    BY <1>5, <2>1 DEF Begun, MaturityInv, Recorded, MaturityAt
<1>6. CASE Committed
  <2>1. update = chain[Applied + 1]
    BY <1>6, Counts DEF CoreInv, InFlight, Committed
  <2>2. ti - 1 = Len(update.txns)
    <3>1. update \in Block
      BY DEF CoreInv, TypeOK, SyncerTypes
    <3>2. Len(update.txns) \in Nat
      BY <3>1 DEF Block
    <3> QED
      BY <1>6, <3>2 DEF Committed
  <2>3. \A i \in 1..Len(update.txns) : Recorded(update.txns[i], Applied + 1)
    BY <1>6, <2>2 DEF MaturityInv, Committed
  <2>4. ASSUME NEW k \in 1..(Applied + 1), NEW i \in 1..Len(chain[k].txns)
        PROVE  Recorded(chain[k].txns[i], k)
    <3>1. CASE k = Applied + 1
      BY <2>1, <2>3, <3>1
    <3>2. CASE k # Applied + 1
      <4>1. k \in 1..Applied
        BY <1>1, <3>2
      <4> QED
        BY <4>1 DEF MaturityInv
    <3> QED
      BY <3>1, <3>2
  <2> QED
    BY <1>6, <2>4 DEF Committed, MaturityInv, Recorded, MaturityAt
<1>7. CASE Evaluated
  <2> DEFINE tx == update.txns[ti]
  <2>1. /\ ti \in 1..Len(update.txns) /\ ti' = ti + 1 /\ spc = "eval" /\ spc' = "eval"
        /\ UNCHANGED <<chain, update>> /\ Applied' = Applied
        /\ maturityHeight' = [op \in OutPoints |->
              IF op \in tx.outs THEN MaturityOf(tx) ELSE maturityHeight[op]]
        /\ tx.outs \cap (Created(chain, Applied) \cup OutsOf(update.txns, ti - 1)) = {}
    BY <1>7 DEF Evaluated, ValidTx
  <2>2. update \in Block /\ ti \in Nat /\ tx.outs \subseteq OutPoints
    BY <2>1, BlockTxs DEF CoreInv, TypeOK, SyncerTypes
  <2>3. MaturityOf(tx) = MaturityAt(tx, Applied + 1)
    BY <2>1 DEF HeightInv, MaturityOf, MaturityAt
  <2>4. ASSUME NEW t, t.outs \subseteq OutPoints, t.outs \cap tx.outs = {}, NEW height,
               Recorded(t, height)
        PROVE  Recorded(t, height)'
    BY <2>1, <2>4 DEF Recorded, MaturityAt
  <2>5. ASSUME NEW k \in 1..Applied, NEW i \in 1..Len(chain[k].txns)
        PROVE  Recorded(chain[k].txns[i], k)'
    <3>1. chain[k] \in Block /\ chain[k].txns[i].outs \subseteq OutPoints
      <4>1. chain[k] \in Block
        BY <1>1, Counts DEF CoreInv
      <4> QED
        BY <4>1, BlockTxs
    <3>2. chain[k].txns[i].outs \subseteq Created(chain, Applied)
      BY DEF Created, Outs, OutsOf
    <3>3. Recorded(chain[k].txns[i], k)
      BY DEF MaturityInv
    <3> QED
      BY <2>1, <2>4, <3>1, <3>2, <3>3 DEF Recorded, MaturityAt
  <2>6. ASSUME NEW i \in 1..ti
        PROVE  Recorded(update.txns[i], Applied + 1)'
    <3>1. CASE i = ti
      BY <2>1, <2>2, <2>3, <3>1 DEF Recorded, MaturityAt
    <3>2. CASE i # ti
      <4>1. i \in 1..(ti - 1) /\ i \in 1..Len(update.txns)
        BY <2>1, <2>2, <3>2
      <4>2. update.txns[i].outs \subseteq OutPoints
        BY <2>2, <4>1, BlockTxs
      <4>3. update.txns[i].outs \subseteq OutsOf(update.txns, ti - 1)
        BY <4>1 DEF OutsOf
      <4>4. Recorded(update.txns[i], Applied + 1)
        BY <2>1, <4>1 DEF MaturityInv
      <4> QED
        BY <2>1, <2>4, <4>2, <4>3, <4>4 DEF Recorded, MaturityAt
    <3> QED
      BY <3>1, <3>2
  <2>7. ti' - 1 = ti
    BY <2>1, <2>2
  <2> QED
    BY <2>1, <2>5, <2>6, <2>7 DEF MaturityInv, Recorded, MaturityAt
<1> QED
  BY <1>3, <1>4, <1>5, <1>6, <1>7, UnwindSteps, BlockSteps, OtherSteps

\* Every coin of an applied block has the maturity of the transaction that
\* created it, however often blocks are undone and applied again (evalOutputs).
THEOREM MaturityCorrect == Spec => []MaturityRecorded
<1>1. Init => MaturityInv
  <2> SUFFICES ASSUME Init PROVE MaturityInv
    OBVIOUS
  <2>1. Len(chain) = 0 /\ Len(chainUpdates) = 0 /\ spc = "recv"
    BY DEF Init
  <2>2. InFlight = 0
    BY <2>1 DEF InFlight
  <2>3. Applied = 0
    BY <2>1, <2>2 DEF Applied
  <2> QED
    BY <2>1, <2>3 DEF MaturityInv
<1>2. MaturityInv => MaturityRecorded
  BY DEF MaturityInv, MaturityRecorded, Recorded, MaturityAt
<1> QED
  BY <1>1, <1>2, HeightInit, MaturityNext, HeightNext, CoreInvariant, PTL DEF Spec

-----------------------------------------------------------------------------
(* The locks                                                               *)

\* What the blocks evaluated so far created, and what was created once.
CreatedNow ==
    Created(chain, Applied) \cup IF spc = "eval" THEN OutsOf(update.txns, ti - 1) ELSE {}
CreatedOnce == CreatedNow \cup Reborn

\* Outstanding transactions that no caller can give up any more.
Taken == abandoned \cup broadcast
            \cup {TxOf(u) : u \in {v \in Callers : call[v].pc = "sending"}}

\* Apart from outputs of blocks that were undone, the coins of outstanding
\* transactions are locked, and a held one shares none with another.
LockInv ==
    /\ \A tx \in held \cup Taken : tx.ins \subseteq (locked \cup Reborn) \cap CreatedOnce
    /\ \A tx \in held : \A t \in (held \ {tx}) \cup Taken : tx.ins \cap t.ins \subseteq Reborn

\* dcrd accepted the transactions of its blocks that spend something.
MinedInv ==
    \A k \in 1..Len(chain) : \A i \in 1..Len(chain[k].txns) :
        chain[k].txns[i].ins = {} \/ chain[k].txns[i] \in broadcast

\* What was created stays so, or is reborn; and a transaction's outputs are
\* new when it is evaluated (evalOutputs, UnwindBlock).
LEMMA CreatedSteps ==
    ASSUME CoreInv, [Next]_vars
    PROVE  /\ CreatedOnce \subseteq CreatedOnce' /\ Reborn \subseteq Reborn'
           /\ EvalTx => update.txns[ti].outs \cap CreatedNow = {}
<1>1. Applied \in Nat /\ InFlight \in {0, 1}
  BY Counts DEF CoreInv
<1>2. \A n \in Nat : (\A k \in 1..n : chain'[k] = chain[k])
                        => Created(chain', n) = Created(chain, n)
  BY PrefixSame
<1>3. CASE Kept
  <2>1. Created(chain', Applied) = Created(chain, Applied)
    BY <1>1, <1>2, <1>3 DEF Kept
  <2>2. CreatedNow' = CreatedNow /\ Reborn' = Reborn
    BY <1>3, <2>1 DEF Kept, CreatedNow, Reborn
  <2>3. ~EvalTx
    BY <1>1, <1>3, BlockSteps DEF Kept, Evaluated, CoreInv, TypeOK, SyncerTypes
  <2> QED
    BY <2>2, <2>3 DEF CreatedOnce
<1>4. CASE Undone
  <2> DEFINE n == Applied - 1
             b == chain[Applied]
  <2>1. n \in Nat /\ n + 1 = Applied
    BY <1>1, <1>4 DEF Undone
  <2>2. Created(chain, Applied) = Created(chain, n) \cup Outs(b)
    BY <2>1, BlockStep
  <2>3. Created(chain', n) = Created(chain, n)
    BY <1>2, <1>4, <2>1 DEF Undone
  <2>4. Reborn' = Reborn \cup Outs(b) /\ spc # "eval" /\ spc' # "eval" /\ Applied' = n
    BY <1>4 DEF Undone, Reborn
  <2>5. ~EvalTx
    BY <2>4 DEF EvalTx
  <2> QED
    BY <2>2, <2>3, <2>4, <2>5 DEF CreatedOnce, CreatedNow
<1>5. CASE Begun
  <2>1. OutsOf(update.txns, ti' - 1) = {}
    BY <1>5, TxStep DEF Begun
  <2>2. CreatedNow' = CreatedNow /\ Reborn' = Reborn
    BY <1>5, <2>1 DEF Begun, CreatedNow, Reborn
  <2> QED
    BY <1>5, <2>2 DEF CreatedOnce, Begun, EvalTx
<1>6. CASE Committed
  <2>1. update = chain[Applied + 1] /\ update \in Block
    BY <1>6, Counts DEF CoreInv, InFlight, Committed, TypeOK, SyncerTypes
  <2>2. ti - 1 = Len(update.txns)
    <3>1. Len(update.txns) \in Nat
      BY <2>1 DEF Block
    <3> QED
      BY <1>6, <3>1 DEF Committed
  <2>3. Created(chain, Applied + 1) = Created(chain, Applied) \cup Outs(update)
    BY <1>1, <2>1, BlockStep
  <2>4. CreatedNow' = CreatedNow /\ Reborn' = Reborn
    BY <1>6, <2>2, <2>3 DEF Committed, CreatedNow, Outs, Reborn
  <2> QED
    BY <1>6, <2>4 DEF CreatedOnce, Committed, EvalTx
<1>7. CASE Evaluated
  <2>1. /\ ti - 1 \in Nat /\ (ti - 1) + 1 = ti /\ ti' - 1 = ti
        /\ update.txns[ti].outs \cap (Created(chain, Applied) \cup OutsOf(update.txns, ti - 1))
              = {}
    BY <1>7 DEF Evaluated, ValidTx, CoreInv, TypeOK, SyncerTypes
  <2>2. OutsOf(update.txns, ti) = OutsOf(update.txns, ti - 1) \cup update.txns[ti].outs
    BY <2>1, TxStep
  <2>3. /\ CreatedNow = Created(chain, Applied) \cup OutsOf(update.txns, ti - 1)
        /\ CreatedNow' = CreatedNow \cup update.txns[ti].outs /\ Reborn' = Reborn
    BY <1>7, <2>1, <2>2 DEF Evaluated, CreatedNow, Reborn
  <2> QED
    BY <2>1, <2>3 DEF CreatedOnce
<1> QED
  BY <1>3, <1>4, <1>5, <1>6, <1>7, UnwindSteps, BlockSteps, OtherSteps

\* Between two evaluations the coins were created once.
LEMMA CoinsCreated ==
    ASSUME CoreInv, spc # "eval"
    PROVE  utxos \subseteq CreatedOnce
<1>1. Unspent(chain, Applied) \subseteq CreatedNow
  BY DEF Unspent, CreatedNow
<1>2. Phantoms \subseteq Reborn
  BY DEF Phantoms, Reborn
<1> QED
  BY <1>1, <1>2 DEF CoreInv, CoinsInv, Earned, CreatedOnce

\* Steps that make no new transaction and take no lock away.
LEMMA LockFrame ==
    ASSUME LockInv, CreatedOnce \subseteq CreatedOnce', Reborn \subseteq Reborn',
           locked \subseteq locked', held' \subseteq held,
           \A t \in Taken' : t \in Taken \/ t.ins = {} \/ t \in held \ held'
    PROVE  LockInv'
<1>1. ASSUME NEW tx \in held' \cup Taken'
      PROVE  tx.ins \subseteq (locked' \cup Reborn') \cap CreatedOnce'
  BY <1>1 DEF LockInv
<1>2. ASSUME NEW tx \in held', NEW t \in (held' \ {tx}) \cup Taken'
      PROVE  tx.ins \cap t.ins \subseteq Reborn'
  BY <1>2 DEF LockInv
<1> QED
  BY <1>1, <1>2 DEF LockInv

\* A transaction with coins that are not locked is made and its coins locked.
LEMMA LockNew ==
    ASSUME LockInv, CreatedOnce \subseteq CreatedOnce', Reborn \subseteq Reborn',
           NEW tx, tx.ins \subseteq CreatedOnce, tx.ins \cap locked = {},
           locked' = locked \cup tx.ins,
           \/ held' = held \cup {tx} /\ Taken' \subseteq Taken
           \/ held' = held /\ Taken' \subseteq Taken \cup {tx}
    PROVE  LockInv'
<1>1. ASSUME NEW t \in held' \cup Taken'
      PROVE  t.ins \subseteq (locked' \cup Reborn') \cap CreatedOnce'
  BY <1>1 DEF LockInv
<1>2. \A t \in held \cup Taken : t.ins \cap tx.ins \subseteq Reborn
  BY DEF LockInv
<1>3. ASSUME NEW h \in held', NEW t \in (held' \ {h}) \cup Taken'
      PROVE  h.ins \cap t.ins \subseteq Reborn'
  <2>1. CASE h \in held /\ t \in (held \ {h}) \cup Taken
    BY <2>1 DEF LockInv
  <2>2. CASE h = tx /\ t \in held \cup Taken
    BY <1>2, <2>2
  <2>3. CASE h \in held /\ t = tx
    BY <1>2, <2>3
  <2> QED
    BY <1>3, <2>1, <2>2, <2>3
<1> QED
  BY <1>1, <1>3 DEF LockInv

\* A transaction of the chain that spends something was accepted by dcrd, and
\* dcrd forgets none (OnBlockConnected).
LEMMA MinedNext ==
    ASSUME CoreInv, MinedInv, [Next]_vars
    PROVE  MinedInv'
<1>1. chain \in Seq(Block) /\ Len(chain) \in Nat
  BY DEF CoreInv, TypeOK, DispatcherTypes
<1>2. CASE BlockConnected
  <2>1. PICK b \in NextBlocks :
          /\ ValidBlock(chain, Len(chain), b)
          /\ chain' = Append(chain, b)
          /\ broadcast' = broadcast \cup
                {b.txns[i] : i \in {j \in 1..Len(b.txns) : ~b.txns[j].coinbase}}
    BY <1>2 DEF BlockConnected
  <2>2. b \in Block
    BY <2>1, NextBlocksType DEF CoreInv
  <2>3. \A i \in 1..Len(b.txns) : b.txns[i].ins = {} \/ b.txns[i] \in broadcast'
    BY <2>1 DEF ValidBlock, ValidTx
  <2>4. /\ Len(chain') = Len(chain) + 1 /\ chain'[Len(chain) + 1] = b
        /\ \A k \in 1..Len(chain) : chain'[k] = chain[k]
    BY <1>1, <2>1, <2>2
  <2>5. ASSUME NEW k \in 1..(Len(chain) + 1), NEW i \in 1..Len(chain'[k].txns)
        PROVE  chain'[k].txns[i].ins = {} \/ chain'[k].txns[i] \in broadcast'
    <3>1. CASE k = Len(chain) + 1
      BY <2>3, <2>4, <3>1
    <3>2. CASE k # Len(chain) + 1
      <4>1. k \in 1..Len(chain)
        BY <1>1, <3>2
      <4> QED
        BY <2>1, <2>4, <4>1 DEF MinedInv
    <3> QED
      BY <3>1, <3>2
  <2> QED
    BY <2>4, <2>5 DEF MinedInv
<1>3. CASE UnwindBlock
  <2>1. broadcast' = broadcast
    BY <1>3 DEF UnwindBlock
  <2>2. CASE UNCHANGED chain
    BY <2>1, <2>2 DEF MinedInv
  <2>3. CASE Undone
    <3>1. \A k \in 1..Len(chain') : k \in 1..Len(chain) /\ chain'[k] = chain[k]
      BY <2>3 DEF Undone
    <3> QED
      BY <2>1, <3>1 DEF MinedInv
  <2> QED
    BY <1>3, <2>2, <2>3, UnwindSteps
<1> DEFINE Frame == chain' = chain /\ broadcast \subseteq broadcast'
<1>4. Frame => MinedInv'
  BY DEF MinedInv
<1> USE DEF dispatcherVars
<1>5. CASE ChainSyncer \/ Stop \/ SignalQuit \/ BlockDisconnected \/ ShutdownClient
           \/ DispatcherExit
  BY <1>4, <1>5 DEF ChainSyncer, SyncerRecv, SyncerPop, SyncerLock, EvalTx, SyncerCommit,
     SyncerQuit, Stop, SignalQuit, BlockDisconnected, ShutdownClient, DispatcherExit
<1>6. ASSUME NEW u \in Callers, Caller(u) PROVE MinedInv'
  BY <1>4, <1>6 DEF Caller, NewAddress, CreateTransaction, FilterLoaded, LoadFailed,
     SendOutputsDone
<1>7. ASSUME NEW tx \in held, SendHeld(tx) \/ UnlockOutputs(tx) PROVE MinedInv'
  BY <1>4, <1>7 DEF SendHeld, UnlockOutputs
<1>8. CASE UNCHANGED vars
  BY <1>4, <1>8 DEF vars
<1> QED
  BY <1>2, <1>3, <1>5, <1>6, <1>7, <1>8 DEF Next, Dispatcher

\* What a caller's step does to the transactions and the locks: it makes one
\* and locks its coins, or passes one on.
Makes(tx) ==
    /\ MutexFree \/ \E u \in Callers : Holds(u)
    /\ tx.ins \subseteq Spendable /\ locked' = locked \cup tx.ins
    /\ UNCHANGED <<utxos, spc, chain, chainUpdates>>
    /\ \/ held' = held \cup {tx} /\ Taken' = Taken
       \/ held' = held /\ Taken' = Taken \cup {tx}

PassesOn ==
    /\ UNCHANGED <<locked, utxos>>
    /\ held' \subseteq held /\ Taken' = Taken \cup (held \ held')

\* A call that ends with a finished transaction (CreateTransaction).
LEMMA Completes ==
    ASSUME TypeOK, NEW u \in Callers, call[u].pc # "sending", NEW ins, NEW outs,
           NEW send, Complete(u, ins, outs, send), UNCHANGED <<abandoned, broadcast>>
    PROVE  \/ held' = held \cup {WalletTx(ins, outs)} /\ Taken' = Taken
           \/ held' = held /\ Taken' = Taken \cup {WalletTx(ins, outs)}
<1>1. /\ call \in [Callers -> [pc : {"idle", "loadfilter", "sending"}, index : Nat,
                               ins : SUBSET OutPoints, outs : SUBSET OutPoints,
                               send : BOOLEAN]]
      /\ Idle.pc = "idle"
  BY DEF TypeOK, CallerTypes, Idle
<1> DEFINE S == {v \in Callers : call[v].pc = "sending"}
<1>2. \A v \in Callers \ {u} : call'[v] = call[v]
  BY <1>1 DEF Complete
<1>3. \A v \in S : v # u /\ v \in Callers
  OBVIOUS
<1>4. \A v \in S : TxOf(v)' = TxOf(v)
  BY <1>2, <1>3 DEF TxOf
<1>5. CASE send
  <2>1. /\ call'[u].pc = "sending" /\ call'[u].ins = ins /\ call'[u].outs = outs
        /\ held' = held
    BY <1>1, <1>5 DEF Complete
  <2>2. TxOf(u)' = WalletTx(ins, outs)
    BY <2>1 DEF TxOf
  <2>3. S' = S \cup {u}
    BY <1>2, <1>3, <2>1
  <2>4. {TxOf(v) : v \in S}' = {TxOf(v) : v \in S} \cup {WalletTx(ins, outs)}
    BY <1>4, <2>2, <2>3
  <2> QED
    BY <2>1, <2>4 DEF Taken
<1>6. CASE ~send
  <2>1. call'[u].pc = "idle" /\ held' = held \cup {WalletTx(ins, outs)}
    BY <1>1, <1>6 DEF Complete
  <2>2. S' = S
    BY <1>2, <1>3, <2>1
  <2>3. {TxOf(v) : v \in S}' = {TxOf(v) : v \in S}
    BY <1>4, <2>2
  <2> QED
    BY <2>1, <2>3 DEF Taken
<1> QED
  BY <1>5, <1>6

\* A call that does not send before or after the step.
LEMMA StaysSilent ==
    ASSUME NEW u \in Callers, call[u].pc # "sending", call'[u].pc # "sending",
           \A v \in Callers \ {u} : call'[v] = call[v], UNCHANGED <<abandoned, broadcast>>
    PROVE  Taken' = Taken
<1> DEFINE S == {v \in Callers : call[v].pc = "sending"}
<1>1. S' = S /\ \A v \in S : v # u /\ v \in Callers
  OBVIOUS
<1>2. \A v \in S : TxOf(v)' = TxOf(v)
  BY <1>1 DEF TxOf
<1>3. {TxOf(v) : v \in S}' = {TxOf(v) : v \in S}
  BY <1>1, <1>2
<1> QED
  BY <1>3 DEF Taken

\* The steps of a call (NewAddress, CreateTransaction, SendOutputs).
LEMMA CallerSteps ==
    ASSUME TypeOK, SelectInv, NEW u \in Callers, Caller(u)
    PROVE  PassesOn \/ \E tx : Makes(tx)
<1>1. /\ call \in [Callers -> [pc : {"idle", "loadfilter", "sending"}, index : Nat,
                               ins : SUBSET OutPoints, outs : SUBSET OutPoints,
                               send : BOOLEAN]]
      /\ Idle.pc = "idle"
  BY DEF TypeOK, CallerTypes, Idle
<1> USE DEF dispatcherVars, queueVars, syncerVars, coinVars
<1>2. CASE NewAddress(u) \/ LoadFailed(u)
  <2>1. /\ call[u].pc # "sending" /\ call'[u].pc # "sending"
        /\ \A v \in Callers \ {u} : call'[v] = call[v]
        /\ UNCHANGED <<abandoned, broadcast, held, locked, utxos>>
    BY <1>1, <1>2 DEF NewAddress, LoadFailed
  <2> QED
    BY <2>1, StaysSilent DEF PassesOn
<1>3. CASE CreateTransaction(u)
  <2>1. /\ MutexFree /\ call[u].pc = "idle"
        /\ UNCHANGED <<utxos, spc, chain, chainUpdates, abandoned, broadcast>>
    BY <1>3 DEF CreateTransaction
  <2>2. PICK ins \in (SUBSET Spendable) \ {{}}, send \in BOOLEAN :
          \/ Complete(u, ins, {}, send)
          \/ /\ \E op \in Fresh :
                  call' = [call EXCEPT ![u] = [pc |-> "loadfilter",
                            index |-> hdIndex, ins |-> ins, outs |-> {op},
                            send |-> send]]
             /\ UNCHANGED <<locked, held>>
    BY <1>3 DEF CreateTransaction
  <2>3. CASE Complete(u, ins, {}, send)
    <3>1. locked' = locked \cup ins /\ ins \subseteq Spendable
      BY <2>2, <2>3 DEF Complete, LockedBy
    <3>2. \/ held' = held \cup {WalletTx(ins, {})} /\ Taken' = Taken
          \/ held' = held /\ Taken' = Taken \cup {WalletTx(ins, {})}
      BY <2>1, <2>3, Completes
    <3>3. WalletTx(ins, {}).ins = ins
      BY DEF WalletTx
    <3>4. Makes(WalletTx(ins, {}))
      BY <2>1, <3>1, <3>2, <3>3 DEF Makes
    <3> QED
      BY <3>4
  <2>4. ASSUME NEW op \in Fresh, UNCHANGED <<locked, held>>,
               call' = [call EXCEPT ![u] = [pc |-> "loadfilter",
                          index |-> hdIndex, ins |-> ins, outs |-> {op},
                          send |-> send]]
        PROVE  PassesOn
    <3>1. /\ call'[u].pc # "sending" /\ call[u].pc # "sending"
          /\ \A v \in Callers \ {u} : call'[v] = call[v]
      BY <1>1, <2>1, <2>4
    <3> QED
      BY <2>1, <2>4, <3>1, StaysSilent DEF PassesOn
  <2> QED
    BY <2>2, <2>3, <2>4
<1>4. CASE FilterLoaded(u)
  <2>1. /\ call[u].pc = "loadfilter" /\ Holds(u)
        /\ UNCHANGED <<utxos, spc, chain, chainUpdates, abandoned, broadcast>>
    BY <1>4 DEF FilterLoaded, Holds
  <2>2. CASE UNCHANGED <<locked, used, held>> /\ call' = [call EXCEPT ![u] = Idle]
    <3>1. /\ call'[u].pc # "sending" /\ UNCHANGED <<locked, held>>
          /\ \A v \in Callers \ {u} : call'[v] = call[v]
      BY <1>1, <2>2 DEF Idle
    <3> QED
      BY <2>1, <3>1, StaysSilent DEF PassesOn
  <2>3. CASE Complete(u, call[u].ins, call[u].outs, call[u].send)
    <3> DEFINE tx == WalletTx(call[u].ins, call[u].outs)
    <3>1. Complete(u, call[u].ins, call[u].outs, call[u].send)
      BY <2>3
    <3>2. tx.ins = call[u].ins
      BY DEF WalletTx
    <3>3. tx.ins \subseteq Spendable
      BY <2>1, <3>2 DEF SelectInv, SelectionStaysSpendable
    <3>4. \/ held' = held \cup {tx} /\ Taken' = Taken
          \/ held' = held /\ Taken' = Taken \cup {tx}
      BY <2>1, <3>1, Completes
    <3>5. locked' = locked \cup tx.ins
      BY <3>1, <3>2 DEF Complete, LockedBy
    <3> HIDE DEF tx
    <3>6. Makes(tx)
      BY <2>1, <3>3, <3>4, <3>5 DEF Makes
    <3> QED
      BY <3>6
  <2> QED
    BY <1>4, <2>2, <2>3 DEF FilterLoaded
<1>5. CASE SendOutputsDone(u)
  <2> DEFINE S == {v \in Callers : call[v].pc = "sending"}
  <2>1. /\ u \in S /\ call'[u].pc = "idle" /\ \A v \in Callers \ {u} : call'[v] = call[v]
        /\ UNCHANGED <<held, locked, utxos>>
        /\ abandoned' \cup broadcast' = abandoned \cup broadcast \cup {TxOf(u)}
    BY <1>1, <1>5 DEF SendOutputsDone
  <2>2. S' = S \ {u}
    BY <2>1
  <2>3. \A v \in S \ {u} : TxOf(v)' = TxOf(v)
    BY <2>1 DEF TxOf
  <2>4. {TxOf(v) : v \in S}' \cup {TxOf(u)} = {TxOf(v) : v \in S}
    BY <2>1, <2>2, <2>3
  <2>5. Taken' = Taken
    BY <2>1, <2>4 DEF Taken
  <2> QED
    BY <2>1, <2>5 DEF PassesOn
<1> QED
  BY <1>2, <1>3, <1>4, <1>5 DEF Caller

Untouched == UNCHANGED <<locked, held, Taken>>

\* Steps of the others leave transactions and locks alone, but for a block that
\* comes, the evaluation of a transaction, and the test (all handlers).
LEMMA UntouchedSteps ==
    ASSUME [Next]_vars, ~BlockConnected, ~EvalTx, \A u \in Callers : ~Caller(u),
           \A tx \in held : ~(SendHeld(tx) \/ UnlockOutputs(tx))
    PROVE  Untouched
<1>1. UNCHANGED <<locked, held, abandoned, broadcast, call>>
  BY DEF Next, vars, Dispatcher, BlockDisconnected, UnwindBlock, ShutdownClient,
     DispatcherExit, ChainSyncer, SyncerRecv, SyncerPop, SyncerLock, SyncerCommit,
     SyncerQuit, Stop, SignalQuit, dispatcherVars, coinVars, callerVars
<1> QED
  BY <1>1 DEF Untouched, Taken, TxOf

\* dcrd accepts the transactions of a block, which it did before if they spend
\* anything (OnBlockConnected).
LEMMA ConnectedTaken ==
    ASSUME BlockConnected
    PROVE  /\ UNCHANGED <<locked, held, utxos>> /\ Taken \subseteq Taken'
           /\ \A t \in Taken' : t \in Taken \/ t.ins = {}
<1>1. PICK b \in NextBlocks :
        broadcast' = broadcast \cup
            {b.txns[i] : i \in {j \in 1..Len(b.txns) : ~b.txns[j].coinbase}}
  BY DEF BlockConnected
<1>2. UNCHANGED <<locked, held, utxos, abandoned, call>>
  BY DEF BlockConnected, coinVars, callerVars
<1>3. \A i \in 1..Len(b.txns) : b.txns[i] \in Candidates
  <2>1. PICK n \in 0..MaxBlockTxs :
            \E txns \in [1..n -> Candidates] :
                b = [height |-> Len(chain) + 1, txns |-> txns]
    BY DEF NextBlocks
  <2>2. PICK txns \in [1..n -> Candidates] :
            b = [height |-> Len(chain) + 1, txns |-> txns]
    BY <2>1
  <2>3. n \in Nat /\ txns \in Seq(Candidates) /\ b.txns = txns
    BY <2>2, BoundsAssumption
  <2> QED
    BY <2>3
<1>4. \A t \in Candidates : t \in broadcast \/ t.ins = {}
  BY DEF Candidates
<1>5. \A t \in broadcast' : t \in broadcast \/ t.ins = {}
  BY <1>1, <1>3, <1>4
<1> QED
  BY <1>1, <1>2, <1>5 DEF Taken, TxOf

\* What the test does with a transaction it holds (SendHeld, UnlockOutputs).
LEMMA HeldSteps ==
    ASSUME NEW tx \in held, SendHeld(tx) \/ UnlockOutputs(tx)
    PROVE  /\ held' = held \ {tx} /\ utxos' = utxos
           /\ \/ locked' = locked /\ Taken' = Taken \cup {tx}
              \/ locked' = locked \ (tx.ins \cap utxos) /\ Taken' = Taken
<1>1. CASE SendHeld(tx)
  <2>1. UNCHANGED <<locked, utxos, abandoned, call>> /\ broadcast' = broadcast \cup {tx}
        /\ held' = held \ {tx}
    BY <1>1 DEF SendHeld, coinVars
  <2> QED
    BY <2>1 DEF Taken, TxOf
<1>2. CASE UnlockOutputs(tx)
  <2>1. UNCHANGED <<utxos, abandoned, broadcast, call>> /\ held' = held \ {tx}
        /\ locked' = locked \ (tx.ins \cap utxos)
    BY <1>2 DEF UnlockOutputs, Unlocked, dispatcherVars
  <2> QED
    BY <2>1 DEF Taken, TxOf
<1> QED
  BY <1>1, <1>2

\* A lock is lost only with an output of a block that was undone (all handlers
\* of memWallet).
LEMMA LockNext ==
    ASSUME CoreInv, SelectInv, LockInv, [Next]_vars
    PROVE  LockInv'
<1>1. /\ CreatedOnce \subseteq CreatedOnce' /\ Reborn \subseteq Reborn'
      /\ EvalTx => update.txns[ti].outs \cap CreatedNow = {}
  BY CreatedSteps
<1>2. CASE BlockConnected
  BY <1>1, <1>2, ConnectedTaken, LockFrame
<1>3. CASE EvalTx
  <2> DEFINE outs == update.txns[ti].outs
  <2>1. locked' = locked \ outs /\ UNCHANGED <<held, abandoned, broadcast, call>>
        /\ outs \cap CreatedNow = {}
    BY <1>1, <1>3 DEF EvalTx, LockedAfter, callerVars, dispatcherVars
  <2>2. Taken' = Taken
    BY <2>1 DEF Taken, TxOf
  <2>3. ASSUME NEW tx \in held \cup Taken
        PROVE  tx.ins \subseteq (locked' \cup Reborn') \cap CreatedOnce'
    <3>1. tx.ins \subseteq (locked \cup Reborn) \cap CreatedOnce
      BY DEF LockInv
    <3>2. tx.ins \cap outs \subseteq Reborn
      BY <2>1, <3>1 DEF CreatedOnce
    <3> QED
      BY <1>1, <2>1, <3>1, <3>2
  <2>4. ASSUME NEW tx \in held, NEW t \in (held \ {tx}) \cup Taken
        PROVE  tx.ins \cap t.ins \subseteq Reborn'
    BY <1>1 DEF LockInv
  <2> HIDE DEF outs
  <2> QED
    BY <2>1, <2>2, <2>3, <2>4 DEF LockInv
<1>4. ASSUME NEW u \in Callers, Caller(u) PROVE LockInv'
  <2>1. CASE PassesOn
    BY <1>1, <2>1, LockFrame DEF PassesOn
  <2>2. ASSUME NEW tx, Makes(tx) PROVE LockInv'
    <3>1. spc # "eval"
      BY <2>2 DEF Makes, MutexFree, SelectInv, Exclusion
    <3>2. Spendable \subseteq utxos /\ Spendable \cap locked = {}
      BY DEF Spendable
    <3>3. tx.ins \subseteq CreatedOnce /\ tx.ins \cap locked = {}
      BY <2>2, <3>1, <3>2, CoinsCreated DEF Makes
    <3>4. /\ locked' = locked \cup tx.ins
          /\ \/ held' = held \cup {tx} /\ Taken' \subseteq Taken
             \/ held' = held /\ Taken' \subseteq Taken \cup {tx}
      BY <2>2 DEF Makes
    <3> QED
      BY <1>1, <3>3, <3>4, LockNew
  <2> QED
    BY <1>4, <2>1, <2>2, CallerSteps DEF CoreInv
<1>5. ASSUME NEW tx \in held, SendHeld(tx) \/ UnlockOutputs(tx) PROVE LockInv'
  <2>1. held' = held \ {tx}
    BY <1>5, HeldSteps
  <2>2. CASE locked' = locked /\ Taken' = Taken \cup {tx}
    BY <1>1, <2>1, <2>2, LockFrame
  <2>3. CASE locked' = locked \ (tx.ins \cap utxos) /\ Taken' = Taken
    <3>1. ASSUME NEW t \in held' \cup Taken'
          PROVE  t.ins \subseteq (locked' \cup Reborn') \cap CreatedOnce'
      <4>1. t.ins \subseteq (locked \cup Reborn) \cap CreatedOnce
        BY <2>1, <2>3, <3>1 DEF LockInv
      <4>2. tx.ins \cap t.ins \subseteq Reborn
        BY <2>1, <2>3, <3>1 DEF LockInv
      <4> QED
        BY <1>1, <2>3, <4>1, <4>2
    <3>2. ASSUME NEW h \in held', NEW t \in (held' \ {h}) \cup Taken'
          PROVE  h.ins \cap t.ins \subseteq Reborn'
      BY <1>1, <2>1, <2>3, <3>2 DEF LockInv
    <3> QED
      BY <3>1, <3>2 DEF LockInv
  <2> QED
    BY <1>5, <2>2, <2>3, HeldSteps
<1>6. CASE Untouched
  BY <1>1, <1>6, LockFrame DEF Untouched
<1> QED
  BY <1>2, <1>3, <1>4, <1>5, <1>6, UntouchedSteps

\* A coin comes back locked only with a transaction that dcrd has, a lock is
\* only taken for a transaction, and goes with one that is given up (all
\* handlers of memWallet).
LEMMA AccountNext ==
    ASSUME CoreInv, SelectInv, LockInv, MinedInv, LocksAccounted, [Next]_vars
    PROVE  LocksAccounted'
<1>1. Outstanding = held \cup Taken /\ Outstanding' = held' \cup Taken'
  BY DEF Outstanding, Taken
<1>2. ASSUME locked' \cap utxos' \subseteq locked \cap utxos,
             held \cup Taken \subseteq held' \cup Taken'
      PROVE  LocksAccounted'
  BY <1>1, <1>2 DEF LocksAccounted
<1>3. CASE BlockConnected
  BY <1>2, <1>3, ConnectedTaken
<1>4. CASE EvalTx
  <2>1. Evaluated
    BY <1>4, BlockSteps
  <2>2. Taken' = Taken
    BY <2>1 DEF Evaluated, Taken, TxOf
  <2> QED
    BY <1>2, <2>1, <2>2 DEF Evaluated
<1>5. ASSUME NEW u \in Callers, Caller(u) PROVE LocksAccounted'
  <2>1. CASE PassesOn
    BY <1>2, <2>1 DEF PassesOn
  <2>2. ASSUME NEW tx, Makes(tx) PROVE LocksAccounted'
    <3>1. ASSUME NEW op \in locked' \cap utxos'
          PROVE  \E t \in held' \cup Taken' : op \in t.ins
      <4>1. CASE op \in tx.ins
        BY <2>2, <4>1 DEF Makes
      <4>2. CASE op \notin tx.ins
        <5>1. op \in locked \cap utxos
          BY <2>2, <3>1, <4>2 DEF Makes
        <5> QED
          BY <1>1, <2>2, <5>1 DEF Makes, LocksAccounted
      <4> QED
        BY <4>1, <4>2
    <3> QED
      BY <1>1, <3>1 DEF LocksAccounted
  <2> QED
    BY <1>5, <2>1, <2>2, CallerSteps DEF CoreInv
<1>6. ASSUME NEW tx \in held, SendHeld(tx) \/ UnlockOutputs(tx) PROVE LocksAccounted'
  <2>1. held' = held \ {tx} /\ utxos' = utxos
    BY <1>6, HeldSteps
  <2>2. CASE locked' = locked /\ Taken' = Taken \cup {tx}
    BY <1>2, <2>1, <2>2
  <2>3. CASE locked' = locked \ (tx.ins \cap utxos) /\ Taken' = Taken
    <3>1. ASSUME NEW op \in locked' \cap utxos'
          PROVE  \E t \in held' \cup Taken' : op \in t.ins
      <4>1. op \in locked \cap utxos /\ op \notin tx.ins
        BY <2>1, <2>3, <3>1
      <4>2. PICK t \in held \cup Taken : op \in t.ins
        BY <1>1, <4>1 DEF LocksAccounted
      <4> QED
        BY <2>1, <2>3, <4>1, <4>2
    <3> QED
      BY <1>1, <3>1 DEF LocksAccounted
  <2> QED
    BY <1>6, <2>2, <2>3, HeldSteps
<1>7. CASE Undone
  <2> DEFINE b == chain[Applied]
  <2>1. /\ utxos' = (utxos \ Outs(b)) \cup Ins(b) /\ locked' = locked
        /\ held' = held /\ Applied \in 1..Len(chain)
    BY <1>7 DEF Undone
  <2>2. Taken' = Taken
    BY <1>7 DEF Undone, Taken, TxOf
  <2>3. ASSUME NEW op \in Ins(b)
        PROVE  \E t \in Taken : op \in t.ins
    <3>1. PICK i \in 1..Len(b.txns) : op \in b.txns[i].ins
      BY DEF Ins, InsOf
    <3>2. b.txns[i] \in broadcast
      BY <2>1, <3>1 DEF MinedInv
    <3> QED
      BY <3>1, <3>2 DEF Taken
  <2> QED
    BY <1>1, <2>1, <2>2, <2>3 DEF LocksAccounted
<1>8. CASE Untouched /\ utxos' = utxos
  BY <1>2, <1>8 DEF Untouched
<1>9. Kept \/ Begun \/ Committed => utxos' = utxos
  BY DEF Kept, Begun, Committed
<1> QED
  BY <1>3, <1>4, <1>5, <1>6, <1>7, <1>8, <1>9, UntouchedSteps, UnwindSteps, BlockSteps,
     OtherSteps

\* The locks, their reasons and the mined transactions hold together.
LEMMA LockInvariance == Spec => [](LockInv /\ MinedInv /\ LocksAccounted)
<1>1. Init => LockInv /\ MinedInv /\ LocksAccounted
  <2> SUFFICES ASSUME Init PROVE LockInv /\ MinedInv /\ LocksAccounted
    OBVIOUS
  <2>1. held = {} /\ abandoned = {} /\ broadcast = {} /\ locked = {} /\ Len(chain) = 0
    BY DEF Init
  <2>2. Taken = {}
    BY <2>1 DEF Init, Taken, Idle
  <2> QED
    BY <2>1, <2>2 DEF LockInv, MinedInv, LocksAccounted
<1>2. CoreInv /\ SelectInv /\ (LockInv /\ MinedInv /\ LocksAccounted) /\ [Next]_vars
        => (LockInv /\ MinedInv /\ LocksAccounted)'
  BY LockNext, MinedNext, AccountNext
<1> QED
  BY <1>1, <1>2, CoreInvariant, SelectInvariant, PTL DEF Spec

\* The coins of an outstanding transaction are locked, over connected and
\* disconnected blocks and whatever other callers do, unless the block that
\* created them was undone (CreateTransaction, UnlockOutputs, evalOutputs).
THEOREM LocksCorrect == Spec => []OutstandingInputsLocked
<1>1. LockInv => OutstandingInputsLocked
  BY DEF LockInv, OutstandingInputsLocked, Outstanding, Taken
<1> QED
  BY <1>1, LockInvariance, PTL

\* No lock outlives the last transaction that may spend the coin
\* (CreateTransaction, SendOutputs, UnlockOutputs).
THEOREM AccountsCorrect == Spec => []LocksAccounted
<1> QED
  BY LockInvariance, PTL
=============================================================================
