----------------------------- MODULE MemWallet -----------------------------
(***************************************************************************)
(* The in-memory wallet of a harness, src/dcrdtest/memwallet.go.           *)
(*                                                                         *)
(* Four kinds of goroutine meet here:                                      *)
(*   - the dispatcher of the RPC client, which runs IngestBlock and        *)
(*     UnwindBlock one notification after the other and also hands out the *)
(*     replies of RPCs;                                                    *)
(*   - one signalling goroutine per ingested block;                        *)
(*   - chainSyncer, which applies the queued blocks;                       *)
(*   - the goroutines of a test, which call the wallet (Callers).          *)
(* The wallet's RWMutex is held across several steps by chainSyncer (while *)
(* it evaluates a block) and by a caller whose address is being loaded in  *)
(* the transaction filter of dcrd; every other critical section is one     *)
(* action.                                                                 *)
(*                                                                         *)
(* X_Fault is X with a plausible programming error. No formula uses such a *)
(* variant: put in the place of X it breaks one of the properties below.   *)
(***************************************************************************)
EXTENDS Chain, FiniteSets

CONSTANTS
    Callers,            \* goroutines of the test that call the wallet
    MaxBlocks,          \* bound: number of blocks connected, reconnected ones included
    MaxDisconnects,     \* bound: number of blocks disconnected
    MaxIndex,           \* bound: hdIndex
    MaxBlockTxs         \* bound: relevant transactions of a block

ASSUME BoundsAssumption ==
    /\ MaxBlocks \in Nat
    /\ MaxDisconnects \in Nat
    /\ MaxIndex \in Nat
    /\ MaxBlockTxs \in Nat

VARIABLES
    \* dcrd and the RPC client
    chain,          \* main chain as far as the dispatcher was notified of it
    unwinding,      \* the dispatcher is inside UnwindBlock for chain's last block
    client,         \* "up", "closing" (one last message may be handled), "down"
    disconnects,    \* how many blocks were disconnected
    broadcast,      \* transactions dcrd accepted, mined or not
    used,           \* outpoints that some finished transaction creates
    \* memWallet: the queue between dispatcher and chainSyncer
    chainUpdates, signals, quit,
    \* locals of chainSyncer
    spc, update, ti, undo,
    \* memWallet: what its RWMutex protects
    currentHeight, utxos, maturityHeight, locked, reorgJournal, hdIndex, addrs,
    \* the callers
    call,           \* the call each caller is in
    held,           \* transactions CreateTransaction returned, in a test's hands
    abandoned,      \* transactions SendOutputs built and failed to send
    \* history
    unwound,        \* the blocks UnwindBlock undid
    panic           \* how the process crashed, if it did

dispatcherVars == <<chain, unwinding, client, disconnects, broadcast, used>>
queueVars  == <<chainUpdates, signals, quit>>
syncerVars == <<spc, update, ti, undo>>
coinVars   == <<currentHeight, utxos, maturityHeight, locked, reorgJournal>>
addrVars   == <<hdIndex, addrs>>
callerVars == <<call, held, abandoned>>
vars == <<dispatcherVars, queueVars, syncerVars, coinVars, addrVars,
          callerVars, unwound, panic>>

-----------------------------------------------------------------------------

NoUndo == [created |-> {}, destroyed |-> {}]

Idle == [pc |-> "idle", index |-> 0, ins |-> {}, outs |-> {}, send |-> FALSE]

WalletTx(ins, outs) == [coinbase |-> FALSE, outs |-> outs, ins |-> ins]

\* The transaction a caller is building or sending.
TxOf(u) == WalletTx(call[u].ins, call[u].outs)

Holds(u) == call[u].pc = "loadfilter"

\* Nobody keeps the wallet's RWMutex from one step to the next.
MutexFree_CallersUnlocked == spc # "eval"
MutexFree == spc # "eval" /\ \A u \in Callers : ~Holds(u)

\* utxo.isMature and the skip of locked outputs in fundTx.
Spendable == {op \in utxos : currentHeight >= maturityHeight[op]} \ locked

\* Outpoints no transaction creates yet.
Fresh == OutPoints \ (used \cup UNION {call[u].outs : u \in Callers})

-----------------------------------------------------------------------------

Init ==
    /\ chain = <<>> /\ unwinding = FALSE /\ client = "up" /\ disconnects = 0
    /\ broadcast = {} /\ used = {}
    /\ chainUpdates = <<>> /\ signals = 0 /\ quit = FALSE
    /\ spc = "recv" /\ update = NoBlock /\ ti = 1 /\ undo = NoUndo
    /\ currentHeight = 0 /\ utxos = {} /\ locked = {}
    /\ maturityHeight = [op \in OutPoints |-> 0]
    /\ reorgJournal = [h \in {} |-> NoUndo]
    /\ hdIndex = 1 /\ addrs = {0}
    /\ call = [u \in Callers |-> Idle] /\ held = {} /\ abandoned = {}
    /\ unwound = {} /\ panic = "none"

-----------------------------------------------------------------------------
(* The dispatcher of the RPC client                                        *)

\* The dispatcher is between two messages and still handles one. After
\* Shutdown it may be handling the message it had already read.
Dispatching == ~unwinding /\ client \in {"up", "closing"}
Dispatched  == client' = IF client = "closing" THEN "down" ELSE client

\* What a block may hold: a new coinbase or a new payment to the wallet, or
\* any transaction dcrd accepted before.
Candidates ==
    broadcast \cup {[coinbase |-> c, outs |-> {op}, ins |-> {}] :
                        c \in BOOLEAN, op \in Fresh}

NextBlocks ==
    { [height |-> Len(chain) + 1, txns |-> txns] :
        txns \in UNION {[1..n -> Candidates] : n \in 0..MaxBlockTxs} }

\* IngestBlock: queue the block and leave the signal to a new goroutine.
IngestBlock_Prepend(b) ==
    /\ chainUpdates' = <<b>> \o chainUpdates
    /\ signals' = signals + 1
IngestBlock_NoSignal(b) ==
    /\ chainUpdates' = Append(chainUpdates, b)
    /\ signals' = IF chainUpdates = <<>> THEN signals + 1 ELSE signals
IngestBlock(b) ==
    /\ chainUpdates' = Append(chainUpdates, b)
    /\ signals' = signals + 1

BlockConnected ==
    /\ Dispatching
    /\ Len(chain) + disconnects < MaxBlocks
    /\ \E b \in NextBlocks :
         /\ ValidBlock(chain, Len(chain), b)
         /\ chain' = Append(chain, b)
         /\ broadcast' = broadcast \cup
                {b.txns[i] : i \in {j \in 1..Len(b.txns) : ~b.txns[j].coinbase}}
         /\ used' = used \cup Outs(b)
         /\ IngestBlock(b)
    /\ Dispatched
    /\ UNCHANGED <<unwinding, disconnects, quit, syncerVars, coinVars, addrVars,
                   callerVars, unwound, panic>>

\* OnBlockDisconnected calls UnwindBlock, which first waits for the mutex.
BlockDisconnected ==
    /\ Dispatching
    /\ Len(chain) > 0
    /\ disconnects < MaxDisconnects
    /\ unwinding' = TRUE
    /\ disconnects' = disconnects + 1
    /\ Dispatched
    /\ UNCHANGED <<chain, broadcast, used, queueVars, syncerVars, coinVars,
                   addrVars, callerVars, unwound, panic>>

\* The utxos UnwindBlock leaves: what the block created goes first, then what
\* it destroyed comes back.
UtxosUnwound_KeepSpent(entry) == utxos \ entry.created
UtxosUnwound(entry) == (utxos \ entry.created) \cup entry.destroyed

\* The heights whose undo entries remain after the block at height h unwound.
JournalUnwound_Keep(h) == DOMAIN reorgJournal
JournalUnwound(h) == DOMAIN reorgJournal \ {h}

\* UnwindBlock once it has the mutex. A height without an entry dereferences
\* a nil undoEntry and crashes the process.
UnwindBlock ==
    /\ unwinding
    /\ MutexFree
    /\ LET b == chain[Len(chain)] IN
         IF b.height \in DOMAIN reorgJournal
         THEN /\ utxos' = UtxosUnwound(reorgJournal[b.height])
              /\ reorgJournal' = [h \in JournalUnwound(b.height) |-> reorgJournal[h]]
              /\ chain' = SubSeq(chain, 1, Len(chain) - 1)
              /\ unwinding' = FALSE
              /\ unwound' = unwound \cup {b}
              /\ UNCHANGED panic
         ELSE /\ panic' = "nilUndo"
              /\ UNCHANGED <<utxos, reorgJournal, chain, unwinding, unwound>>
    /\ UNCHANGED <<client, disconnects, broadcast, used, queueVars, syncerVars,
                   currentHeight, maturityHeight, locked, addrVars, callerVars>>

\* Client.Shutdown, and the dispatcher's exit without another message.
ShutdownClient ==
    /\ client = "up"
    /\ client' = "closing"
    /\ UNCHANGED <<chain, unwinding, disconnects, broadcast, used, queueVars,
                   syncerVars, coinVars, addrVars, callerVars, unwound, panic>>

DispatcherExit ==
    /\ client = "closing" /\ ~unwinding
    /\ client' = "down"
    /\ UNCHANGED <<chain, unwinding, disconnects, broadcast, used, queueVars,
                   syncerVars, coinVars, addrVars, callerVars, unwound, panic>>

-----------------------------------------------------------------------------
(* Stop, the signalling goroutines and chainSyncer                         *)

\* TearDown stops the wallet after it shut the client down.
Stop ==
    /\ client # "up" /\ ~quit
    /\ quit' = TRUE
    /\ UNCHANGED <<dispatcherVars, chainUpdates, signals, syncerVars, coinVars,
                   addrVars, callerVars, unwound, panic>>

\* A signalling goroutine hands its signal over or, once the wallet was
\* stopped, drops it.
SignalTaken_NotWaiting == signals' = signals - 1
SignalTaken == signals > 0 /\ signals' = signals - 1

SignalQuit_Blocked == FALSE
SignalQuit ==
    /\ quit /\ SignalTaken
    /\ UNCHANGED <<dispatcherVars, chainUpdates, quit, syncerVars, coinVars,
                   addrVars, callerVars, unwound, panic>>

SyncerRecv ==
    /\ spc = "recv" /\ SignalTaken
    /\ spc' = "pop"
    /\ UNCHANGED <<dispatcherVars, chainUpdates, quit, update, ti, undo,
                   coinVars, addrVars, callerVars, unwound, panic>>

SyncerQuit_NeverExits == FALSE
SyncerQuit ==
    /\ spc = "recv" /\ quit
    /\ spc' = "exited"
    /\ UNCHANGED <<dispatcherVars, queueVars, update, ti, undo, coinVars,
                   addrVars, callerVars, unwound, panic>>

\* chainUpdates[0] of an empty queue is an index out of range.
SyncerPop ==
    /\ spc = "pop"
    /\ IF chainUpdates = <<>>
       THEN /\ panic' = "emptyQueue"
            /\ UNCHANGED <<chainUpdates, spc, update>>
       ELSE /\ update' = Head(chainUpdates)
            /\ chainUpdates' = Tail(chainUpdates)
            /\ spc' = "lock"
            /\ UNCHANGED panic
    /\ UNCHANGED <<dispatcherVars, signals, quit, ti, undo, coinVars, addrVars,
                   callerVars, unwound>>

SyncerLock ==
    /\ spc = "lock"
    /\ MutexFree
    /\ spc' = "eval"
    /\ currentHeight' = update.height
    /\ ti' = 1 /\ undo' = NoUndo
    /\ UNCHANGED <<dispatcherVars, queueVars, update, utxos, maturityHeight,
                   locked, reorgJournal, addrVars, callerVars, unwound, panic>>

\* evalOutputs: a coinbase output matures CoinbaseMaturity blocks later.
MaturityOf_Always(tx) == currentHeight + CoinbaseMaturity
MaturityOf(tx) == IF tx.coinbase THEN currentHeight + CoinbaseMaturity ELSE 0

\* evalOutputs replaces the utxo object of an outpoint: the new one is unlocked.
LockedAfter(tx) == locked \ tx.outs

\* evalOutputs, then evalInputs: the utxos once tx is evaluated, and those
\* among its inputs that were the wallet's.
UtxosAfter_KeepInputs(tx) == utxos \cup tx.outs
UtxosAfter(tx) == (utxos \cup tx.outs) \ tx.ins
DestroyedBy(tx) == tx.ins \cap (utxos \cup tx.outs)

EvalTx ==
    /\ spc = "eval" /\ ti <= Len(update.txns)
    /\ LET tx == update.txns[ti] IN
         /\ utxos' = UtxosAfter(tx)
         /\ locked' = LockedAfter(tx)
         /\ maturityHeight' = [op \in OutPoints |->
                IF op \in tx.outs THEN MaturityOf(tx) ELSE maturityHeight[op]]
         /\ undo' = [created   |-> undo.created \cup tx.outs,
                     destroyed |-> undo.destroyed \cup DestroyedBy(tx)]
    /\ ti' = ti + 1
    /\ UNCHANGED <<dispatcherVars, queueVars, spc, update, currentHeight,
                   reorgJournal, addrVars, callerVars, unwound, panic>>

\* The undo entry is recorded and the mutex released.
SyncerCommit ==
    /\ spc = "eval" /\ ti > Len(update.txns)
    /\ reorgJournal' = [h \in DOMAIN reorgJournal \cup {update.height} |->
                          IF h = update.height THEN undo ELSE reorgJournal[h]]
    /\ spc' = "recv" /\ update' = NoBlock /\ ti' = 1 /\ undo' = NoUndo
    /\ UNCHANGED <<dispatcherVars, queueVars, currentHeight, utxos,
                   maturityHeight, locked, addrVars, callerVars, unwound, panic>>

-----------------------------------------------------------------------------
(* The callers                                                             *)

\* NewAddress takes the mutex and asks dcrd to load the address of the next
\* index in the client's transaction filter.
NewAddress(u) ==
    /\ call[u].pc = "idle"
    /\ MutexFree
    /\ hdIndex < MaxIndex
    /\ call' = [call EXCEPT ![u].pc = "loadfilter", ![u].index = hdIndex]
    /\ UNCHANGED <<dispatcherVars, queueVars, syncerVars, coinVars, addrVars,
                   held, abandoned, unwound, panic>>

\* CreateTransaction marks the outputs it selected as locked.
LockedBy_None(ins) == locked
LockedBy(ins) == locked \cup ins

\* The inputs are locked, the mutex is released and the transaction is either
\* returned (CreateTransaction) or being sent (SendOutputs).
Complete(u, ins, outs, send) ==
    /\ locked' = LockedBy(ins)
    /\ used' = used \cup outs
    /\ IF send
       THEN /\ call' = [call EXCEPT ![u] = [pc |-> "sending", index |-> 0,
                            ins |-> ins, outs |-> outs, send |-> TRUE]]
            /\ UNCHANGED held
       ELSE /\ call' = [call EXCEPT ![u] = Idle]
            /\ held' = held \cup {WalletTx(ins, outs)}

\* CreateTransaction: fundTx selects spendable outputs in the map's random
\* order. Without change the transaction is complete; with change, newAddress
\* is called with the mutex held. Too few coins, or an input that cannot be
\* signed, return an error and change nothing.
CreateTransaction(u) ==
    /\ call[u].pc = "idle"
    /\ MutexFree
    /\ \E ins \in (SUBSET Spendable) \ {{}}, send \in BOOLEAN :
         \/ /\ Complete(u, ins, {}, send)
         \/ /\ hdIndex < MaxIndex
            /\ \E op \in Fresh :
                 call' = [call EXCEPT ![u] = [pc |-> "loadfilter",
                            index |-> hdIndex, ins |-> ins, outs |-> {op},
                            send |-> send]]
            /\ UNCHANGED <<locked, used, held>>
    /\ UNCHANGED <<chain, unwinding, client, disconnects, broadcast, queueVars,
                   syncerVars, currentHeight, utxos, maturityHeight,
                   reorgJournal, addrVars, abandoned, unwound, panic>>

\* The reply of LoadTxFilter, which only an idle dispatcher can hand out: the
\* address is recorded. NewAddress returns it; CreateTransaction finishes, or
\* cannot sign one of the inputs and returns an error with nothing locked.
FilterLoaded(u) ==
    /\ call[u].pc = "loadfilter"
    /\ Dispatching /\ Dispatched
    /\ addrs' = addrs \cup {call[u].index}
    /\ hdIndex' = hdIndex + 1
    /\ \/ /\ call' = [call EXCEPT ![u] = Idle]
          /\ UNCHANGED <<locked, used, held>>
       \/ /\ call[u].ins # {}
          /\ Complete(u, call[u].ins, call[u].outs, call[u].send)
    /\ UNCHANGED <<chain, unwinding, disconnects, broadcast, queueVars,
                   syncerVars, currentHeight, utxos, maturityHeight,
                   reorgJournal, abandoned, unwound, panic>>

\* LoadTxFilter fails: the caller's context is done or dcrd refuses
\* (LoadFailed), or the client was shut down (LoadAborted). The mutex is
\* released, nothing else changes.
LoadFailed_KeepsMutex(u) == call[u].pc = "loadfilter" /\ UNCHANGED vars
LoadFailed(u) ==
    /\ call[u].pc = "loadfilter"
    /\ call' = [call EXCEPT ![u] = Idle]
    /\ UNCHANGED <<dispatcherVars, queueVars, syncerVars, coinVars, addrVars,
                   held, abandoned, unwound, panic>>

LoadAborted(u) == client # "up" /\ LoadFailed(u)

\* SendRawTransaction succeeds, or fails before or after dcrd accepted the
\* transaction. SendOutputs returns a hash or an error, in no case the
\* transaction.
SendOutputsDone(u) ==
    /\ call[u].pc = "sending"
    /\ \/ /\ broadcast' = broadcast \cup {TxOf(u)}
          /\ UNCHANGED abandoned
       \/ /\ abandoned' = abandoned \cup {TxOf(u)}
          /\ UNCHANGED broadcast
    /\ call' = [call EXCEPT ![u] = Idle]
    /\ UNCHANGED <<chain, unwinding, client, disconnects, used, queueVars,
                   syncerVars, coinVars, addrVars, held, unwound, panic>>

\* The test sends a transaction CreateTransaction returned.
SendHeld(tx) ==
    /\ client = "up"
    /\ held' = held \ {tx}
    /\ broadcast' = broadcast \cup {tx}
    /\ UNCHANGED <<chain, unwinding, client, disconnects, used, queueVars,
                   syncerVars, coinVars, addrVars, call, abandoned, unwound,
                   panic>>

\* UnlockOutputs skips inputs that are not in utxos.
Unlocked_None(ins) == locked
Unlocked(ins) == locked \ (ins \cap utxos)

\* The test gives a transaction up that it did not send.
UnlockOutputs(tx) ==
    /\ MutexFree
    /\ locked' = Unlocked(tx.ins)
    /\ held' = held \ {tx}
    /\ UNCHANGED <<dispatcherVars, queueVars, syncerVars, currentHeight, utxos,
                   maturityHeight, reorgJournal, addrVars, call, abandoned,
                   unwound, panic>>

-----------------------------------------------------------------------------

Dispatcher == \/ BlockConnected \/ BlockDisconnected \/ UnwindBlock
              \/ ShutdownClient \/ DispatcherExit

ChainSyncer == \/ SyncerRecv \/ SyncerPop \/ SyncerLock \/ EvalTx
               \/ SyncerCommit \/ SyncerQuit

Caller(u) == \/ NewAddress(u) \/ CreateTransaction(u) \/ FilterLoaded(u)
             \/ LoadFailed(u) \/ SendOutputsDone(u)

Next ==
    /\ panic = "none"
    /\ \/ Dispatcher
       \/ ChainSyncer
       \/ Stop \/ SignalQuit
       \/ \E u \in Callers : Caller(u)
       \/ \E tx \in held : SendHeld(tx) \/ UnlockOutputs(tx)

Spec == Init /\ [][Next]_vars

\* Whoever can run does. A mutex that is free again and again is acquired by
\* every goroutine that waits for it (Go's mutex hands itself over to a waiter
\* after a millisecond). A reply is delivered once the dispatcher is idle.
\* Nothing forces a block, a call, a shutdown or a context to end.
Running(A) == panic = "none" /\ A

FairSpec ==
    /\ Spec
    /\ WF_vars(Running(SyncerRecv \/ SyncerPop \/ EvalTx \/ SyncerCommit \/ SyncerQuit))
    /\ SF_vars(Running(SyncerLock))
    /\ SF_vars(Running(UnwindBlock))
    /\ WF_vars(Running(SignalQuit))
    /\ \A u \in Callers : /\ SF_vars(Running(FilterLoaded(u)))
                          /\ WF_vars(Running(LoadAborted(u)))
                          /\ WF_vars(Running(SendOutputsDone(u)))

\* Every context a test passes has a deadline.
ContextsExpire == \A u \in Callers : WF_vars(Running(LoadFailed(u)))

-----------------------------------------------------------------------------
(* Properties                                                              *)

\* How many popped updates are not yet applied as a whole, and how many blocks
\* of the chain are.
InFlight == IF spc \in {"lock", "eval"} THEN 1 ELSE 0
Applied == Len(chain) - Len(chainUpdates) - InFlight

\* Every variable has the type the struct and the goroutines give it.
DispatcherTypes ==
    /\ chain \in Seq(Block) /\ unwinding \in BOOLEAN
    /\ client \in {"up", "closing", "down"} /\ disconnects \in Nat
    /\ broadcast \subseteq Tx /\ used \subseteq OutPoints
    /\ unwound \subseteq Block
QueueTypes ==
    /\ chainUpdates \in Seq(Block) /\ signals \in Nat /\ quit \in BOOLEAN
    /\ panic \in {"none", "nilUndo", "emptyQueue"}
SyncerTypes ==
    /\ spc \in {"recv", "pop", "lock", "eval", "exited"}
    /\ update \in Block /\ ti \in Nat \ {0}
    /\ undo \in [created : SUBSET OutPoints, destroyed : SUBSET OutPoints]
CoinTypes ==
    /\ currentHeight \in Nat
    /\ utxos \subseteq OutPoints /\ locked \subseteq OutPoints
    /\ maturityHeight \in [OutPoints -> Nat]
JournalTypes ==
    /\ DOMAIN reorgJournal \subseteq Nat
    /\ \A h \in DOMAIN reorgJournal : reorgJournal[h] \in
          [created : SUBSET OutPoints, destroyed : SUBSET OutPoints]
CallerTypes ==
    /\ hdIndex \in Nat /\ addrs \subseteq Nat
    /\ call \in [Callers -> [pc : {"idle", "loadfilter", "sending"}, index : Nat,
                             ins : SUBSET OutPoints, outs : SUBSET OutPoints,
                             send : BOOLEAN]]
    /\ held \subseteq Tx /\ abandoned \subseteq Tx

TypeOK == /\ DispatcherTypes /\ QueueTypes /\ SyncerTypes
          /\ CoinTypes /\ JournalTypes /\ CallerTypes

\* Outputs that a block undone by UnwindBlock both created and spent.
Phantoms == UNION {Outs(b) \cap Ins(b) : b \in unwound}

\* Whatever the order of notifications, evaluation and calls, the wallet's
\* coins between two blocks are the unspent outputs of the blocks it applied.
\* Only an output that a disconnected block created and spent may be left over
\* (evalOutputs, evalInputs, UnwindBlock).
UtxosMatchChain ==
    spc # "eval" =>
        /\ Unspent(chain, Applied) \subseteq utxos
        /\ utxos \subseteq Unspent(chain, Applied) \cup Phantoms

\* chainSyncer pops an update only when there is one: as long as the wallet
\* was not stopped, the pending signals are exactly the queued updates
\* (IngestBlock, chainSyncer).
SignalsCoverQueue ==
    /\ panic # "emptyQueue"
    /\ signals + (IF spc = "pop" THEN 1 ELSE 0) <= Len(chainUpdates)
    /\ ~quit => signals + (IF spc = "pop" THEN 1 ELSE 0) = Len(chainUpdates)

\* UnwindBlock finds no undo entry only for a block that chainSyncer has not
\* applied yet; every applied block has one (reorgJournal).
JournalCoversApplied == DOMAIN reorgJournal = 1..Applied

\* No address index is issued twice or skipped: the addresses are those of the
\* indexes below hdIndex, and a call waiting for LoadTxFilter will add the next
\* one (newAddress).
AddressesContiguous ==
    /\ addrs = 0..(hdIndex - 1)
    /\ \A u \in Callers : Holds(u) => call[u].index = hdIndex

\* The outputs that a call selected are still the wallet's and spendable when
\* the filter is loaded, so that CreateTransaction's m.utxos[outPoint] is never
\* nil and no other call selects them meanwhile (fundTx, CreateTransaction).
SelectionStaysSpendable ==
    \A u \in Callers : Holds(u) => call[u].ins \subseteq Spendable

\* Transactions whose inputs must not be selected again.
Outstanding == held \cup abandoned \cup broadcast
                    \cup {TxOf(u) : u \in {v \in Callers : call[v].pc = "sending"}}

Reborn == UNION {Outs(b) : b \in unwound}

\* The coins an outstanding transaction spends are locked until a block takes
\* them, the lock even survives the unwinding of that block; it is lost only
\* by an output whose creating block was unwound (CreateTransaction,
\* UnwindBlock, evalOutputs, UnlockOutputs).
OutstandingInputsLocked ==
    \A tx \in Outstanding : tx.ins \cap utxos \subseteq locked \cup Reborn

\* A coin is locked only for a transaction that may still spend it, or that
\* SendOutputs lost (CreateTransaction, UnlockOutputs).
LocksAccounted ==
    \A op \in locked \cap utxos : \E tx \in Outstanding : op \in tx.ins

\* Every coin matures CoinbaseMaturity blocks after the block that holds its
\* coinbase, and at once if no coinbase created it (evalOutputs).
MaturityRecorded ==
    \A k \in 1..Applied : \A i \in 1..Len(chain[k].txns) :
        \A op \in chain[k].txns[i].outs :
            maturityHeight[op] = IF chain[k].txns[i].coinbase
                                 THEN k + CoinbaseMaturity ELSE 0

\* The height that SetUp waits for never runs behind the applied blocks, and
\* is exact until a block is disconnected (chainSyncer, SyncedHeight).
SyncedHeightNotBehind ==
    spc # "eval" => /\ currentHeight >= Applied
                    /\ disconnects = 0 => currentHeight = Applied

-----------------------------------------------------------------------------
(* The implementation of WalletView: a block takes effect when chainSyncer *)
(* acquires the mutex, so while it evaluates a block the coins are those   *)
(* it will end with.                                                       *)

AppliedBlocks == SubSeq(chain, 1, Applied + (IF spc = "eval" THEN 1 ELSE 0))

RemainingTxs == SubSeq(update.txns, ti, Len(update.txns))

Coins ==
    IF spc = "eval"
    THEN (utxos \cup OutsOf(RemainingTxs, Len(RemainingTxs)))
            \ InsOf(RemainingTxs, Len(RemainingTxs))
    ELSE utxos

View == INSTANCE WalletView WITH applied <- AppliedBlocks, coins <- Coins

\* The wallet implements WalletView: queueing, evaluation transaction by
\* transaction, calls and teardown never show a test a half-applied block, a
\* block out of order or a block twice.
ImplementsView == View!Spec

-----------------------------------------------------------------------------
(* Liveness                                                                *)

Crashed == panic # "none"

\* Every notified block is applied unless the wallet is stopped, so SetUp's
\* wait for the synced height ends (IngestBlock, chainSyncer).
BlocksGetApplied ==
    ContextsExpire =>
        \A k \in 1..MaxBlocks :
            (Applied < k /\ k <= Len(chain)) ~> (Applied >= k \/ quit \/ Crashed)

\* memWallet.Stop returns: chainSyncer exits whatever it was doing, also with a
\* caller inside the mutex, because the client was shut down before.
StopReturns == quit ~> (spc = "exited" \/ Crashed)

\* No signalling goroutine is left after Stop.
SignallersExit == quit ~> (signals = 0 \/ Crashed)

\* The dispatcher and a caller may wait for each other: UnwindBlock for the
\* mutex, the caller that has it for a reply only the dispatcher can hand out.
\* A deadline of the caller's context gets both going again (UnwindBlock,
\* newAddress).
DeadlinesBreakDeadlock ==
    ContextsExpire =>
        /\ unwinding ~> (~unwinding \/ Crashed)
        /\ \A u \in Callers : Holds(u) ~> (~Holds(u) \/ Crashed)

-----------------------------------------------------------------------------
(* What comments of the code say and the code does not do                  *)

\* memwallet.go:105-108: "Once a block is disconnected, the undo entry for the
\* particular height is evaluated". A block can be disconnected before
\* chainSyncer applied it.
UnwindFindsEntry == panic # "nilUndo"

\* memwallet.go:566-567: the lock "ensures these outputs won't be double spent
\* by any subsequent transactions". Evaluating the funding transaction again
\* after a reorganization creates the utxo anew, unlocked.
NoDoubleSpend ==
    \A t1, t2 \in Outstanding : t1 # t2 => t1.ins \cap t2.ins = {}

\* memwallet.go:416: NewAddress "is safe for concurrent access", and :233-235:
\* IngestBlock leaves the signal to a goroutine "in order to avoid blocking the
\* main loop of the rpc client". UnwindBlock does block it, on a mutex whose
\* holder waits for that loop.
NewAddressReturns ==
    \A u \in Callers : Holds(u) ~> (~Holds(u) \/ Crashed)
=============================================================================
