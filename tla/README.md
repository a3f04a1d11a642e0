# A TLA+ model of dcrdtest

dcrdtest runs a dcrd node as a child process for integration tests, keeps a small
in-memory wallet in step with its chain, and offers helpers to connect nodes, to
mine and to vote. This directory models the parts of it where goroutines,
notifications, RPCs and a child process meet.

## Inventory

| Component | Source (`src/dcrdtest/`) | State | Operations | Status |
|---|---|---|---|---|
| memWallet | `memwallet.go` | queue of chain updates and pending signals, utxos with maturity and lock, undo journal, height, addresses and next index, RWMutex, quit | `IngestBlock`, `UnwindBlock`, `chainSyncer`, `NewAddress`, `CreateTransaction`, `SendOutputs`, `UnlockOutputs`, `ConfirmedBalance`, `SyncedHeight`, `Start`, `Stop` | `MemWallet` |
| Node process | `node.go` | child process, reader/IPC/waiter goroutines, `cmdStarted`, `cmdDone`, wait group, pid file | `start`, `stop`, `shutdown`, `cleanup` | `NodeProcess` |
| IPC | `ipc.go` | two pipes, each with one end the parent closes | `nextIPCMessage`, `close` | `NodeProcess` |
| Harness | `rpc_harness.go` | node, RPC client, wallet, test directory | `New`, `SetUp`, `TearDown`, delegating calls | `Harness`, over `NodeProcess` |
| Voting wallet | `votingwallet.go` | two notification channels, coins, tickets, maturing votes, vote limit | `Start`, block and winning-ticket handlers, `GenerateBlocks`, `LimitNbVotes`, `VoteForTSpends` | `VotingWallet` |
| Node synchronisation | `utils.go` | none of its own: polls dcrd | `JoinNodes`, `ConnectNode`, `RemoveNode`, `NodesConnected` | `NodeSync` |
| Simnet miner | `simnet_miner.go` | solver goroutines, result channel | `solveBlock`, `AdjustedSimnetMiner` | `solveBlock` in `SolveBlock` |
| Builder, logging, options, certificates | `builder.go`, `log.go`, `node_*.go`, `node.go` | none that matters | | not modelled: plain I/O |

How they interact. `New` installs `wallet.IngestBlock` and `wallet.UnwindBlock` as
handlers of block notifications (or wraps the test's own). They run on the single
dispatcher goroutine of the RPC client, which also delivers the replies of RPCs.
`IngestBlock` queues the block and leaves a goroutine behind that signals
`chainSyncer`; `chainSyncer` pops one update per signal and evaluates it under the
wallet's mutex. `UnwindBlock` changes the coins at once, under the same mutex, on the
dispatcher. The goroutines of a test call the wallet; `newAddress` asks dcrd to load
an address in the client's filter while it holds the mutex. `SetUp` starts the node,
connects, starts the wallet and waits for the synced height; `TearDown` shuts the
client down, then the node, then the wallet. The node talks through two pipes: dcrd
writes its bound addresses to one and shuts down when the other is closed.

What is hard here, and what makes each part correct:

* memWallet: two queues with different speed (connections are deferred,
  disconnections are not), a mutex held across an RPC, signals that are not tied to
  updates, locks that live on objects which a reorganization replaces. Correct means:
  the coins are the unspent outputs of the applied chain, each applied block can be
  undone exactly once, no coin is promised twice, no address index is used twice, and
  nobody waits for ever.
* node: five goroutines around one process, a channel that is both sent to and
  closed and received from in two functions, errors between any two steps. Correct
  means: no process and no goroutine is left, and `start` and `stop` return.
* voting wallet: two channels read in any order, early returns in the middle of a
  state change, a dispatcher that can be blocked by its own handler. Correct means: no
  coin is lost or doubled, the chain never runs out of tickets or votes, and
  `GenerateBlocks` gets what it waits for.
* harness: eight fallible statements in `SetUp`, each with the same deferred `TearDown`
  behind it, and a last loop that nothing but the wallet ends. Correct means: after an
  error or a `TearDown` nothing is left, and a `SetUp` that succeeds has kept its promise.
* utils: decisions from values that are read one after the other and are stale when
  used. Correct means: the nodes did agree, and the waits end.
* solveBlock: solvers that send on an unbuffered channel although the first result
  ends the search, nonce ranges with a remainder, a counter that overflows.

`PROJECT.json` lists the hazards at their lines, with the properties that watch them.

## Modules

| Module | What it is |
|---|---|
| `Chain` | Blocks reduced to the wallet's outpoints, and the validity rules of dcrd the handlers rely on (external) |
| `WalletView` | Abstract specification: coins change by whole blocks, each applied once and in order, or undone from the tip |
| `MemWallet` | `memwallet.go` with the dispatcher, the signalling goroutines and the callers |
| `NodeProcess` | `node.go` and `ipc.go` with dcrd and the context |
| `Harness` | `SetUp` and `TearDown` of `rpc_harness.go`; extends `NodeProcess` and takes its steps |
| `VotingWallet` | `votingwallet.go` with its RPC client's dispatcher and dcrd's pool and lottery |
| `NodeSync` | `utils.go` against nodes that mine, relay, connect and disconnect |
| `SolveBlock` | `solveBlock` of `simnet_miner.go` |
| `MCMemWallet`, `MCNodeProcess`, `MCHarness`, `MCVotingWallet`, `MCNodeSync`, `MCSolveBlock` | Instances for TLC |
| `ChainProofs` | Lemmas about `Chain` |
| `MemWalletProofs`, `MemWalletCallProofs` | Theorems about `MemWallet`: the coins, the queue and the addresses; what callers rely on, and that it implements `WalletView` |
| `NodeProcessProofs` | Theorems about `NodeProcess` |
| `SolveBlockProofs` | Theorems about `SolveBlock` |
| `HarnessProofs` | Theorems about `Harness`: it implements `NodeProcess`, releases what it took, and leaves mature outputs |
| `VotingWalletProofs` | Theorems about `VotingWallet`: the dispatcher, the coins and the chain of a calm run, the votes slice, whose votes are sent |
| `NodeSyncProofs` | Theorems about `NodeSync`: what a return of `JoinNodes` says, what `ConnectNode` waits for |

A definition `X_Fault` (for example `MutexFree_CallersUnlocked`) is `X` with a
plausible programming error. No formula uses it; substituted for `X` it makes TLC
report the property named with it in `PROJECT.json`.

### MemWallet and the code

A critical section of the mutex that waits for nothing is one action (`UnwindBlock`,
`UnlockOutputs`, a `CreateTransaction` without change). Two are not: `chainSyncer`
takes the mutex (`SyncerLock`), evaluates one transaction per step (`EvalTx`) and
commits (`SyncerCommit`); a call that needs an address takes it (`NewAddress`,
`CreateTransaction`) and finishes with the reply (`FilterLoaded`) or an error
(`LoadFailed`). The reply may still be handed out while the client is shutting down, and
a `CreateTransaction` that got its address may fail to sign an input: the address and its
index are then used up and nothing is locked. `MutexFree` is the mutex. `spc` is `chainSyncer`'s place in its loop,
`signals` the number of signalling goroutines that have not delivered. The queue's own
mutex protects single steps and is left out.

`utxos`, `maturityHeight` and `locked` are the fields of the utxo objects by outpoint.
An object that an undo entry keeps also keeps its lock, so `locked` may name an
outpoint outside `utxos`; a new object is unlocked (`LockedAfter`). A coin selection is
any nonempty set of spendable coins, because the loop over the map is random and the
amounts are the test's; whether there is change is free as well. `ConfirmedBalance`
and `SyncedHeight` only read.

`broadcast`, `held`, `abandoned`, `used` and `unwound` are history: the transactions
dcrd knows, those a test still holds, those `SendOutputs` built and lost, the outpoints
that exist, the blocks that were undone. `panic` records that the process crashed.

### NodeProcess and the code

`main` follows the goroutine that runs `SetUp` and `TearDown` through `start` and
`stop`, `after` says to whom `stop` returns. The wait group is `ReadersDone` and the
waiter's state. Each fallible call of `start` may fail. dcrd may exit at any time with
any status, write its messages at any speed, and shuts down once `pipeRX` is closed.
The parent keeps its own write end of `pipeTX` open, so the IPC goroutine sees an end
of that pipe only when `stop` closes the read end. `cleanup` may fail to remove the pid
file; that is the error `shutdown` returns.

### Harness and the code

One goroutine runs `SetUp` and `TearDown`, and inside them `start` and `shutdown`. It is
`main` of `NodeProcess` while it is in the node's code, and `hpc` says at which statement
of `SetUp` or `TearDown` it is. `TearDownNode` starts `Shutdown` of `NodeProcess`,
`NodeMain` is every step of it, and `TearDownNodeDone` or `TearDownNodeFails` takes over
when it returned; `NodeOther` are the node's goroutines, which run all the time. Every
RPC may fail; it succeeds only while dcrd runs and the connection lives (`Online`). The
connection may be lost at any time (`ConnectionLost`) and is not made again, because
`connectRPCClient` disables the reconnection. The wallet is reduced to the height and
the coinbases that `IngestBlock` records in the order of the notifications: `MemWallet`
shows that the queue in between keeps that order (`ImplementsView`). `left` counts the
blocks `Generate` has still to make, because their notifications arrive during the call.
`ntfns` are the notifications under way, lost when dcrd or the connection ends. The test may
call `TearDown` again after it returned, as the deferred call and the test's own do.

### VotingWallet and the code

`wire` is the connection of the wallet's client. It carries notifications and replies in
the order dcrd wrote them, and the dispatcher (`onBlockConnected`, `onWinningTickets`,
`DeliverAnswer`, and the replies that `GenerateBlocks` waits for) takes them off its
head: a channel that is full stops all that is behind. `handler` is where
`handleNotifications` is, `work` the locals of the notification it handles: the
transactions sent, how many promises were received, the winners still to look at
and the length of the slice `votes`. Each return of an error is a disjunct that loses what the
code loses. `GenerateBlocks` sends a request in one action and takes the reply in another
(`GetBestBlock`, which may fail, and the miner); `gen` is its place and its locals. The two
`GetRawMempool` of one look at the pools are one request (`Poll`): the goroutine that asks
is the one that makes the blocks, so between the two the pools can only grow, and which can only make a
look that succeeds come later.

dcrd is external: it refuses tickets whose coin is not mature, answers requests in any
order, mines what is in its pool, and makes no block without votes or live tickets
(`CanMine`). Its lottery draws live tickets in any order, each once (`Lottery`). A coin keeps its identity from `w.utxos` through the ticket and the vote back to
`w.utxos`; amounts are left out.

### NodeSync and the code

`joiner` is a goroutine in `JoinNodes`, `main` one in any of the other helpers. Each RPC
is one step, and the nodes may change between two of them. `had` and `left` are history:
what each node had since the joiner's loop began anew, and whether a peer left since
main's call began. `GetRawMempool` lists a pool in any order and the code compares lists
(`utils.go:68`), as the model does.

### SolveBlock and the code

The proof of work is any set `good` of nonces. A solver checks for `quit` and tests
one nonce in a step; a rendezvous with main on `results` is `Receive`. Nonces have the width
that `MaxNonce` gives and wrap around.

## Runs

| Run | Question | Result |
|---|---|---|
| `wallet_safety` | Are coins, journal, queue, addresses, locks, maturity and height consistent in every interleaving? | holds (2.9 million states) |
| `wallet_view` | Does memWallet implement `WalletView`? Is every block applied, does `Stop` return, do deadlines resolve the deadlock? | holds |
| `wallet_unwind` | Does `UnwindBlock` always find its undo entry? | violated |
| `wallet_respend` | Is a coin promised to one transaction only? | violated |
| `wallet_deadlock` | Does `NewAddress` return without a deadline? | violated |
| `node_process` | Are processes, waits and goroutines cleaned up, do `start` and `stop` return, are both addresses published? | holds |
| `harness` | Does whatever failed in `SetUp` and `TearDown` leave anything behind? Are the outputs mature when `SetUp` returns? Do both return? | holds (522 thousand states) |
| `voting_wallet` | Are coins kept, does the chain go on, is the dispatcher never blocked, does `GenerateBlocks` go on? | holds (1.25 million states) |
| `node_sync` | What does a return of `JoinNodes` say, and do `JoinNodes` and `ConnectNode` return? | holds (323 thousand states) |
| `solve_block` | Is a nonce found exactly when there is one, and does every solver end? | holds |
| `node_ipc` | Does `nextIPCMessage` return every message? | violated |
| `node_hang` | Does `stop` return after the pid file could not be written? | violated |

What the violated runs show:

* `wallet_unwind`. A block is connected and disconnected before `chainSyncer` pops
  its update. `UnwindBlock` reads a nil undo entry and dereferences it
  (`memwallet.go:365-367`).
* `wallet_respend`. A coin is selected; the block that created it is disconnected and
  its transaction mined again; `evalOutputs` makes a new, unlocked object, and the coin
  is selected again (`memwallet.go:320`). `OutstandingInputsLocked`, which holds, says
  that this is the only way a lock is lost.
* `wallet_deadlock`. `newAddress` holds the mutex and waits for a reply; the
  dispatcher is in `UnwindBlock` and waits for the mutex. `DeadlinesBreakDeadlock`,
  which holds, says that a context with a deadline resolves it.
* `node_ipc`. `nextIPCMessage` makes a new buffered reader per call; what it read
  beyond the message is lost (`ipc.go:64`).
* `node_hang`. `stop` waits for `cmdDone`, but the goroutine that sends on it is
  launched only after the pid file was written (`node.go:329`, `:414`).

What the other runs say, and what they had to leave out:

* `wallet_view`. `BlocksGetApplied` is stated for each block: once it is notified it is
  applied, in full, unless it is disconnected again, the wallet is stopped or the
  process crashed. That the queue is emptied would not be enough: `chainSyncer` may hold the
  last update and wait for the mutex.

* `voting_wallet`. `CoinsConserved` accounts for each coin in `w.utxos`, `w.tickets`,
  `w.maturingVotes` or in the hands of the handler, whichever channel is served first,
  and no coin waits for a block that was handled already. `ChainContinues` says that
  `requiredTicketCount` is enough; with one block's worth less it fails. Both are stated
  for a calm run (`Calm`): after a refused transaction, a failing signature or a timeout
  the code has lost coins and promises nothing. `DispatcherFree` holds in every run and
  is the answer to the comment at `votingwallet.go:175`: a buffer larger than the ticket maturity
  is enough, because without tickets of the handler the chain cannot go further. The
  code has 20 and simnet a maturity of 16. With a buffer of 1 and a maturity of 1 TLC
  finds the handler waiting for a reply behind a notification that does not fit.
  `PanicOnlyAtZero`: `LimitNbVotes(0)` makes the next vote index an empty slice
  (`votingwallet.go:529`), a limit above zero never does, even when it changes while
  votes are made.
* `harness`. `SyncEnds` says that the loop at the end of `SetUp` ends, or dcrd exited or the
  connection was lost: in these cases `SetUp` may wait for ever, whatever its context
  (`rpc_harness.go:279`). `TearDownReturns` leaves out the hang that
  `node_hang` shows.
* `node_sync`. `JoinSawOneValue` is what `JoinNodes` does guarantee: not that the nodes agree
  when it returns, nor at any one moment, but that there is a value each of them had since
  the last mismatch. `ConnectReturns` is stated for calls during which no peer leaves.
  It also leaves out an earlier connection to the same node that is still there when
  `ConnectNode` counts: the `continue` of `RemoveNode` (`utils.go:166`) goes on with the next
  peer of the same list, so `RemoveNode` returns after one look whether or not the
  connection is gone, and a `ConnectNode` that follows counts the old connection and may wait
  for ever. `JoinBlocksReturns` has no counterpart for memory pools, because two lists of
  the same transactions need never come in the same order.

Some behaviour of the code that a reader may not expect is in the models and allowed by
the statements that hold; these statements do not watch it, they say that nothing else
happens:

* An output that a disconnected block both created and spent comes back as a coin
  (`Phantoms` in `UtxosMatchChain`, `Retract` of `WalletView`), because `UnwindBlock`
  deletes what was created before it puts back what was destroyed (`memwallet.go:367`).
* `currentHeight` stays where it was after a disconnection (`memwallet.go:352`), so
  `SyncedHeightNotBehind` claims equality only before the first.
* `SendOutputs` drops a transaction that could not be sent, with its coins locked
  (`memwallet.go:506`), and `UnlockOutputs` skips a coin that a block took, which is locked
  when the block is unwound (`memwallet.go:588`). `LocksAccounted` counts both transactions as
  owners of their coins.
* A dcrd that exits with status 0 before it wrote its addresses makes `start` return nil
  (`node.go:357`), an exception in `PublishedAddrs`.
* A `stop` that finds the process gone closes no pipe and leaves the IPC goroutine
  behind (`node.go:382`). `GoroutinesEnd` speaks of the other stops.
* A dcrd that ignores the closed pipe keeps `stop` waiting (`node.go:410`): the fairness of
  `DcrdShutdown` excludes it.
* A limit of zero votes panics (`votingwallet.go:529`), the case `PanicOnlyAtZero` names.
* The nodes of `JoinNodes` need not have agreed at one moment (`utils.go:88`), and
  `ConnectNode` may be satisfied by another peer or wait for one that left (`utils.go:134`).

### Bounds

`wallet_safety`: two outpoints (a coin and the change that spends it), two callers
(the mutex and the index are contended), three connections and two disconnections (a
reorganization of depth two, one of depth one with a reconnection), two transactions
per block (a block that creates and spends), `CoinbaseMaturity` 1 (a coinbase is
immature at its own height), two indexes besides the coinbase's being the smallest
number at which an index could be issued twice. Outpoints and callers are
symmetric. `wallet_view` checks liveness and refinement and therefore has no symmetry,
one caller, two connections and one disconnection, which still include every action.
`node_process` has no bound but the three messages dcrd writes, one of a type the
harness does not know. `harness` adds two attempts to connect (one that is retried, one
that is the last) and a target of no or one mature output at `CoinbaseMaturity` 1, which makes
three blocks.

`voting_wallet`: two tickets per block (one vote is not all votes), maturities of 1,
votes from block 4 on and a chain of six blocks: tickets of block 2 are
the first, the first coin that a vote returned is spent on a ticket at block 6, the last one. Two
places in each channel are one more than the ticket maturity, the smallest for which `DispatcherFree`
holds. `MaxCall` 2: one call makes one or two blocks. `MaxFaults` 1: one thing the
wallet does not stand happens in a behaviour, at any point; two are not combined.
`GenerateOther` counts as one only when it makes a block that needs tickets.

`node_sync`: three nodes (two can agree while the third does not), a connection of the
third node that comes up while the first connects to the second, one transaction, heights
0 and 1 (nodes may start apart), one lost connection. `solve_block`: three cores and nine
nonces, ranges of 2, 2 and 5, and every set of solving nonces; `SolveBlockProofs` has all
other sizes.

Deadlock is not checked because every one of these systems may
end: a stopped wallet, a crashed process, a shut down node.

### Fairness

* `chainSyncer` between its waits, signalling goroutines, readers, waiter and IPC
  goroutine: weak fairness, the Go scheduler runs every goroutine that can run.
* `SyncerLock` and `UnwindBlock`: strong fairness. They wait for a mutex that others
  take again and again; Go's mutex hands itself to a waiter after a millisecond.
* `FilterLoaded`: strong fairness. dcrd answers, and the dispatcher delivers the
  answer when it is free.
* `LoadAborted`: weak fairness. The client fails pending requests when it is shut down.
* dcrd shuts down once `pipeRX` is closed (`DcrdShutdown`).
* The goroutines of `Harness`, `VotingWallet`, `NodeSync` and `SolveBlock`, and the dispatcher of the
  voting wallet's client: weak fairness. A receive from `results` waits for one of
  several solvers; each gets its turn because each sends once.
* dcrd answers the voting wallet's transactions, linked nodes relay blocks, wanted
  connections come up and removed ones are closed: weak fairness, dcrd works on
  what it was asked for.
* Never assumed: that a block comes, a test calls, a context ends, or dcrd exits or
  writes its addresses. Where a context with a deadline is needed, the property
  says so (`ContextsExpire`, `StartReturns`).

## Proofs

For all values of the constants that satisfy the named assumptions
(`CoinbaseMaturityAssumption`, `BoundsAssumption` unless another is named), TLAPS checks:

* `ChainProofs`: what `Created`, `Spent` and `Unspent` do when a valid block is put on
  or taken off a chain (`UnspentStep`).
* `CoreInvariant`: the conjunction `CoreInv` of `TypeOK`, `OrderInv` (the queue and the
  update in flight are the last blocks of a valid chain, in order), `JournalInv` (each
  applied block has an undo entry with exactly what it created and destroyed)
  and `CoinsInv` (the coins are the unspent outputs of the applied blocks and of the
  evaluated part of the next one) is inductive. `UtxosMatchChain` is not inductive by
  itself: `UnwindBlock` uses the journal, the journal is filled from `undo`, and `undo`
  is right only because the update is the block that follows the applied ones.
* From it `TypeCorrect`, `CoinsCorrect` (`UtxosMatchChain`) and `JournalCorrect`
  (`JournalCoversApplied`).
* `SignalsCorrect` (`SignalsCoverQueue`), inductive with the types.
* `AddressesCorrect` (`AddressesContiguous`), with mutual exclusion of the callers and
  `chainSyncer` as the strengthening.
* `HeightCorrect` (`SyncedHeightNotBehind`). Inductive only with what holds while a
  block is evaluated, when the height already is the block's (`HeightInv`), and with
  `CoreInv`, which says that this block is the one after the applied ones.
* `SelectionCorrect` (`SelectionStaysSpendable`). The steps that could take a selected
  output away need the mutex; that the holder is the only one is proved with the
  addresses.
* `ViewImplemented` (`ImplementsView`): initial states map to initial states and every step
  to `Extend`, `Retract` or a stutter. `UnwindSteps`, `BlockSteps` and `OtherSteps` sort the
  steps of the wallet by what they do to the applied blocks (`Kept`, `Undone`, `Begun`,
  `Evaluated`, `Committed`); `Begun` is `Extend`, `Undone` is `Retract`. That `Evaluated` is a
  stutter needs that a later transaction of a block creates nothing an earlier one spent.
* `MaturityCorrect` (`MaturityRecorded`), by the same cases: the evaluation cannot overwrite a
  maturity, because a valid block creates new outputs only, and the height it adds to is the
  block's (`HeightInv`).
* `LocksCorrect` (`OutstandingInputsLocked`) and `AccountsCorrect` (`LocksAccounted`). `LockInv`
  says more than the former: the coins of an outstanding transaction are locked even when they
  are not in `utxos`, they were created by a block evaluated so far or by one undone since, and a held
  transaction shares none with another, all of it except for outputs of undone blocks. The second
  part is why `evalOutputs` replaces no locked object unless its block was undone, the third
  why `UnlockOutputs` frees no coin of somebody else. A coin that `UnwindBlock` brings back locked
  has a reason because dcrd knows the transaction that spent it (`MinedInv`).
* `NodeProcessProofs`, under `EventsAssumption`: `TypeCorrect`, `NothingLeft`
  (`NothingLeftRunning`) and `AddrsPublished` (`PublishedAddrs`). The invariant `IInv`
  relates cmdDone to the waiter and the waiter to the process (`WaiterInv`), the place
  in start and stop to the process (`MainInv`), and the result of the select to the
  addresses read (`AddrsInv`).
* `SolveBlockProofs`, under `SolveBlockAssumption`, for any number of cores and any width
  of the nonce: `RangesCover` (no nonce but zero is outside all ranges), `TypeCorrect`,
  and `Search` (`FoundIfSolvable`). The invariant `SearchInv` says which nonces a solver is
  done with (`Tested`), what a failure it sent means (its range is free of solutions, or
  somebody found one), and that main received one result of each solver that is done, which
  makes `got = NumCores` mean that all are. No assumption relates the number of cores
  to that of the nonces: with more cores than nonces the first ranges are empty.
* `HarnessProofs`, under `HarnessAssumption` and `EventsAssumption`: `NodeImplemented`
  (every step of `Harness` is a step of `NodeProcess` or leaves its variables alone), so that the
  invariant of `NodeProcessProofs` holds under the harness, and `ReleasedCorrect`
  (`Released`). The invariant relates `hpc` to the place in `start` and `stop`, to the
  client and to the wallet: each statement of `TearDown` is reached only with what the
  statements before it released gone. That dcrd does not run at those places comes from
  the node's own invariant.

  `MatureOutputsCorrect` (`MatureOutputs`), for any maturity and target: `DeliveryInv` says
  that the wallet has the notifications of the first blocks, in order, and that the rest is
  on its way unless dcrd or the connection is gone; `TestChainInv` follows the heights
  through `SetUp`, from the filter that is loaded before `Generate` to the loop that
  compares them. When the loop ended the wallet has the coinbases of `NumToGenerate` blocks,
  and all but the last `CoinbaseMaturity` of those that pay it are mature.
  `HarnessTypeCorrect` needs `BoundInv`.
* `VotingWalletProofs`, under `VotingWalletAssumption` (tickets are bought from height 1 on
  or later), for any number of tickets per block, maturities, buffers, chain length and
  faults:

  * `DispatcherCorrect` (`DispatcherFree`), under the further hypothesis `BufferLen >
    TicketMaturity`, for every behaviour, faults included. `OrderInv` says that there are a
    `c` and a `v`, the last block and the last drawing that the handler took, such that the
    channel and then the connection hold exactly the notifications behind them, in order
    (`InOrder`), and that what dcrd has of tickets and votes is of these (`Bounded`,
    `InHand`). A block above the first drawing needs tickets drawn for it, all tickets were
    bought by the handler, and drawn tickets are not drawn again: counting them bounds
    `height - c`, which bounds a full channel. The code has 20 and simnet 16. The hypothesis
    is sharp: TLC finds the blocked dispatcher when both are 1.
  * `ChainContinuesCorrect` and `CoinsConservedCorrect`, with no further hypothesis:
    `CoinsConserved` counts, which is inductive only if one knows which coin is where.
    `CalmKept` says that while the run is calm there are such `c` and `v` with `Steady(c,
    v)`: each ticket was mined in the block after the one it was bought for, won
    `TicketMaturity` blocks later and voted in the block after that (`CalmChain`); so that
    `w.utxos`, `w.tickets`, each entry of `w.maturingVotes`, the locals of the handler and
    what is under way to dcrd follow from `c` and `v` up to their order, whichever channel
    is read first (`CalmWallet`, `CalmWork`, `CalmOutbox`). `GenerateBlocks` goes on only
    when all tickets and votes of the tip are in the memory pool (`Met`, `CalmReplies`),
    which keeps the chain from running ahead. The number of coins (`Share`) is never below
    one block's purchase: that is where `requiredTicketCount` is needed exactly.
  * `PanicCorrect` (`PanicOnlyAtZero`). `CapInv` says that the limit is never above the
    length of `votes` once it was made, because `LimitNbVotes` accepts only lower limits,
    and that a winner is looked at only when there is room for its vote.
  * `TypeCorrect`, and `OnlyWinnersVote`: a vote that is sent, in the memory pool or mined
    is of a ticket that won a block, in every behaviour. `WonInv` follows the winners
    through the connection, the channel and the locals of the handler.
* `NodeSyncProofs`, under `NodeSyncAssumption` (which says that there are finitely many
  transactions and at least one node and one height): `JoinCorrect` (`JoinSawOneValue`).
  `JoinInv` says that each node passed in this round had what the joiner collected at some
  time since the round began. It needs that two heights without a mismatch are equal
  (`NoMismatch`) and that a listing of a pool in any order has its transactions
  (`ListingOfPool`).

  `ConnectCorrect` is the safe half of `ConnectReturns`: `ConnectNode` waits only for a
  connection that is wanted, and once it is there the wait is over unless a peer left
  (`WaitEnds`). What remains for TLC is that a wanted connection comes up and that the loop
  looks again. `WaitInv` compares the count remembered with the peers there are, whatever
  other connections come in between. `TypeCorrect` are the types.

## Only model-checked

Proved are all invariants that the passing runs check, and that `MemWallet` implements
`WalletView`. Liveness (`BlocksGetApplied`, `StopReturns`, `SignallersExit`,
`DeadlinesBreakDeadlock`, `NodeStopReturns`, `StartReturns`, `GoroutinesEnd`, `SyncEnds`,
`TearDownReturns`, `GenerateGetsReqs`, `JoinBlocksReturns`, `ConnectReturns`,
`AllSolversEnd`) is out of the prover's reach and stays with TLC.

## Plan

The modules of the first plan are written except for the arithmetic of `fundTx`. Next, in
this order:

1. Action properties: what a step of `VotingWallet` may never take back (a vote that was mined,
   a ticket that was drawn), and which steps of `MemWallet` may lower the height.
2. `CoinSelection`, the arithmetic of `fundTx`, as a function checked against a reference
   definition.

## Not modelled

`AdjustedSimnetMiner` and `waitPredicate`: one goroutine, a sequence of RPCs and header
arithmetic, whose waits depend on dcrd alone. The amounts and fees of `fundTx` and of the
voting wallet's transactions. The votes for treasury spends (`VoteForTSpends`), which change
what a vote says and not what is sent. Errors of `New` and `NewVotingWallet`, after
which there is nothing to call; such an error of `New` leaves the temporary directory
behind (`rpc_harness.go:127`). The seed of the wallet's keys, whose first bytes the id of the
harness overwrites rather than extends (`memwallet.go:136`).

Building dcrd, certificates, command lines, log output, the layout of IPC messages,
what signatures and derived keys are (that signing may fail is modelled): sequential code without state that the properties
could tell apart. Windows' pipe handles and the signal that `stop` sends when closing
`pipeRX` fails are left out as well.
