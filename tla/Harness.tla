------------------------------- MODULE Harness -------------------------------
(***************************************************************************)
(* Harness.SetUp and Harness.TearDown of src/dcrdtest/rpc_harness.go, over *)
(* the dcrd process and the goroutines of NodeProcess, with the RPC client *)
(* and the part of memWallet that follows the chain.                       *)
(*                                                                         *)
(* One goroutine, main of NodeProcess, runs both: hpc is where it is in    *)
(* SetUp and TearDown, main where it is inside node.start and              *)
(* node.shutdown.  An RPC may fail at any time, and fails for sure when    *)
(* dcrd is gone or the connection is lost: the client does not reconnect.  *)
(*                                                                         *)
(* X_Fault is X with a plausible programming error, used by no formula.    *)
(***************************************************************************)
EXTENDS NodeProcess, FiniteSets

CONSTANTS
    CoinbaseMaturity,
    Targets,        \* values of numMatureOutputs, 0 for no test chain
    MaxConnRetries  \* h.maxConnRetries

\* numMatureOutputs is a uint32: there is a largest value.
ASSUME HarnessAssumption ==
    /\ {CoinbaseMaturity, MaxConnRetries} \subseteq Nat \ {0}
    /\ Targets \subseteq Nat
    /\ \E n \in Targets : \A m \in Targets : m <= n

VARIABLES
    hpc,        \* the next statement of SetUp or TearDown
    setUp,      \* what SetUp returned: "none", "ok" or "err"
    tearDown,   \* what the last TearDown returned: "none", "ok" or "err"
    nodeSet,    \* h.node is not nil
    client,     \* h.Node: "none", connected ("up"), or "down" for good: the
                \* connection is lost or the client shut down
    attempts,   \* failed attempts to connect
    wallet,     \* h.wallet: "new", "running" or "stopped" (and nil)
    dir,        \* h.testNodeDir: "there", "removed" or "stuck" (not removable)
    keep,       \* h.keepNodeDir
    target,     \* numMatureOutputs
    left,       \* blocks Generate still has to make
    height,     \* height of dcrd's chain
    filtered,   \* dcrd filters for the wallet's address
    registered, \* dcrd notifies of blocks
    ntfns,      \* block notifications on their way to the wallet
    best,       \* what GetBestBlock returned
    walletHeight, coinbases \* SyncedHeight, and the blocks that paid the wallet

callVars == <<hpc, setUp, tearDown, nodeSet, keep, target, attempts>>
chainVars == <<left, height, filtered, registered>>
walletVars == <<wallet, walletHeight, coinbases>>
harnessVars == <<callVars, client, dir, chainVars, ntfns, best, walletVars>>
allVars == <<vars, harnessVars>>

SetUpSteps == {"start", "connect", "wallet", "filter", "notify", "generate", "best", "sync"}
TearDownSteps == {"client", "node", "shutdown", "stopwallet", "dir"}

MaxTarget == CHOOSE n \in Targets : \A m \in Targets : m <= n
NumToGenerate_Fault(n) == CoinbaseMaturity + n

\* An extra block for the premine.
NumToGenerate(n) == CoinbaseMaturity + n + 1

Heights == 0..NumToGenerate(MaxTarget)

HarnessTypeOK ==
    /\ TypeOK
    /\ hpc \in {"new", "ready", "done"} \union SetUpSteps \union TearDownSteps
    /\ {setUp, tearDown} \subseteq {"none", "ok", "err"}
    /\ {nodeSet, keep, filtered, registered} \subseteq BOOLEAN
    /\ client \in {"none", "up", "down"}
    /\ wallet \in {"new", "running", "stopped"}
    /\ dir \in {"there", "removed", "stuck"}
    /\ target \in Targets /\ attempts \in 0..MaxConnRetries
    /\ {left, height, best, walletHeight} \subseteq Heights
    /\ ntfns \in Seq([height : Heights, pays : BOOLEAN])
    /\ coinbases \subseteq Heights

\* New returned: the directory is there, nothing runs yet.
HarnessInit ==
    /\ Init
    /\ hpc = "new" /\ setUp = "none" /\ tearDown = "none"
    /\ nodeSet = TRUE /\ client = "none" /\ attempts = 0
    /\ wallet = "new" /\ dir = "there" /\ keep \in BOOLEAN
    /\ target \in Targets /\ left = 0 /\ height = 0
    /\ filtered = FALSE /\ registered = FALSE /\ ntfns = <<>> /\ best = 0
    /\ walletHeight = 0 /\ coinbases = {}

-----------------------------------------------------------------------------
(* SetUp                                                                   *)

SetUp ==
    /\ hpc = "new"
    /\ hpc' = "start"
    /\ UNCHANGED <<vars, setUp, tearDown, nodeSet, keep, target, attempts, client, dir,
                   chainVars, ntfns, best, walletVars>>

GoTo(step) ==
    /\ hpc' = step
    /\ UNCHANGED <<vars, setUp, tearDown, nodeSet, keep, target, dir>>

\* A step of SetUp returns an error; the deferred function tears down.
Fail_Fault ==
    /\ hpc' = "done" /\ setUp' = "err"
    /\ UNCHANGED <<vars, tearDown, nodeSet, keep, target, dir, client, attempts, chainVars,
                   ntfns, best, walletVars>>

Fail ==
    /\ hpc' = "client" /\ setUp' = "err"
    /\ UNCHANGED <<vars, tearDown, nodeSet, keep, target, dir, client, attempts, chainVars,
                   ntfns, best, walletVars>>

NodeStarted ==
    /\ hpc = "start" /\ main = "up"
    /\ GoTo("connect")
    /\ UNCHANGED <<client, attempts, chainVars, ntfns, best, walletVars>>

NodeFailed == hpc = "start" /\ main = "failed" /\ Fail

\* connectRPCClient: every attempt may fail, the last one for good.
Connect ==
    /\ hpc = "connect" /\ dcrd = "running"
    /\ client' = "up"
    /\ GoTo("wallet")
    /\ UNCHANGED <<attempts, chainVars, ntfns, best, walletVars>>

ConnectAgain ==
    /\ hpc = "connect" /\ attempts + 1 < MaxConnRetries
    /\ attempts' = attempts + 1
    /\ GoTo("connect")
    /\ UNCHANGED <<client, chainVars, ntfns, best, walletVars>>

ConnectFails == hpc = "connect" /\ attempts + 1 = MaxConnRetries /\ Fail

StartWallet ==
    /\ hpc = "wallet"
    /\ wallet' = "running"
    /\ GoTo("filter")
    /\ UNCHANGED <<client, attempts, chainVars, ntfns, best, walletHeight, coinbases>>

\* The statement after each of the RPCs.
After_Fault(step) ==
    CASE step = "filter"   -> IF target = 0 THEN "notify" ELSE "generate"
      [] step = "generate" -> "notify"
      [] step = "notify"   -> "best"
After(step) ==
    CASE step = "filter"   -> "notify"
      [] step = "notify"   -> IF target = 0 THEN "best" ELSE "generate"
      [] step = "generate" -> "best"

\* An RPC can succeed.
Online == client = "up" /\ dcrd = "running"

ToGenerate(step) == IF After(step) = "generate" THEN NumToGenerate(target) ELSE 0

LoadTxFilter ==
    /\ hpc = "filter" /\ Online
    /\ filtered' = TRUE
    /\ left' = ToGenerate("filter")
    /\ GoTo(After("filter"))
    /\ UNCHANGED <<client, attempts, height, registered, ntfns, best, walletVars>>

NotifyBlocks ==
    /\ hpc = "notify" /\ Online
    /\ registered' = TRUE
    /\ left' = ToGenerate("notify")
    /\ GoTo(After("notify"))
    /\ UNCHANGED <<client, attempts, height, filtered, ntfns, best, walletVars>>

\* dcrd makes one of the blocks that Generate asked for, whether or not the
\* connection still lives.  The first block of a chain is the premine; it pays
\* nothing to the wallet.
GenerateBlock ==
    /\ hpc = "generate" /\ dcrd = "running" /\ left > 0
    /\ height' = height + 1 /\ left' = left - 1
    /\ ntfns' = IF registered /\ client = "up"
                  THEN Append(ntfns, [height |-> height', pays |-> filtered /\ height' > 1])
                  ELSE ntfns
    /\ GoTo("generate")
    /\ UNCHANGED <<client, attempts, filtered, registered, best, walletVars>>

Generated ==
    /\ hpc = "generate" /\ left = 0 /\ Online
    /\ GoTo(After("generate"))
    /\ UNCHANGED <<client, attempts, chainVars, ntfns, best, walletVars>>

GetBestBlock ==
    /\ hpc = "best" /\ Online
    /\ best' = height
    /\ GoTo("sync")
    /\ UNCHANGED <<client, attempts, chainVars, ntfns, walletVars>>

RpcFails == hpc \in {"filter", "notify", "generate", "best"} /\ Fail

\* The ticker loop looks at the wallet only, not at the context or the client.
Synced ==
    /\ hpc = "sync" /\ walletHeight = best
    /\ hpc' = "ready" /\ setUp' = "ok"
    /\ UNCHANGED <<vars, tearDown, nodeSet, keep, target, dir, client, attempts, chainVars,
                   ntfns, best, walletVars>>

-----------------------------------------------------------------------------
(* The wallet's goroutine and the connection                               *)

\* IngestBlock and ingestBlock, in the order of the notifications.
IngestBlock ==
    /\ wallet = "running" /\ ntfns # <<>>
    /\ ntfns' = Tail(ntfns)
    /\ walletHeight' = Head(ntfns).height
    /\ coinbases' = IF Head(ntfns).pays THEN coinbases \union {Head(ntfns).height} ELSE coinbases
    /\ UNCHANGED <<vars, callVars, client, dir, chainVars, best, wallet>>

\* The connection is lost while dcrd lives on; nothing brings it back
\* (DisableAutoReconnect).
ConnectionLost ==
    /\ client = "up" /\ client' = "down"
    /\ UNCHANGED <<vars, callVars, dir, chainVars, ntfns, best, walletVars>>

\* What dcrd wrote last may be lost with it, or with the connection.
LoseNtfns ==
    /\ ntfns # <<>> /\ (dcrd = "exited" \/ client = "down")
    /\ ntfns' = <<>>
    /\ UNCHANGED <<vars, callVars, client, dir, chainVars, best, walletVars>>

-----------------------------------------------------------------------------
(* TearDown, called by SetUp's deferred function or by the test            *)

\* The test tears down, again if it likes.  TearDownInTest keeps the
\* directory of a failed test.
TearDown ==
    /\ hpc \in {"ready", "done"}
    /\ hpc' = "client" /\ keep' \in {keep, TRUE}
    /\ UNCHANGED <<vars, setUp, tearDown, nodeSet, target, attempts, client, dir,
                   chainVars, ntfns, best, walletVars>>

TearDownClient ==
    /\ hpc = "client"
    /\ client' = IF client = "up" THEN "down" ELSE client
    /\ GoTo("node")
    /\ UNCHANGED <<attempts, chainVars, ntfns, best, walletVars>>

\* h.node is cleared before its shutdown, which NodeProcess carries out.
TearDownNode ==
    /\ hpc = "node" /\ nodeSet
    /\ nodeSet' = FALSE /\ Shutdown
    /\ hpc' = "shutdown"
    /\ UNCHANGED <<setUp, tearDown, keep, target, attempts, client, dir, chainVars, ntfns,
                   best, walletVars>>

TearDownNoNode ==
    /\ hpc = "node" /\ ~nodeSet
    /\ GoTo("stopwallet")
    /\ UNCHANGED <<client, attempts, chainVars, ntfns, best, walletVars>>

ShutdownReturned == main = "down"

TearDownNodeDone ==
    /\ hpc = "shutdown" /\ ShutdownReturned
    /\ pidFile # "created"
    /\ GoTo("stopwallet")
    /\ UNCHANGED <<client, attempts, chainVars, ntfns, best, walletVars>>

\* The pid file could not be removed: TearDown returns early.
TearDownNodeFails ==
    /\ hpc = "shutdown" /\ ShutdownReturned
    /\ pidFile = "created"
    /\ hpc' = "done" /\ tearDown' = "err"
    /\ UNCHANGED <<vars, setUp, nodeSet, keep, target, attempts, client, dir, chainVars,
                   ntfns, best, walletVars>>

TearDownWallet ==
    /\ hpc = "stopwallet"
    /\ wallet' = "stopped"
    /\ GoTo("dir")
    /\ UNCHANGED <<client, attempts, chainVars, ntfns, best, walletHeight, coinbases>>

TearDownDir ==
    /\ hpc = "dir"
    /\ \/ keep /\ UNCHANGED dir
       \/ ~keep /\ dir' \in {"removed", "stuck"}
    /\ hpc' = "done" /\ tearDown' = "ok"
    /\ UNCHANGED <<vars, setUp, nodeSet, keep, target, attempts, client, chainVars, ntfns,
                   best, walletVars>>

-----------------------------------------------------------------------------

SetUpNext ==
    \/ SetUp \/ NodeStarted \/ NodeFailed \/ Connect \/ ConnectAgain \/ ConnectFails
    \/ StartWallet \/ LoadTxFilter \/ NotifyBlocks \/ GenerateBlock \/ Generated
    \/ GetBestBlock \/ RpcFails \/ Synced

TearDownNext ==
    \/ TearDownClient \/ TearDownNode \/ TearDownNoNode \/ TearDownNodeDone
    \/ TearDownNodeFails \/ TearDownWallet \/ TearDownDir

\* node.start runs once SetUp called it.
NodeMain == (main = "new" => hpc = "start") /\ Main /\ UNCHANGED harnessVars

NodeOther ==
    /\ \/ \E s \in Streams : Reader(s)
       \/ IpcRead \/ IpcDone \/ WaiterSend \/ WaiterClose \/ DcrdSend \/ DcrdExit \/ ContextDone
    /\ UNCHANGED harnessVars

HarnessNext ==
    \/ SetUpNext \/ TearDown \/ TearDownNext \/ IngestBlock \/ ConnectionLost \/ LoseNtfns
    \/ NodeMain \/ NodeOther

HarnessSpec == HarnessInit /\ [][HarnessNext]_allVars

\* The goroutine that runs SetUp and TearDown, the wallet's, and those of the
\* node go on; dcrd ends once its pipe is closed.
HarnessFairSpec ==
    /\ HarnessSpec
    /\ WF_allVars(SetUpNext) /\ WF_allVars(TearDownNext) /\ WF_allVars(IngestBlock)
    /\ WF_allVars(NodeMain)
    /\ \A s \in Streams : WF_allVars(Reader(s) /\ UNCHANGED harnessVars)
    /\ WF_allVars(WaiterSend /\ UNCHANGED harnessVars)
    /\ WF_allVars(WaiterClose /\ UNCHANGED harnessVars)
    /\ WF_allVars(DcrdShutdown /\ UNCHANGED harnessVars)

-----------------------------------------------------------------------------
(* Properties                                                              *)

\* TearDown takes the directory away from under no running dcrd, in whatever
\* state SetUp left the node: start failed, dcrd exited on its own, the select
\* of start was left by the context.  Whenever SetUp returned an error or
\* TearDown returned, no client is connected and no dcrd runs.  If TearDown
\* returned no error the wallet is stopped and the directory gone, unless it is
\* kept or cannot be removed; so a second TearDown completes what a failed one
\* left out (SetUp, TearDown, node.shutdown, node.stop).
Released ==
    /\ dir # "there" => dcrd # "running"
    /\ hpc = "done" =>
          /\ client # "up" /\ dcrd # "running"
          /\ tearDown = "ok" => wallet = "stopped" /\ (dir = "there" => keep)

\* A SetUp that was asked for a test chain and returned no error leaves a
\* wallet with that many mature coinbase outputs: the filter is loaded and the
\* notifications are on before the blocks are made, the premine is counted in,
\* and the wallet has seen every block (SetUp, IngestBlock).
MatureOutputs ==
    (hpc = "ready" /\ target # 0) =>
        Cardinality({b \in coinbases : b + CoinbaseMaturity <= walletHeight}) = target

\* The loop at the end of SetUp waits for the wallet without a timeout or the
\* context.  It ends as long as dcrd and the connection live.
SyncEnds == hpc = "sync" ~> (hpc # "sync" \/ ~Online)

\* A TearDown returns, if node.start got as far as launching the goroutine that
\* waits for dcrd, or never started dcrd at all.
TearDownReturns ==
    (hpc \in TearDownSteps /\ (waiter # "none" \/ dcrd = "none")) ~> hpc = "done"
=============================================================================
