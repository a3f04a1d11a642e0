--------------------------- MODULE HarnessProofs ---------------------------
(***************************************************************************)
(* Theorems about Harness, for every list of messages, every number of     *)
(* attempts and every length of the test chain: the harness uses the node  *)
(* as NodeProcess says, nothing is left behind, and the wallet has the     *)
(* mature outputs SetUp was asked for.                                     *)
(***************************************************************************)
EXTENDS Harness, NodeProcessProofs, SequenceTheorems, FiniteSetTheorems

-----------------------------------------------------------------------------
(* The harness uses the node as NodeProcess says.                          *)

\* Every statement of SetUp and TearDown that is not a call of the node leaves
\* it alone, and so does the wallet's goroutine.
LEMMA AwayFromNode ==
    ASSUME \/ SetUpNext \/ TearDown
           \/ TearDownClient \/ TearDownNoNode \/ TearDownNodeDone \/ TearDownNodeFails
           \/ TearDownWallet \/ TearDownDir
           \/ IngestBlock \/ ConnectionLost \/ LoseNtfns
    PROVE  UNCHANGED vars
<1>1. CASE SetUpNext
  BY <1>1 DEF SetUpNext, SetUp, NodeStarted, NodeFailed, Connect, ConnectAgain, ConnectFails,
       StartWallet, LoadTxFilter, NotifyBlocks, GenerateBlock, Generated, GetBestBlock,
       RpcFails, Synced, Fail, GoTo
<1>2. CASE TearDown \/ TearDownClient \/ TearDownNoNode \/ TearDownNodeDone
             \/ TearDownNodeFails \/ TearDownWallet \/ TearDownDir
  BY <1>2 DEF TearDown, TearDownClient, TearDownNoNode, TearDownNodeDone,
       TearDownNodeFails, TearDownWallet, TearDownDir, GoTo
<1>3. CASE IngestBlock \/ ConnectionLost \/ LoseNtfns
  BY <1>3 DEF IngestBlock, ConnectionLost, LoseNtfns
<1> QED
  BY <1>1, <1>2, <1>3

\* A step of the harness is a step of the node or leaves it alone.
LEMMA StepOfNode == [HarnessNext]_allVars => [Next]_vars
<1> SUFFICES ASSUME [HarnessNext]_allVars PROVE [Next]_vars
  OBVIOUS
<1>1. CASE SetUpNext \/ TearDown \/ TearDownClient \/ TearDownNoNode \/ TearDownNodeDone
             \/ TearDownNodeFails \/ TearDownWallet \/ TearDownDir \/ IngestBlock \/ ConnectionLost \/ LoseNtfns
  BY <1>1, AwayFromNode
<1>2. CASE TearDownNode
  BY <1>2 DEF TearDownNode, Next
<1>3. CASE NodeMain
  BY <1>3 DEF NodeMain, Next
<1>4. CASE NodeOther
  BY <1>4 DEF NodeOther, Next
<1>5. CASE UNCHANGED allVars
  BY <1>5 DEF allVars
<1> QED
  BY <1>1, <1>2, <1>3, <1>4, <1>5 DEF HarnessNext, TearDownNext

\* SetUp and TearDown call start and shutdown only as NodeProcess allows: the
\* harness implements it, and what is proved of the node holds in the harness.
THEOREM NodeImplemented == HarnessSpec => Spec
<1>1. HarnessInit => Init
  BY DEF HarnessInit
<1> QED
  BY <1>1, StepOfNode, PTL DEF HarnessSpec, Spec

-----------------------------------------------------------------------------
(* Nothing is left behind.                                                 *)

\* h.node is nil from the call of shutdown on, which has returned when TearDown
\* goes on.  The directory goes after that.
NodeInv ==
    /\ ~nodeSet => after = "shutdown" /\ (Stopping \/ main = "down")
    /\ ~nodeSet /\ hpc # "shutdown" => main = "down"
    /\ hpc \in {"shutdown", "stopwallet", "dir", "done"} => ~nodeSet
    /\ hpc = "shutdown" => dir = "there"
    /\ dir # "there" => ~nodeSet

\* The client is shut down before anything else is.
ClientInv == hpc \in {"node", "shutdown", "stopwallet", "dir", "done"} => client # "up"

\* Only a TearDown that came to its end returns no error.
WalletInv ==
    /\ hpc = "dir" => wallet = "stopped"
    /\ hpc = "done" /\ tearDown = "ok" => wallet = "stopped" /\ (dir = "there" => keep)

HarnessInv == NodeInv /\ ClientInv /\ WalletInv

\* What the invariant says does not depend on what the node's goroutines, the
\* wallet's and SetUp change.
LEMMA SetUpStep ==
    ASSUME HarnessInv, UNCHANGED vars, UNCHANGED <<nodeSet, dir>>, hpc # "shutdown",
           hpc' \in {"new", "ready", "client"} \union SetUpSteps
    PROVE  HarnessInv'
  BY DEF HarnessInv, NodeInv, ClientInv, WalletInv, SetUpSteps, Stopping, vars

\* The statements of SetUp, and the call of TearDown.
LEMMA SetUpKeeps ==
    ASSUME HarnessInv, SetUpNext \/ TearDown
    PROVE  HarnessInv'
<1>1. UNCHANGED vars
  BY AwayFromNode
<1>2. UNCHANGED <<nodeSet, dir>>
  BY DEF SetUpNext, SetUp, NodeStarted, NodeFailed, Connect, ConnectAgain, ConnectFails,
       StartWallet, LoadTxFilter, NotifyBlocks, GenerateBlock, Generated, GetBestBlock,
       RpcFails, Synced, Fail, GoTo, TearDown
<1>3. hpc # "shutdown"
  BY DEF SetUpNext, SetUp, NodeStarted, NodeFailed, Connect, ConnectAgain, ConnectFails,
       StartWallet, LoadTxFilter, NotifyBlocks, GenerateBlock, Generated, GetBestBlock,
       RpcFails, Synced, TearDown
<1>4. ASSUME NEW step \in {"filter", "notify", "generate"}
      PROVE  After(step) \in SetUpSteps
  BY DEF After, SetUpSteps
<1>5. hpc' \in {"new", "ready", "client"} \union SetUpSteps
  <2>1. CASE SetUp \/ NodeStarted \/ NodeFailed \/ Connect \/ ConnectAgain \/ ConnectFails
               \/ StartWallet
    BY <2>1 DEF SetUp, NodeStarted, NodeFailed, Connect, ConnectAgain, ConnectFails,
         StartWallet, Fail, GoTo, SetUpSteps
  <2>2. CASE LoadTxFilter \/ NotifyBlocks \/ Generated
    BY <2>2, <1>4 DEF LoadTxFilter, NotifyBlocks, Generated, GoTo
  <2>3. CASE GenerateBlock \/ GetBestBlock \/ RpcFails \/ Synced \/ TearDown
    BY <2>3 DEF GenerateBlock, GetBestBlock, RpcFails, Synced, TearDown, Fail, GoTo, SetUpSteps
  <2> QED
    BY <2>1, <2>2, <2>3 DEF SetUpNext
<1> QED
  BY <1>1, <1>2, <1>3, <1>5, SetUpStep

\* The statements of TearDown.
LEMMA TearDownKeeps ==
    ASSUME HarnessInv, TearDownNext
    PROVE  HarnessInv'
<1>1. CASE TearDownClient
  BY <1>1 DEF HarnessInv, NodeInv, ClientInv, WalletInv, TearDownClient, GoTo, Stopping, vars
<1>2. CASE TearDownNode
  BY <1>2 DEF HarnessInv, NodeInv, ClientInv, WalletInv, TearDownNode, Shutdown, Stopping
<1>3. CASE TearDownNoNode
  BY <1>3 DEF HarnessInv, NodeInv, ClientInv, WalletInv, TearDownNoNode, GoTo, Stopping, vars
<1>4. CASE TearDownNodeDone
  BY <1>4 DEF HarnessInv, NodeInv, ClientInv, WalletInv, TearDownNodeDone, ShutdownReturned,
       GoTo, Stopping, vars
<1>5. CASE TearDownNodeFails
  BY <1>5 DEF HarnessInv, NodeInv, ClientInv, WalletInv, TearDownNodeFails, ShutdownReturned,
       Stopping, vars
<1>6. CASE TearDownWallet
  BY <1>6 DEF HarnessInv, NodeInv, ClientInv, WalletInv, TearDownWallet, GoTo, Stopping, vars
<1>7. CASE TearDownDir
  BY <1>7 DEF HarnessInv, NodeInv, ClientInv, WalletInv, TearDownDir, Stopping, vars, walletVars
<1> QED
  BY <1>1, <1>2, <1>3, <1>4, <1>5, <1>6, <1>7 DEF TearDownNext

\* The goroutines of the node and the wallet, dcrd, and the node's own steps in
\* start and shutdown.
LEMMA OthersKeep ==
    ASSUME HarnessInv, NodeMain \/ NodeOther \/ IngestBlock \/ ConnectionLost \/ LoseNtfns
    PROVE  HarnessInv'
<1>1. CASE NodeMain
  <2>1. UNCHANGED <<nodeSet, hpc, client, dir, wallet, tearDown, keep>>
    BY <1>1 DEF NodeMain, harnessVars, callVars, walletVars
  <2>2. ~(~nodeSet /\ hpc # "shutdown")
    BY <1>1 DEF NodeMain, Main, HarnessInv, NodeInv, StartReaders, StartCommand, StartFailed,
         WritePidFile, LaunchWaiter, SelectContext, SelectCmdDone, SelectAddrs, StopCheck,
         StopCloseRX, StopWaitGroup, StopCmdDone, StopCloseTX
  <2>3. ~nodeSet => after' = "shutdown" /\ (Stopping' \/ main' = "down")
    <3>1. SUFFICES ASSUME ~nodeSet, after = "shutdown", Stopping
                   PROVE  after' = "shutdown" /\ (Stopping' \/ main' = "down")
      BY <1>1 DEF NodeMain, Main, HarnessInv, NodeInv, StartReaders, StartCommand, StartFailed,
           WritePidFile, LaunchWaiter, SelectContext, SelectCmdDone, SelectAddrs, StopCheck,
           StopCloseRX, StopWaitGroup, StopCmdDone, StopCloseTX
    <3>2. StopCheck \/ StopCloseRX \/ StopWaitGroup \/ StopCmdDone \/ StopCloseTX
      BY <1>1, <3>1 DEF NodeMain, Main, Stopping, StartReaders, StartCommand, StartFailed,
           WritePidFile, LaunchWaiter, SelectContext, SelectCmdDone, SelectAddrs
    <3> QED
      BY <3>1, <3>2 DEF Stopping, StopCheck, StopCloseRX, StopWaitGroup, StopCmdDone,
           StopCloseTX, Return
  <2> QED
    BY <2>1, <2>2, <2>3 DEF HarnessInv, NodeInv, ClientInv, WalletInv
<1>2. CASE NodeOther
  <2>1. UNCHANGED <<nodeSet, hpc, client, dir, wallet, tearDown, keep>>
    BY <1>2 DEF NodeOther, harnessVars, callVars, walletVars
  <2>2. UNCHANGED <<main, after>>
    BY <1>2 DEF NodeOther, Reader, ReaderPid, ReaderEOF, IpcRead, IpcDone, WaiterSend,
         WaiterClose, DcrdSend, DcrdExit, ContextDone
  <2> QED
    BY <2>1, <2>2 DEF HarnessInv, NodeInv, ClientInv, WalletInv, Stopping
<1>3. CASE IngestBlock \/ ConnectionLost \/ LoseNtfns
  BY <1>3 DEF HarnessInv, NodeInv, ClientInv, WalletInv, IngestBlock, ConnectionLost, LoseNtfns,
       Stopping,
       vars, callVars, walletVars
<1> QED
  BY <1>1, <1>2, <1>3

\* What each statement of SetUp and TearDown may rely on.
LEMMA HarnessInvariance == HarnessSpec => []HarnessInv
<1>1. HarnessInit => HarnessInv
  BY DEF HarnessInit, HarnessInv, NodeInv, ClientInv, WalletInv
<1>2. HarnessInv /\ [HarnessNext]_allVars => HarnessInv'
  <2> SUFFICES ASSUME HarnessInv, [HarnessNext]_allVars PROVE HarnessInv'
    OBVIOUS
  <2>1. CASE SetUpNext \/ TearDown
    BY <2>1, SetUpKeeps
  <2>2. CASE TearDownNext
    BY <2>2, TearDownKeeps
  <2>3. CASE NodeMain \/ NodeOther \/ IngestBlock \/ ConnectionLost \/ LoseNtfns
    BY <2>3, OthersKeep
  <2>4. CASE UNCHANGED allVars
    BY <2>4 DEF HarnessInv, NodeInv, ClientInv, WalletInv, Stopping, allVars, vars,
         harnessVars, callVars, walletVars
  <2> QED
    BY <2>1, <2>2, <2>3, <2>4 DEF HarnessNext
<1> QED
  BY <1>1, <1>2, PTL DEF HarnessSpec

\* Whatever failed, no client and no dcrd outlives SetUp's error or TearDown,
\* and the directory is removed from under no running dcrd (SetUp, TearDown).
THEOREM ReleasedCorrect == HarnessSpec => []Released
<1>1. HarnessInv /\ NothingLeftRunning => Released
  BY DEF HarnessInv, NodeInv, ClientInv, WalletInv, NothingLeftRunning, Released
<1> QED
  BY <1>1, HarnessInvariance, NodeImplemented, NothingLeft, PTL

-----------------------------------------------------------------------------
(* The test chain and the wallet.                                          *)

\* The statements of SetUp up to the call of Generate, and those behind it.
BeforeGenerate == {"new", "start", "connect", "wallet", "filter", "notify"}
AfterGenerate == {"best", "sync", "ready"}

\* A notification of the block at height h.
Ntfn(h) == [height |-> h, pays |-> IF h > 1 THEN TRUE ELSE FALSE]

\* The wallet has taken the notifications of the first blocks, in order, and the
\* rest is on its way as long as the connection lives.
DeliveryInv ==
    /\ height \in Nat /\ walletHeight \in Nat
    /\ Len(ntfns) \in Nat /\ walletHeight + Len(ntfns) <= height
    /\ ntfns = [i \in 1..Len(ntfns) |-> Ntfn(walletHeight + i)]
    /\ coinbases = 2..walletHeight
    /\ walletHeight + Len(ntfns) = height \/ dcrd = "exited" \/ client = "down"

\* Where SetUp stands with the test chain.
TestChainInv ==
    /\ target \in Nat /\ left \in Nat
    /\ hpc \in {"new", "start", "connect"} => client = "none"
    /\ hpc \in {"wallet", "filter", "notify", "generate"} => client \in {"up", "down"}
    /\ hpc \in BeforeGenerate => height = 0 /\ left = 0
    /\ hpc \in {"notify", "generate"} => filtered
    /\ hpc = "generate" => registered /\ left + height = NumToGenerate(target)
    /\ hpc \in AfterGenerate /\ target # 0 => height = NumToGenerate(target)
    /\ hpc \in {"sync", "ready"} => best = height
    /\ hpc = "ready" => walletHeight = best
\* A dcrd that exited is not started again (start).
LEMMA ExitedStays ==
    ASSUME IInv, [Next]_vars, dcrd = "exited"
    PROVE  dcrd' = "exited"
<1>1. CASE Main
  BY <1>1 DEF Main, StartReaders, StartCommand, StartFailed, WritePidFile, LaunchWaiter,
       SelectContext, SelectCmdDone, SelectAddrs, StopCheck, StopCloseRX, StopWaitGroup,
       StopCmdDone, StopCloseTX, dcrdVars, IInv, MainInv
<1>2. CASE Shutdown \/ \E s \in Streams : Reader(s)
  BY <1>2 DEF Shutdown, Reader, ReaderPid, ReaderEOF, dcrdVars
<1>3. CASE IpcRead \/ IpcDone \/ WaiterSend \/ WaiterClose \/ DcrdSend \/ DcrdExit \/ ContextDone
  BY <1>3 DEF IpcRead, IpcDone, WaiterSend, WaiterClose, DcrdSend, DcrdExit, ContextDone, dcrdVars
<1>4. CASE UNCHANGED vars
  BY <1>4 DEF vars
<1> QED
  BY <1>1, <1>2, <1>3, <1>4 DEF Next

\* A step that leaves the chain and the wallet alone loses no notification,
\* unless dcrd or the client is gone.
LEMMA DeliveryStays ==
    ASSUME IInv, DeliveryInv, [Next]_vars, client = "down" => client' = "down",
           UNCHANGED <<height, walletHeight, ntfns, coinbases>>
    PROVE  DeliveryInv'
<1>1. dcrd = "exited" => dcrd' = "exited"
  BY ExitedStays
<1> QED
  BY <1>1 DEF DeliveryInv

\* NumToGenerate counts the premine.
LEMMA ToGenerateValue ==
    ASSUME NEW n \in Nat
    PROVE  NumToGenerate(n) \in Nat /\ NumToGenerate(n) = CoinbaseMaturity + n + 1
BY HarnessAssumption DEF NumToGenerate

\* A new block is announced to the wallet as the next one (GenerateBlock).
LEMMA BlockAnnounced ==
    ASSUME IInv, DeliveryInv, TestChainInv, GenerateBlock
    PROVE  DeliveryInv' /\ TestChainInv'
<1> DEFINE n == Len(ntfns)
           e == [height |-> height + 1, pays |-> filtered /\ height + 1 > 1]
<1>1. /\ height' = height + 1 /\ left' = left - 1 /\ left > 0 /\ hpc = "generate"
      /\ UNCHANGED <<vars, walletHeight, coinbases, client, target, filtered, registered, best>>
      /\ hpc' = "generate"
  BY DEF GenerateBlock, GoTo, walletVars
<1>2. filtered /\ registered /\ dcrd = "running"
  BY DEF GenerateBlock, TestChainInv
<1>3. /\ client = "up" => ntfns' = Append(ntfns, e)
      /\ client # "up" => ntfns' = ntfns
  BY <1>1, <1>2 DEF GenerateBlock
<1>4. e = Ntfn(height + 1)
  BY <1>2 DEF Ntfn
<1>5. /\ height \in Nat /\ walletHeight \in Nat /\ n \in Nat /\ walletHeight + n <= height
      /\ ntfns = [i \in 1..n |-> Ntfn(walletHeight + i)] /\ coinbases = 2..walletHeight
  BY DEF DeliveryInv
<1> HIDE DEF n, e
<1>6. ASSUME client = "up" PROVE DeliveryInv'
  <2>1. walletHeight + n = height
    BY <1>2, <1>6 DEF DeliveryInv, n
  <2>2. ntfns \in Seq({Ntfn(h) : h \in Nat})
    BY <1>5
  <2>3. ntfns' = [i \in 1..(n + 1) |-> IF i = n + 1 THEN e ELSE ntfns[i]] /\ Len(ntfns') = n + 1
    BY <1>3, <1>6, <2>2 DEF n
  <2>4. \A i \in 1..(n + 1) : (IF i = n + 1 THEN e ELSE ntfns[i]) = Ntfn(walletHeight + i)
    BY <1>4, <1>5, <2>1
  <2>5. ntfns' = [i \in 1..(n + 1) |-> Ntfn(walletHeight + i)]
    BY <2>3, <2>4
  <2>6. ntfns' = [i \in 1..Len(ntfns') |-> Ntfn(walletHeight' + i)]
    BY <1>1, <2>3, <2>5
  <2>7. Len(ntfns') \in Nat /\ walletHeight' + Len(ntfns') = height'
    BY <1>1, <1>5, <2>1, <2>3
  <2> QED
    BY <1>1, <1>5, <1>6, <2>6, <2>7 DEF DeliveryInv, vars
<1>7. ASSUME client = "down" PROVE DeliveryInv'
  <2>1. ntfns' = ntfns /\ Len(ntfns') = n
    BY <1>3, <1>7 DEF n
  <2>2. ntfns' = [i \in 1..Len(ntfns') |-> Ntfn(walletHeight' + i)]
    BY <1>1, <1>5, <2>1
  <2>3. Len(ntfns') \in Nat /\ walletHeight' + Len(ntfns') <= height'
    BY <1>1, <1>5, <2>1
  <2> QED
    BY <1>1, <1>5, <1>7, <2>2, <2>3 DEF DeliveryInv, vars
<1>8. client \in {"up", "down"}
  BY <1>1 DEF TestChainInv
<1>9. DeliveryInv'
  BY <1>6, <1>7, <1>8
<1>10. TestChainInv'
  BY <1>1, <1>5, ToGenerateValue DEF TestChainInv, BeforeGenerate, AfterGenerate
<1> QED
  BY <1>9, <1>10

\* Only the first block pays nothing to the wallet (GenerateBlock).
LEMMA NtfnFields ==
    ASSUME NEW w \in Nat, NEW x, x = Ntfn(w + 1)
    PROVE  x.height = w + 1 /\ (w = 0 => x.pays = FALSE) /\ (w > 0 => x.pays = TRUE)
<1>1. x.height = w + 1
  BY DEF Ntfn
<1>2. w = 0 => x.pays = FALSE
  BY DEF Ntfn
<1>3. w > 0 => x.pays = TRUE
  BY DEF Ntfn
<1> QED
  BY <1>1, <1>2, <1>3

\* The parts of a queue that is not empty.
LEMMA HeadAndTail ==
    ASSUME NEW S, NEW s \in Seq(S), s # <<>>
    PROVE  /\ Len(s) \in Nat /\ Len(s) > 0 /\ Head(s) = s[1]
           /\ Tail(s) = [i \in 1..(Len(s) - 1) |-> s[i + 1]] /\ Len(Tail(s)) = Len(s) - 1
<1>1. Len(s) \in Nat /\ Len(s) > 0 /\ Head(s) = s[1]
  OBVIOUS
<1>2. /\ Tail(s) \in Seq(S) /\ Len(Tail(s)) = Len(s) - 1
      /\ \A i \in 1..Len(Tail(s)) : Tail(s)[i] = s[i + 1]
  BY HeadTailProperties
<1>3. ASSUME NEW t \in Seq(S) PROVE t = [i \in 1..Len(t) |-> t[i]]
  OBVIOUS
<1>4. Tail(s) = [i \in 1..(Len(s) - 1) |-> s[i + 1]]
  BY <1>2, <1>3
<1> QED
  BY <1>1, <1>2, <1>4

\* The wallet takes the blocks in order (IngestBlock).
LEMMA BlockIngested ==
    ASSUME IInv, DeliveryInv, TestChainInv, IngestBlock
    PROVE  DeliveryInv' /\ TestChainInv'
<1> DEFINE n == Len(ntfns)
<1>1. /\ UNCHANGED <<vars, hpc, target, client, left, height, filtered, registered, best>>
      /\ ntfns # <<>> /\ ntfns' = Tail(ntfns) /\ walletHeight' = Head(ntfns).height
      /\ coinbases' = IF Head(ntfns).pays THEN coinbases \union {Head(ntfns).height} ELSE coinbases
  BY DEF IngestBlock, callVars, chainVars
<1>2. /\ height \in Nat /\ walletHeight \in Nat /\ n \in Nat /\ walletHeight + n <= height
      /\ ntfns = [i \in 1..n |-> Ntfn(walletHeight + i)]
      /\ coinbases = 2..walletHeight
      /\ walletHeight + n = height \/ dcrd = "exited" \/ client = "down"
  BY DEF DeliveryInv
<1>3. ntfns \in Seq({Ntfn(h) : h \in Nat})
  <2> HIDE DEF n
  <2> QED
    BY <1>2
<1>4. n > 0 /\ Head(ntfns) = ntfns[1]
  BY <1>1, <1>3, HeadAndTail
<1>5. ntfns' = [i \in 1..(n - 1) |-> ntfns[i + 1]] /\ Len(ntfns') = n - 1
  BY <1>1, <1>3, HeadAndTail
<1> HIDE DEF n
<1>6. Head(ntfns) = Ntfn(walletHeight + 1)
  BY <1>2, <1>4
<1>7. /\ walletHeight' = walletHeight + 1
      /\ Head(ntfns).height = walletHeight + 1
      /\ walletHeight = 0 => Head(ntfns).pays = FALSE
      /\ walletHeight > 0 => Head(ntfns).pays = TRUE
  BY <1>1, <1>2, <1>6, NtfnFields
<1>8. coinbases' = 2..(walletHeight + 1)
  <2>1. CASE walletHeight = 0
    <3>1. coinbases' = 2..0
      BY <2>1, <1>1, <1>2, <1>7
    <3> QED
      BY <2>1, <3>1
  <2>2. CASE walletHeight > 0
    <3>1. coinbases' = (2..walletHeight) \union {walletHeight + 1}
      BY <2>2, <1>1, <1>2, <1>7
    <3>2. walletHeight \in Nat
      BY <1>2
    <3> QED
      BY <2>2, <3>1, <3>2
  <2> QED
    BY <2>1, <2>2, <1>2
<1>9. ntfns' = [i \in 1..(n - 1) |-> Ntfn(walletHeight' + i)]
  <2>1. \A i \in 1..(n - 1) : ntfns[i + 1] = Ntfn(walletHeight' + i)
    BY <1>2, <1>4, <1>7
  <2> QED
    BY <2>1, <1>5
<1>10. DeliveryInv'
  <2>1. Len(ntfns') = n - 1 /\ n - 1 \in Nat /\ walletHeight' + (n - 1) = walletHeight + n
    BY <1>2, <1>4, <1>5, <1>7
  <2>2. UNCHANGED <<height, dcrd, client>>
    BY <1>1 DEF vars
  <2>3. walletHeight' \in Nat /\ coinbases' = 2..walletHeight'
    BY <1>2, <1>7, <1>8
  <2> QED
    BY <1>2, <1>9, <2>1, <2>2, <2>3 DEF DeliveryInv
<1>11. hpc # "ready"
  BY <1>2, <1>4 DEF TestChainInv, AfterGenerate
<1> QED
  BY <1>1, <1>10, <1>11 DEF TestChainInv, BeforeGenerate, AfterGenerate

\* A connection that is lost excuses what does not arrive (ConnectionLost).
LEMMA ClientLost ==
    ASSUME IInv, DeliveryInv, TestChainInv, [Next]_vars, ConnectionLost
    PROVE  DeliveryInv' /\ TestChainInv'
<1>1. /\ UNCHANGED <<hpc, target, left, height, filtered, registered, best>>
      /\ client = "up" /\ client' = "down" /\ UNCHANGED <<walletHeight, coinbases, ntfns>>
  BY DEF ConnectionLost, callVars, chainVars, walletVars
<1>2. DeliveryInv'
  BY <1>1, DeliveryStays
<1> QED
  BY <1>1, <1>2 DEF TestChainInv, BeforeGenerate, AfterGenerate

\* A notification is lost only with dcrd or the client (LoseNtfns).
LEMMA NtfnsLost ==
    ASSUME DeliveryInv, TestChainInv, LoseNtfns
    PROVE  DeliveryInv' /\ TestChainInv'
<1>1. /\ UNCHANGED <<vars, hpc, target, client, left, height, filtered, registered, best>>
      /\ ntfns' = <<>> /\ UNCHANGED <<walletHeight, coinbases>>
      /\ dcrd = "exited" \/ client = "down"
  BY DEF LoseNtfns, callVars, chainVars, walletVars
<1>2. Len(<<>>) = 0 /\ <<>> = [i \in 1..0 |-> Ntfn(walletHeight + i)]
  OBVIOUS
<1>3. DeliveryInv'
  BY <1>1, <1>2 DEF DeliveryInv, vars
<1> QED
  BY <1>1, <1>3 DEF TestChainInv, BeforeGenerate, AfterGenerate

\* The other statements of SetUp.
LEMMA SetUpChain ==
    ASSUME IInv, DeliveryInv, TestChainInv, SetUpNext, ~GenerateBlock
    PROVE  DeliveryInv' /\ TestChainInv'
<1>1. UNCHANGED <<vars, height, walletHeight, ntfns, coinbases, target>>
  <2>1. UNCHANGED vars
    BY AwayFromNode
  <2>2. UNCHANGED <<height, walletHeight, ntfns, coinbases, target>>
    BY DEF SetUpNext, SetUp, NodeStarted, NodeFailed, Connect, ConnectAgain, ConnectFails,
       StartWallet, LoadTxFilter, NotifyBlocks, Generated, GetBestBlock,
       RpcFails, Synced, Fail, GoTo, chainVars, walletVars
  <2> QED
    BY <2>1, <2>2
<1>2. client = "down" => client' = "down"
  BY DEF SetUpNext, SetUp, NodeStarted, NodeFailed, Connect, ConnectAgain, ConnectFails,
       StartWallet, LoadTxFilter, NotifyBlocks, Generated, GetBestBlock,
       RpcFails, Synced, Fail, GoTo, TestChainInv, BeforeGenerate
<1>3. DeliveryInv'
  BY <1>1, <1>2, DeliveryStays
<1>4. height \in Nat /\ walletHeight \in Nat /\ Len(ntfns) \in Nat /\ walletHeight <= height
  BY DEF DeliveryInv
<1>5. CASE SetUp
  BY <1>1, <1>3, <1>5 DEF SetUp, chainVars, TestChainInv, BeforeGenerate, AfterGenerate
<1>6. CASE NodeFailed \/ ConnectFails \/ RpcFails
  BY <1>1, <1>3, <1>6 DEF NodeFailed, ConnectFails, RpcFails, Fail, chainVars, TestChainInv,
       BeforeGenerate, AfterGenerate
<1>7. CASE NodeStarted \/ ConnectAgain
  BY <1>1, <1>3, <1>7 DEF NodeStarted, ConnectAgain, GoTo, chainVars, TestChainInv,
       BeforeGenerate, AfterGenerate
<1>8. CASE Connect \/ StartWallet
  BY <1>1, <1>3, <1>8 DEF Connect, StartWallet, GoTo, chainVars, TestChainInv,
       BeforeGenerate, AfterGenerate
<1>9. CASE LoadTxFilter
  <2>1. hpc = "filter" /\ hpc' = "notify" /\ filtered' /\ left' = 0 /\ UNCHANGED <<client, best>>
    BY <1>9 DEF LoadTxFilter, GoTo, ToGenerate, After
  <2> QED
    BY <1>1, <1>3, <2>1 DEF TestChainInv, BeforeGenerate, AfterGenerate
<1>10. CASE NotifyBlocks
  <2>1. /\ hpc = "notify" /\ registered' /\ UNCHANGED <<client, best, filtered>>
        /\ IF target = 0 THEN hpc' = "best" /\ left' = 0
           ELSE hpc' = "generate" /\ left' = NumToGenerate(target)
    BY <1>10 DEF NotifyBlocks, GoTo, ToGenerate, After
  <2>2. NumToGenerate(target) \in Nat
    BY ToGenerateValue DEF TestChainInv
  <2> QED
    BY <1>1, <1>3, <2>1, <2>2 DEF TestChainInv, BeforeGenerate, AfterGenerate
<1>11. CASE Generated
  <2>1. hpc = "generate" /\ hpc' = "best" /\ left = 0 /\ UNCHANGED <<client, best, left, filtered>>
    BY <1>11 DEF Generated, GoTo, After, chainVars
  <2> QED
    BY <1>1, <1>3, <1>4, <2>1 DEF TestChainInv, BeforeGenerate, AfterGenerate
<1>12. CASE GetBestBlock \/ Synced
  BY <1>1, <1>3, <1>12 DEF GetBestBlock, Synced, GoTo, chainVars, TestChainInv, BeforeGenerate,
       AfterGenerate
<1> QED
  BY <1>3, <1>5, <1>6, <1>7, <1>8, <1>9, <1>10, <1>11, <1>12 DEF SetUpNext

\* TearDown, and the node.
LEMMA TearDownChain ==
    ASSUME IInv, DeliveryInv, TestChainInv, [Next]_vars,
           TearDown \/ TearDownNext \/ NodeMain \/ NodeOther
    PROVE  DeliveryInv' /\ TestChainInv'
<1>1. CASE TearDown \/ TearDownNext
  <2>1. UNCHANGED <<height, walletHeight, ntfns, coinbases, target, left>>
    BY <1>1 DEF TearDown, TearDownNext, TearDownClient, TearDownNode, TearDownNoNode,
       TearDownNodeDone, TearDownNodeFails, TearDownWallet, TearDownDir, GoTo, chainVars,
       walletVars
  <2>2. client = "down" => client' = "down"
    BY <1>1 DEF TearDown, TearDownNext, TearDownClient, TearDownNode, TearDownNoNode,
       TearDownNodeDone, TearDownNodeFails, TearDownWallet, TearDownDir, GoTo
  <2>3. hpc' \in TearDownSteps \union {"done"}
    BY <1>1 DEF TearDown, TearDownNext, TearDownClient, TearDownNode, TearDownNoNode,
       TearDownNodeDone, TearDownNodeFails, TearDownWallet, TearDownDir, GoTo, TearDownSteps
  <2> QED
    BY <2>1, <2>2, <2>3, DeliveryStays
       DEF TestChainInv, BeforeGenerate, AfterGenerate, TearDownSteps
<1>2. CASE NodeMain \/ NodeOther
  <2>1. UNCHANGED harnessVars
    BY <1>2 DEF NodeMain, NodeOther
  <2> QED
    BY <2>1, DeliveryStays DEF TestChainInv, BeforeGenerate, AfterGenerate, harnessVars,
       callVars, chainVars, walletVars
<1> QED
  BY <1>1, <1>2

\* Where the test chain stands, and what the wallet saw of it.
LEMMA ChainInvariance == HarnessSpec => [](DeliveryInv /\ TestChainInv)
<1>1. HarnessInit => DeliveryInv /\ TestChainInv
  <2> SUFFICES ASSUME HarnessInit PROVE DeliveryInv /\ TestChainInv
    OBVIOUS
  <2>1. Len(<<>>) = 0 /\ <<>> = [i \in 1..0 |-> Ntfn(0 + i)] /\ 2..0 = {}
    OBVIOUS
  <2>2. DeliveryInv
    BY <2>1 DEF HarnessInit, DeliveryInv
  <2> QED
    BY <2>2, HarnessAssumption DEF HarnessInit, TestChainInv, BeforeGenerate, AfterGenerate
<1>2. DeliveryInv /\ TestChainInv /\ IInv /\ [HarnessNext]_allVars => (DeliveryInv /\ TestChainInv)'
  <2> SUFFICES ASSUME DeliveryInv, TestChainInv, IInv, [HarnessNext]_allVars
               PROVE  (DeliveryInv /\ TestChainInv)'
    OBVIOUS
  <2>1. [Next]_vars
    BY StepOfNode
  <2>2. CASE SetUpNext
    BY <2>2, BlockAnnounced, SetUpChain
  <2>3. CASE TearDown \/ TearDownNext \/ NodeMain \/ NodeOther
    BY <2>1, <2>3, TearDownChain
  <2>4. CASE IngestBlock \/ ConnectionLost \/ LoseNtfns
    BY <2>1, <2>4, BlockIngested, ClientLost, NtfnsLost
  <2>5. CASE UNCHANGED allVars
    BY <2>1, <2>5, DeliveryStays DEF TestChainInv, BeforeGenerate, AfterGenerate, allVars,
       harnessVars, callVars, chainVars, walletVars
  <2> QED
    BY <2>2, <2>3, <2>4, <2>5 DEF HarnessNext
<1> QED
  BY <1>1, <1>2, NodeImplemented, Invariance, PTL DEF HarnessSpec

\* A SetUp that returns no error leaves as many mature outputs as it was asked
\* for, whatever the maturity and the length of the test chain (SetUp,
\* IngestBlock).
THEOREM MatureOutputsCorrect == HarnessSpec => []MatureOutputs
<1>1. DeliveryInv /\ TestChainInv => MatureOutputs
  <2> SUFFICES ASSUME DeliveryInv, TestChainInv, hpc = "ready", target # 0
               PROVE  Cardinality({b \in coinbases : b + CoinbaseMaturity <= walletHeight})
                        = target
    BY DEF MatureOutputs
  <2>1. target \in Nat /\ walletHeight = CoinbaseMaturity + target + 1
    BY ToGenerateValue DEF TestChainInv, AfterGenerate
  <2>2. coinbases = 2..walletHeight /\ CoinbaseMaturity \in Nat
    BY HarnessAssumption DEF DeliveryInv
  <2>3. {b \in coinbases : b + CoinbaseMaturity <= walletHeight} = 2..(target + 1)
    BY <2>1, <2>2
  <2>4. Cardinality(2..(target + 1)) = (target + 1) - 2 + 1
    BY <2>1, FS_Interval
  <2>5. (target + 1) - 2 + 1 = target
    BY <2>1
  <2> QED
    BY <2>3, <2>4, <2>5
<1> QED
  BY <1>1, ChainInvariance, PTL

-----------------------------------------------------------------------------
(* Types.                                                                  *)

\* What the type invariant says of the variables that the invariants above
\* leave open.
CallTypes ==
    /\ hpc \in {"new", "ready", "done"} \union SetUpSteps \union TearDownSteps
    /\ {setUp, tearDown} \subseteq {"none", "ok", "err"}
    /\ {nodeSet, keep, filtered, registered} \subseteq BOOLEAN
    /\ client \in {"none", "up", "down"}
    /\ wallet \in {"new", "running", "stopped"}
    /\ dir \in {"there", "removed", "stuck"}
    /\ target \in Targets /\ attempts \in 0..MaxConnRetries

\* Generate makes no more blocks than it was asked for, and none is made behind it.
BoundInv ==
    /\ best \in Nat /\ best <= height
    /\ height <= NumToGenerate(target) /\ left <= NumToGenerate(target)

\* The statements of SetUp.
LEMMA SetUpTypes ==
    ASSUME CallTypes, SetUpNext
    PROVE  CallTypes'
<1> USE DEF CallTypes, SetUpSteps, TearDownSteps
<1>1. CASE SetUp
  BY <1>1 DEF SetUp, chainVars, walletVars
<1>2. CASE NodeFailed \/ ConnectFails \/ RpcFails
  BY <1>2 DEF NodeFailed, ConnectFails, RpcFails, Fail, chainVars, walletVars
<1>3. CASE NodeStarted \/ Connect
  BY <1>3 DEF NodeStarted, Connect, GoTo, chainVars, walletVars
<1>4. CASE ConnectAgain
  BY <1>4, HarnessAssumption DEF ConnectAgain, GoTo, chainVars, walletVars
<1>5. CASE StartWallet
  BY <1>5 DEF StartWallet, GoTo, chainVars
<1>6. CASE LoadTxFilter
  BY <1>6 DEF LoadTxFilter, GoTo, After, walletVars
<1>7. CASE NotifyBlocks
  BY <1>7 DEF NotifyBlocks, GoTo, After, walletVars
<1>8. CASE GenerateBlock \/ GetBestBlock
  BY <1>8 DEF GenerateBlock, GetBestBlock, GoTo, chainVars, walletVars
<1>9. CASE Generated
  BY <1>9 DEF Generated, GoTo, After, chainVars, walletVars
<1>10. CASE Synced
  BY <1>10 DEF Synced, chainVars, walletVars
<1> QED
  BY <1>1, <1>2, <1>3, <1>4, <1>5, <1>6, <1>7, <1>8, <1>9, <1>10 DEF SetUpNext

\* TearDown, the wallet and the node.
LEMMA TearDownTypes ==
    ASSUME CallTypes,
           TearDown \/ TearDownNext \/ IngestBlock \/ ConnectionLost \/ LoseNtfns \/ NodeMain \/ NodeOther
             \/ UNCHANGED allVars
    PROVE  CallTypes'
<1> USE DEF CallTypes, SetUpSteps, TearDownSteps
<1>1. CASE TearDown
  BY <1>1 DEF TearDown, chainVars, walletVars
<1>2. CASE TearDownClient \/ TearDownNoNode \/ TearDownNodeDone
  BY <1>2 DEF TearDownClient, TearDownNoNode, TearDownNodeDone, GoTo, chainVars, walletVars
<1>3. CASE TearDownNode \/ TearDownNodeFails
  BY <1>3 DEF TearDownNode, TearDownNodeFails, chainVars, walletVars
<1>4. CASE TearDownWallet
  BY <1>4 DEF TearDownWallet, GoTo, chainVars
<1>5. CASE TearDownDir
  BY <1>5 DEF TearDownDir, chainVars, walletVars
<1>6. CASE IngestBlock \/ ConnectionLost \/ LoseNtfns
  BY <1>6 DEF IngestBlock, ConnectionLost, LoseNtfns, callVars, chainVars, walletVars
<1>7. CASE NodeMain \/ NodeOther \/ UNCHANGED allVars
  BY <1>7 DEF NodeMain, NodeOther, allVars, harnessVars, callVars, chainVars, walletVars
<1> QED
  BY <1>1, <1>2, <1>3, <1>4, <1>5, <1>6, <1>7 DEF TearDownNext

\* Only the statements around Generate change what BoundInv speaks of.
LEMMA BoundStep ==
    ASSUME BoundInv, DeliveryInv, TestChainInv, [HarnessNext]_allVars
    PROVE  BoundInv'
<1>1. height \in Nat /\ left \in Nat /\ NumToGenerate(target) \in Nat
  BY ToGenerateValue DEF DeliveryInv, TestChainInv
<1>2. target' = target
  BY DEF HarnessNext, SetUpNext, SetUp, NodeStarted, NodeFailed, Connect, ConnectAgain,
     ConnectFails, StartWallet, LoadTxFilter, NotifyBlocks, GenerateBlock, Generated,
     GetBestBlock, RpcFails, Synced, Fail, GoTo, TearDown, TearDownNext, TearDownClient,
     TearDownNode, TearDownNoNode, TearDownNodeDone, TearDownNodeFails, TearDownWallet,
     TearDownDir, IngestBlock, ConnectionLost, LoseNtfns, NodeMain, NodeOther, allVars, harnessVars, callVars
<1>3. NumToGenerate(target)' = NumToGenerate(target)
  BY <1>2
<1>4. CASE GenerateBlock
  BY <1>1, <1>3, <1>4 DEF GenerateBlock, BoundInv, TestChainInv
<1>5. CASE LoadTxFilter \/ NotifyBlocks
  BY <1>1, <1>3, <1>5 DEF LoadTxFilter, NotifyBlocks, ToGenerate, After, BoundInv
<1>6. CASE GetBestBlock
  BY <1>1, <1>3, <1>6 DEF GetBestBlock, BoundInv, chainVars
<1>7. CASE UNCHANGED <<best, chainVars>>
  BY <1>3, <1>7 DEF BoundInv, chainVars
<1>8. GenerateBlock \/ LoadTxFilter \/ NotifyBlocks \/ GetBestBlock \/ UNCHANGED <<best, chainVars>>
  BY DEF HarnessNext, SetUpNext, SetUp, NodeStarted, NodeFailed, Connect, ConnectAgain,
     ConnectFails, StartWallet, Generated, RpcFails, Synced, Fail, GoTo, TearDown,
     TearDownNext, TearDownClient, TearDownNode, TearDownNoNode, TearDownNodeDone,
     TearDownNodeFails, TearDownWallet, TearDownDir, IngestBlock, ConnectionLost, LoseNtfns, NodeMain,
     NodeOther, allVars, harnessVars
<1> QED
  BY <1>4, <1>5, <1>6, <1>7, <1>8

\* Every reachable state of a harness is well typed, and no chain is longer than
\* the longest that may be asked for (SetUp, TearDown).
THEOREM HarnessTypeCorrect == HarnessSpec => []HarnessTypeOK
<1>1. HarnessInit => CallTypes /\ BoundInv
  <2> SUFFICES ASSUME HarnessInit PROVE CallTypes /\ BoundInv
    OBVIOUS
  <2>1. CallTypes
    <3>1. attempts \in 0..MaxConnRetries /\ target \in Targets
      BY HarnessAssumption DEF HarnessInit
    <3>2. {nodeSet, keep, filtered, registered} \subseteq BOOLEAN
      BY DEF HarnessInit
    <3> QED
      BY <3>1, <3>2 DEF HarnessInit, CallTypes
  <2>2. NumToGenerate(target) \in Nat
    BY HarnessAssumption, ToGenerateValue DEF HarnessInit
  <2> QED
    BY <2>1, <2>2 DEF HarnessInit, BoundInv
<1>2. CallTypes /\ [HarnessNext]_allVars => CallTypes'
  BY SetUpTypes, TearDownTypes DEF HarnessNext
<1>3. BoundInv /\ DeliveryInv /\ TestChainInv /\ [HarnessNext]_allVars => BoundInv'
  BY BoundStep
<1>4. CallTypes /\ BoundInv /\ DeliveryInv /\ TestChainInv /\ TypeOK => HarnessTypeOK
  <2> SUFFICES ASSUME CallTypes, BoundInv, DeliveryInv, TestChainInv, TypeOK
               PROVE  HarnessTypeOK
    OBVIOUS
  <2>1. MaxTarget \in Targets /\ target <= MaxTarget
    BY HarnessAssumption DEF MaxTarget, CallTypes
  <2>2. /\ NumToGenerate(target) \in Nat /\ NumToGenerate(MaxTarget) \in Nat
        /\ NumToGenerate(target) <= NumToGenerate(MaxTarget)
    <3>1. MaxTarget \in Nat /\ target \in Nat /\ CoinbaseMaturity \in Nat
      BY <2>1, HarnessAssumption DEF CallTypes
    <3> QED
      BY <2>1, <3>1 DEF NumToGenerate
  <2>3. height \in Nat /\ height <= NumToGenerate(MaxTarget)
    BY <2>2 DEF BoundInv, DeliveryInv
  <2>4. {left, height, best, walletHeight} \subseteq Heights
    BY <2>2, <2>3 DEF BoundInv, DeliveryInv, TestChainInv, Heights
  <2>5. coinbases \subseteq Heights
    BY <2>2, <2>3 DEF DeliveryInv, Heights
  <2>6. ntfns \in Seq([height : Heights, pays : BOOLEAN])
    <3> DEFINE n == Len(ntfns)
    <3>1. /\ ntfns = [i \in 1..n |-> Ntfn(walletHeight + i)] /\ n \in Nat /\ walletHeight \in Nat
          /\ walletHeight + n <= height
      BY DEF DeliveryInv
    <3> HIDE DEF n
    <3>2. ASSUME NEW i \in 1..n PROVE Ntfn(walletHeight + i) \in [height : Heights, pays : BOOLEAN]
      <4>1. walletHeight + i \in Heights
        BY <2>2, <2>3, <3>1 DEF Heights
      <4> QED
        BY <4>1 DEF Ntfn
    <3> QED
      BY <3>1, <3>2
  <2> QED
    BY <2>4, <2>5, <2>6 DEF HarnessTypeOK, CallTypes
<1> QED
  BY <1>1, <1>2, <1>3, <1>4, ChainInvariance, NodeImplemented, TypeCorrect, PTL DEF HarnessSpec
=============================================================================
