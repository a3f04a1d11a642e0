---------------------------- MODULE NodeProcess ----------------------------
(***************************************************************************)
(* The dcrd process of a harness and the goroutines around it: node.start, *)
(* node.stop and node.shutdown of src/dcrdtest/node.go with the pipes of   *)
(* ipc.go.                                                                 *)
(*                                                                         *)
(*   main     the goroutine that runs SetUp and TearDown                   *)
(*   reader   one goroutine for stderr and one for stdout                  *)
(*   ipc      the goroutine that reads the bound addresses from pipeTX     *)
(*   waiter   the goroutine that waits for the process                     *)
(*   dcrd     the process itself, outside the repository                   *)
(*                                                                         *)
(* A fault of the operating system may hit each fallible step of start.    *)
(* X_Fault is X with a plausible programming error, used by no formula.    *)
(***************************************************************************)
EXTENDS Naturals, Sequences

CONSTANT Events     \* the messages dcrd writes to pipeTX, in order

\* What nextIPCMessage tells apart of a message.
EventTypes == {"p2plistenaddr", "rpclistenaddr", "other"}

ASSUME EventsAssumption == Events \in Seq(EventTypes)

Streams == {"stderr", "stdout"}

VARIABLES
    main,       \* where SetUp or TearDown is inside start and stop
    after,      \* what stop returns to: "start" or "shutdown"
    result,     \* what start returned: "none", "ok" or "err"
    reader,     \* the goroutine of each output stream
    ipc,        \* the IPC goroutine
    waiter,     \* the goroutine in cmd.Wait
    exitOK,     \* the exit status of dcrd is 0
    cmdDone,    \* channel of capacity 1: number of values, closed or not
    gotSubsysAddrs, \* closed: both addresses were read
    pid,        \* pid.Done was called
    pidFile,    \* n.pidFile: "none", "created" or "removed"
    pipeTX,     \* messages in the pipe, whether start's read end is open
    pipeRX,     \* whether start's write end is open
    addrs,      \* the messages nextIPCMessage returned, in order
    dcrd,       \* "none", "running" or "exited"
    sent,       \* how many of Events dcrd wrote
    ctxDone     \* the context of SetUp is done

vars == <<main, after, result, reader, ipc, waiter, exitOK, cmdDone,
          gotSubsysAddrs, pid, pidFile, pipeTX, pipeRX, addrs, dcrd, sent, ctxDone>>
goroutineVars == <<reader, ipc, waiter, cmdDone, gotSubsysAddrs, addrs>>
pipeVars == <<pipeTX, pipeRX>>
dcrdVars == <<dcrd, sent, exitOK>>

-----------------------------------------------------------------------------

TypeOK ==
    /\ main \in {"new", "exec", "execfailed", "pidfile", "launch", "select", "up",
                 "stop", "closerx", "wg", "cmddone", "closetx", "failed", "down"}
    /\ after \in {"start", "shutdown"}
    /\ result \in {"none", "ok", "err"}
    /\ reader \in [Streams -> {"none", "pid", "read", "done"}]
    /\ ipc \in {"none", "read", "drain", "done"}
    /\ waiter \in {"none", "wait", "sent", "done"}
    /\ exitOK \in BOOLEAN
    /\ cmdDone \in [values : 0..1, closed : BOOLEAN]
    /\ gotSubsysAddrs \in BOOLEAN /\ pid \in BOOLEAN
    /\ pidFile \in {"none", "created", "removed"}
    /\ pipeTX \in [msgs : Seq(EventTypes), open : BOOLEAN]
    /\ pipeRX \in [open : BOOLEAN]
    /\ addrs \in Seq(EventTypes)
    /\ dcrd \in {"none", "running", "exited"} /\ sent \in 0..Len(Events)
    /\ ctxDone \in BOOLEAN

Init ==
    /\ main = "new" /\ after = "start" /\ result = "none"
    /\ reader = [s \in Streams |-> "none"] /\ ipc = "none" /\ waiter = "none"
    /\ exitOK = FALSE /\ cmdDone = [values |-> 0, closed |-> FALSE]
    /\ gotSubsysAddrs = FALSE /\ pid = FALSE /\ pidFile = "none"
    /\ pipeTX = [msgs |-> <<>>, open |-> TRUE] /\ pipeRX = [open |-> TRUE]
    /\ addrs = <<>> /\ dcrd = "none" /\ sent = 0 /\ ctxDone = FALSE

-----------------------------------------------------------------------------
(* start                                                                   *)

\* Redirect stderr and stdout and launch the three readers. When a pipe cannot
\* be made start returns at once, with the goroutines it launched so far.
StartReaders ==
    /\ main = "new"
    /\ \/ /\ main' = "exec" /\ reader' = [s \in Streams |-> "pid"] /\ ipc' = "read"
          /\ UNCHANGED result
       \/ /\ main' = "failed" /\ result' = "err"
          /\ reader' \in {reader, [reader EXCEPT !["stderr"] = "pid"]}
          /\ UNCHANGED ipc
    /\ UNCHANGED <<after, waiter, cmdDone, gotSubsysAddrs, addrs, pid, pidFile,
                   pipeVars, dcrdVars, ctxDone>>

\* cmd.Start. In either case pid.Done lets the readers read.
StartCommand ==
    /\ main = "exec"
    /\ pid' = TRUE
    /\ \/ main' = "pidfile" /\ dcrd' = "running"
       \/ main' = "execfailed" /\ UNCHANGED dcrd
    /\ UNCHANGED <<after, result, goroutineVars, pidFile, pipeVars, sent, exitOK,
                   ctxDone>>

\* The readers that n.wg counts are gone.
ReadersDone == \A s \in Streams : reader[s] \in {"none", "done"}

\* The command could not be executed: wait for the readers, close the pipes.
StartFailed ==
    /\ main = "execfailed"
    /\ ReadersDone
    /\ main' = "failed" /\ result' = "err"
    /\ pipeTX' = [pipeTX EXCEPT !.open = FALSE]
    /\ pipeRX' = [pipeRX EXCEPT !.open = FALSE]
    /\ UNCHANGED <<after, goroutineVars, pid, pidFile, dcrdVars, ctxDone>>

\* Write the pid file; an error to create, write or close it calls stop.
WritePidFile ==
    /\ main = "pidfile"
    /\ \/ main' = "launch" /\ pidFile' = "created"
       \/ main' = "stop" /\ pidFile' \in {"none", "created"}
    /\ UNCHANGED <<after, result, goroutineVars, pid, pipeVars, dcrdVars, ctxDone>>

LaunchWaiter ==
    /\ main = "launch"
    /\ main' = "select" /\ waiter' = "wait"
    /\ UNCHANGED <<after, result, reader, ipc, cmdDone, gotSubsysAddrs, addrs, pid,
                   pidFile, pipeVars, dcrdVars, ctxDone>>

\* A receive from cmdDone is possible, and what it leaves in the channel.
Receivable == cmdDone.values > 0 \/ cmdDone.closed
Received   == cmdDone' = [cmdDone EXCEPT !.values = 0]

\* The select at the end of start.
SelectContext ==
    /\ main = "select" /\ ctxDone
    /\ main' = "stop" /\ result' = "err"
    /\ UNCHANGED <<after, goroutineVars, pid, pidFile, pipeVars, dcrdVars, ctxDone>>

\* dcrd exited: its exit status is what start returns.
SelectCmdDone ==
    /\ main = "select" /\ Receivable
    /\ Received
    /\ main' = "stop" /\ result' = IF exitOK THEN "ok" ELSE "err"
    /\ UNCHANGED <<after, reader, ipc, waiter, gotSubsysAddrs, addrs, pid, pidFile,
                   pipeVars, dcrdVars, ctxDone>>

SelectAddrs ==
    /\ main = "select" /\ gotSubsysAddrs
    /\ main' = "up" /\ result' = "ok"
    /\ UNCHANGED <<after, goroutineVars, pid, pidFile, pipeVars, dcrdVars, ctxDone>>

-----------------------------------------------------------------------------
(* stop and shutdown                                                       *)

\* TearDown calls shutdown, after a successful start or a failed one.
Shutdown ==
    /\ main \in {"up", "failed"}
    /\ main' = "stop" /\ after' = "shutdown"
    /\ UNCHANGED <<result, goroutineVars, pid, pidFile, pipeVars, dcrdVars, ctxDone>>

\* stop returns, to start's error return or to shutdown's cleanup of the pid
\* file, whose removal may fail. A start that fails with status 0 of dcrd
\* returns nil.
Return ==
    IF after = "start"
    THEN /\ main' = IF result = "ok" THEN "up" ELSE "failed"
         /\ result' = IF result = "ok" THEN "ok" ELSE "err"
         /\ UNCHANGED pidFile
    ELSE /\ main' = "down"
         /\ pidFile' \in IF pidFile = "none" THEN {"none"} ELSE {"created", "removed"}
         /\ UNCHANGED result

\* The command was never started, or cmdDone tells that it exited: nothing to
\* do, the pipes stay as they are.
StopEarly_AlwaysExited == TRUE
StopEarly == dcrd = "none" \/ Receivable

StopCheck ==
    /\ main = "stop"
    /\ IF StopEarly
       THEN Return /\ Received
       ELSE main' = "closerx" /\ UNCHANGED <<result, pidFile, cmdDone>>
    /\ UNCHANGED <<after, reader, ipc, waiter, gotSubsysAddrs, addrs, pid, pipeVars,
                   dcrdVars, ctxDone>>

\* Closing pipeRX asks dcrd to shut down.
RXAfterClose_Open == [open |-> TRUE]
RXAfterClose == [open |-> FALSE]

StopCloseRX ==
    /\ main = "closerx"
    /\ main' = "wg"
    /\ pipeRX' = RXAfterClose
    /\ UNCHANGED <<after, result, goroutineVars, pid, pidFile, pipeTX, dcrdVars,
                   ctxDone>>

\* n.wg.Wait: the readers, and the waiter if it was launched.
StopWaitGroup ==
    /\ main = "wg"
    /\ ReadersDone /\ waiter \in {"none", "done"}
    /\ main' = "cmddone"
    /\ UNCHANGED <<after, result, goroutineVars, pid, pidFile, pipeVars, dcrdVars,
                   ctxDone>>

StopCmdDone ==
    /\ main = "cmddone"
    /\ Receivable
    /\ Received
    /\ main' = "closetx"
    /\ UNCHANGED <<after, result, reader, ipc, waiter, gotSubsysAddrs, addrs, pid,
                   pidFile, pipeVars, dcrdVars, ctxDone>>

\* What closing pipeTX leaves: the parent closes the read end only.
TXAfterClose_Open(p) == p
TXAfterClose(p) == [p EXCEPT !.open = FALSE]

StopCloseTX ==
    /\ main = "closetx"
    /\ pipeTX' = TXAfterClose(pipeTX)
    /\ Return
    /\ UNCHANGED <<after, goroutineVars, pid, pipeRX, dcrdVars, ctxDone>>

-----------------------------------------------------------------------------
(* The other goroutines                                                    *)

\* A reader waits for the pid, then reads until the end of its stream: when the
\* process is gone or was never started.
ReaderPid(s) ==
    /\ reader[s] = "pid" /\ pid
    /\ reader' = [reader EXCEPT ![s] = "read"]
    /\ UNCHANGED <<main, after, result, ipc, waiter, cmdDone, gotSubsysAddrs, addrs,
                   pid, pidFile, pipeVars, dcrdVars, ctxDone>>

ReaderEOF(s) ==
    /\ reader[s] = "read" /\ dcrd \in {"none", "exited"}
    /\ reader' = [reader EXCEPT ![s] = "done"]
    /\ UNCHANGED <<main, after, result, ipc, waiter, cmdDone, gotSubsysAddrs, addrs,
                   pid, pidFile, pipeVars, dcrdVars, ctxDone>>

\* What nextIPCMessage leaves in the pipe: its bufio.Reader takes all there is
\* and is dropped with whatever follows the message.
LeftInPipe(msgs) == <<>>

\* Both addresses are known once these messages were read.
BothAddrs_Any(msgs) == msgs # <<>>
BothAddrs(msgs) ==
    \A a \in {"p2plistenaddr", "rpclistenaddr"} : \E i \in 1..Len(msgs) : msgs[i] = a

IpcRead ==
    /\ ipc = "read" /\ pipeTX.open /\ pipeTX.msgs # <<>>
    /\ addrs' = Append(addrs, Head(pipeTX.msgs))
    /\ pipeTX' = [pipeTX EXCEPT !.msgs = LeftInPipe(pipeTX.msgs)]
    /\ IF BothAddrs(addrs')
       THEN gotSubsysAddrs' = TRUE /\ ipc' = "drain"
       ELSE UNCHANGED <<gotSubsysAddrs, ipc>>
    /\ UNCHANGED <<main, after, result, reader, waiter, cmdDone, pid, pidFile, pipeRX,
                   dcrdVars, ctxDone>>

\* A read fails once start's end is closed. The end of file never comes on
\* pipeTX: start keeps its write end open. The drain reads pipeRX.
IpcDone ==
    /\ \/ ipc = "read" /\ ~pipeTX.open
       \/ ipc = "drain" /\ ~pipeRX.open
    /\ ipc' = "done"
    /\ UNCHANGED <<main, after, result, reader, waiter, cmdDone, gotSubsysAddrs, addrs,
                   pid, pidFile, pipeVars, dcrdVars, ctxDone>>

\* The waiter sends the exit status and closes the channel.
WaiterSend_Again ==
    /\ waiter = "wait" /\ dcrd = "exited"
    /\ cmdDone' = [cmdDone EXCEPT !.values = @ + 1]
    /\ UNCHANGED <<main, after, result, reader, ipc, waiter, gotSubsysAddrs, addrs,
                   pid, pidFile, pipeVars, dcrdVars, ctxDone>>
WaiterSend ==
    /\ waiter = "wait" /\ dcrd = "exited"
    /\ waiter' = "sent"
    /\ cmdDone' = [cmdDone EXCEPT !.values = 1]
    /\ UNCHANGED <<main, after, result, reader, ipc, gotSubsysAddrs, addrs, pid,
                   pidFile, pipeVars, dcrdVars, ctxDone>>

WaiterClose_LeavesOpen ==
    /\ waiter = "sent"
    /\ waiter' = "done"
    /\ UNCHANGED <<main, after, result, reader, ipc, cmdDone, gotSubsysAddrs, addrs,
                   pid, pidFile, pipeVars, dcrdVars, ctxDone>>
WaiterClose ==
    /\ waiter = "sent"
    /\ waiter' = "done"
    /\ cmdDone' = [cmdDone EXCEPT !.closed = TRUE]
    /\ UNCHANGED <<main, after, result, reader, ipc, gotSubsysAddrs, addrs, pid,
                   pidFile, pipeVars, dcrdVars, ctxDone>>

-----------------------------------------------------------------------------
(* dcrd and the context                                                    *)

DcrdSend ==
    /\ dcrd = "running" /\ sent < Len(Events)
    /\ pipeTX' = [pipeTX EXCEPT !.msgs = Append(@, Events[sent + 1])]
    /\ sent' = sent + 1
    /\ UNCHANGED <<main, after, result, goroutineVars, pid, pidFile, pipeRX, dcrd,
                   exitOK, ctxDone>>

\* dcrd exits on its own, with any status, or because pipeRX was closed.
DcrdExit ==
    /\ dcrd = "running"
    /\ dcrd' = "exited" /\ exitOK' \in BOOLEAN
    /\ UNCHANGED <<main, after, result, goroutineVars, pid, pidFile, pipeVars, sent,
                   ctxDone>>

DcrdShutdown == ~pipeRX.open /\ DcrdExit

ContextDone ==
    /\ ~ctxDone /\ ctxDone' = TRUE
    /\ UNCHANGED <<main, after, result, goroutineVars, pid, pidFile, pipeVars,
                   dcrdVars>>

-----------------------------------------------------------------------------

Main == \/ StartReaders \/ StartCommand \/ StartFailed \/ WritePidFile
        \/ LaunchWaiter \/ SelectContext \/ SelectCmdDone \/ SelectAddrs
        \/ StopCheck \/ StopCloseRX \/ StopWaitGroup \/ StopCmdDone \/ StopCloseTX

Reader(s) == ReaderPid(s) \/ ReaderEOF(s)

Next ==
    \/ Main \/ Shutdown
    \/ \E s \in Streams : Reader(s)
    \/ IpcRead \/ IpcDone
    \/ WaiterSend \/ WaiterClose
    \/ DcrdSend \/ DcrdExit \/ ContextDone

Spec == Init /\ [][Next]_vars

\* Every goroutine that can run does, and dcrd shuts down once pipeRX is
\* closed. Nothing forces dcrd to write its addresses or to exit otherwise,
\* the context to end or the test to tear down.
FairSpec ==
    /\ Spec
    /\ WF_vars(Main)
    /\ \A s \in Streams : WF_vars(Reader(s))
    /\ WF_vars(IpcRead) /\ WF_vars(IpcDone)
    /\ WF_vars(WaiterSend) /\ WF_vars(WaiterClose)
    /\ WF_vars(DcrdShutdown)

-----------------------------------------------------------------------------
(* Properties                                                              *)

Stopping == main \in {"stop", "closerx", "wg", "cmddone", "closetx"}

\* When shutdown returns, or start with an error, no dcrd is left behind and its
\* exit was collected: only then may TearDown remove the node's directory and
\* the next harness start. A stop that finds the process running has to wait for
\* it on every path, whoever received from cmdDone before (start, stop).
NothingLeftRunning ==
    main \in {"failed", "down"} => dcrd # "running" /\ waiter # "wait"

\* The addresses start publishes are both there, unless dcrd exited with status
\* 0 before it wrote them, which start takes for a success (start).
PublishedAddrs ==
    main = "up" =>
        \/ \E i, j \in DOMAIN addrs :
              addrs[i] = "p2plistenaddr" /\ addrs[j] = "rpclistenaddr"
        \/ dcrd = "exited" /\ exitOK

\* stop always waits for a process it could wait for: whoever receives from
\* cmdDone, in the select of start or in stop, leaves the other one a value or
\* a closed channel to find (start, stop).
NodeStopReturns == Stopping /\ waiter # "none" ~> ~Stopping

\* With a context that ends, start returns whatever dcrd does, if the pid file
\* could be written (start).
StartReturns ==
    WF_vars(ContextDone) => main = "select" ~> main \in {"up", "failed"}

\* A stop that had to stop dcrd itself leaves no goroutine behind, in
\* whatever state it met them (start, stop, nextIPCMessage).
GoroutinesEnd ==
    main = "down" /\ ~pipeRX.open ~> ipc = "done" /\ waiter # "sent" /\ ReadersDone

-----------------------------------------------------------------------------
(* What comments of the code say and the code does not do                  *)

\* ipc.go:55-56: nextIPCMessage "returns the next dcrd IPC message read from
\* the passed reading-end pipe". A message that reached the pipe together with
\* an earlier one is neither returned nor left in the pipe.
EveryMessageRead == ipc = "read" => addrs \o pipeTX.msgs = SubSeq(Events, 1, sent)

\* node.go:368-370: stop "waits until it exits properly"; :329, :335 and :339
\* call it to "Cleanup what has been done so far". Without the waiter, which is
\* launched only afterwards, nothing ever arrives on cmdDone.
CleanupReturns == Stopping ~> ~Stopping
=============================================================================
