------------------------- MODULE NodeProcessProofs -------------------------
(***************************************************************************)
(* Theorems about NodeProcess, for every list of messages dcrd may write:  *)
(* the types, that nothing is left running, and that both addresses are    *)
(* published.                                                              *)
(***************************************************************************)
EXTENDS NodeProcess, TLAPS

\* What the goroutines know of the process: a value or a close on cmdDone comes
\* from a waiter that saw dcrd exit, and there is no waiter before the process.
WaiterInv ==
    /\ Receivable => waiter \in {"sent", "done"}
    /\ waiter \in {"sent", "done"} => dcrd = "exited"
    /\ dcrd = "none" => waiter = "none"

\* What the place in start and stop tells of the process.
MainInv ==
    /\ main = "exec" => dcrd = "none"
    /\ main \in {"new", "execfailed"} => dcrd = "none"
    /\ main \in {"pidfile", "launch"} => dcrd # "none" /\ waiter = "none"
    /\ main \in {"closetx", "failed", "down"} => dcrd # "running" /\ waiter # "wait"

\* Both addresses were read.
AddrsRead ==
    \E i, j \in DOMAIN addrs : addrs[i] = "p2plistenaddr" /\ addrs[j] = "rpclistenaddr"

AddrsInv ==
    /\ gotSubsysAddrs => AddrsRead
    /\ result = "ok" => AddrsRead \/ (dcrd = "exited" /\ exitOK)
    /\ main = "up" => result = "ok"

IInv == TypeOK /\ WaiterInv /\ MainInv /\ AddrsInv

-----------------------------------------------------------------------------
(* Types                                                                   *)

Pipe == [msgs : Seq(EventTypes), open : BOOLEAN]
Channel == [values : 0..1, closed : BOOLEAN]

\* A pipe stays a pipe when its messages change or an end is closed
\* (ipcPipePair).
LEMMA PipeTypes ==
    ASSUME NEW p \in Pipe
    PROVE  /\ \A m \in Seq(EventTypes) : [p EXCEPT !.msgs = m] \in Pipe
           /\ [p EXCEPT !.open = FALSE] \in Pipe
<1>1. \A m \in Seq(EventTypes) : [p EXCEPT !.msgs = m] \in Pipe
  BY DEF Pipe
<1>2. [p EXCEPT !.open = FALSE] \in Pipe
  BY DEF Pipe
<1> QED
  BY <1>1, <1>2

\* cmdDone stays a channel when a value is received, sent or it is closed
\* (cmdDone).
LEMMA ChannelTypes ==
    ASSUME NEW c \in Channel
    PROVE  /\ [c EXCEPT !.values = 0] \in Channel
           /\ [c EXCEPT !.values = 1] \in Channel
           /\ [c EXCEPT !.closed = TRUE] \in Channel
<1>1. [c EXCEPT !.values = 0] \in Channel
  BY DEF Channel
<1>2. [c EXCEPT !.values = 1] \in Channel
  BY DEF Channel
<1>3. [c EXCEPT !.closed = TRUE] \in Channel
  BY DEF Channel
<1> QED
  BY <1>1, <1>2, <1>3

\* The node newNode makes is well typed, with nothing started (newNode).
LEMMA InitInv == Init => IInv
<1> SUFFICES ASSUME Init PROVE IInv
  OBVIOUS
<1>1. <<>> \in Seq(EventTypes) /\ 0 \in 0..Len(Events)
  BY EventsAssumption
<1>2. pipeTX \in [msgs : Seq(EventTypes), open : BOOLEAN]
  BY <1>1 DEF Init
<1>3. /\ reader \in [Streams -> {"none", "pid", "read", "done"}]
      /\ addrs \in Seq(EventTypes)
      /\ sent \in 0..Len(Events)
  BY <1>1 DEF Init
<1>4. cmdDone \in [values : 0..1, closed : BOOLEAN]
  BY DEF Init
<1>5. pipeRX \in [open : BOOLEAN]
  BY DEF Init
<1>6. TypeOK
  <2>1. /\ main = "new" /\ after = "start" /\ result = "none" /\ ipc = "none"
        /\ waiter = "none" /\ exitOK = FALSE /\ gotSubsysAddrs = FALSE /\ pid = FALSE
        /\ pidFile = "none" /\ dcrd = "none" /\ ctxDone = FALSE
    BY DEF Init
  <2> QED
    BY <1>2, <1>3, <1>4, <1>5, <2>1 DEF TypeOK
<1>7. ~Receivable
  BY DEF Init, Receivable
<1>8. WaiterInv /\ MainInv /\ AddrsInv
  BY <1>7 DEF Init, WaiterInv, MainInv, AddrsInv
<1> QED
  BY <1>6, <1>8 DEF IInv

\* The steps of start keep the types (start).
LEMMA StartTypes ==
    ASSUME TypeOK,
           StartReaders \/ StartCommand \/ StartFailed \/ WritePidFile \/ LaunchWaiter
             \/ SelectContext \/ SelectCmdDone \/ SelectAddrs
    PROVE  TypeOK'
<1>1. CASE StartReaders
  BY <1>1 DEF TypeOK, StartReaders, goroutineVars, pipeVars, dcrdVars, Streams
<1>2. CASE StartCommand
  BY <1>2 DEF TypeOK, StartCommand, goroutineVars, pipeVars, dcrdVars
<1>3. CASE StartFailed
  <2>1. pipeTX' \in Pipe
    BY <1>3, PipeTypes DEF TypeOK, StartFailed, Pipe
  <2>2. pipeRX' \in [open : BOOLEAN]
    BY <1>3 DEF TypeOK, StartFailed
  <2>3. /\ main' = "failed" /\ result' = "err"
        /\ UNCHANGED <<after, goroutineVars, pid, pidFile, dcrdVars, ctxDone>>
    BY <1>3 DEF StartFailed
  <2> QED
    BY <2>1, <2>2, <2>3 DEF Pipe, TypeOK, goroutineVars, dcrdVars
<1>4. CASE WritePidFile
  BY <1>4 DEF TypeOK, WritePidFile, goroutineVars, pipeVars, dcrdVars
<1>5. CASE LaunchWaiter
  BY <1>5 DEF TypeOK, LaunchWaiter, goroutineVars, pipeVars, dcrdVars
<1>6. CASE SelectContext
  BY <1>6 DEF TypeOK, SelectContext, goroutineVars, pipeVars, dcrdVars
<1>7. CASE SelectCmdDone
  BY <1>7 DEF TypeOK, SelectCmdDone, Received, goroutineVars, pipeVars, dcrdVars
<1>8. CASE SelectAddrs
  BY <1>8 DEF TypeOK, SelectAddrs, goroutineVars, pipeVars, dcrdVars
<1> QED
  BY <1>1, <1>2, <1>3, <1>4, <1>5, <1>6, <1>7, <1>8

\* The steps of shutdown and stop keep the types (stop, shutdown, cleanup).
LEMMA StopTypes ==
    ASSUME TypeOK,
           Shutdown \/ StopCheck \/ StopCloseRX \/ StopWaitGroup \/ StopCmdDone
             \/ StopCloseTX
    PROVE  TypeOK'
<1>1. CASE Shutdown
  BY <1>1 DEF TypeOK, Shutdown, goroutineVars, pipeVars, dcrdVars
<1>2. CASE StopCheck
  BY <1>2 DEF TypeOK, StopCheck, Return, Received, goroutineVars, pipeVars, dcrdVars
<1>3. CASE StopCloseRX
  BY <1>3 DEF TypeOK, StopCloseRX, RXAfterClose, goroutineVars, pipeVars, dcrdVars
<1>4. CASE StopWaitGroup
  BY <1>4 DEF TypeOK, StopWaitGroup, goroutineVars, pipeVars, dcrdVars
<1>5. CASE StopCmdDone
  BY <1>5 DEF TypeOK, StopCmdDone, Received, goroutineVars, pipeVars, dcrdVars
<1>6. CASE StopCloseTX
  <2>1. pipeTX' \in Pipe
    BY <1>6, PipeTypes DEF TypeOK, StopCloseTX, TXAfterClose, Pipe
  <2> QED
    BY <1>6, <2>1 DEF Pipe, TypeOK, StopCloseTX, Return, goroutineVars, dcrdVars
<1> QED
  BY <1>1, <1>2, <1>3, <1>4, <1>5, <1>6

\* The other goroutines, dcrd and the context keep the types (the goroutines of
\* start, nextIPCMessage).
LEMMA OtherTypes ==
    ASSUME TypeOK,
           (\E s \in Streams : Reader(s)) \/ IpcRead \/ IpcDone \/ WaiterSend
             \/ WaiterClose \/ DcrdSend \/ DcrdExit \/ ContextDone
    PROVE  TypeOK'
<1>1. ASSUME NEW s \in Streams, Reader(s) PROVE TypeOK'
  BY <1>1 DEF TypeOK, Reader, ReaderPid, ReaderEOF, pipeVars, dcrdVars
<1>2. CASE IpcRead
  <2>1. Head(pipeTX.msgs) \in EventTypes
    BY <1>2 DEF TypeOK, IpcRead
  <2>2. addrs' \in Seq(EventTypes)
    BY <1>2, <2>1 DEF TypeOK, IpcRead
  <2>3. <<>> \in Seq(EventTypes)
    OBVIOUS
  <2>4. pipeTX' \in Pipe
    BY <1>2, <2>3, PipeTypes DEF TypeOK, IpcRead, LeftInPipe, Pipe
  <2>5. /\ ipc' \in {"read", "drain"} /\ gotSubsysAddrs' \in BOOLEAN
        /\ UNCHANGED <<main, after, result, reader, waiter, cmdDone, pid, pidFile,
                       pipeRX, dcrdVars, ctxDone>>
    BY <1>2 DEF TypeOK, IpcRead
  <2> QED
    BY <2>2, <2>4, <2>5 DEF Pipe, TypeOK, dcrdVars
<1>3. CASE IpcDone
  BY <1>3 DEF TypeOK, IpcDone, pipeVars, dcrdVars
<1>4. CASE WaiterSend
  <2>1. cmdDone' \in Channel
    BY <1>4, ChannelTypes DEF TypeOK, WaiterSend, Channel
  <2> QED
    BY <1>4, <2>1 DEF Channel, TypeOK, WaiterSend, pipeVars, dcrdVars
<1>5. CASE WaiterClose
  <2>1. cmdDone' \in Channel
    BY <1>5, ChannelTypes DEF TypeOK, WaiterClose, Channel
  <2> QED
    BY <1>5, <2>1 DEF Channel, TypeOK, WaiterClose, pipeVars, dcrdVars
<1>6. CASE DcrdSend
  <2>1. Events[sent + 1] \in EventTypes /\ sent + 1 \in 0..Len(Events)
    BY <1>6, EventsAssumption DEF TypeOK, DcrdSend
  <2>2. Append(pipeTX.msgs, Events[sent + 1]) \in Seq(EventTypes)
    BY <2>1 DEF TypeOK
  <2>3. pipeTX' \in Pipe
    BY <1>6, <2>2, PipeTypes DEF TypeOK, DcrdSend, Pipe
  <2> QED
    BY <1>6, <2>1, <2>3 DEF Pipe, TypeOK, DcrdSend, goroutineVars
<1>7. CASE DcrdExit
  BY <1>7 DEF TypeOK, DcrdExit, goroutineVars, pipeVars
<1>8. CASE ContextDone
  BY <1>8 DEF TypeOK, ContextDone, goroutineVars, pipeVars, dcrdVars
<1> QED
  BY <1>1, <1>2, <1>3, <1>4, <1>5, <1>6, <1>7, <1>8

-----------------------------------------------------------------------------
(* The process, its waiter and the addresses                               *)

\* The steps of start keep what is known of the process (start).
LEMMA StartInv ==
    ASSUME IInv,
           StartReaders \/ StartCommand \/ StartFailed \/ WritePidFile \/ LaunchWaiter
             \/ SelectContext \/ SelectCmdDone \/ SelectAddrs
    PROVE  (WaiterInv /\ MainInv /\ AddrsInv)'
<1> USE DEF IInv, WaiterInv, MainInv, AddrsInv, AddrsRead, Receivable, goroutineVars,
            pipeVars, dcrdVars
<1>1. CASE StartReaders
  BY <1>1 DEF StartReaders
<1>2. CASE StartCommand
  BY <1>2 DEF StartCommand
<1>3. CASE StartFailed
  BY <1>3 DEF StartFailed
<1>4. CASE WritePidFile
  BY <1>4 DEF WritePidFile
<1>5. CASE LaunchWaiter
  BY <1>5 DEF LaunchWaiter
<1>6. CASE SelectContext
  BY <1>6 DEF SelectContext
<1>7. CASE SelectCmdDone
  <2>1. /\ ~(cmdDone'.values > 0)
        /\ cmdDone'.closed = cmdDone.closed
    BY <1>7 DEF SelectCmdDone, Received, TypeOK
  <2> QED
    BY <1>7, <2>1 DEF SelectCmdDone
<1>8. CASE SelectAddrs
  BY <1>8 DEF SelectAddrs
<1> QED
  BY <1>1, <1>2, <1>3, <1>4, <1>5, <1>6, <1>7, <1>8

\* stop goes on past the process only when it was never started or has exited
\* and was waited for (stop, shutdown).
LEMMA StopInv ==
    ASSUME IInv,
           Shutdown \/ StopCheck \/ StopCloseRX \/ StopWaitGroup \/ StopCmdDone
             \/ StopCloseTX
    PROVE  (WaiterInv /\ MainInv /\ AddrsInv)'
<1> USE DEF IInv, WaiterInv, MainInv, AddrsInv, AddrsRead, Receivable, goroutineVars,
            pipeVars, dcrdVars
<1>0. Received => ~(cmdDone'.values > 0) /\ cmdDone'.closed = cmdDone.closed
  BY DEF Received, TypeOK
<1>1. CASE Shutdown
  BY <1>1 DEF Shutdown
<1>2. CASE StopCheck
  BY <1>0, <1>2 DEF StopCheck, StopEarly, Return
<1>3. CASE StopCloseRX
  BY <1>3 DEF StopCloseRX
<1>4. CASE StopWaitGroup
  BY <1>4 DEF StopWaitGroup
<1>5. CASE StopCmdDone
  BY <1>0, <1>5 DEF StopCmdDone
<1>6. CASE StopCloseTX
  BY <1>6 DEF StopCloseTX, Return
<1> QED
  BY <1>1, <1>2, <1>3, <1>4, <1>5, <1>6

\* The other goroutines keep it: addresses are only added, and only the waiter
\* of a process that exited writes to cmdDone (the goroutines of start).
LEMMA OtherInv ==
    ASSUME IInv,
           (\E s \in Streams : Reader(s)) \/ IpcRead \/ IpcDone \/ WaiterSend
             \/ WaiterClose \/ DcrdSend \/ DcrdExit \/ ContextDone
    PROVE  (WaiterInv /\ MainInv /\ AddrsInv)'
<1> USE DEF IInv, WaiterInv, MainInv, AddrsInv, Receivable, goroutineVars, pipeVars,
            dcrdVars
<1>1. ASSUME NEW s \in Streams, Reader(s) PROVE (WaiterInv /\ MainInv /\ AddrsInv)'
  BY <1>1 DEF Reader, ReaderPid, ReaderEOF, AddrsRead
<1>2. CASE IpcRead
  <2>1. addrs \in Seq(EventTypes) /\ Head(pipeTX.msgs) \in EventTypes
    BY <1>2 DEF TypeOK, IpcRead
  <2>2. AddrsRead => AddrsRead'
    BY <1>2, <2>1 DEF IpcRead, AddrsRead
  <2>3. BothAddrs(addrs') => AddrsRead'
    BY <1>2, <2>1 DEF IpcRead, BothAddrs, AddrsRead
  <2> QED
    BY <1>2, <2>2, <2>3 DEF IpcRead
<1>3. CASE IpcDone
  BY <1>3 DEF IpcDone, AddrsRead
<1>4. CASE WaiterSend
  BY <1>4 DEF WaiterSend, AddrsRead
<1>5. CASE WaiterClose
  BY <1>5 DEF WaiterClose, AddrsRead
<1>6. CASE DcrdSend
  BY <1>6 DEF DcrdSend, AddrsRead
<1>7. CASE DcrdExit
  BY <1>7 DEF DcrdExit, AddrsRead
<1>8. CASE ContextDone
  BY <1>8 DEF ContextDone, AddrsRead
<1> QED
  BY <1>1, <1>2, <1>3, <1>4, <1>5, <1>6, <1>7, <1>8

\* The strengthened invariant is inductive (start, stop, nextIPCMessage).
LEMMA NextInv == IInv /\ [Next]_vars => IInv'
<1> SUFFICES ASSUME IInv, [Next]_vars PROVE IInv'
  OBVIOUS
<1>1. CASE UNCHANGED vars
  BY <1>1 DEF vars, IInv, TypeOK, WaiterInv, MainInv, AddrsInv, AddrsRead, Receivable
<1>2. CASE Next
  <2>1. TypeOK'
    BY <1>2, StartTypes, StopTypes, OtherTypes DEF Next, Main, IInv
  <2>2. (WaiterInv /\ MainInv /\ AddrsInv)'
    BY <1>2, StartInv, StopInv, OtherInv DEF Next, Main
  <2> QED
    BY <2>1, <2>2 DEF IInv
<1> QED
  BY <1>1, <1>2

-----------------------------------------------------------------------------

\* The strengthened invariant holds in every reachable state.
LEMMA Invariance == Spec => []IInv
<1> QED
  BY InitInv, NextInv, PTL DEF Spec

\* Every reachable state is well typed (start, stop, nextIPCMessage).
THEOREM TypeCorrect == Spec => []TypeOK
<1>1. IInv => TypeOK
  BY DEF IInv
<1> QED
  BY <1>1, Invariance, PTL

\* When shutdown or a failed start returns no dcrd is running and none waits to
\* be collected, whatever failed and whenever dcrd exited (start, stop).
THEOREM NothingLeft == Spec => []NothingLeftRunning
<1>1. IInv => NothingLeftRunning
  BY DEF IInv, MainInv, NothingLeftRunning
<1> QED
  BY <1>1, Invariance, PTL

\* A successful start has read both addresses, or dcrd exited with status 0
\* (start).
THEOREM AddrsPublished == Spec => []PublishedAddrs
<1>1. IInv => PublishedAddrs
  BY DEF IInv, AddrsInv, AddrsRead, PublishedAddrs
<1> QED
  BY <1>1, Invariance, PTL
=============================================================================
