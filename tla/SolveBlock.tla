----------------------------- MODULE SolveBlock -----------------------------
(***************************************************************************)
(* solveBlock of src/dcrdtest/simnet_miner.go: one solver goroutine per    *)
(* core looks for a nonce in its range, main collects one result of each   *)
(* over an unbuffered channel and tells the others to quit when it has the *)
(* first nonce.                                                            *)
(*                                                                         *)
(* The proof of work is abstracted to the set of nonces that solve the     *)
(* block.  Nonces are as wide as their type: the one after MaxNonce is 0.  *)
(*                                                                         *)
(* X_Fault is X with a plausible programming error, used by no formula.    *)
(***************************************************************************)
EXTENDS Integers

CONSTANTS
    NumCores,   \* runtime.NumCPU
    MaxNonce    \* math.MaxUint32

ASSUME SolveBlockAssumption == NumCores \in Nat \ {0} /\ MaxNonce \in Nat \ {0}

Cores == 0..(NumCores - 1)
Nonces == 0..MaxNonce

VARIABLES
    good,       \* the nonces that solve the block, which never change
    pc,         \* a solver: "test", "send" or "done"
    nonce,      \* i of a solver
    result,     \* the sbResult of a solver
    quit,       \* quit is closed
    got,        \* results main has received
    found,      \* foundResult
    header      \* header.Nonce

vars == <<good, pc, nonce, result, quit, got, found, header>>
mainVars == <<quit, got, found, header>>

-----------------------------------------------------------------------------

startNonce == 1
noncesPerCore == (MaxNonce - startNonce) \div NumCores

RangeStart(c) == startNonce + noncesPerCore * c

RangeStop_Fault(c) == startNonce + noncesPerCore * (c + 1) - 1

\* The last core takes what the division leaves over.
RangeStop(c) ==
    IF c = NumCores - 1 THEN MaxNonce ELSE startNonce + noncesPerCore * (c + 1) - 1

NotFound == [found |-> FALSE, nonce |-> 0]

TypeOK ==
    /\ good \subseteq Nonces
    /\ pc \in [Cores -> {"test", "send", "done"}]
    /\ nonce \in [Cores -> Nonces]
    /\ result \in [Cores -> [found : BOOLEAN, nonce : Nonces]]
    /\ quit \in BOOLEAN /\ found \in BOOLEAN
    /\ got \in 0..NumCores /\ header \in Nonces

Init ==
    /\ good \in SUBSET Nonces
    /\ pc = [c \in Cores |-> "test"]
    /\ nonce = [c \in Cores |-> RangeStart(c)]
    /\ result = [c \in Cores |-> NotFound]
    /\ quit = FALSE /\ got = 0 /\ found = FALSE /\ header = 0

-----------------------------------------------------------------------------

InRange_Fault(c) == nonce[c] <= RangeStop(c)

\* The condition of the loop; the first part catches the overflow of i.
InRange(c) == nonce[c] >= RangeStart(c) /\ nonce[c] <= RangeStop(c)

Send(c, r) ==
    /\ pc' = [pc EXCEPT ![c] = "send"]
    /\ result' = [result EXCEPT ![c] = r]
    /\ UNCHANGED <<good, nonce, mainVars>>

\* Another core found a nonce.
Quit(c) ==
    /\ pc[c] = "test" /\ InRange(c) /\ quit
    /\ Send(c, NotFound)

Solves(c) ==
    /\ pc[c] = "test" /\ InRange(c) /\ ~quit
    /\ nonce[c] \in good
    /\ Send(c, [found |-> TRUE, nonce |-> nonce[c]])

Tries(c) ==
    /\ pc[c] = "test" /\ InRange(c) /\ ~quit
    /\ nonce[c] \notin good
    /\ nonce' = [nonce EXCEPT ![c] = (@ + 1) % (MaxNonce + 1)]
    /\ UNCHANGED <<good, pc, result, mainVars>>

Exhausts(c) ==
    /\ pc[c] = "test" /\ ~InRange(c)
    /\ Send(c, NotFound)

\* A solver and main meet at the channel.  Only the first nonce counts.
Receive(c) ==
    /\ pc[c] = "send" /\ got < NumCores
    /\ pc' = [pc EXCEPT ![c] = "done"]
    /\ got' = got + 1
    /\ IF ~found /\ result[c].found
         THEN quit' = TRUE /\ found' = TRUE /\ header' = result[c].nonce
         ELSE UNCHANGED <<quit, found, header>>
    /\ UNCHANGED <<good, nonce, result>>

-----------------------------------------------------------------------------

Solver(c) == Quit(c) \/ Solves(c) \/ Tries(c) \/ Exhausts(c)

Next == \E c \in Cores : Solver(c) \/ Receive(c)

Spec == Init /\ [][Next]_vars

\* Every goroutine that can go on does.
FairSpec ==
    /\ Spec
    /\ \A c \in Cores : WF_vars(Solver(c))
    /\ WF_vars(\E c \in Cores : Receive(c))

-----------------------------------------------------------------------------
(* Properties                                                              *)

\* solveBlock returns when it has a result of every core.
Returned == got = NumCores

\* What solveBlock promises: when it returns it found a nonce, one that solves
\* the block, if and only if some nonce but zero solves it.  The ranges leave
\* none out, whatever the cores do to each other with quit.
FoundIfSolvable ==
    Returned => /\ found <=> good \intersect (startNonce..MaxNonce) # {}
                /\ found => header \in good

\* solveBlock returns, and with it every solver it started: nobody sends into a
\* channel that main has left, and the loop of the last core ends although its
\* counter overflows.
AllSolversEnd == <>(Returned /\ \A c \in Cores : pc[c] = "done")
=============================================================================
