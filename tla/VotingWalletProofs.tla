------------------------- MODULE VotingWalletProofs -------------------------
(***************************************************************************)
(* Theorems about VotingWallet, for any parameters of the chain, sizes of  *)
(* the buffers and number of faults: the votes slice, the dispatcher, the  *)
(* coins of an undisturbed wallet, the types and whose votes are sent.     *)
(***************************************************************************)
EXTENDS VotingWallet, TLAPS, SequenceTheorems, FiniteSetTheorems

\* The locals of the handler form a record.
IsWork(w) == w = [height |-> w.height, txs |-> w.txs, got |-> w.got, todo |-> w.todo, cap |-> w.cap]

\* The values that grow without a type are sequences all the same.
IsSeq(s) == \E S : s \in Seq(S)

\* While votes are made there is room for one more in the slice, unless it was
\* made with no room at all.  The limit never exceeds the slice's length.
CapInv ==
    /\ limit \in Nat
    /\ handler = "create" =>
          /\ IsWork(work) /\ IsSeq(work.txs)
          /\ work.cap \in Nat /\ limit <= work.cap
          /\ work.todo # <<>> => Len(work.txs) < work.cap \/ work.cap = 0
    /\ handler = "panicked" => limit = 0 /\ gen.at = "dead"

\* A vote more is in the slice.
LEMMA OneMore ==
    ASSUME NEW s, NEW e, IsSeq(s)
    PROVE  IsSeq(Append(s, e)) /\ Len(Append(s, e)) = Len(s) + 1 /\ Len(s) \in Nat
<1>1. PICK S : s \in Seq(S)
  BY DEF IsSeq
<1>2. s \in Seq(S \union {e})
  BY <1>1
<1>3. Append(s, e) \in Seq(S \union {e}) /\ Len(Append(s, e)) = Len(s) + 1 /\ Len(s) \in Nat
  BY <1>2
<1> QED
  BY <1>3 DEF IsSeq

\* A step after which no vote is being made, and which leaves limit alone.
LEMMA OutsideLoop ==
    ASSUME CapInv, UNCHANGED limit, handler' \notin {"create", "panicked"}
    PROVE  CapInv'
  BY DEF CapInv

\* A step of somebody else.
LEMMA ElsewhereStep ==
    ASSUME CapInv, UNCHANGED <<limit, handler, work>>, gen.at = "dead" => gen'.at = "dead"
    PROVE  CapInv'
  BY DEF CapInv, IsWork

\* handleWinningTicketsNtfn makes the slice as long as the limit.
LEMMA SliceMade ==
    ASSUME CapInv, handleWinningTicketsNtfn
    PROVE  CapInv'
<1>1. limit' = limit /\ limit \in Nat
  BY DEF CapInv, handleWinningTicketsNtfn, testVars
<1>2. CASE Return({"sign"})
  BY <1>1, <1>2, OutsideLoop DEF Return
<1>3. CASE /\ handler' = "create"
           /\ work' = [NoWork EXCEPT !.height = Head(winChan).height,
                                     !.todo = Head(winChan).winners, !.cap = limit]
  <2>1. work' = [height |-> Head(winChan).height, txs |-> <<>>, got |-> 0,
                 todo |-> Head(winChan).winners, cap |-> limit]
    BY <1>3 DEF NoWork
  <2>2. <<>> \in Seq({}) /\ Len(<<>>) = 0
    OBVIOUS
  <2>3. IsWork(work') /\ IsSeq(work'.txs) /\ work'.cap = limit /\ Len(work'.txs) = 0
    BY <2>1, <2>2 DEF IsWork, IsSeq
  <2> QED
    BY <1>1, <1>3, <2>3 DEF CapInv, IsWork
<1> QED
  BY <1>2, <1>3 DEF handleWinningTicketsNtfn

\* A turn of the loop leaves room for the next vote or ends the loop.
LEMMA VoteMade ==
    ASSUME CapInv, CreateVote
    PROVE  CapInv'
<1> DEFINE wt == Head(work.todo)
           made == Append(work.txs, VoteTx(wt))
<1>1. /\ handler = "create" /\ work.todo # <<>> /\ limit' = limit /\ limit \in Nat
      /\ IsWork(work) /\ IsSeq(work.txs) /\ work.cap \in Nat /\ limit <= work.cap
      /\ Len(work.txs) < work.cap \/ work.cap = 0
  BY DEF CapInv, CreateVote, testVars
<1>2. CASE handler' = "select"
  BY <1>1, <1>2, OutsideLoop
<1>3. CASE handler' = handler /\ work' = [work EXCEPT !.todo = Tail(@)]
  <2>1. work' = [height |-> work.height, txs |-> work.txs, got |-> work.got,
                 todo |-> Tail(work.todo), cap |-> work.cap]
    BY <1>1, <1>3 DEF IsWork
  <2>2. IsWork(work') /\ work'.txs = work.txs /\ work'.cap = work.cap
    BY <2>1 DEF IsWork
  <2> QED
    BY <1>1, <1>3, <2>2 DEF CapInv, IsWork
<1>4. CASE /\ handler' = handler /\ Len(work.txs) < work.cap
           /\ work' = [work EXCEPT !.txs = made,
                                   !.todo = IF Len(made) >= limit THEN <<>> ELSE Tail(@)]
  <2> DEFINE rest == IF Len(made) >= limit THEN <<>> ELSE Tail(work.todo)
  <2>1. IsSeq(made) /\ Len(made) \in Nat
    BY <1>1, OneMore
  <2>2. rest # <<>> => Len(made) < work.cap
    BY <1>1, <2>1
  <2> HIDE DEF made
  <2>3. work' = [height |-> work.height, txs |-> made, got |-> work.got,
                 todo |-> rest, cap |-> work.cap]
    BY <1>1, <1>4 DEF IsWork
  <2> HIDE DEF rest
  <2>4. IsWork(work') /\ work'.txs = made /\ work'.todo = rest /\ work'.cap = work.cap
    BY <2>3 DEF IsWork
  <2> QED
    BY <1>1, <1>4, <2>1, <2>2, <2>4 DEF CapInv, IsWork
<1>5. \/ handler' = "select"
      \/ handler' = handler /\ work' = [work EXCEPT !.todo = Tail(@)]
      \/ /\ handler' = handler /\ Len(work.txs) < work.cap
         /\ work' = [work EXCEPT !.txs = made,
                                 !.todo = IF Len(made) >= limit THEN <<>> ELSE Tail(@)]
  BY DEF CreateVote, Return
<1> QED
  BY <1>2, <1>3, <1>4, <1>5

\* The handler's steps besides.
LEMMA HandlerStep ==
    ASSUME CapInv,
           \/ handleBlockConnectedNtfn \/ ReceiveTicket \/ PublishVotes \/ ReceiveVote
           \/ ReceiveStopping \/ HandlerExit
    PROVE  CapInv'
<1>1. UNCHANGED limit
  BY DEF handleBlockConnectedNtfn, ReceiveTicket, PublishVotes, ReceiveVote,
       ReceiveStopping, HandlerExit, testVars
<1>2. handler' \notin {"create", "panicked"}
  <2>1. CASE handleBlockConnectedNtfn
    BY <2>1 DEF handleBlockConnectedNtfn, Return, Publish
  <2>2. CASE ReceiveTicket
    BY <2>2 DEF ReceiveTicket, Return
  <2>3. CASE PublishVotes
    BY <2>3 DEF PublishVotes, Return, Publish
  <2>4. CASE ReceiveVote
    BY <2>4 DEF ReceiveVote, Return
  <2>5. CASE ReceiveStopping \/ HandlerExit
    BY <2>5 DEF ReceiveStopping, HandlerExit, Return
  <2> QED
    BY <2>1, <2>2, <2>3, <2>4, <2>5
<1> QED
  BY <1>1, <1>2, OutsideLoop

\* The index passes the end of the slice only when the slice has no room.
LEMMA PanicStep ==
    ASSUME CapInv, CreateVotePanics
    PROVE  CapInv'
<1>1. handler' = "panicked" /\ limit' = limit /\ gen'.at = "dead"
  BY DEF CreateVotePanics, NoGen
<1>2. limit = 0
  <2>1. Len(work.txs) \in Nat
    BY OneMore DEF CapInv, CreateVotePanics
  <2> QED
    BY <2>1 DEF CapInv, CreateVotePanics
<1> QED
  BY <1>1, <1>2 DEF CapInv

\* dcrd and the dispatcher.
LEMMA OutsideStep ==
    ASSUME CapInv, DcrdNext \/ DispatcherNext
    PROVE  CapInv'
<1>1. CASE DcrdNext
  BY <1>1, ElsewhereStep DEF DcrdNext, AcceptTx, RefuseTx, testVars
<1>2. CASE onBlockConnected \/ onWinningTickets \/ DeliverAnswer \/ DropReply
  BY <1>2, ElsewhereStep DEF onBlockConnected, onWinningTickets, DeliverAnswer, DropReply,
       testVars, nonTestVars
<1>3. CASE GotBestBlock \/ Mined \/ Polled
  BY <1>3, ElsewhereStep DEF GotBestBlock, Mined, Polled, nonTestVars
<1> QED
  BY <1>1, <1>2, <1>3 DEF DispatcherNext

\* The test: LimitNbVotes lowers the limit only while no call has panicked.
LEMMA TestStep ==
    ASSUME CapInv, TestNext
    PROVE  CapInv'
<1>1. CASE Start
  BY <1>1, OutsideLoop DEF Start, testVars
<1>2. ASSUME NEW n \in 0..TicketsPerBlock, LimitNbVotes(n)
      PROVE  CapInv'
  <2>1. limit' \in 0..limit /\ handler' = handler /\ work' = work /\ handler # "panicked"
    BY <1>2 DEF LimitNbVotes, nonTestVars, CapInv
  <2>2. limit' \in Nat /\ limit' <= limit /\ limit \in Nat
    BY <2>1 DEF CapInv
  <2> QED
    BY <2>1, <2>2 DEF CapInv, IsWork
<1>3. CASE GenerateBlocks \/ Mine \/ MineFails \/ Poll \/ Timeout \/ Stopping
  BY <1>3, ElsewhereStep DEF GenerateBlocks, Mine, MineFails, Poll, Timeout, Stopping, Call,
       nonTestVars
<1>4. CASE GenerateOther \/ Cancel
  BY <1>4, ElsewhereStep DEF GenerateOther, Cancel, nonTestVars, testVars
<1> QED
  BY <1>1, <1>2, <1>3, <1>4 DEF TestNext

\* Every way the slice of votes and the limit may come apart keeps the index
\* inside, unless the limit is zero (LimitNbVotes, handleWinningTicketsNtfn).
LEMMA CapInvariance == Spec => []CapInv
<1>1. Init => CapInv
  BY VotingWalletAssumption DEF Init, CapInv
<1>2. CapInv /\ [Next]_vars => CapInv'
  <2> SUFFICES ASSUME CapInv, [Next]_vars PROVE CapInv'
    OBVIOUS
  <2>1. CASE DcrdNext \/ DispatcherNext
    BY <2>1, OutsideStep
  <2>2. CASE HandlerNext
    BY <2>2, SliceMade, VoteMade, PanicStep, HandlerStep DEF HandlerNext
  <2>3. CASE TestNext
    BY <2>3, TestStep
  <2>4. CASE UNCHANGED vars
    BY <2>4, ElsewhereStep DEF vars, testVars
  <2> QED
    BY <2>1, <2>2, <2>3, <2>4 DEF Next
<1> QED
  BY <1>1, <1>2, PTL DEF Spec

\* The slice of votes is indexed past its end only after LimitNbVotes(0),
\* whenever the test lowers the limit (LimitNbVotes, handleWinningTicketsNtfn).
THEOREM PanicCorrect == Spec => []PanicOnlyAtZero
<1>1. CapInv => PanicOnlyAtZero
  BY DEF CapInv, PanicOnlyAtZero
<1> QED
  BY <1>1, CapInvariance, PTL

-----------------------------------------------------------------------------
(* Sequences of notifications.                                             *)

\* The notifications of a kind in s are those of the blocks after lo up to hi,
\* each once and in the order of the chain.
Queued(s, kind, lo, hi) ==
    /\ lo \in Nat /\ hi \in Nat /\ lo <= hi
    /\ \A i \in 1..Len(s) : s[i].kind = kind => s[i].height \in (lo + 1)..hi
    /\ \A i, j \in 1..Len(s) :
          i < j /\ s[i].kind = kind /\ s[j].kind = kind => s[i].height < s[j].height
    /\ \A h \in (lo + 1)..hi : \E i \in 1..Len(s) : s[i].kind = kind /\ s[i].height = h

\* Where the elements of s \o t come from.
LEMMA Concat ==
    ASSUME NEW s, NEW t, IsSeq(s), IsSeq(t)
    PROVE  /\ IsSeq(s \o t) /\ Len(s) \in Nat /\ Len(t) \in Nat
           /\ Len(s \o t) = Len(s) + Len(t)
           /\ \A i \in 1..Len(s) : (s \o t)[i] = s[i]
           /\ \A i \in 1..Len(t) : (s \o t)[Len(s) + i] = t[i]
<1>1. PICK A : s \in Seq(A)
  BY DEF IsSeq
<1>2. PICK B : t \in Seq(B)
  BY DEF IsSeq
<1>3. s \in Seq(A \union B) /\ t \in Seq(A \union B)
  BY <1>1, <1>2
<1>4. s \o t \in Seq(A \union B) /\ Len(s) \in Nat /\ Len(t) \in Nat
      /\ Len(s \o t) = Len(s) + Len(t)
  BY <1>3
<1>5. \A i \in 1..Len(s) : (s \o t)[i] = s[i]
  BY <1>3, ConcatProperties
<1>6. \A i \in 1..Len(t) : (s \o t)[Len(s) + i] = t[i]
  BY <1>3, <1>4, ConcatProperties
<1> QED
  BY <1>4, <1>5, <1>6 DEF IsSeq

\* Where the elements of Tail(s) come from.
LEMMA WithoutHead ==
    ASSUME NEW s, IsSeq(s), s # <<>>
    PROVE  /\ IsSeq(Tail(s)) /\ Len(s) \in Nat \ {0} /\ Len(Tail(s)) = Len(s) - 1
           /\ Head(s) = s[1]
           /\ \A i \in 1..Len(Tail(s)) : Tail(s)[i] = s[i + 1]
<1>1. PICK A : s \in Seq(A)
  BY DEF IsSeq
<1>2. Tail(s) \in Seq(A) /\ Len(Tail(s)) = Len(s) - 1 /\ Len(s) \in Nat \ {0}
  BY <1>1, EmptySeq, LenProperties, HeadTailProperties
<1>3. Head(s) = s[1] /\ \A i \in 1..Len(Tail(s)) : Tail(s)[i] = s[i + 1]
  BY <1>1, <1>2, HeadTailProperties
<1> QED
  BY <1>2, <1>3 DEF IsSeq

\* The sequence of one element.
LEMMA Single ==
    ASSUME NEW e
    PROVE  IsSeq(<<e>>) /\ Len(<<e>>) = 1 /\ <<e>>[1] = e
<1>1. <<e>> \in Seq({e})
  OBVIOUS
<1> QED
  BY <1>1 DEF IsSeq

\* What is queued behind what.
LEMMA QueuedConcat ==
    ASSUME NEW s, NEW t, IsSeq(s), IsSeq(t), NEW kind, NEW lo, NEW mid, NEW hi,
           Queued(s, kind, lo, mid), Queued(t, kind, mid, hi)
    PROVE  Queued(s \o t, kind, lo, hi)
<1> DEFINE u == s \o t
<1>1. /\ Len(s) \in Nat /\ Len(t) \in Nat /\ Len(u) = Len(s) + Len(t)
      /\ \A i \in 1..Len(s) : u[i] = s[i]
      /\ \A i \in 1..Len(t) : u[Len(s) + i] = t[i]
  BY Concat
<1>2. \A i \in 1..Len(u) : \/ i \in 1..Len(s) /\ u[i] = s[i]
                           \/ i - Len(s) \in 1..Len(t) /\ u[i] = t[i - Len(s)]
  <2> SUFFICES ASSUME NEW i \in 1..Len(u), i \notin 1..Len(s)
               PROVE  i - Len(s) \in 1..Len(t) /\ u[i] = t[i - Len(s)]
    BY <1>1
  <2>1. i - Len(s) \in 1..Len(t) /\ Len(s) + (i - Len(s)) = i
    BY <1>1
  <2> QED
    BY <2>1, <1>1
<1> HIDE DEF u
<1>3. lo \in Nat /\ hi \in Nat /\ mid \in Nat /\ lo <= mid /\ mid <= hi
  BY DEF Queued
<1>4. ASSUME NEW i \in 1..Len(u), u[i].kind = kind
      PROVE  u[i].height \in (lo + 1)..hi
  <2>1. CASE i \in 1..Len(s) /\ u[i] = s[i]
    <3>1. u[i].height \in (lo + 1)..mid
      BY <1>4, <2>1 DEF Queued
    <3> QED
      BY <1>3, <3>1
  <2>2. CASE i - Len(s) \in 1..Len(t) /\ u[i] = t[i - Len(s)]
    <3>1. u[i].height \in (mid + 1)..hi
      BY <1>4, <2>2 DEF Queued
    <3> QED
      BY <1>3, <3>1
  <2> QED
    BY <1>2, <1>4, <2>1, <2>2
<1>5. ASSUME NEW i \in 1..Len(u), NEW j \in 1..Len(u), i < j,
             u[i].kind = kind, u[j].kind = kind
      PROVE  u[i].height < u[j].height
  <2>1. CASE j \in 1..Len(s) /\ u[j] = s[j]
    <3>1. i \in 1..Len(s) /\ u[i] = s[i]
      BY <1>1, <1>5, <2>1
    <3> QED
      BY <1>5, <2>1, <3>1 DEF Queued
  <2>2. CASE /\ j - Len(s) \in 1..Len(t) /\ u[j] = t[j - Len(s)]
             /\ i - Len(s) \in 1..Len(t) /\ u[i] = t[i - Len(s)]
    <3>1. i - Len(s) < j - Len(s)
      BY <1>1, <1>5
    <3> QED
      BY <1>5, <2>2, <3>1 DEF Queued
  <2>3. CASE /\ j - Len(s) \in 1..Len(t) /\ u[j] = t[j - Len(s)]
             /\ i \in 1..Len(s) /\ u[i] = s[i]
    <3>1. u[i].height \in (lo + 1)..mid /\ u[j].height \in (mid + 1)..hi
      BY <1>5, <2>3 DEF Queued
    <3> QED
      BY <3>1, <1>3
  <2> QED
    BY <1>2, <1>5, <2>1, <2>2, <2>3
<1>6. ASSUME NEW h \in (lo + 1)..hi
      PROVE  \E i \in 1..Len(u) : u[i].kind = kind /\ u[i].height = h
  <2>1. CASE h <= mid
    <3>1. PICK i \in 1..Len(s) : s[i].kind = kind /\ s[i].height = h
      BY <1>3, <2>1 DEF Queued
    <3> QED
      BY <1>1, <3>1
  <2>2. CASE h > mid
    <3>0. h \in (mid + 1)..hi
      BY <1>3, <2>2
    <3>1. PICK i \in 1..Len(t) : t[i].kind = kind /\ t[i].height = h
      BY <3>0 DEF Queued
    <3>2. Len(s) + i \in 1..Len(u)
      BY <1>1
    <3> QED
      BY <1>1, <3>1, <3>2
  <2> QED
    BY <1>3, <2>1, <2>2
<1>7. Queued(u, kind, lo, hi)
  BY <1>3, <1>4, <1>5, <1>6 DEF Queued
<1> QED
  BY <1>7 DEF u

\* Nothing of a kind is queued.
LEMMA QueuedNone ==
    ASSUME NEW s, NEW kind, NEW n \in Nat, \A i \in 1..Len(s) : s[i].kind # kind
    PROVE  Queued(s, kind, n, n)
  BY DEF Queued

\* One notification is queued.
LEMMA QueuedOne ==
    ASSUME NEW e, NEW n \in Nat, e.height = n + 1
    PROVE  Queued(<<e>>, e.kind, n, n + 1)
  BY Single DEF Queued

\* Another message leaves the front of the queue.
LEMMA QueuedTailOther ==
    ASSUME NEW s, IsSeq(s), s # <<>>, NEW kind, NEW lo, NEW hi,
           Queued(s, kind, lo, hi), Head(s).kind # kind
    PROVE  Queued(Tail(s), kind, lo, hi)
<1> DEFINE t == Tail(s)
<1>1. /\ Len(s) \in Nat \ {0} /\ Len(t) = Len(s) - 1 /\ Head(s) = s[1]
      /\ \A i \in 1..Len(t) : t[i] = s[i + 1]
  BY WithoutHead
<1> HIDE DEF t
<1>2. \A i \in 1..Len(t) : i + 1 \in 1..Len(s)
  BY <1>1
<1>3. \A i \in 1..Len(s) : s[i].kind = kind => i - 1 \in 1..Len(t) /\ t[i - 1] = s[i]
  <2> SUFFICES ASSUME NEW i \in 1..Len(s), s[i].kind = kind
               PROVE  i - 1 \in 1..Len(t) /\ t[i - 1] = s[i]
    OBVIOUS
  <2>1. i # 1
    BY <1>1
  <2>2. i - 1 \in 1..Len(t) /\ (i - 1) + 1 = i
    BY <1>1, <2>1
  <2> QED
    BY <1>1, <2>2
<1>4. Queued(t, kind, lo, hi)
  <2>1. lo \in Nat /\ hi \in Nat /\ lo <= hi
    BY DEF Queued
  <2>2. ASSUME NEW i \in 1..Len(t), t[i].kind = kind
        PROVE  t[i].height \in (lo + 1)..hi
    <3>1. i + 1 \in 1..Len(s) /\ t[i] = s[i + 1]
      BY <1>1, <1>2
    <3> QED
      BY <2>2, <3>1 DEF Queued
  <2>3. ASSUME NEW i \in 1..Len(t), NEW j \in 1..Len(t), i < j,
               t[i].kind = kind, t[j].kind = kind
        PROVE  t[i].height < t[j].height
    <3>1. i + 1 \in 1..Len(s) /\ j + 1 \in 1..Len(s) /\ i + 1 < j + 1
          /\ t[i] = s[i + 1] /\ t[j] = s[j + 1]
      BY <1>1, <1>2, <2>3
    <3> QED
      BY <2>3, <3>1 DEF Queued
  <2>4. ASSUME NEW h \in (lo + 1)..hi
        PROVE  \E i \in 1..Len(t) : t[i].kind = kind /\ t[i].height = h
    <3>1. PICK i \in 1..Len(s) : s[i].kind = kind /\ s[i].height = h
      BY DEF Queued
    <3> QED
      BY <1>3, <3>1
  <2> QED
    BY <2>1, <2>2, <2>3, <2>4 DEF Queued
<1> QED
  BY <1>4 DEF t

\* The first message of the kind leaves the queue: it is the oldest.
LEMMA QueuedTailSame ==
    ASSUME NEW s, IsSeq(s), s # <<>>, NEW kind, NEW lo, NEW hi,
           Queued(s, kind, lo, hi), Head(s).kind = kind
    PROVE  Head(s).height = lo + 1 /\ lo + 1 <= hi /\ Queued(Tail(s), kind, lo + 1, hi)
<1> DEFINE t == Tail(s)
<1>1. /\ Len(s) \in Nat \ {0} /\ Len(t) = Len(s) - 1 /\ Head(s) = s[1]
      /\ \A i \in 1..Len(t) : t[i] = s[i + 1]
  BY WithoutHead
<1> HIDE DEF t
<1>2. \A i \in 1..Len(t) : i + 1 \in 1..Len(s)
  BY <1>1
<1>3. lo \in Nat /\ hi \in Nat /\ lo <= hi
  BY DEF Queued
<1>4. s[1].height \in (lo + 1)..hi /\ s[1].kind = kind /\ 1 \in 1..Len(s)
  BY <1>1 DEF Queued
<1>5. s[1].height = lo + 1 /\ lo + 1 <= hi
  <2>1. lo + 1 \in (lo + 1)..hi
    BY <1>3, <1>4
  <2>2. PICK i \in 1..Len(s) : s[i].kind = kind /\ s[i].height = lo + 1
    BY <2>1 DEF Queued
  <2>3. 1 < i => s[1].height < s[i].height
    BY <1>4, <2>2 DEF Queued
  <2> QED
    BY <1>1, <1>3, <1>4, <2>2, <2>3
<1>6. \A i \in 1..Len(t) : t[i].kind = kind => t[i].height \in (lo + 2)..hi
  <2> SUFFICES ASSUME NEW i \in 1..Len(t), t[i].kind = kind
               PROVE  t[i].height \in (lo + 2)..hi
    OBVIOUS
  <2>1. i + 1 \in 1..Len(s) /\ 1 < i + 1 /\ t[i] = s[i + 1]
    BY <1>1, <1>2
  <2>2. s[i + 1].height \in (lo + 1)..hi /\ s[1].height < s[i + 1].height
    BY <1>4, <2>1 DEF Queued
  <2> QED
    BY <1>3, <1>5, <2>1, <2>2
<1>7. ASSUME NEW i \in 1..Len(t), NEW j \in 1..Len(t), i < j,
             t[i].kind = kind, t[j].kind = kind
      PROVE  t[i].height < t[j].height
  <2>1. i + 1 \in 1..Len(s) /\ j + 1 \in 1..Len(s) /\ i + 1 < j + 1
        /\ t[i] = s[i + 1] /\ t[j] = s[j + 1]
    BY <1>1, <1>2, <1>7
  <2> QED
    BY <1>7, <2>1 DEF Queued
<1>8. ASSUME NEW h \in (lo + 2)..hi
      PROVE  \E i \in 1..Len(t) : t[i].kind = kind /\ t[i].height = h
  <2>1. h \in (lo + 1)..hi /\ h # lo + 1
    BY <1>3
  <2>2. PICK i \in 1..Len(s) : s[i].kind = kind /\ s[i].height = h
    BY <2>1 DEF Queued
  <2>3. i # 1
    BY <1>5, <2>1, <2>2
  <2>4. i - 1 \in 1..Len(t) /\ (i - 1) + 1 = i
    BY <1>1, <2>3
  <2> QED
    BY <1>1, <2>2, <2>4
<1>9. Queued(t, kind, lo + 1, hi)
  <2>1. (lo + 1) + 1 = lo + 2
    BY <1>3
  <2> QED
    BY <1>3, <1>5, <1>6, <1>7, <1>8, <2>1 DEF Queued
<1> QED
  BY <1>1, <1>5, <1>9 DEF t

-----------------------------------------------------------------------------
(* The two channels: every notification arrives once, in the order of the  *)
(* chain, and is on the connection, in its channel or handled.             *)

\* The first block tickets are bought for, the first block with winners, and
\* the last one that had some.
FirstBuy == ticketPurchaseStartHeight
FirstDraw == StakeValidationHeight - 1
LastDraw == IF height < FirstDraw THEN FirstDraw - 1 ELSE height

\* The handler took the blocks up to c and the winners up to v.
InOrder(c, v) ==
    /\ c \in Nat /\ v \in Nat /\ height \in Nat
    /\ v >= FirstDraw - 1
    /\ IsSeq(wire) /\ IsSeq(blockChan) /\ IsSeq(winChan)
    /\ \A i \in 1..Len(blockChan) : blockChan[i] = c + i
    /\ Queued(wire, "block", c + Len(blockChan), height)
    /\ \A i \in 1..Len(winChan) : winChan[i].height = v + i
    /\ Queued(wire, "winning", v + Len(winChan), LastDraw)

\* The parameters of the chain.
LEMMA Heights ==
    /\ TicketsPerBlock \in Nat \ {0} /\ CoinbaseMaturity \in Nat \ {0}
    /\ BufferLen \in Nat \ {0} /\ MaxHeight \in Nat \ {0} /\ TicketMaturity \in Nat
    /\ FirstBuy \in Nat \ {0} /\ FirstDraw \in Nat
    /\ FirstDraw = FirstBuy + TicketMaturity + 1 /\ StakeValidationHeight = FirstDraw + 1
    /\ Majority \in Nat \ {0}
<1>1. /\ TicketsPerBlock \in Nat \ {0} /\ CoinbaseMaturity \in Nat \ {0}
      /\ BufferLen \in Nat \ {0} /\ MaxHeight \in Nat \ {0} /\ TicketMaturity \in Nat
      /\ StakeValidationHeight \in Nat /\ StakeValidationHeight > TicketMaturity + 2
  BY VotingWalletAssumption
<1>2. Majority \in Nat \ {0}
  BY <1>1 DEF Majority
<1> QED
  BY <1>1, <1>2 DEF FirstBuy, FirstDraw, ticketPurchaseStartHeight

\* The last block with winners is at most the last block.
LEMMA LastDrawType ==
    ASSUME height \in Nat
    PROVE  LastDraw \in Nat /\ LastDraw >= FirstDraw - 1 /\ (height >= FirstDraw => LastDraw = height)
  BY Heights DEF LastDraw

\* Nothing happens to the notifications.
LEMMA InOrderSame ==
    ASSUME NEW c, NEW v, InOrder(c, v), UNCHANGED <<height, wire, blockChan, winChan>>
    PROVE  InOrder(c, v)'
  BY DEF InOrder, LastDraw, Queued, IsSeq

\* Something else is written to the connection.
LEMMA InOrderWritten ==
    ASSUME NEW c, NEW v, InOrder(c, v), UNCHANGED <<height, blockChan, winChan>>,
           NEW e, e.kind \notin {"block", "winning"}, wire' = Append(wire, e)
    PROVE  InOrder(c, v)'
<1>1. IsSeq(wire) /\ IsSeq(<<e>>) /\ Append(wire, e) = wire \o <<e>>
  <2>1. PICK A : wire \in Seq(A)
    BY DEF InOrder, IsSeq
  <2>2. wire \in Seq(A \union {e}) /\ e \in A \union {e}
    BY <2>1
  <2> QED
    BY <2>1, <2>2, Single, AppendIsConcat DEF IsSeq
<1>2. LastDraw \in Nat /\ LastDraw' = LastDraw /\ height \in Nat
  BY LastDrawType DEF InOrder, LastDraw
<1>3. \A i \in 1..Len(<<e>>) : <<e>>[i].kind = e.kind
  BY Single
<1>4. Queued(<<e>>, "block", height, height) /\ Queued(<<e>>, "winning", LastDraw, LastDraw)
  BY <1>2, <1>3, QueuedNone
<1>5. /\ IsSeq(wire')
      /\ Queued(wire', "block", c + Len(blockChan), height)
      /\ Queued(wire', "winning", v + Len(winChan), LastDraw)
  BY <1>1, <1>4, Concat, QueuedConcat DEF InOrder
<1> QED
  BY <1>2, <1>5 DEF InOrder

\* Something else is read from the connection.
LEMMA InOrderRead ==
    ASSUME NEW c, NEW v, InOrder(c, v), UNCHANGED <<height, blockChan, winChan>>,
           wire # <<>>, Head(wire).kind \notin {"block", "winning"}, wire' = Tail(wire)
    PROVE  InOrder(c, v)'
<1>1. LastDraw' = LastDraw
  BY DEF LastDraw
<1>2. /\ IsSeq(wire')
      /\ Queued(wire', "block", c + Len(blockChan), height)
      /\ Queued(wire', "winning", v + Len(winChan), LastDraw)
  BY WithoutHead, QueuedTailOther DEF InOrder
<1> QED
  BY <1>1, <1>2 DEF InOrder

\* onBlockConnected: the oldest block not taken yet goes to its channel.
LEMMA InOrderBlock ==
    ASSUME NEW c, NEW v, InOrder(c, v), onBlockConnected
    PROVE  InOrder(c, v)'
<1>1. /\ wire # <<>> /\ Head(wire).kind = "block" /\ wire' = Tail(wire)
      /\ blockChan' = Append(blockChan, Head(wire).height)
      /\ UNCHANGED <<height, winChan>>
  BY DEF onBlockConnected, dcrdVars
<1> DEFINE n == Len(blockChan)
<1>2. /\ Head(wire).height = c + n + 1
      /\ Queued(Tail(wire), "block", c + n + 1, height)
      /\ Queued(Tail(wire), "winning", v + Len(winChan), LastDraw)
      /\ IsSeq(Tail(wire))
  BY <1>1, WithoutHead, QueuedTailSame, QueuedTailOther DEF InOrder
<1>3. /\ IsSeq(blockChan') /\ Len(blockChan') = n + 1 /\ n \in Nat
      /\ \A i \in 1..n : blockChan'[i] = blockChan[i]
      /\ blockChan'[n + 1] = Head(wire).height
  <2>1. PICK A : blockChan \in Seq(A)
    BY DEF InOrder, IsSeq
  <2>2. blockChan \in Seq(A \union {Head(wire).height})
    BY <2>1
  <2> QED
    BY <1>1, <2>2 DEF IsSeq
<1>4. \A i \in 1..(n + 1) : blockChan'[i] = c + i
  <2> HIDE DEF n
  <2>1. \A i \in 1..n : blockChan[i] = c + i
    BY DEF InOrder, n
  <2>2. \A i \in 1..(n + 1) : i \in 1..n \/ i = n + 1
    BY <1>3
  <2>3. c \in Nat
    BY DEF InOrder
  <2>4. c + n + 1 = c + (n + 1)
    BY <2>3, <1>3
  <2> QED
    BY <1>2, <1>3, <2>1, <2>2, <2>4
<1>5. c + Len(blockChan') = c + n + 1 /\ LastDraw' = LastDraw
  BY <1>1, <1>3 DEF InOrder, LastDraw
<1> QED
  BY <1>1, <1>2, <1>3, <1>4, <1>5 DEF InOrder

\* onWinningTickets: the oldest winners not taken yet go to their channel.
LEMMA InOrderWinning ==
    ASSUME NEW c, NEW v, InOrder(c, v), onWinningTickets
    PROVE  InOrder(c, v)'
<1> DEFINE e == [height |-> Head(wire).height, winners |-> Head(wire).winners]
<1>1. /\ wire # <<>> /\ Head(wire).kind = "winning" /\ wire' = Tail(wire)
      /\ winChan' = Append(winChan, e)
      /\ UNCHANGED <<height, blockChan>>
  BY DEF onWinningTickets, dcrdVars
<1> DEFINE n == Len(winChan)
<1>2. /\ e.height = v + n + 1
      /\ Queued(Tail(wire), "winning", v + n + 1, LastDraw)
      /\ Queued(Tail(wire), "block", c + Len(blockChan), height)
      /\ IsSeq(Tail(wire))
  BY <1>1, WithoutHead, QueuedTailSame, QueuedTailOther DEF InOrder
<1> HIDE DEF e
<1>3. /\ IsSeq(winChan') /\ Len(winChan') = n + 1 /\ n \in Nat
      /\ \A i \in 1..n : winChan'[i] = winChan[i]
      /\ winChan'[n + 1] = e
  <2>1. PICK A : winChan \in Seq(A)
    BY DEF InOrder, IsSeq
  <2>2. winChan \in Seq(A \union {e})
    BY <2>1
  <2> QED
    BY <1>1, <2>2 DEF IsSeq
<1>4. \A i \in 1..(n + 1) : winChan'[i].height = v + i
  <2> HIDE DEF n
  <2>1. \A i \in 1..n : winChan[i].height = v + i
    BY DEF InOrder, n
  <2>2. \A i \in 1..(n + 1) : i \in 1..n \/ i = n + 1
    BY <1>3
  <2>3. v \in Nat
    BY DEF InOrder
  <2>4. v + n + 1 = v + (n + 1)
    BY <2>3, <1>3
  <2> QED
    BY <1>2, <1>3, <2>1, <2>2, <2>4
<1>5. v + Len(winChan') = v + n + 1 /\ LastDraw' = LastDraw
  BY <1>1, <1>3 DEF InOrder, LastDraw
<1> QED
  BY <1>1, <1>2, <1>3, <1>4, <1>5 DEF InOrder

\* The handler takes the next block.
LEMMA BlockTaken ==
    ASSUME NEW c, NEW v, InOrder(c, v), handleBlockConnectedNtfn
    PROVE  InOrder(c + 1, v)' /\ Head(blockChan) = c + 1 /\ c + 1 \in Nat /\ c + 1 <= height
<1>1. /\ blockChan # <<>> /\ blockChan' = Tail(blockChan)
      /\ UNCHANGED <<height, wire, winChan>>
  BY DEF handleBlockConnectedNtfn, dcrdVars
<1> DEFINE n == Len(blockChan) t == Tail(blockChan)
<1>2. /\ IsSeq(t) /\ n \in Nat \ {0} /\ Len(t) = n - 1 /\ Head(blockChan) = blockChan[1]
      /\ \A i \in 1..Len(t) : t[i] = blockChan[i + 1]
  BY <1>1, WithoutHead DEF InOrder
<1>3. Head(blockChan) = c + 1 /\ c \in Nat
  BY <1>2 DEF InOrder
<1>4. \A i \in 1..Len(t) : t[i] = (c + 1) + i
  <2> HIDE DEF t, n
  <2>1. \A i \in 1..n : blockChan[i] = c + i
    BY DEF InOrder, n
  <2>2. \A i \in 1..Len(t) : i + 1 \in 1..n /\ c + (i + 1) = (c + 1) + i
    BY <1>2, <1>3
  <2> QED
    BY <1>2, <2>1, <2>2
<1>5. (c + 1) + Len(t) = c + n /\ LastDraw' = LastDraw
  BY <1>1, <1>2, <1>3 DEF LastDraw
<1>6. c + n <= height /\ height \in Nat
  BY DEF InOrder, Queued
<1>7. c + 1 \in Nat /\ c + 1 <= height
  BY <1>2, <1>3, <1>6
<1> HIDE DEF t, n
<1>8. blockChan' = t
  BY <1>1 DEF t
<1>9. Queued(wire, "block", (c + 1) + Len(t), height)
  BY <1>5 DEF InOrder, n
<1>10. InOrder(c + 1, v)'
  BY <1>1, <1>2, <1>4, <1>5, <1>7, <1>8, <1>9 DEF InOrder
<1> QED
  BY <1>3, <1>7, <1>10

\* The handler takes the next winners.
LEMMA WinnersTaken ==
    ASSUME NEW c, NEW v, InOrder(c, v), handleWinningTicketsNtfn
    PROVE  /\ InOrder(c, v + 1)' /\ winChan # <<>> /\ Head(winChan).height = v + 1
           /\ v + 1 \in Nat /\ v + 1 >= FirstDraw /\ v + 1 <= LastDraw
<1>1. /\ winChan # <<>> /\ winChan' = Tail(winChan)
      /\ UNCHANGED <<height, wire, blockChan>>
  BY DEF handleWinningTicketsNtfn, dcrdVars
<1> DEFINE n == Len(winChan) t == Tail(winChan)
<1>2. /\ IsSeq(t) /\ n \in Nat \ {0} /\ Len(t) = n - 1 /\ Head(winChan) = winChan[1]
      /\ \A i \in 1..Len(t) : t[i] = winChan[i + 1]
  BY <1>1, WithoutHead DEF InOrder
<1>3. Head(winChan).height = v + 1 /\ v \in Nat
  BY <1>2 DEF InOrder
<1>4. \A i \in 1..Len(t) : t[i].height = (v + 1) + i
  <2> HIDE DEF t, n
  <2>1. \A i \in 1..n : winChan[i].height = v + i
    BY DEF InOrder, n
  <2>2. \A i \in 1..Len(t) : i + 1 \in 1..n /\ v + (i + 1) = (v + 1) + i
    BY <1>2, <1>3
  <2> QED
    BY <1>2, <2>1, <2>2
<1>5. (v + 1) + Len(t) = v + n /\ LastDraw' = LastDraw
  BY <1>1, <1>2, <1>3 DEF LastDraw
<1>6. v + n <= LastDraw /\ LastDraw \in Nat /\ v >= FirstDraw - 1
  BY DEF InOrder, Queued
<1>7. v + 1 \in Nat /\ v + 1 <= LastDraw /\ v + 1 >= FirstDraw
  BY <1>2, <1>3, <1>6, Heights
<1> HIDE DEF t, n
<1>8. winChan' = t
  BY <1>1 DEF t
<1>9. Queued(wire, "winning", (v + 1) + Len(t), LastDraw)
  BY <1>5 DEF InOrder, n
<1>10. v + 1 >= FirstDraw - 1
  BY <1>7, Heights
<1>11. InOrder(c, v + 1)'
  BY <1>1, <1>2, <1>4, <1>5, <1>7, <1>8, <1>9, <1>10 DEF InOrder
<1> QED
  BY <1>1, <1>3, <1>7, <1>11

\* The winners of a block are a sequence of live tickets, empty until FirstDraw.
LEMMA WinnersOfBlock ==
    ASSUME NEW h \in Nat, NEW winners \in Lottery(h)
    PROVE  \/ h < FirstDraw /\ winners = <<>>
           \/ /\ h >= FirstDraw /\ winners # <<>>
              /\ winners \in [1..TicketsPerBlock -> Live(MinedNext, h)]
              /\ \A i, j \in 1..TicketsPerBlock : winners[i] = winners[j] => i = j
<1>1. CASE h < FirstDraw
  BY <1>1 DEF Lottery, FirstDraw
<1>2. CASE h >= FirstDraw
  <2>1. /\ winners \in [1..TicketsPerBlock -> Live(MinedNext, h)]
        /\ \A i, j \in 1..TicketsPerBlock : winners[i] = winners[j] => i = j
    BY <1>2, Heights DEF Lottery, FirstDraw, Injection, IsInjective
  <2>2. winners # <<>>
    <3>1. 1 \in DOMAIN winners
      BY <2>1, Heights
    <3>2. DOMAIN <<>> = {}
      OBVIOUS
    <3> QED
      BY <3>1, <3>2
  <2> QED
    BY <1>2, <2>1, <2>2
<1> QED
  BY <1>1, <1>2, Heights

\* The sequence of two elements.
LEMMA Pair ==
    ASSUME NEW e, NEW f
    PROVE  <<e, f>> = <<e>> \o <<f>>
<1>1. <<e>> \in Seq({e, f}) /\ <<f>> \in Seq({e, f})
  OBVIOUS
<1>2. Append(<<e>>, f) = <<e>> \o <<f>>
  BY <1>1, AppendIsConcat
<1>3. Append(<<e>>, f) = <<e, f>>
  <2> DEFINE a == Append(<<e>>, f) p == <<e, f>>
  <2>1. a \in Seq({e, f}) /\ Len(a) = 2 /\ a[1] = e /\ a[2] = f
    BY <1>1
  <2>2. p \in Seq({e, f}) /\ Len(p) = 2 /\ p[1] = e /\ p[2] = f
    OBVIOUS
  <2> HIDE DEF a, p
  <2>3. \A i \in 1..Len(a) : a[i] = p[i]
    BY <2>1, <2>2
  <2>4. a = p
    BY <2>1, <2>2, <2>3, SeqEqual
  <2> QED
    BY <2>4 DEF a, p
<1> QED
  BY <1>2, <1>3

\* The two orders the notifications of a block may be written in.
LEMMA BlockWritten ==
    ASSUME NEW h \in Nat, NEW winners, NEW ntfns \in BlockNtfns(h + 1, winners)
    PROVE  /\ IsSeq(ntfns) /\ Queued(ntfns, "block", h, h + 1)
           /\ winners = <<>> => \A n \in Nat : Queued(ntfns, "winning", n, n)
           /\ winners # <<>> => Queued(ntfns, "winning", h, h + 1)
           /\ \A i \in 1..Len(ntfns) :
                 ntfns[i].kind = "winning" => ntfns[i] = WinningNtfn(h + 1, winners)
           /\ \A i \in 1..Len(ntfns) : ntfns[i].kind \in {"block", "winning"}
<1> DEFINE b == BlockNtfn(h + 1) w == WinningNtfn(h + 1, winners)
<1>1. /\ b.kind = "block" /\ b.height = h + 1 /\ w.kind = "winning" /\ w.height = h + 1
  BY DEF BlockNtfn, WinningNtfn
<1> HIDE DEF b, w
<1>2. /\ Queued(<<b>>, "block", h, h + 1) /\ Queued(<<w>>, "winning", h, h + 1)
      /\ Queued(<<b>>, "winning", h, h) /\ Queued(<<b>>, "winning", h + 1, h + 1)
      /\ Queued(<<w>>, "block", h, h) /\ Queued(<<w>>, "block", h + 1, h + 1)
      /\ \A n \in Nat : Queued(<<b>>, "winning", n, n)
  <2>1. Len(<<b>>) = 1 /\ <<b>>[1] = b /\ Len(<<w>>) = 1 /\ <<w>>[1] = w
    OBVIOUS
  <2>2. Queued(<<b>>, "block", h, h + 1) /\ Queued(<<w>>, "winning", h, h + 1)
    BY <1>1, QueuedOne
  <2>3. \A n \in Nat : Queued(<<b>>, "winning", n, n) /\ Queued(<<w>>, "block", n, n)
    BY <1>1, <2>1, QueuedNone
  <2>4. h + 1 \in Nat
    OBVIOUS
  <2> QED
    BY <2>2, <2>3, <2>4
<1>3. IsSeq(<<b>>) /\ IsSeq(<<w>>)
  BY Single
<1>4. CASE ntfns = <<b>> /\ winners = <<>>
  BY <1>1, <1>2, <1>3, <1>4, Single
<1>5. CASE winners # <<>> /\ ntfns = <<b, w>>
  <2>1. ntfns = <<b>> \o <<w>>
    BY <1>5, Pair
  <2>2. IsSeq(ntfns) /\ Queued(ntfns, "block", h, h + 1) /\ Queued(ntfns, "winning", h, h + 1)
    BY <1>2, <1>3, <2>1, Concat, QueuedConcat
  <2>3. \A i \in 1..Len(ntfns) : ntfns[i] \in {b, w}
    BY <1>5
  <2> QED
    BY <1>1, <1>5, <2>2, <2>3 DEF w
<1>6. CASE winners # <<>> /\ ntfns = <<w, b>>
  <2>1. ntfns = <<w>> \o <<b>>
    BY <1>6, Pair
  <2>2. IsSeq(ntfns) /\ Queued(ntfns, "block", h, h + 1) /\ Queued(ntfns, "winning", h, h + 1)
    BY <1>2, <1>3, <2>1, Concat, QueuedConcat
  <2>3. \A i \in 1..Len(ntfns) : ntfns[i] \in {b, w}
    BY <1>6
  <2> QED
    BY <1>1, <1>6, <2>2, <2>3 DEF w
<1> QED
  BY <1>4, <1>5, <1>6 DEF BlockNtfns, b, w

\* A block more: its notifications are the last on the connection.
LEMMA InOrderConnect ==
    ASSUME NEW c, NEW v, InOrder(c, v), NEW replies, IsSeq(replies),
           \A i \in 1..Len(replies) : replies[i].kind = "reply",
           Connect(replies), UNCHANGED <<blockChan, winChan>>
    PROVE  InOrder(c, v)'
<1>0. PICK winners \in Lottery(height + 1) :
        \E ntfns \in BlockNtfns(height + 1, winners) :
           wire' \in {wire \o ntfns \o replies, wire \o replies \o ntfns}
  BY DEF Connect
<1>1. PICK ntfns \in BlockNtfns(height + 1, winners) :
        wire' \in {wire \o ntfns \o replies, wire \o replies \o ntfns}
  BY <1>0
<1>2. height' = height + 1 /\ height \in Nat
  BY DEF Connect, InOrder
<1>3. IsSeq(ntfns) /\ Queued(ntfns, "block", height, height + 1)
  BY <1>1, <1>2, BlockWritten
<1>4. Queued(ntfns, "winning", LastDraw, LastDraw')
  <2>1. CASE height + 1 < FirstDraw /\ winners = <<>>
    <3>1. LastDraw' = LastDraw /\ LastDraw \in Nat
      BY <1>2, <2>1, Heights, LastDrawType DEF LastDraw
    <3> QED
      BY <1>1, <1>2, <2>1, <3>1, BlockWritten
  <2>2. CASE height + 1 >= FirstDraw /\ winners # <<>>
    <3>1. LastDraw = height /\ LastDraw' = height + 1
      BY <1>2, <2>2, Heights DEF LastDraw
    <3> QED
      BY <1>1, <1>2, <2>2, <3>1, BlockWritten
  <2> QED
    BY <1>1, <1>2, <2>1, <2>2, WinnersOfBlock
<1>5. LastDraw' \in Nat /\ LastDraw \in Nat
  BY <1>4 DEF Queued
<1>6. \A kind \in {"block", "winning"}, n \in Nat : Queued(replies, kind, n, n)
  BY QueuedNone
<1>7. /\ IsSeq(wire) /\ Queued(wire, "block", c + Len(blockChan), height)
      /\ Queued(wire, "winning", v + Len(winChan), LastDraw)
  BY DEF InOrder
<1> DEFINE Both(s) == /\ IsSeq(s) /\ Queued(s, "block", c + Len(blockChan), height + 1)
                      /\ Queued(s, "winning", v + Len(winChan), LastDraw')
           Old(s) == /\ IsSeq(s) /\ Queued(s, "block", c + Len(blockChan), height)
                     /\ Queued(s, "winning", v + Len(winChan), LastDraw)
<1>8. \A s : Old(s) => Both(s \o ntfns)
  BY <1>3, <1>4, Concat, QueuedConcat
<1>9. \A s : Old(s) => Old(s \o replies)
  BY <1>2, <1>5, <1>6, Concat, QueuedConcat
<1>10. \A s : Both(s) => Both(s \o replies)
  <2>1. height + 1 \in Nat
    BY <1>2
  <2> QED
    BY <1>5, <1>6, <2>1, Concat, QueuedConcat
<1>11. Both(wire')
  <2>1. Old(wire)
    BY <1>7
  <2> HIDE DEF Old, Both
  <2> QED
    BY <1>1, <1>8, <1>9, <1>10, <2>1
<1> QED
  BY <1>2, <1>11 DEF InOrder

-----------------------------------------------------------------------------
(* How far the chain runs ahead of the handler: a block needs tickets      *)
(* bought TicketMaturity + 1 blocks before, and votes for its parent.      *)

\* The tickets bought for the blocks a to b.
Bought(a, b) == (a..b) \X (1..TicketsPerBlock)

\* What dcrd has of the handler, which took the blocks up to c and the winners
\* up to v.
Bounded(c, v) ==
    /\ height <= MaxHeight
    /\ \A tx \in outbox : \/ tx.kind = "ticket" /\ tx.id \in Bought(FirstBuy, c)
                          \/ tx.kind = "vote" /\ tx.block \in 0..v
    /\ poolTickets \subseteq Bought(FirstBuy, c)
    /\ DOMAIN minedAt \subseteq Bought(FirstBuy, c)
    /\ drawn \subseteq DOMAIN minedAt
    /\ Cardinality(drawn) = TicketsPerBlock * (LastDraw - FirstDraw + 1)
    /\ \A p \in poolVotes : p[2] \in 0..v
    /\ height > FirstDraw => v >= height - 1

\* What the handler has in hand.
InHand(c, v) ==
    /\ IsWork(work) /\ IsSeq(work.txs) /\ IsSeq(coins)
    /\ DOMAIN maturing = 1..(MaxHeight + CoinbaseMaturity)
    /\ \A h \in DOMAIN maturing : IsSeq(maturing[h])
    /\ handler \in {"create", "votes"} =>
          /\ work.height \in FirstDraw..v
          /\ \A i \in 1..Len(work.txs) : work.txs[i].kind = "vote" /\ work.txs[i].block \in 0..v
    /\ handler = "tickets" => work.height = c /\ c >= FirstBuy

\* The tickets bought for some blocks are finitely many.
LEMMA BoughtFinite ==
    ASSUME NEW a \in Nat, NEW b \in Nat
    PROVE  /\ IsFiniteSet(Bought(a, b))
           /\ a <= b => Cardinality(Bought(a, b)) = (b - a + 1) * TicketsPerBlock
           /\ a > b => Cardinality(Bought(a, b)) = 0
<1>1. /\ IsFiniteSet(a..b) /\ Cardinality(a..b) = IF a > b THEN 0 ELSE b - a + 1
      /\ IsFiniteSet(1..TicketsPerBlock) /\ Cardinality(1..TicketsPerBlock) = TicketsPerBlock
  BY FS_Interval, Heights
<1>2. /\ IsFiniteSet(Bought(a, b))
      /\ Cardinality(Bought(a, b)) = Cardinality(a..b) * Cardinality(1..TicketsPerBlock)
  BY <1>1, FS_Product DEF Bought
<1>3. CASE a > b
  <2>1. Cardinality(Bought(a, b)) = 0 * TicketsPerBlock
    BY <1>1, <1>2, <1>3
  <2> QED
    BY <1>2, <1>3, <2>1, Heights
<1>4. CASE a <= b
  BY <1>1, <1>2, <1>4
<1> QED
  BY <1>3, <1>4

\* What was bought before was bought.
LEMMA BoughtGrows ==
    ASSUME NEW a \in Nat, NEW b \in Nat, NEW d \in Nat, b <= d
    PROVE  Bought(a, b) \subseteq Bought(a, d)
  BY DEF Bought

\* A function with different values has as many as arguments.
LEMMA Different ==
    ASSUME NEW n \in Nat, NEW A, NEW w \in [1..n -> A],
           \A i, j \in 1..n : w[i] = w[j] => i = j
    PROVE  IsFiniteSet(ToSet(w)) /\ Cardinality(ToSet(w)) = n /\ ToSet(w) \subseteq A
<1> DEFINE R == ToSet(w)
<1>1. R = {w[i] : i \in 1..n} /\ R \subseteq A
  BY DEF ToSet
<1>2. w \in Surjection(1..n, R)
  BY <1>1 DEF Surjection
<1>3. w \in Injection(1..n, R)
  BY <1>1 DEF Injection, IsInjective
<1>4. IsFiniteSet(1..n) /\ Cardinality(1..n) = n
  BY FS_Interval
<1>5. IsFiniteSet(R) /\ Cardinality(R) <= Cardinality(1..n)
  BY <1>2, <1>4, FS_Surjection
<1>6. Cardinality(1..n) <= Cardinality(R)
  BY <1>3, <1>5, FS_Injection
<1>7. Cardinality(R) = n
  BY <1>4, <1>5, <1>6, FS_CardinalityType
<1> QED
  BY <1>1, <1>5, <1>7

\* Time passes for the handler.
LEMMA BoundedGrows ==
    ASSUME NEW c \in Nat, NEW v \in Nat, Bounded(c, v), NEW d \in Nat, NEW e \in Nat,
           c <= d, v <= e, height \in Nat
    PROVE  Bounded(d, e)
<1>1. Bought(FirstBuy, c) \subseteq Bought(FirstBuy, d)
  BY BoughtGrows, Heights
<1>2. 0..v \subseteq 0..e
  OBVIOUS
<1>3. height > FirstDraw => e >= height - 1
  BY Heights DEF Bounded
<1> QED
  BY <1>1, <1>2, <1>3 DEF Bounded

\* dcrd connects a block.
LEMMA BoundedConnect ==
    ASSUME NEW c, NEW v, InOrder(c, v), Bounded(c, v), NEW replies, Connect(replies),
           UNCHANGED outbox
    PROVE  Bounded(c, v)'
<1>1. c \in Nat /\ v \in Nat /\ height \in Nat /\ v >= FirstDraw - 1
  BY DEF InOrder
<1>2. /\ height' = height + 1 /\ height' <= MaxHeight
      /\ minedAt' = MinedNext /\ poolTickets' = {} /\ poolVotes' = {}
  BY DEF Connect
<1>3. DOMAIN MinedNext = DOMAIN minedAt \union poolTickets
  BY DEF MinedNext, Recorded
<1>4. DOMAIN MinedNext \subseteq Bought(FirstBuy, c)
  BY <1>3 DEF Bounded
<1>5. PICK winners \in Lottery(height + 1) : drawn' = drawn \union ToSet(winners)
  BY DEF Connect
<1>6. /\ drawn' \subseteq DOMAIN MinedNext
      /\ Cardinality(drawn') = TicketsPerBlock * (LastDraw' - FirstDraw + 1)
  <2>1. drawn \subseteq DOMAIN MinedNext
    BY <1>3 DEF Bounded
  <2>2. IsFiniteSet(drawn)
    BY <1>1, <1>4, <2>1, BoughtFinite, FS_Subset, Heights
  <2>3. CASE height + 1 < FirstDraw /\ winners = <<>>
    <3>1. LastDraw' = LastDraw
      BY <1>1, <1>2, <2>3, Heights DEF LastDraw
    <3>2. ToSet(winners) = {}
      BY <2>3 DEF ToSet
    <3> QED
      BY <1>5, <2>1, <3>1, <3>2 DEF Bounded
  <2>4. CASE /\ height + 1 >= FirstDraw
             /\ winners \in [1..TicketsPerBlock -> Live(MinedNext, height + 1)]
             /\ \A i, j \in 1..TicketsPerBlock : winners[i] = winners[j] => i = j
    <3> DEFINE W == ToSet(winners)
    <3>1. LastDraw' = LastDraw + 1 /\ LastDraw \in Nat
      BY <1>1, <1>2, <2>4, Heights DEF LastDraw
    <3>2. /\ Live(MinedNext, height + 1) \subseteq DOMAIN MinedNext
          /\ Live(MinedNext, height + 1) \intersect drawn = {}
      BY DEF Live
    <3>3. /\ IsFiniteSet(W) /\ Cardinality(W) = TicketsPerBlock
          /\ W \subseteq Live(MinedNext, height + 1)
      <4> DEFINE A == Live(MinedNext, height + 1)
      <4> HIDE DEF A
      <4>1. winners \in [1..TicketsPerBlock -> A]
        BY <2>4 DEF A
      <4>2. IsFiniteSet(W) /\ Cardinality(W) = TicketsPerBlock /\ W \subseteq A
        BY <2>4, <4>1, Different, Heights
      <4> QED
        BY <4>2 DEF A
    <3>4. W \intersect drawn = {} /\ drawn' = drawn \union W /\ drawn' \subseteq DOMAIN MinedNext
      BY <1>5, <2>1, <3>2, <3>3
    <3> HIDE DEF W
    <3>5. Cardinality(drawn') = Cardinality(drawn) + TicketsPerBlock
      <4>1. /\ Cardinality(drawn \union W)
                 = Cardinality(drawn) + Cardinality(W) - Cardinality(drawn \intersect W)
        BY <2>2, <3>3, FS_Union
      <4>2. Cardinality(drawn \intersect W) = 0
        BY <3>4, FS_EmptySet
      <4>3. Cardinality(drawn) \in Nat
        BY <2>2, FS_CardinalityType
      <4> QED
        BY <3>3, <3>4, <4>1, <4>2, <4>3, Heights
    <3>6. TicketsPerBlock * (LastDraw' - FirstDraw + 1)
            = TicketsPerBlock * (LastDraw - FirstDraw + 1) + TicketsPerBlock
      BY <3>1, Heights
    <3> QED
      BY <3>4, <3>5, <3>6 DEF Bounded
  <2> QED
    BY <1>1, <2>3, <2>4, WinnersOfBlock
<1>7. height' > FirstDraw => v >= height' - 1
  <2> SUFFICES ASSUME height + 1 > FirstDraw PROVE v >= height
    BY <1>1, <1>2, Heights
  <2> DEFINE P == {p \in poolVotes : p[2] = height}
  <2>1. Cardinality(P) >= Majority
    BY <1>1, Heights DEF Connect, CanMine
  <2>2. P # {}
    BY <2>1, Heights, FS_EmptySet
  <2> QED
    BY <1>1, <2>2 DEF Bounded
<1> QED
  BY <1>1, <1>2, <1>4, <1>6, <1>7 DEF Bounded

\* dcrd has no more of the handler than before.
LEMMA BoundedSame ==
    ASSUME NEW c, NEW v, Bounded(c, v), outbox' \subseteq outbox,
           UNCHANGED <<height, poolTickets, poolVotes, minedAt, drawn>>
    PROVE  Bounded(c, v)'
  BY DEF Bounded, LastDraw

\* The handler sends transactions.
LEMMA BoundedSent ==
    ASSUME NEW c, NEW v, Bounded(c, v), NEW txs, outbox' = outbox \union ToSet(txs),
           UNCHANGED <<height, poolTickets, poolVotes, minedAt, drawn>>,
           DOMAIN txs = 1..Len(txs),
           \A i \in 1..Len(txs) : \/ txs[i].kind = "ticket" /\ txs[i].id \in Bought(FirstBuy, c)
                                  \/ txs[i].kind = "vote" /\ txs[i].block \in 0..v
    PROVE  Bounded(c, v)'
<1>1. LastDraw' = LastDraw
  BY DEF LastDraw
<1>2. \A tx \in ToSet(txs) : \/ tx.kind = "ticket" /\ tx.id \in Bought(FirstBuy, c)
                             \/ tx.kind = "vote" /\ tx.block \in 0..v
  BY DEF ToSet
<1> QED
  BY <1>1, <1>2 DEF Bounded

\* The handler goes on with what it has in hand, or waits.
LEMMA InHandSame ==
    ASSUME NEW c, NEW v, InHand(c, v), UNCHANGED <<work, coins, maturing>>,
           handler' = handler \/ handler' \in {"select", "exited"}
    PROVE  InHand(c, v)'
  BY DEF InHand, IsWork, IsSeq

\* The handler has nothing in hand.
LEMMA NothingInHand ==
    IsWork(NoWork) /\ IsSeq(NoWork.txs) /\ Len(NoWork.txs) = 0
<1>1. <<>> \in Seq({}) /\ Len(<<>>) = 0
  OBVIOUS
<1> QED
  BY <1>1 DEF IsWork, NoWork, IsSeq

\* The handler is back in its select loop.
LEMMA InHandReturn ==
    ASSUME NEW c, NEW v, InHand(c, v), work' = NoWork, handler' = "select",
           IsSeq(coins'), DOMAIN maturing' = DOMAIN maturing,
           \A h \in DOMAIN maturing : IsSeq(maturing'[h])
    PROVE  \A d, e : InHand(d, e)'
  BY NothingInHand DEF InHand

\* dcrd answers a transaction.
LEMMA Answered ==
    ASSUME NEW c, NEW v, InOrder(c, v), Bounded(c, v), InHand(c, v), DcrdNext
    PROVE  InOrder(c, v)' /\ Bounded(c, v)' /\ InHand(c, v)'
<1>1. PICK tx \in outbox : AcceptTx(tx) \/ RefuseTx(tx)
  BY DEF DcrdNext
<1>2. /\ UNCHANGED <<height, minedAt, drawn, blockChan, winChan, coins, maturing, handler, work>>
      /\ outbox' \subseteq outbox
      /\ \E ok \in BOOLEAN : wire' = Append(wire, Answer(tx, ok))
  BY <1>1 DEF AcceptTx, RefuseTx, dcrdVars, chanVars, walletVars
<1>3. InOrder(c, v)'
  BY <1>2, InOrderWritten DEF Answer
<1>4. InHand(c, v)'
  BY <1>2, InHandSame
<1>5. Bounded(c, v)'
  <2>1. CASE RefuseTx(tx)
    BY <1>2, <2>1, BoundedSame DEF RefuseTx, dcrdVars
  <2>2. CASE /\ tx.kind = "ticket" /\ poolTickets' = poolTickets \union {tx.id}
             /\ UNCHANGED poolVotes
    BY <1>2, <2>2 DEF Bounded, LastDraw
  <2>3. CASE /\ tx.kind = "vote" /\ poolVotes' = poolVotes \union {<<tx.id, tx.block>>}
             /\ UNCHANGED poolTickets
    BY <1>2, <2>3 DEF Bounded, LastDraw
  <2> QED
    BY <1>1, <2>1, <2>2, <2>3 DEF AcceptTx
<1> QED
  BY <1>3, <1>4, <1>5

\* The dispatcher hands over a message.
LEMMA Dispatched ==
    ASSUME NEW c, NEW v, InOrder(c, v), Bounded(c, v), InHand(c, v), DispatcherNext
    PROVE  InOrder(c, v)' /\ Bounded(c, v)' /\ InHand(c, v)'
<1>1. /\ UNCHANGED <<height, poolTickets, poolVotes, minedAt, drawn, outbox>>
      /\ UNCHANGED <<coins, maturing, handler, work>>
  BY DEF DispatcherNext, onBlockConnected, onWinningTickets, DeliverAnswer, GotBestBlock,
       Mined, Polled, DropReply, dcrdVars, chanVars, walletVars, nonTestVars
<1>2. Bounded(c, v)' /\ InHand(c, v)'
  BY <1>1, BoundedSame, InHandSame
<1>3. CASE onBlockConnected \/ onWinningTickets
  BY <1>2, <1>3, InOrderBlock, InOrderWinning
<1>4. CASE DeliverAnswer \/ GotBestBlock \/ Mined \/ Polled \/ DropReply
  <2>1. /\ wire # <<>> /\ wire' = Tail(wire) /\ UNCHANGED <<blockChan, winChan>>
        /\ Head(wire).kind \in {"answer", "reply"}
    BY <1>4 DEF DeliverAnswer, GotBestBlock, Mined, Polled, DropReply, Reply, chanVars,
         nonTestVars
  <2> QED
    BY <1>1, <1>2, <2>1, InOrderRead
<1> QED
  BY <1>3, <1>4 DEF DispatcherNext

\* What is cut from w.utxos, and what is left.
LEMMA CoinsTaken ==
    ASSUME NEW s, IsSeq(s), Len(s) >= TicketsPerBlock
    PROVE  LET rest == Len(s) - TicketsPerBlock
               taken == SubSeq(s, rest + 1, Len(s))
           IN /\ IsSeq(SubSeq(s, 1, rest)) /\ Len(SubSeq(s, 1, rest)) = rest
              /\ \A i \in 1..rest : SubSeq(s, 1, rest)[i] = s[i]
              /\ IsSeq(taken) /\ Len(taken) = TicketsPerBlock
              /\ \A i \in 1..TicketsPerBlock : taken[i] = s[rest + i]
              /\ rest \in Nat
<1>1. PICK A : s \in Seq(A)
  BY DEF IsSeq
<1> DEFINE rest == Len(s) - TicketsPerBlock
<1>2. rest \in Nat /\ Len(s) \in Nat /\ Len(s) - rest = TicketsPerBlock
  BY <1>1, Heights
<1> HIDE DEF rest
<1>3. /\ SubSeq(s, 1, rest) \in Seq(A) /\ Len(SubSeq(s, 1, rest)) = rest
      /\ \A i \in 1..rest : SubSeq(s, 1, rest)[i] = s[i]
  <2>1. rest <= Len(s)
    BY <1>2, Heights DEF rest
  <2> QED
    BY <1>1, <1>2, <2>1
<1>4. /\ SubSeq(s, rest + 1, Len(s)) \in Seq(A)
      /\ Len(SubSeq(s, rest + 1, Len(s))) = TicketsPerBlock
      /\ \A i \in 1..TicketsPerBlock : SubSeq(s, rest + 1, Len(s))[i] = s[rest + i]
  <2>1. rest + 1 <= Len(s) + 1 /\ rest + 1 >= 1
    BY <1>2, Heights DEF rest
  <2>2. Len(s) - (rest + 1) + 1 = TicketsPerBlock
    BY <1>2, Heights
  <2> QED
    BY <1>1, <1>2, <2>1, <2>2, Heights
<1> QED
  BY <1>2, <1>3, <1>4 DEF IsSeq, rest

\* The purchases of a block.
LEMMA Purchases ==
    ASSUME NEW h, NEW taken, Len(taken) = TicketsPerBlock
    PROVE  /\ IsSeq(TicketTxs(h, taken)) /\ DOMAIN TicketTxs(h, taken) = 1..TicketsPerBlock
           /\ Len(TicketTxs(h, taken)) = TicketsPerBlock
           /\ \A i \in 1..TicketsPerBlock :
                 TicketTxs(h, taken)[i] = [kind |-> "ticket", id |-> <<h, i>>, coin |-> taken[i]]
<1> DEFINE tx(i) == [kind |-> "ticket", id |-> <<h, i>>, coin |-> taken[i]]
<1>1. TicketTxs(h, taken) = [i \in 1..TicketsPerBlock |-> tx(i)]
  BY DEF TicketTxs
<1> HIDE DEF tx
<1>2. [i \in 1..TicketsPerBlock |-> tx(i)] \in Seq({tx(i) : i \in 1..TicketsPerBlock})
  BY Heights
<1>3. Len([i \in 1..TicketsPerBlock |-> tx(i)]) = TicketsPerBlock
  BY Heights
<1>4. /\ IsSeq(TicketTxs(h, taken)) /\ DOMAIN TicketTxs(h, taken) = 1..TicketsPerBlock
      /\ Len(TicketTxs(h, taken)) = TicketsPerBlock
      /\ \A i \in 1..TicketsPerBlock : TicketTxs(h, taken)[i] = tx(i)
  BY <1>1, <1>2, <1>3 DEF IsSeq
<1> QED
  BY <1>4 DEF tx

\* handleBlockConnectedNtfn buys tickets for the block it took.
LEMMA BlockHandled ==
    ASSUME NEW c, NEW v, InOrder(c, v), Bounded(c, v), InHand(c, v), handleBlockConnectedNtfn
    PROVE  InOrder(c + 1, v)' /\ Bounded(c + 1, v)' /\ InHand(c + 1, v)'
<1> DEFINE h == Head(blockChan)
           rest == Len(coins) - TicketsPerBlock
           taken == SubSeq(coins, rest + 1, Len(coins))
           txs == TicketTxs(h, taken)
<1>1. /\ InOrder(c + 1, v)' /\ h = c + 1 /\ c + 1 \in Nat /\ c \in Nat /\ v \in Nat
      /\ c + 1 <= height /\ height \in Nat
  <2>1. c \in Nat /\ v \in Nat /\ height \in Nat
    BY DEF InOrder
  <2> QED
    BY <2>1, BlockTaken
<1>2. handler = "select" /\ UNCHANGED <<height, poolTickets, poolVotes, minedAt, drawn, maturing>>
  BY DEF handleBlockConnectedNtfn, dcrdVars
<1>3. Bounded(c + 1, v)
  BY <1>1, BoundedGrows
<1>4. CASE UNCHANGED <<outbox, coins, handler, work>>
  <2>1. Bounded(c + 1, v)'
    BY <1>2, <1>3, <1>4, BoundedSame
  <2>2. InHand(c + 1, v)'
    BY <1>2, <1>4 DEF InHand, IsWork, IsSeq
  <2> QED
    BY <1>1, <2>1, <2>2
<1>5. CASE /\ UNCHANGED outbox /\ work' = NoWork /\ handler' = "select"
           /\ \/ coins' = coins
              \/ Len(coins) >= TicketsPerBlock /\ coins' = SubSeq(coins, 1, rest)
  <2>1. Bounded(c + 1, v)'
    BY <1>2, <1>3, <1>5, BoundedSame
  <2>2. IsSeq(coins')
    BY <1>5, CoinsTaken DEF InHand
  <2>3. \A k \in DOMAIN maturing : IsSeq(maturing'[k])
    BY <1>2 DEF InHand
  <2> QED
    BY <1>1, <1>2, <1>5, <2>1, <2>2, <2>3, InHandReturn
<1>6. CASE /\ h >= ticketPurchaseStartHeight /\ Len(coins) >= TicketsPerBlock
           /\ coins' = SubSeq(coins, 1, rest)
           /\ Publish("tickets", [NoWork EXCEPT !.height = h, !.txs = txs])
  <2>1. IsSeq(coins') /\ Len(taken) = TicketsPerBlock
    BY <1>6, CoinsTaken DEF InHand
  <2> HIDE DEF taken
  <2>2. /\ IsSeq(txs) /\ DOMAIN txs = 1..TicketsPerBlock /\ Len(txs) = TicketsPerBlock
        /\ \A i \in 1..TicketsPerBlock :
              txs[i] = [kind |-> "ticket", id |-> <<h, i>>, coin |-> taken[i]]
    BY <2>1, Purchases
  <2> HIDE DEF txs
  <2>3. /\ handler' = "tickets"
        /\ work' = [height |-> h, txs |-> txs, got |-> 0, todo |-> <<>>, cap |-> 0]
    BY <1>6 DEF Publish, NoWork
  <2>4. IsWork(work') /\ work'.txs = txs /\ work'.height = h
    BY <2>3 DEF IsWork
  <2>5. outbox' = outbox \union ToSet(txs)
    BY <1>6 DEF Publish, NoWork
  <2>6. c + 1 >= FirstBuy
    BY <1>1, <1>6 DEF FirstBuy
  <2>7. \A i \in 1..Len(txs) : txs[i].kind = "ticket" /\ txs[i].id \in Bought(FirstBuy, c + 1)
    BY <1>1, <2>2, <2>6, Heights DEF Bought
  <2>8. Bounded(c + 1, v)'
    BY <1>2, <1>3, <2>2, <2>5, <2>7, BoundedSent
  <2>9. InHand(c + 1, v)'
    BY <1>1, <1>2, <2>1, <2>2, <2>3, <2>4, <2>6 DEF InHand, IsWork, IsSeq
  <2> QED
    BY <1>1, <2>8, <2>9
<1> QED
  BY <1>4, <1>5, <1>6 DEF handleBlockConnectedNtfn, Return

\* The coins that mature are added to those of the wallet.
LEMMA CoinsReleased ==
    ASSUME NEW c, NEW v, InHand(c, v), NEW h \in DOMAIN maturing, ReleaseMaturing(h)
    PROVE  /\ IsSeq(coins') /\ DOMAIN maturing' = DOMAIN maturing
           /\ \A k \in DOMAIN maturing : IsSeq(maturing'[k])
<1>1. coins' = coins \o maturing[h] /\ maturing' = [maturing EXCEPT ![h] = <<>>]
  BY DEF ReleaseMaturing
<1>2. IsSeq(coins) /\ \A k \in DOMAIN maturing : IsSeq(maturing[k])
  BY DEF InHand
<1>3. IsSeq(<<>>)
  BY NothingInHand DEF NoWork
<1> QED
  BY <1>1, <1>2, <1>3, Concat

\* What the votes return is kept.
LEMMA ReturnsKept ==
    ASSUME NEW c, NEW v, InHand(c, v), NEW h, NEW txs, IsSeq(txs), KeepReturns(h, txs)
    PROVE  /\ DOMAIN maturing' = DOMAIN maturing
           /\ \A k \in DOMAIN maturing : IsSeq(maturing'[k])
<1> DEFINE ids == [i \in DOMAIN txs |-> txs[i].id]
<1>1. IsSeq(ids)
  <2>1. PICK A : txs \in Seq(A)
    BY DEF IsSeq
  <2>2. DOMAIN txs = 1..Len(txs) /\ Len(txs) \in Nat
    BY <2>1
  <2>3. [i \in 1..Len(txs) |-> txs[i].id] \in Seq({txs[i].id : i \in 1..Len(txs)})
    BY <2>2
  <2> QED
    BY <2>2, <2>3 DEF IsSeq
<1>2. maturing' = [maturing EXCEPT ![h + CoinbaseMaturity] = ids]
  BY DEF KeepReturns
<1> HIDE DEF ids
<1> QED
  BY <1>1, <1>2 DEF InHand

\* One more answer is taken.
LEMMA InHandGoesOn ==
    ASSUME NEW c, NEW v, InHand(c, v), UNCHANGED <<handler, coins, maturing>>,
           work' = [work EXCEPT !.got = @ + 1]
    PROVE  InHand(c, v)'
<1>1. work' = [height |-> work.height, txs |-> work.txs, got |-> work.got + 1,
               todo |-> work.todo, cap |-> work.cap]
  BY DEF InHand, IsWork
<1>2. IsWork(work') /\ work'.txs = work.txs /\ work'.height = work.height
  BY <1>1 DEF IsWork
<1> QED
  BY <1>2 DEF InHand, IsWork, IsSeq

\* The handler takes an answer or gives up waiting.
LEMMA Received ==
    ASSUME NEW c, NEW v, InOrder(c, v), Bounded(c, v), InHand(c, v),
           ReceiveTicket \/ ReceiveVote \/ ReceiveStopping \/ HandlerExit
    PROVE  InOrder(c, v)' /\ Bounded(c, v)' /\ InHand(c, v)'
<1>1. /\ UNCHANGED <<height, poolTickets, poolVotes, minedAt, drawn, outbox>>
      /\ UNCHANGED <<wire, blockChan, winChan>>
  BY DEF ReceiveTicket, ReceiveVote, ReceiveStopping, HandlerExit, dcrdVars, chanVars
<1>2. InOrder(c, v)' /\ Bounded(c, v)'
  BY <1>1, InOrderSame, BoundedSame
<1>3. InHand(c, v)'
  <2>1. CASE work' = NoWork /\ handler' = "select" /\ UNCHANGED <<coins, maturing>>
    BY <2>1, InHandReturn DEF InHand, IsSeq
  <2>2. CASE UNCHANGED <<handler, coins, maturing>> /\ work' = [work EXCEPT !.got = @ + 1]
    BY <2>2, InHandGoesOn
  <2>3. CASE HandlerExit
    BY <2>3, InHandSame DEF HandlerExit, walletVars
  <2>4. CASE ReceiveTicket /\ ReleaseMaturing(work.height) /\ Return({})
    <3>1. work.height \in DOMAIN maturing
      <4>1. work.height = c /\ c >= FirstBuy /\ c \in Nat /\ height <= MaxHeight /\ height \in Nat
        BY <2>4 DEF ReceiveTicket, InHand, InOrder, Bounded
      <4>2. c <= height
        <5>1. Len(blockChan) \in Nat
          BY Concat DEF InOrder
        <5>2. c + Len(blockChan) <= height
          BY DEF InOrder, Queued
        <5> QED
          BY <4>1, <5>1, <5>2
      <4> QED
        BY <4>1, <4>2, Heights DEF InHand
    <3> QED
      BY <2>4, <3>1, CoinsReleased, InHandReturn DEF Return
  <2>5. CASE ReceiveVote /\ KeepReturns(work.height, work.txs) /\ Return({})
    <3>1. UNCHANGED coins /\ work' = NoWork /\ handler' = "select"
      BY <2>5 DEF ReceiveVote, Return
    <3>2. /\ DOMAIN maturing' = DOMAIN maturing
          /\ \A k \in DOMAIN maturing : IsSeq(maturing'[k])
      BY <2>5, ReturnsKept DEF InHand
    <3>3. IsSeq(coins')
      BY <3>1 DEF InHand
    <3> QED
      BY <3>1, <3>2, <3>3, InHandReturn
  <2>6. CASE ReceiveTicket
    BY <2>6, <2>1, <2>2, <2>4 DEF ReceiveTicket, Return, walletVars
  <2>7. CASE ReceiveVote
    BY <2>7, <2>1, <2>2, <2>5 DEF ReceiveVote, Return
  <2>8. CASE ReceiveStopping
    BY <2>8, <2>1 DEF ReceiveStopping, Return, walletVars
  <2> QED
    BY <2>3, <2>6, <2>7, <2>8
<1> QED
  BY <1>2, <1>3

\* handleWinningTicketsNtfn starts on the winners it took, or drops them.
LEMMA WinnersHandled ==
    ASSUME NEW c, NEW v, InOrder(c, v), Bounded(c, v), InHand(c, v), handleWinningTicketsNtfn
    PROVE  InOrder(c, v + 1)' /\ Bounded(c, v + 1)' /\ InHand(c, v + 1)'
<1>1. c \in Nat /\ v \in Nat /\ height \in Nat
  BY DEF InOrder
<1>2. /\ InOrder(c, v + 1)' /\ winChan # <<>> /\ Head(winChan).height = v + 1
      /\ v + 1 \in Nat /\ v + 1 >= FirstDraw
  BY WinnersTaken
<1>3. Bounded(c, v + 1)
  BY <1>1, <1>2, BoundedGrows
<1>4. Bounded(c, v + 1)'
  BY <1>3, BoundedSame DEF handleWinningTicketsNtfn, dcrdVars
<1>5. UNCHANGED <<coins, maturing>>
  BY DEF handleWinningTicketsNtfn, walletVars
<1>6. ASSUME Return({"sign"})
      PROVE  InHand(c, v + 1)'
  BY <1>5, <1>6, NothingInHand DEF InHand, Return
<1>7. ASSUME handler' = "create",
             work' = [NoWork EXCEPT !.height = Head(winChan).height,
                                    !.todo = Head(winChan).winners, !.cap = limit]
      PROVE  InHand(c, v + 1)'
  <2>1. work' = [height |-> v + 1, txs |-> <<>>, got |-> 0,
                 todo |-> Head(winChan).winners, cap |-> limit]
    BY <1>2, <1>7 DEF NoWork
  <2>2. IsWork(work') /\ work'.txs = <<>> /\ work'.height = v + 1
    BY <2>1 DEF IsWork
  <2>3. IsSeq(work'.txs) /\ Len(work'.txs) = 0
    BY <2>2, NothingInHand DEF NoWork
  <2>4. work'.height \in FirstDraw..(v + 1)
    BY <1>1, <1>2, <2>2, Heights
  <2> QED
    BY <1>5, <1>7, <2>2, <2>3, <2>4 DEF InHand, IsWork, IsSeq
<1>8. InHand(c, v + 1)'
  BY <1>6, <1>7 DEF handleWinningTicketsNtfn
<1> QED
  BY <1>2, <1>4, <1>8

\* A turn of the loop over the winners.
LEMMA VoteHandled ==
    ASSUME NEW c, NEW v, InOrder(c, v), Bounded(c, v), InHand(c, v), CreateVote
    PROVE  InOrder(c, v)' /\ Bounded(c, v)' /\ InHand(c, v)'
<1> DEFINE wt == Head(work.todo)
           made == Append(work.txs, VoteTx(wt))
           next(txs, todo) == [height |-> work.height, txs |-> txs, got |-> work.got,
                               todo |-> todo, cap |-> work.cap]
<1>1. InOrder(c, v)' /\ Bounded(c, v)'
  BY InOrderSame, BoundedSame DEF CreateVote, dcrdVars, chanVars
<1>2. /\ UNCHANGED <<coins, maturing>> /\ handler = "create"
      /\ IsWork(work) /\ IsSeq(work.txs) /\ work.height \in FirstDraw..v /\ v \in Nat
      /\ \A i \in 1..Len(work.txs) : work.txs[i].kind = "vote" /\ work.txs[i].block \in 0..v
  BY DEF CreateVote, walletVars, InHand, InOrder
<1>3. CASE handler' = "select" /\ work' = NoWork
  <2>1. IsSeq(coins') /\ \A h \in DOMAIN maturing : IsSeq(maturing'[h])
    BY <1>2 DEF InHand
  <2> QED
    BY <1>1, <1>2, <1>3, <2>1, InHandReturn
<1>4. ASSUME handler' = handler,
             \E txs, todo : txs \in {work.txs, made} /\ work' = next(txs, todo)
      PROVE  InHand(c, v)'
  <2>0. PICK txs, todo : txs \in {work.txs, made} /\ work' = next(txs, todo)
    BY <1>4
  <2>1. IsSeq(txs) /\ \A i \in 1..Len(txs) : txs[i].kind = "vote" /\ txs[i].block \in 0..v
    <3>1. CASE txs = made
      <4>1. made = work.txs \o <<VoteTx(wt)>>
        <5>1. PICK A : work.txs \in Seq(A)
          BY <1>2 DEF IsSeq
        <5>2. work.txs \in Seq(A \union {VoteTx(wt)})
          BY <5>1
        <5> QED
          BY <5>2, AppendIsConcat
      <4>2. VoteTx(wt).kind = "vote" /\ VoteTx(wt).block \in 0..v
        BY <1>2, Heights DEF VoteTx
      <4>3. /\ IsSeq(made) /\ Len(made) = Len(work.txs) + 1 /\ Len(work.txs) \in Nat
            /\ \A i \in 1..Len(work.txs) : made[i] = work.txs[i]
            /\ made[Len(work.txs) + 1] = VoteTx(wt)
        <5>1. IsSeq(<<VoteTx(wt)>>) /\ Len(<<VoteTx(wt)>>) = 1 /\ <<VoteTx(wt)>>[1] = VoteTx(wt)
          BY Single
        <5> HIDE DEF made
        <5>2. 1 \in 1..1
          OBVIOUS
        <5> QED
          BY <1>2, <4>1, <5>1, <5>2, Concat
      <4> HIDE DEF made
      <4>4. \A i \in 1..Len(made) : i \in 1..Len(work.txs) \/ i = Len(work.txs) + 1
        BY <4>3
      <4> QED
        BY <1>2, <3>1, <4>2, <4>3, <4>4
    <3> QED
      BY <1>2, <2>0, <3>1
  <2>3. IsWork(work') /\ work'.txs = txs /\ work'.height = work.height
    BY <2>0 DEF IsWork
  <2> QED
    BY <1>2, <1>4, <2>1, <2>3 DEF InHand, IsWork, IsSeq
<1>5. CASE handler' = handler /\ work' = [work EXCEPT !.todo = Tail(@)]
  <2>1. work' = next(work.txs, Tail(work.todo))
    BY <1>2, <1>5 DEF IsWork
  <2> HIDE DEF made, next
  <2> QED
    BY <1>1, <1>4, <1>5, <2>1
<1>6. CASE /\ handler' = handler
           /\ work' = [work EXCEPT !.txs = made,
                                   !.todo = IF Len(made) >= limit THEN <<>> ELSE Tail(@)]
  <2> DEFINE todo == IF Len(made) >= limit THEN <<>> ELSE Tail(work.todo)
  <2>1. work' = next(made, todo)
    BY <1>2, <1>6 DEF IsWork
  <2> HIDE DEF todo, made, next
  <2> QED
    BY <1>1, <1>4, <1>6, <2>1
<1>7. \/ handler' = "select" /\ work' = NoWork
      \/ handler' = handler /\ work' = [work EXCEPT !.todo = Tail(@)]
      \/ /\ handler' = handler
         /\ work' = [work EXCEPT !.txs = made,
                                 !.todo = IF Len(made) >= limit THEN <<>> ELSE Tail(@)]
  BY DEF CreateVote, Return
<1> QED
  BY <1>1, <1>3, <1>5, <1>6, <1>7

\* The votes are sent, if there are any.
LEMMA VotesSent ==
    ASSUME NEW c, NEW v, InOrder(c, v), Bounded(c, v), InHand(c, v), PublishVotes
    PROVE  InOrder(c, v)' /\ Bounded(c, v)' /\ InHand(c, v)'
<1>1. /\ UNCHANGED <<height, poolTickets, poolVotes, minedAt, drawn>>
      /\ UNCHANGED <<wire, blockChan, winChan, coins>> /\ handler = "create"
  BY DEF PublishVotes, dcrdVars, chanVars
<1>2. InOrder(c, v)'
  BY <1>1, InOrderSame
<1>3. CASE Publish("votes", work) /\ UNCHANGED maturing
  <2>1. outbox' = outbox \union ToSet(work.txs) /\ handler' = "votes" /\ work' = work
    BY <1>3 DEF Publish
  <2>2. DOMAIN work.txs = 1..Len(work.txs)
    BY DEF InHand, IsSeq
  <2>3. Bounded(c, v)'
    BY <1>1, <2>1, <2>2, BoundedSent DEF InHand
  <2>4. InHand(c, v)'
    BY <1>1, <1>3, <2>1 DEF InHand, IsWork, IsSeq
  <2> QED
    BY <1>2, <2>3, <2>4
<1>4. CASE KeepReturns(work.height, <<>>) /\ Return({}) /\ UNCHANGED outbox
  <2>1. Bounded(c, v)'
    BY <1>1, <1>4, BoundedSame
  <2>2. IsSeq(<<>>)
    BY NothingInHand DEF NoWork
  <2>3. /\ DOMAIN maturing' = DOMAIN maturing
        /\ \A k \in DOMAIN maturing : IsSeq(maturing'[k])
    BY <1>4, <2>2, ReturnsKept
  <2>4. InHand(c, v)'
    BY <1>1, <1>4, <2>3, InHandReturn DEF InHand, Return
  <2> QED
    BY <1>2, <2>1, <2>4
<1> QED
  BY <1>3, <1>4 DEF PublishVotes

\* A program that has panicked does nothing more.
LEMMA PanicStays ==
    ASSUME handler = "panicked", [Next]_vars
    PROVE  handler' = "panicked"
  BY DEF Next, vars, DcrdNext, DispatcherNext, HandlerNext, TestNext, AcceptTx, RefuseTx,
       onBlockConnected, onWinningTickets, DeliverAnswer, GotBestBlock, Mined, Polled, DropReply,
       handleBlockConnectedNtfn, ReceiveTicket, handleWinningTicketsNtfn, CreateVote,
       CreateVotePanics, PublishVotes, ReceiveVote, ReceiveStopping, HandlerExit, Start,
       GenerateBlocks, Mine, MineFails, Poll, Timeout, Stopping, LimitNbVotes, GenerateOther,
       Cancel, nonTestVars

\* The test calls GenerateBlocks, or mines without the wallet.
LEMMA Tested ==
    ASSUME NEW c, NEW v, InOrder(c, v), Bounded(c, v), InHand(c, v), TestNext
    PROVE  InOrder(c, v)' /\ Bounded(c, v)' /\ InHand(c, v)'
<1>1. CASE Start
  <2>1. /\ UNCHANGED <<height, poolTickets, poolVotes, minedAt, drawn, outbox>>
        /\ UNCHANGED <<wire, blockChan, winChan, work, maturing>>
        /\ handler' = "select" /\ coins' = [i \in 1..requiredTicketCount |-> <<0, i>>]
    BY <1>1 DEF Start, dcrdVars, chanVars
  <2>2. InOrder(c, v)' /\ Bounded(c, v)'
    BY <2>1, InOrderSame, BoundedSame
  <2>3. IsSeq(coins')
    <3>1. requiredTicketCount \in Nat
      BY Heights DEF requiredTicketCount
    <3>2. [i \in 1..requiredTicketCount |-> <<0, i>>] \in Seq({0} \X (1..requiredTicketCount))
      BY <3>1
    <3> QED
      BY <2>1, <3>2 DEF IsSeq
  <2> QED
    BY <2>1, <2>2, <2>3 DEF InHand, IsWork, IsSeq
<1>2. CASE TestNext /\ ~Start
  <2>1. UNCHANGED <<handler, work, coins, maturing, blockChan, winChan, outbox>>
    BY <1>2 DEF TestNext, GenerateBlocks, Mine, MineFails, Poll, Timeout, Stopping,
         LimitNbVotes, GenerateOther, Cancel, nonTestVars, chanVars, walletVars
  <2>2. InHand(c, v)'
    BY <2>1, InHandSame
  <2>3. CASE Mine \/ GenerateOther
    <3>1. PICK replies \in {<<>>, <<Reply("mined")>>} : Connect(replies)
      BY <2>3 DEF Mine, GenerateOther
    <3>2. IsSeq(replies) /\ \A i \in 1..Len(replies) : replies[i].kind = "reply"
      <4>1. Reply("mined").kind = "reply"
        BY DEF Reply
      <4>2. IsSeq(<<>>) /\ Len(<<>>) = 0
        BY NothingInHand DEF NoWork
      <4> QED
        BY <4>1, <4>2, Single
    <3> QED
      BY <2>1, <2>2, <3>1, <3>2, InOrderConnect, BoundedConnect
  <2>4. CASE GenerateBlocks \/ Poll
    <3>1. /\ UNCHANGED <<height, poolTickets, poolVotes, minedAt, drawn>>
          /\ \E call : wire' = Append(wire, Reply(call))
      BY <2>4 DEF GenerateBlocks, Poll, dcrdVars
    <3> QED
      BY <2>1, <2>2, <3>1, BoundedSame, InOrderWritten DEF Reply
  <2>5. CASE UNCHANGED <<dcrdVars, wire>>
    BY <2>1, <2>2, <2>5, BoundedSame, InOrderSame DEF dcrdVars
  <2>6. \/ Mine \/ GenerateOther \/ GenerateBlocks \/ Poll \/ UNCHANGED <<dcrdVars, wire>>
    BY <1>2 DEF TestNext, MineFails, Timeout, Stopping, LimitNbVotes, Cancel
  <2> QED
    BY <2>3, <2>4, <2>5, <2>6
<1> QED
  BY <1>1, <1>2

\* The notifications come in order and the chain waits for the handler
\* (onBlockConnected, onWinningTickets, handleNotifications).
OrderInv == handler = "panicked" \/ \E c, v : InOrder(c, v) /\ Bounded(c, v) /\ InHand(c, v)

\* The order of the notifications is kept by every step (handleNotifications).
LEMMA OrderInvariance == Spec => []OrderInv
<1>1. Init => OrderInv
  <2> SUFFICES ASSUME Init
               PROVE  /\ InOrder(0, FirstDraw - 1)
                      /\ Bounded(0, FirstDraw - 1)
                      /\ InHand(0, FirstDraw - 1)
    BY DEF OrderInv
  <2> DEFINE v == FirstDraw - 1
  <2>1. v \in Nat /\ height = 0 /\ 0 < FirstDraw
    BY Heights DEF Init
  <2>2. LastDraw = v
    BY <2>1 DEF LastDraw
  <2>3. IsSeq(<<>>) /\ Len(<<>>) = 0
    BY NothingInHand DEF NoWork
  <2>4. InOrder(0, v)
    <3>1. Queued(<<>>, "block", 0, 0) /\ Queued(<<>>, "winning", v, v)
      BY <2>1, <2>3, QueuedNone
    <3> QED
      BY <2>1, <2>2, <2>3, <3>1 DEF InOrder, Init
  <2>5. Bounded(0, v)
    <3>1. Cardinality(drawn) = 0 /\ TicketsPerBlock * (v - FirstDraw + 1) = 0
      BY Heights, FS_EmptySet DEF Init
    <3>2. DOMAIN minedAt = {}
      BY DEF Init
    <3> QED
      BY <2>1, <2>2, <3>1, <3>2, Heights DEF Bounded, Init
  <2>6. InHand(0, v)
    <3>1. IsWork(work) /\ IsSeq(work.txs)
      BY NothingInHand DEF Init
    <3> QED
      BY <2>3, <3>1 DEF InHand, Init
  <2> QED
    BY <2>4, <2>5, <2>6
<1>2. OrderInv /\ [Next]_vars => OrderInv'
  <2> SUFFICES ASSUME OrderInv, [Next]_vars, handler # "panicked", handler' # "panicked"
               PROVE  \E c, v : (InOrder(c, v) /\ Bounded(c, v) /\ InHand(c, v))'
    BY PanicStays DEF OrderInv
  <2>1. PICK c, v : InOrder(c, v) /\ Bounded(c, v) /\ InHand(c, v)
    BY DEF OrderInv
  <2>2. CASE DcrdNext \/ DispatcherNext \/ TestNext
    BY <2>1, <2>2, Answered, Dispatched, Tested
  <2>3. CASE handleBlockConnectedNtfn
    BY <2>1, <2>3, BlockHandled
  <2>4. CASE handleWinningTicketsNtfn
    BY <2>1, <2>4, WinnersHandled
  <2>5. CASE ReceiveTicket \/ ReceiveVote \/ ReceiveStopping \/ HandlerExit
    BY <2>1, <2>5, Received
  <2>6. CASE CreateVote \/ PublishVotes
    BY <2>1, <2>6, VoteHandled, VotesSent
  <2>7. ~CreateVotePanics
    BY DEF CreateVotePanics
  <2>8. CASE UNCHANGED vars
    BY <2>1, <2>8, InOrderSame, BoundedSame, InHandSame DEF vars, dcrdVars, chanVars, walletVars
  <2> QED
    BY <2>2, <2>3, <2>4, <2>5, <2>6, <2>7, <2>8 DEF Next, HandlerNext
<1> QED
  BY <1>1, <1>2, PTL DEF Spec

\* Without tickets of the handler the chain runs at most TicketMaturity + 1
\* blocks ahead of it, and without its votes one block.
LEMMA RunsAhead ==
    ASSUME NEW c, NEW v, InOrder(c, v), Bounded(c, v), height >= FirstDraw
    PROVE  height <= c + TicketMaturity + 1 /\ height <= v + 1
<1>1. c \in Nat /\ v \in Nat /\ height \in Nat /\ v >= FirstDraw - 1 /\ LastDraw = height
  BY LastDrawType DEF InOrder
<1>2. height <= v + 1
  BY <1>1, Heights DEF Bounded
<1>3. /\ drawn \subseteq Bought(FirstBuy, c)
      /\ Cardinality(drawn) = TicketsPerBlock * (height - FirstDraw + 1)
  BY <1>1 DEF Bounded
<1>4. Cardinality(drawn) <= Cardinality(Bought(FirstBuy, c))
  BY <1>1, <1>3, BoughtFinite, FS_Subset, Heights
<1>5. FirstBuy <= c
  <2> SUFFICES ASSUME FirstBuy > c PROVE FALSE
    BY <1>1, Heights
  <2>1. Cardinality(Bought(FirstBuy, c)) = 0
    BY <1>1, BoughtFinite, Heights
  <2>2. TicketsPerBlock * (height - FirstDraw + 1) >= 1
    <3>1. \A a, b \in Nat \ {0} : a * b >= 1
      OBVIOUS
    <3>2. height - FirstDraw + 1 \in Nat \ {0}
      BY <1>1, Heights
    <3> QED
      BY <3>1, <3>2, Heights
  <2> QED
    BY <1>1, <1>3, <1>4, <2>1, <2>2, Heights
<1>6. TicketsPerBlock * (height - FirstDraw + 1) <= TicketsPerBlock * (c - FirstBuy + 1)
  BY <1>1, <1>3, <1>4, <1>5, BoughtFinite, Heights
<1>7. height - FirstDraw + 1 <= c - FirstBuy + 1
  <2>1. \A a, b \in Int, n \in Nat \ {0} : n * a <= n * b => a <= b
    OBVIOUS
  <2> QED
    BY <1>1, <1>6, <2>1, Heights
<1> QED
  BY <1>1, <1>2, <1>7, Heights

\* The dispatcher of the client is never stuck behind a full channel while the
\* handler waits for answers of dcrd, when the buffers are longer than the
\* maturity of a ticket (20 and 16 on simnet), whatever the test does.
THEOREM DispatcherCorrect ==
    ASSUME BufferLen > TicketMaturity
    PROVE  Spec => []DispatcherFree
<1>1. OrderInv => DispatcherFree
  <2> SUFFICES ASSUME OrderInv, handler \in {"tickets", "votes"}, wire # <<>>
               PROVE  /\ Head(wire).kind = "block" => Room(blockChan)
                      /\ Head(wire).kind = "winning" => Room(winChan)
    BY DEF DispatcherFree
  <2>1. PICK c, v : InOrder(c, v) /\ Bounded(c, v) /\ InHand(c, v)
    BY DEF OrderInv
  <2>2. /\ c \in Nat /\ v \in Nat /\ height \in Nat /\ v >= FirstDraw - 1
        /\ Len(blockChan) \in Nat /\ Len(winChan) \in Nat
    BY <2>1, Concat DEF InOrder
  <2>3. v + Len(winChan) <= LastDraw
    BY <2>1 DEF InOrder, Queued
  <2>4. ASSUME Head(wire).kind = "block" PROVE Room(blockChan)
    <3>1. c + Len(blockChan) + 1 <= height
      BY <2>1, <2>4, QueuedTailSame DEF InOrder
    <3>2. CASE height >= FirstDraw
      BY <2>1, <2>2, <3>1, <3>2, RunsAhead, Heights DEF Room
    <3>3. CASE height < FirstDraw
      <4>1. c >= FirstBuy
        <5>1. LastDraw = FirstDraw - 1
          BY <3>3 DEF LastDraw
        <5>2. ~(v >= FirstDraw)
          BY <2>2, <2>3, <5>1, Heights
        <5>3. handler # "votes"
          BY <2>1, <2>2, <5>2, Heights DEF InHand
        <5> QED
          BY <2>1, <5>3 DEF InHand
      <4> QED
        BY <2>2, <3>1, <3>3, <4>1, Heights DEF Room
    <3> QED
      BY <2>2, <3>2, <3>3, Heights
  <2>5. ASSUME Head(wire).kind = "winning" PROVE Room(winChan)
    <3>1. v + Len(winChan) + 1 <= LastDraw
      BY <2>1, <2>5, QueuedTailSame DEF InOrder
    <3>2. CASE height >= FirstDraw
      <4>1. height <= v + 1 /\ LastDraw = height
        BY <2>1, <2>2, <3>2, RunsAhead, LastDrawType
      <4> QED
        BY <2>2, <3>1, <4>1, Heights DEF Room
    <3>3. CASE height < FirstDraw
      <4>1. LastDraw = FirstDraw - 1
        BY <3>3 DEF LastDraw
      <4> QED
        BY <2>2, <3>1, <4>1, Heights DEF Room
    <3> QED
      BY <2>2, <3>2, <3>3, Heights
  <2> QED
    BY <2>4, <2>5
<1> QED
  BY <1>1, OrderInvariance, PTL

-----------------------------------------------------------------------------
(* While all is calm: where every coin, ticket and vote is.                *)

\* At most one reply is among the messages.
OneReply(s) ==
    \A i, j \in 1..Len(s) : s[i].kind = "reply" /\ s[j].kind = "reply" => i = j

\* The tickets bought for block h, and those that win it while all is calm.
Round(h) == Bought(h, h)
DrawnFor(h) == Round(h - 1 - TicketMaturity)

\* The number of blocks from a to b.
Rounds(a, b) == IF a <= b THEN b - a + 1 ELSE 0

\* The blocks whose purchases, and whose winners, the handler is done with.
Paid(c) == IF handler = "tickets" THEN c - 1 ELSE c
Kept(v) == IF handler \in {"create", "votes"} THEN v - 1 ELSE v

\* Nothing has gone wrong, and the handler is where it can be then.
CalmHandler(c, v) ==
    /\ ctxDone = FALSE /\ errors = {}
    /\ handler \in {"unstarted", "select", "tickets", "create", "votes"}
    /\ height > FirstBuy => c >= height - 1
    /\ handler = "tickets" => v <= c \/ v = FirstDraw - 1
    /\ handler \in {"create", "votes"} => work.height = v /\ c <= v
    /\ handler = "create" => v = height
    /\ handler = "unstarted" => height < FirstBuy /\ gen.at = "idle"

\* Every ticket was mined in the block after the one it was bought for, won
\* TicketMaturity blocks later, and voted in the block after that.
CalmChain(c, v) ==
    /\ DOMAIN minedAt = Bought(FirstBuy, height - 1)
    /\ \A t \in DOMAIN minedAt : minedAt[t] = t[1] + 1
    /\ drawn = Bought(FirstBuy, LastDraw - 1 - TicketMaturity)
    /\ DOMAIN votedAt = Bought(FirstBuy, LastDraw - 2 - TicketMaturity)
    /\ \A t \in DOMAIN votedAt : votedAt[t] = t[1] + TicketMaturity + 2
    /\ poolTickets \subseteq Round(height)
    /\ poolTickets # {} => c = height /\ height >= FirstBuy
    /\ poolVotes \subseteq DrawnFor(height) \X {height}
    /\ poolVotes # {} => v = height /\ height >= FirstDraw /\ handler # "create"

\* A coin that can be spent once the block b is handled.
Spendable(coin, b) ==
    coin[1] = 0 \/ coin \in Bought(FirstBuy, b - CoinbaseMaturity - TicketMaturity - 1)

\* The blocks whose coins are unspent once the purchases of b are done, of
\* which those of c have been taken.
Share(c, b) == CoinbaseMaturity + TicketMaturity + 2
                 - Rounds(FirstBuy, c) + Rounds(FirstDraw + CoinbaseMaturity, b)

\* Where the coins of the wallet are.
CalmWallet(c, v) ==
    /\ tickets = Bought(FirstBuy, Paid(c))
                   \union (IF handler = "tickets" THEN {c} \X (1..work.got) ELSE {})
    /\ handler # "unstarted" => Len(coins) = TicketsPerBlock * Share(c, Paid(c))
    /\ \A i \in 1..Len(coins) : Spendable(coins[i], Paid(c))
    /\ \A k \in 1..(MaxHeight + CoinbaseMaturity) :
          /\ Len(maturing[k]) =
                IF /\ Paid(c) < k /\ FirstDraw + CoinbaseMaturity <= k
                   /\ k <= Kept(v) + CoinbaseMaturity
                  THEN TicketsPerBlock ELSE 0
          /\ \A i \in 1..Len(maturing[k]) : maturing[k][i] \in DrawnFor(k - CoinbaseMaturity)

\* The winners of block h: each of its tickets once.
IsDraw(w, h) ==
    /\ w \in [1..TicketsPerBlock -> DrawnFor(h)]
    /\ \A i, j \in 1..TicketsPerBlock : w[i] = w[j] => i = j

\* The vote of a ticket on block h (onWinningTickets, CreateVote).
VoteFor(ticket, h) == [kind |-> "vote", id |-> ticket, block |-> h]

\* What the handler has in hand.
CalmWork(c, v) ==
    /\ handler = "tickets" =>
         /\ Len(work.txs) = TicketsPerBlock /\ work.got \in Nat /\ work.got < TicketsPerBlock
         /\ \A i \in 1..TicketsPerBlock :
               /\ work.txs[i] = [kind |-> "ticket", id |-> <<c, i>>, coin |-> work.txs[i].coin]
               /\ Spendable(work.txs[i].coin, c - 1)
    /\ handler = "create" =>
         /\ work.cap = TicketsPerBlock /\ work.got = 0 /\ IsSeq(work.todo)
         /\ Len(work.txs) + Len(work.todo) = TicketsPerBlock
         /\ \E w :
               /\ IsDraw(w, v)
               /\ \A i \in 1..Len(work.txs) : work.txs[i] = VoteFor(w[i], v)
               /\ \A i \in 1..Len(work.todo) : work.todo[i] = w[Len(work.txs) + i]
    /\ handler = "votes" =>
         /\ Len(work.txs) = TicketsPerBlock /\ work.todo = <<>>
         /\ work.got \in Nat /\ work.got < TicketsPerBlock
         /\ \E w : IsDraw(w, v) /\ \A i \in 1..TicketsPerBlock : work.txs[i] = VoteFor(w[i], v)

\* The winners that wait for the handler.
CalmWinners ==
    /\ \A m \in ToSet(wire) : m.kind = "winning" => IsDraw(m.winners, m.height)
    /\ \A m \in ToSet(winChan) : IsDraw(m.winners, m.height)

\* The handler sent it, for a block it took.
Sent(tx, c, v) ==
    \/ tx.kind = "ticket" /\ tx.id[1] \in 0..c
    \/ tx.kind = "vote" /\ tx.block \in 0..(IF handler = "create" THEN v - 1 ELSE v)

\* What is on its way to dcrd is in hand, for the last block and not in the
\* memory pool.
CalmOutbox ==
    \A tx \in outbox :
        /\ handler \in {"tickets", "votes"} /\ work.height = height
        /\ \E j \in (work.got + 1)..TicketsPerBlock : tx = work.txs[j]
        /\ tx.kind = "ticket" => tx.id \notin poolTickets
        /\ tx.kind = "vote" => <<tx.id, tx.block>> \notin poolVotes

\* What was answered was accepted.
CalmAnswered(c, v) ==
    /\ \A m \in ToSet(wire) : m.kind = "answer" => m.ok /\ m.tx \notin outbox /\ Sent(m.tx, c, v)
    /\ \A a \in answers : a.ok /\ a.tx \notin outbox /\ Sent(a.tx, c, v)

\* The memory pool has all tickets for the last block, and all votes on it.
Met ==
    /\ height >= FirstBuy => poolTickets = Round(height)
    /\ height >= FirstDraw => poolVotes = DrawnFor(height) \X {height}

\* The locals of GenerateBlocks form a record.
IsGen(g) == g = [at |-> g.at, next |-> g.next, left |-> g.left, votes |-> g.votes]

\* The calls of the test.
CalmGen ==
    /\ gen.at \in {"idle", "best", "mine", "mining", "poll", "polling"}
    /\ IsGen(gen)
    /\ gen.at \in {"mine", "mining", "poll", "polling"} => gen.votes = TicketsPerBlock
    /\ gen.at = "mine" => gen.next = height + 1
    /\ gen.at \in {"mining", "poll", "polling"} => gen.next = height
    /\ gen.at \in {"idle", "best", "mine"} => Met

\* A reply that is on its way is the only one, and is waited for.
CalmReplies ==
    /\ \A m \in ToSet(wire) : m.kind = "reply" =>
         \/ m.call = "best" /\ gen.at = "best"
         \/ m.call = "mined" /\ gen.at = "mining"
         \/ m.call = "met" /\ gen.at = "polling" /\ Met
         \/ m.call = "unmet" /\ gen.at = "polling"
    /\ OneReply(wire)

\* The state of an undisturbed wallet that has handled the blocks up to c and
\* the drawings up to v.
CalmInv(c, v) ==
    /\ CalmHandler(c, v) /\ CalmChain(c, v) /\ CalmWallet(c, v) /\ CalmWork(c, v)
    /\ CalmWinners /\ CalmOutbox /\ CalmAnswered(c, v) /\ CalmGen /\ CalmReplies

-----------------------------------------------------------------------------
(* Messages on the connection.                                             *)

\* What is in a sequence of messages, and in one made of others.
LEMMA SetOf ==
    ASSUME NEW s, IsSeq(s)
    PROVE  /\ ToSet(s) = {s[i] : i \in 1..Len(s)} /\ Len(s) \in Nat
           /\ \A i \in 1..Len(s) : s[i] \in ToSet(s)
<1>1. DOMAIN s = 1..Len(s) /\ Len(s) \in Nat
  BY DEF IsSeq
<1> QED
  BY <1>1 DEF ToSet

\* The messages of one sequence and another.
LEMMA SetOfConcat ==
    ASSUME NEW s, NEW t, IsSeq(s), IsSeq(t)
    PROVE  ToSet(s \o t) = ToSet(s) \union ToSet(t)
<1> DEFINE u == s \o t
<1>1. /\ IsSeq(u) /\ Len(u) = Len(s) + Len(t) /\ Len(s) \in Nat /\ Len(t) \in Nat
      /\ \A i \in 1..Len(s) : u[i] = s[i]
      /\ \A i \in 1..Len(t) : u[Len(s) + i] = t[i]
  BY Concat
<1>2. /\ ToSet(u) = {u[i] : i \in 1..Len(u)} /\ ToSet(s) = {s[i] : i \in 1..Len(s)}
      /\ ToSet(t) = {t[i] : i \in 1..Len(t)}
  BY <1>1, SetOf
<1> HIDE DEF u
<1>3. ASSUME NEW i \in 1..Len(u) PROVE u[i] \in ToSet(s) \union ToSet(t)
  <2>1. CASE i \in 1..Len(s)
    BY <1>1, <1>2, <2>1
  <2>2. CASE i \notin 1..Len(s)
    <3>1. i - Len(s) \in 1..Len(t) /\ Len(s) + (i - Len(s)) = i
      BY <1>1, <2>2
    <3> QED
      BY <1>1, <1>2, <3>1
  <2> QED
    BY <2>1, <2>2
<1>4. \A i \in 1..Len(s) : s[i] \in ToSet(u)
  <2>1. \A i \in 1..Len(s) : i \in 1..Len(u)
    BY <1>1
  <2> QED
    BY <1>1, <1>2, <2>1
<1>5. \A i \in 1..Len(t) : t[i] \in ToSet(u)
  <2>1. \A i \in 1..Len(t) : Len(s) + i \in 1..Len(u)
    BY <1>1
  <2> QED
    BY <1>1, <1>2, <2>1
<1>6. ToSet(u) = ToSet(s) \union ToSet(t)
  BY <1>2, <1>3, <1>4, <1>5
<1> QED
  BY <1>6 DEF u

\* The first message, and those behind it.
LEMMA SetOfTail ==
    ASSUME NEW s, IsSeq(s), s # <<>>
    PROVE  Head(s) \in ToSet(s) /\ ToSet(Tail(s)) \subseteq ToSet(s)
<1> DEFINE t == Tail(s)
<1>1. /\ IsSeq(t) /\ Len(s) \in Nat \ {0} /\ Len(t) = Len(s) - 1 /\ Head(s) = s[1]
      /\ \A i \in 1..Len(t) : t[i] = s[i + 1]
  BY WithoutHead
<1>2. /\ ToSet(t) = {t[i] : i \in 1..Len(t)} /\ ToSet(s) = {s[i] : i \in 1..Len(s)}
  BY <1>1, SetOf
<1> HIDE DEF t
<1>3. \A i \in 1..Len(t) : i + 1 \in 1..Len(s)
  BY <1>1
<1>4. ToSet(t) \subseteq ToSet(s) /\ Head(s) \in ToSet(s)
  BY <1>1, <1>2, <1>3
<1> QED
  BY <1>4 DEF t

\* A message more.
LEMMA AppendAs ==
    ASSUME NEW s, NEW e, IsSeq(s)
    PROVE  /\ Append(s, e) = s \o <<e>> /\ IsSeq(Append(s, e))
           /\ ToSet(Append(s, e)) = ToSet(s) \union {e}
<1>1. PICK A : s \in Seq(A)
  BY DEF IsSeq
<1>2. s \in Seq(A \union {e}) /\ e \in A \union {e}
  BY <1>1
<1>3. Append(s, e) = s \o <<e>>
  BY <1>2, AppendIsConcat
<1>4. IsSeq(<<e>>) /\ ToSet(<<e>>) = {e}
  BY Single, SetOf
<1> QED
  BY <1>3, <1>4, Concat, SetOfConcat

\* At most one reply, when one of two parts has none.
LEMMA OneReplyConcat ==
    ASSUME NEW s, NEW t, IsSeq(s), IsSeq(t), OneReply(s), OneReply(t),
           \/ \A m \in ToSet(s) : m.kind # "reply"
           \/ \A m \in ToSet(t) : m.kind # "reply"
    PROVE  OneReply(s \o t)
<1> DEFINE u == s \o t
<1>1. /\ IsSeq(u) /\ Len(u) = Len(s) + Len(t) /\ Len(s) \in Nat /\ Len(t) \in Nat
      /\ \A i \in 1..Len(s) : u[i] = s[i]
      /\ \A i \in 1..Len(t) : u[Len(s) + i] = t[i]
  BY Concat
<1>2. /\ \A i \in 1..Len(s) : s[i] \in ToSet(s)
      /\ \A i \in 1..Len(t) : t[i] \in ToSet(t)
  BY SetOf
<1> HIDE DEF u
<1>3. \A i \in 1..Len(u) : \/ i \in 1..Len(s) /\ u[i] = s[i]
                           \/ i - Len(s) \in 1..Len(t) /\ u[i] = t[i - Len(s)]
  <2> SUFFICES ASSUME NEW i \in 1..Len(u), i \notin 1..Len(s)
               PROVE  i - Len(s) \in 1..Len(t) /\ u[i] = t[i - Len(s)]
    BY <1>1
  <2>1. i - Len(s) \in 1..Len(t) /\ Len(s) + (i - Len(s)) = i
    BY <1>1
  <2> QED
    BY <2>1, <1>1
<1>4. ASSUME NEW i \in 1..Len(u), NEW j \in 1..Len(u), u[i].kind = "reply", u[j].kind = "reply"
      PROVE  i = j
  <2>1. CASE i \in 1..Len(s) /\ u[i] = s[i] /\ j \in 1..Len(s) /\ u[j] = s[j]
    BY <1>4, <2>1 DEF OneReply
  <2>2. CASE /\ i - Len(s) \in 1..Len(t) /\ u[i] = t[i - Len(s)]
             /\ j - Len(s) \in 1..Len(t) /\ u[j] = t[j - Len(s)]
    <3>1. i - Len(s) = j - Len(s)
      BY <1>4, <2>2 DEF OneReply
    <3> QED
      BY <1>1, <3>1
  <2> QED
    BY <1>2, <1>3, <1>4, <2>1, <2>2
<1>5. OneReply(u)
  BY <1>4 DEF OneReply
<1> QED
  BY <1>5 DEF u

\* A sequence without a reply, and one of a single message.
LEMMA FewReplies ==
    /\ \A s : IsSeq(s) /\ (\A m \in ToSet(s) : m.kind # "reply") => OneReply(s)
    /\ \A e : OneReply(<<e>>)
<1>1. \A s : IsSeq(s) /\ (\A m \in ToSet(s) : m.kind # "reply") => OneReply(s)
  BY SetOf DEF OneReply
<1>2. ASSUME NEW e PROVE OneReply(<<e>>)
  BY Single DEF OneReply
<1> QED
  BY <1>1, <1>2

\* The only reply is taken.
LEMMA OneReplyTail ==
    ASSUME NEW s, IsSeq(s), s # <<>>, OneReply(s)
    PROVE  /\ OneReply(Tail(s))
           /\ Head(s).kind = "reply" => \A m \in ToSet(Tail(s)) : m.kind # "reply"
<1> DEFINE t == Tail(s)
<1>1. /\ IsSeq(t) /\ Len(s) \in Nat \ {0} /\ Len(t) = Len(s) - 1 /\ Head(s) = s[1]
      /\ \A i \in 1..Len(t) : t[i] = s[i + 1]
  BY WithoutHead
<1>2. ToSet(t) = {t[i] : i \in 1..Len(t)}
  BY <1>1, SetOf
<1> HIDE DEF t
<1>3. \A i \in 1..Len(t) : i + 1 \in 1..Len(s) /\ i + 1 # 1
  BY <1>1
<1>4. OneReply(t)
  <2> SUFFICES ASSUME NEW i \in 1..Len(t), NEW j \in 1..Len(t),
                      t[i].kind = "reply", t[j].kind = "reply"
               PROVE  i = j
    BY DEF OneReply
  <2>1. i + 1 = j + 1
    BY <1>1, <1>3 DEF OneReply
  <2> QED
    BY <1>1, <2>1
<1>5. ASSUME Head(s).kind = "reply", NEW i \in 1..Len(t) PROVE t[i].kind # "reply"
  <2>1. 1 \in 1..Len(s)
    BY <1>1
  <2> QED
    BY <1>1, <1>3, <1>5, <2>1 DEF OneReply
<1>6. Head(s).kind = "reply" => \A m \in ToSet(t) : m.kind # "reply"
  BY <1>2, <1>5
<1> QED
  BY <1>4, <1>6 DEF t

-----------------------------------------------------------------------------
(* What a step leaves alone.                                               *)

\* The parts of a message.
LEMMA Parts ==
    /\ \A t, h : VoteFor(t, h).kind = "vote" /\ VoteFor(t, h).id = t /\ VoteFor(t, h).block = h
    /\ \A tx, ok : /\ Answer(tx, ok).kind = "answer" /\ Answer(tx, ok).tx = tx
                   /\ Answer(tx, ok).ok = ok
    /\ \A call : Reply(call).kind = "reply" /\ Reply(call).call = call
  BY DEF VoteFor, Answer, Reply

\* Where the handler is, relative to the chain.
LEMMA Where ==
    ASSUME NEW c, NEW v, InOrder(c, v), Bounded(c, v), InHand(c, v)
    PROVE  /\ c \in Nat /\ v \in Nat /\ height \in Nat /\ c <= height /\ height <= MaxHeight
           /\ v >= FirstDraw - 1 /\ v <= LastDraw
           /\ height >= FirstDraw => LastDraw = height /\ v >= height - 1
           /\ height < FirstDraw => LastDraw = FirstDraw - 1 /\ v = FirstDraw - 1
           /\ handler \in {"create", "votes"} => v >= FirstDraw /\ height >= FirstDraw
           /\ handler = "tickets" => work.height = c /\ c >= FirstBuy
<1>1. /\ c \in Nat /\ v \in Nat /\ height \in Nat /\ v >= FirstDraw - 1
      /\ IsSeq(blockChan) /\ IsSeq(winChan)
      /\ c + Len(blockChan) <= height /\ v + Len(winChan) <= LastDraw
  BY DEF InOrder, Queued
<1>2. Len(blockChan) \in Nat /\ Len(winChan) \in Nat /\ LastDraw \in Nat
  BY <1>1, Concat, LastDrawType
<1>3. c <= height /\ v <= LastDraw
  BY <1>1, <1>2
<1>4. height >= FirstDraw => LastDraw = height /\ v >= height - 1
  BY <1>1, Heights, LastDrawType DEF Bounded
<1>5. height < FirstDraw => LastDraw = FirstDraw - 1
  BY DEF LastDraw
<1>6. height < FirstDraw => v = FirstDraw - 1
  BY <1>1, <1>3, <1>5, Heights
<1>7. handler \in {"create", "votes"} => v >= FirstDraw
  BY <1>1, Heights DEF InHand
<1> QED
  BY <1>1, <1>3, <1>4, <1>5, <1>6, <1>7, Heights DEF InHand, Bounded

\* Neither the handler, the chain nor the test moves.
LEMMA HandlerFrame ==
    ASSUME NEW c, NEW v, CalmHandler(c, v),
           UNCHANGED <<ctxDone, errors, handler, height, work, gen>>
    PROVE  CalmHandler(c, v)'
  BY DEF CalmHandler

\* dcrd does nothing, and the handler starts no votes.
LEMMA ChainFrame ==
    ASSUME NEW c, NEW v, CalmChain(c, v), UNCHANGED dcrdVars,
           handler' = "create" => handler = "create"
    PROVE  CalmChain(c, v)'
<1>1. UNCHANGED <<height, poolTickets, poolVotes, minedAt, votedAt, drawn>>
  BY DEF dcrdVars
<1>2. LastDraw' = LastDraw
  BY <1>1 DEF LastDraw
<1> QED
  BY <1>1, <1>2 DEF CalmChain

\* The handler does nothing and no coin is moved.
LEMMA WalletFrame ==
    ASSUME NEW c, NEW v, CalmWallet(c, v), UNCHANGED <<handler, work, coins, tickets, maturing>>
    PROVE  CalmWallet(c, v)'
<1>1. Paid(c)' = Paid(c) /\ Kept(v)' = Kept(v)
  BY DEF Paid, Kept
<1> QED
  BY <1>1 DEF CalmWallet

\* The handler does nothing.
LEMMA WorkFrame ==
    ASSUME NEW c, NEW v, CalmWork(c, v), UNCHANGED <<handler, work>>
    PROVE  CalmWork(c, v)'
  BY DEF CalmWork

\* No winners are announced.
LEMMA WinnersFrame ==
    ASSUME CalmWinners, UNCHANGED winChan,
           \A m \in ToSet(wire') : m.kind = "winning" => m \in ToSet(wire)
    PROVE  CalmWinners'
  BY DEF CalmWinners

\* No transaction is sent, and none reaches dcrd.
LEMMA OutboxFrame ==
    ASSUME CalmOutbox, UNCHANGED <<outbox, handler, work, height, poolTickets, poolVotes>>
    PROVE  CalmOutbox'
  BY DEF CalmOutbox

\* No transaction is sent or answered.
LEMMA AnsweredFrame ==
    ASSUME NEW c, NEW v, CalmAnswered(c, v), outbox' \subseteq outbox,
           handler' = "create" => handler = "create", answers' \subseteq answers,
           \A m \in ToSet(wire') : m.kind = "answer" => m \in ToSet(wire), v \in Nat
    PROVE  CalmAnswered(c, v)'
<1>1. \A tx : Sent(tx, c, v) => Sent(tx, c, v)'
  BY DEF Sent
<1> QED
  BY <1>1 DEF CalmAnswered

\* The test does nothing, and neither does dcrd.
LEMMA GenFrame ==
    ASSUME CalmGen, UNCHANGED <<gen, height, poolTickets, poolVotes>>
    PROVE  CalmGen'
  BY DEF CalmGen, Met, IsGen

\* No reply is written, and the test waits for the one on its way.
LEMMA RepliesFrame ==
    ASSUME CalmReplies, UNCHANGED <<gen, height, poolTickets, poolVotes>>,
           \A m \in ToSet(wire') : m.kind = "reply" => m \in ToSet(wire), OneReply(wire')
    PROVE  CalmReplies'
<1>1. Met' = Met
  BY DEF Met
<1> QED
  BY <1>1 DEF CalmReplies

\* The invariants of any run, and of one in which all is calm.
Steady(c, v) == InOrder(c, v) /\ Bounded(c, v) /\ InHand(c, v) /\ CalmInv(c, v)

-----------------------------------------------------------------------------
(* Steps of dcrd while all is calm.                                        *)

\* A transaction on its way to dcrd is a purchase or a vote in hand.
LEMMA OnItsWay ==
    ASSUME NEW c, NEW v, Steady(c, v), NEW tx \in outbox
    PROVE  \E j \in (work.got + 1)..TicketsPerBlock :
             /\ work.got \in Nat /\ j \in 1..TicketsPerBlock /\ tx = work.txs[j]
             /\ work.height = height
             /\ \/ /\ handler = "tickets" /\ c = height /\ height >= FirstBuy
                   /\ tx.kind = "ticket" /\ tx.id = <<c, j>> /\ Spendable(tx.coin, c - 1)
                   /\ tx.id \notin poolTickets
                \/ /\ handler = "votes" /\ v = height /\ height >= FirstDraw
                   /\ tx.kind = "vote" /\ tx.block = v /\ tx.id \in DrawnFor(v)
                   /\ <<tx.id, v>> \notin poolVotes
<1>1. /\ handler \in {"tickets", "votes"} /\ work.height = height
      /\ tx.kind = "ticket" => tx.id \notin poolTickets
      /\ tx.kind = "vote" => <<tx.id, tx.block>> \notin poolVotes
  BY DEF Steady, CalmInv, CalmOutbox
<1>2. PICK j \in (work.got + 1)..TicketsPerBlock : tx = work.txs[j]
  BY DEF Steady, CalmInv, CalmOutbox
<1>3. work.got \in Nat
  BY <1>1 DEF Steady, CalmInv, CalmWork
<1>4. j \in 1..TicketsPerBlock
  BY <1>3, Heights
<1>5. CASE handler = "tickets"
  <2>1. /\ tx = [kind |-> "ticket", id |-> <<c, j>>, coin |-> tx.coin]
        /\ Spendable(tx.coin, c - 1)
    BY <1>2, <1>4, <1>5 DEF Steady, CalmInv, CalmWork
  <2>2. work.height = c /\ c >= FirstBuy
    BY <1>5, Where DEF Steady
  <2>3. tx.kind = "ticket" /\ tx.id = <<c, j>>
    BY <2>1
  <2> QED
    BY <1>1, <1>2, <1>3, <1>4, <1>5, <2>1, <2>2, <2>3
<1>6. CASE handler = "votes"
  <2>1. PICK w : IsDraw(w, v) /\ \A i \in 1..TicketsPerBlock : work.txs[i] = VoteFor(w[i], v)
    BY <1>6 DEF Steady, CalmInv, CalmWork
  <2>2. work.height = v /\ v >= FirstDraw
    BY <1>6, Where DEF Steady, CalmInv, CalmHandler
  <2>3. tx.kind = "vote" /\ tx.id = w[j] /\ tx.block = v
    BY <1>2, <1>4, <2>1, Parts
  <2>4. w[j] \in DrawnFor(v)
    BY <1>4, <2>1 DEF IsDraw
  <2> QED
    BY <1>1, <1>2, <1>3, <1>4, <1>6, <2>2, <2>3, <2>4
<1> QED
  BY <1>1, <1>5, <1>6

\* Two transactions on their way differ in what they buy or vote.
LEMMA OnTheirWay ==
    ASSUME NEW c, NEW v, Steady(c, v), NEW tx \in outbox, NEW ux \in outbox, tx # ux
    PROVE  tx.id # ux.id
<1>1. PICK j \in 1..TicketsPerBlock : tx = work.txs[j]
  BY OnItsWay
<1>2. PICK k \in 1..TicketsPerBlock : ux = work.txs[k]
  BY OnItsWay
<1>3. j # k
  BY <1>1, <1>2
<1>4. CASE handler = "tickets"
  <2>1. work.txs[j].id = <<c, j>> /\ work.txs[k].id = <<c, k>>
    <3>1. \A i \in 1..TicketsPerBlock :
             work.txs[i] = [kind |-> "ticket", id |-> <<c, i>>, coin |-> work.txs[i].coin]
      BY <1>4 DEF Steady, CalmInv, CalmWork
    <3>2. ASSUME NEW i \in 1..TicketsPerBlock PROVE work.txs[i].id = <<c, i>>
      <4>1. work.txs[i] = [kind |-> "ticket", id |-> <<c, i>>, coin |-> work.txs[i].coin]
        BY <3>1
      <4> QED
        BY <4>1
    <3> QED
      BY <3>2
  <2> QED
    BY <1>1, <1>2, <1>3, <2>1
<1>5. CASE handler = "votes"
  <2>1. PICK w : IsDraw(w, v) /\ \A i \in 1..TicketsPerBlock : work.txs[i] = VoteFor(w[i], v)
    BY <1>5 DEF Steady, CalmInv, CalmWork
  <2>2. \A i \in 1..TicketsPerBlock : work.txs[i].id = w[i]
    BY <2>1, Parts
  <2> QED
    BY <1>1, <1>2, <1>3, <2>1, <2>2 DEF IsDraw
<1> QED
  BY <1>4, <1>5 DEF Steady, CalmInv, CalmOutbox

\* The coin of a ticket that is sent can be spent in the next block.
LEMMA CoinMature ==
    ASSUME NEW c, NEW v, Steady(c, v), NEW tx \in outbox, tx.kind = "ticket"
    PROVE  Mature(tx.coin)
<1>1. c = height /\ height >= FirstBuy /\ Spendable(tx.coin, c - 1)
  BY OnItsWay
<1>2. c \in Nat /\ height \in Nat /\ (height >= FirstDraw => LastDraw = height)
  BY Where DEF Steady
<1>3. CASE tx.coin[1] = 0
  BY <1>3 DEF Mature
<1>4. CASE tx.coin \in Bought(FirstBuy, c - 1 - CoinbaseMaturity - TicketMaturity - 1)
  <2> DEFINE b == c - 1 - CoinbaseMaturity - TicketMaturity - 1
             x == tx.coin[1]
  <2>1. x \in FirstBuy..b /\ x \in Nat /\ tx.coin \in (FirstBuy..b) \X (1..TicketsPerBlock)
    BY <1>2, <1>4, Heights DEF Bought
  <2>2. c >= FirstDraw /\ b <= LastDraw - 2 - TicketMaturity
    BY <1>1, <1>2, <2>1, Heights
  <2>3. tx.coin \in Bought(FirstBuy, LastDraw - 2 - TicketMaturity)
    <3>1. x \in FirstBuy..(LastDraw - 2 - TicketMaturity)
      BY <1>1, <1>2, <2>1, <2>2, Heights
    <3> QED
      BY <2>1, <3>1 DEF Bought
  <2>4. tx.coin \in DOMAIN votedAt /\ votedAt[tx.coin] = x + TicketMaturity + 2
    BY <2>3 DEF Steady, CalmInv, CalmChain
  <2>5. height + 1 >= votedAt[tx.coin] + CoinbaseMaturity
    BY <1>1, <1>2, <2>1, <2>4, Heights
  <2> QED
    BY <2>4, <2>5 DEF Mature
<1> QED
  BY <1>1, <1>3, <1>4 DEF Spendable

\* dcrd refuses nothing.
LEMMA NothingRefused ==
    ASSUME NEW c, NEW v, Steady(c, v), Calm, Calm', NEW tx \in outbox
    PROVE  ~RefuseTx(tx)
<1>1. faults = 0 /\ faults' = 0
  BY DEF Calm
<1>2. ~Fault
  BY <1>1 DEF Fault
<1>3. tx.kind = "ticket" => Mature(tx.coin)
  BY CoinMature
<1> QED
  BY <1>2, <1>3 DEF RefuseTx

\* dcrd takes a purchase or a vote into its memory pool.
LEMMA CalmAccepted ==
    ASSUME NEW c, NEW v, Steady(c, v), NEW tx \in outbox, AcceptTx(tx)
    PROVE  CalmInv(c, v)'
<1>1. /\ UNCHANGED <<height, minedAt, votedAt, drawn, blockChan, winChan, answers>>
      /\ UNCHANGED <<coins, tickets, maturing, handler, work, errors, gen, ctxDone>>
      /\ outbox' = outbox \ {tx} /\ wire' = Append(wire, Answer(tx, TRUE))
  BY DEF AcceptTx, chanVars, walletVars, testVars
<1>2. PICK j \in (work.got + 1)..TicketsPerBlock :
        /\ work.got \in Nat /\ j \in 1..TicketsPerBlock /\ tx = work.txs[j]
        /\ work.height = height
        /\ \/ /\ handler = "tickets" /\ c = height /\ height >= FirstBuy
              /\ tx.kind = "ticket" /\ tx.id = <<c, j>> /\ Spendable(tx.coin, c - 1)
              /\ tx.id \notin poolTickets
           \/ /\ handler = "votes" /\ v = height /\ height >= FirstDraw
              /\ tx.kind = "vote" /\ tx.block = v /\ tx.id \in DrawnFor(v)
              /\ <<tx.id, v>> \notin poolVotes
  BY OnItsWay
<1>3. \/ /\ handler = "tickets" /\ tx.kind = "ticket" /\ tx.id \in Round(height)
         /\ c = height /\ height >= FirstBuy
         /\ poolTickets' = poolTickets \union {tx.id} /\ poolVotes' = poolVotes
      \/ /\ handler = "votes" /\ tx.kind = "vote" /\ tx.block = v /\ tx.id \in DrawnFor(height)
         /\ v = height /\ height >= FirstDraw
         /\ poolVotes' = poolVotes \union {<<tx.id, height>>} /\ poolTickets' = poolTickets
  <2>1. height \in Nat
    BY Where DEF Steady
  <2>2. <<height, j>> \in Round(height)
    BY <1>2, <2>1 DEF Round, Bought
  <2> QED
    BY <1>2, <2>2 DEF AcceptTx
<1>4. IsSeq(wire) /\ c \in Nat /\ v \in Nat /\ height \in Nat
  BY Where DEF Steady, InOrder
<1> DEFINE e == Answer(tx, TRUE)
<1>5. /\ ToSet(wire') = ToSet(wire) \union {e} /\ wire' = wire \o <<e>>
      /\ e.kind = "answer" /\ e.ok /\ e.tx = tx
  BY <1>1, <1>4, AppendAs, Parts
<1> HIDE DEF e
<1>6. CalmHandler(c, v)'
  BY <1>1, HandlerFrame DEF Steady, CalmInv
<1>7. CalmChain(c, v)'
  <2>1. LastDraw' = LastDraw
    BY <1>1 DEF LastDraw
  <2>2. poolTickets' \subseteq Round(height) /\ poolVotes' \subseteq DrawnFor(height) \X {height}
    BY <1>3 DEF Steady, CalmInv, CalmChain
  <2>3. /\ poolTickets' # {} => c = height /\ height >= FirstBuy
        /\ poolVotes' # {} => v = height /\ height >= FirstDraw /\ handler # "create"
    BY <1>3 DEF Steady, CalmInv, CalmChain
  <2> QED
    BY <1>1, <2>1, <2>2, <2>3 DEF Steady, CalmInv, CalmChain
<1>8. CalmWallet(c, v)' /\ CalmWork(c, v)'
  BY <1>1, WalletFrame, WorkFrame DEF Steady, CalmInv
<1>9. CalmWinners'
  BY <1>1, <1>5, WinnersFrame DEF Steady, CalmInv
<1>10. CalmOutbox'
  <2>1. ASSUME NEW ux \in outbox'
        PROVE  /\ ux.kind = "ticket" => ux.id \notin poolTickets'
               /\ ux.kind = "vote" => <<ux.id, ux.block>> \notin poolVotes'
    <3>1. ux \in outbox /\ ux # tx /\ ux.id # tx.id
      BY <1>1, <2>1, OnTheirWay
    <3> QED
      BY <1>3, <3>1 DEF Steady, CalmInv, CalmOutbox
  <2> QED
    BY <1>1, <2>1 DEF Steady, CalmInv, CalmOutbox
<1>11. CalmAnswered(c, v)'
  <2>1. \A x : Sent(x, c, v)' = Sent(x, c, v)
    BY <1>1 DEF Sent
  <2>2. Sent(tx, c, v)
    BY <1>2, <1>4 DEF Sent
  <2> QED
    BY <1>1, <1>5, <2>1, <2>2 DEF Steady, CalmInv, CalmAnswered
<1>12. Met => Met'
  BY <1>1, <1>3 DEF Met
<1>13. CalmGen'
  BY <1>1, <1>12 DEF Steady, CalmInv, CalmGen, IsGen
<1>14. CalmReplies'
  <2>1. OneReply(wire')
    <3>1. IsSeq(<<e>>) /\ \A m \in ToSet(<<e>>) : m.kind # "reply"
      BY <1>5, Single, SetOf
    <3>2. OneReply(wire) /\ OneReply(<<e>>)
      BY FewReplies DEF Steady, CalmInv, CalmReplies
    <3> QED
      BY <1>4, <1>5, <3>1, <3>2, OneReplyConcat
  <2> QED
    BY <1>1, <1>5, <1>12, <2>1 DEF Steady, CalmInv, CalmReplies
<1> QED
  BY <1>6, <1>7, <1>8, <1>9, <1>10, <1>11, <1>13, <1>14 DEF CalmInv

-----------------------------------------------------------------------------
(* Steps of the dispatcher while all is calm.                              *)

\* A message is read: the parts that do not depend on the calls of the test.
LEMMA CalmRead ==
    ASSUME NEW c, NEW v, Steady(c, v), wire # <<>>, wire' = Tail(wire),
           UNCHANGED <<dcrdVars, outbox, handler, work, coins, tickets, maturing>>
    PROVE  /\ CalmChain(c, v)' /\ CalmWallet(c, v)' /\ CalmWork(c, v)' /\ CalmOutbox'
           /\ winChan' = winChan => CalmWinners'
           /\ answers' \subseteq answers => CalmAnswered(c, v)'
           /\ Head(wire) \in ToSet(wire) /\ ToSet(wire') \subseteq ToSet(wire)
           /\ OneReply(wire')
           /\ Head(wire).kind = "reply" => \A m \in ToSet(wire') : m.kind # "reply"
<1>1. IsSeq(wire) /\ v \in Nat
  BY DEF Steady, InOrder
<1>2. Head(wire) \in ToSet(wire) /\ ToSet(wire') \subseteq ToSet(wire)
  BY <1>1, SetOfTail
<1>3. /\ OneReply(wire')
      /\ Head(wire).kind = "reply" => \A m \in ToSet(wire') : m.kind # "reply"
  BY <1>1, OneReplyTail DEF Steady, CalmInv, CalmReplies
<1>4. CalmChain(c, v)' /\ CalmWallet(c, v)' /\ CalmWork(c, v)'
  BY ChainFrame, WalletFrame, WorkFrame DEF Steady, CalmInv
<1>5. CalmOutbox'
  BY OutboxFrame DEF Steady, CalmInv, dcrdVars
<1>6. winChan' = winChan => CalmWinners'
  BY <1>2, WinnersFrame DEF Steady, CalmInv
<1>7. answers' \subseteq answers => CalmAnswered(c, v)'
  BY <1>1, <1>2, AnsweredFrame DEF Steady, CalmInv
<1> QED
  BY <1>2, <1>3, <1>4, <1>5, <1>6, <1>7

\* A notification or an answer is handed over.
LEMMA CalmDelivered ==
    ASSUME NEW c, NEW v, Steady(c, v), onBlockConnected \/ onWinningTickets \/ DeliverAnswer
    PROVE  CalmInv(c, v)'
<1>1. /\ wire # <<>> /\ wire' = Tail(wire)
      /\ UNCHANGED <<dcrdVars, outbox, handler, work, coins, tickets, maturing>>
      /\ UNCHANGED <<errors, gen, ctxDone>>
  BY DEF onBlockConnected, onWinningTickets, DeliverAnswer, walletVars, testVars
<1>2. UNCHANGED <<height, poolTickets, poolVotes>>
  BY <1>1 DEF dcrdVars
<1>3. /\ CalmChain(c, v)' /\ CalmWallet(c, v)' /\ CalmWork(c, v)' /\ CalmOutbox'
      /\ Head(wire) \in ToSet(wire) /\ ToSet(wire') \subseteq ToSet(wire) /\ OneReply(wire')
  BY <1>1, CalmRead
<1>4. CalmHandler(c, v)' /\ CalmGen'
  BY <1>1, <1>2, HandlerFrame, GenFrame DEF Steady, CalmInv
<1>5. CalmReplies'
  BY <1>1, <1>2, <1>3, RepliesFrame DEF Steady, CalmInv
<1>6. CalmWinners'
  <2>1. CASE onWinningTickets
    <3> DEFINE e == [height |-> Head(wire).height, winners |-> Head(wire).winners]
    <3>1. IsSeq(winChan) /\ winChan' = Append(winChan, e) /\ Head(wire).kind = "winning"
      BY <2>1 DEF onWinningTickets, Steady, InOrder
    <3>2. e.winners = Head(wire).winners /\ e.height = Head(wire).height
      OBVIOUS
    <3> HIDE DEF e
    <3>3. ToSet(winChan') = ToSet(winChan) \union {e}
      BY <3>1, AppendAs
    <3>4. IsDraw(e.winners, e.height)
      BY <1>3, <3>1, <3>2 DEF Steady, CalmInv, CalmWinners
    <3> QED
      BY <1>3, <3>3, <3>4 DEF Steady, CalmInv, CalmWinners
  <2>2. CASE winChan' = winChan
    BY <1>1, <2>2, CalmRead
  <2> QED
    BY <2>1, <2>2 DEF onBlockConnected, DeliverAnswer, chanVars
<1>7. CalmAnswered(c, v)'
  <2>1. CASE answers' \subseteq answers
    BY <1>1, <2>1, CalmRead
  <2>2. CASE /\ Head(wire).kind = "answer"
             /\ answers' = answers \union {[tx |-> Head(wire).tx, ok |-> Head(wire).ok]}
    <3> DEFINE e == [tx |-> Head(wire).tx, ok |-> Head(wire).ok]
    <3>1. e.tx = Head(wire).tx /\ e.ok = Head(wire).ok
      OBVIOUS
    <3> HIDE DEF e
    <3>2. \A x : Sent(x, c, v)' = Sent(x, c, v)
      BY <1>1 DEF Sent
    <3>3. e.ok /\ e.tx \notin outbox /\ Sent(e.tx, c, v)
      BY <1>3, <2>2, <3>1 DEF Steady, CalmInv, CalmAnswered
    <3>4. answers' = answers \union {e}
      BY <2>2 DEF e
    <3> QED
      BY <1>1, <1>3, <3>2, <3>3, <3>4 DEF Steady, CalmInv, CalmAnswered
  <2> QED
    BY <2>1, <2>2 DEF onBlockConnected, onWinningTickets, DeliverAnswer
<1> QED
  BY <1>3, <1>4, <1>5, <1>6, <1>7 DEF CalmInv

\* The fields of the call of the test, one by one.
LEMMA GenParts ==
    ASSUME IsGen(gen), NEW at, NEW next, NEW left, NEW votes
    PROVE  /\ IsGen([at |-> at, next |-> next, left |-> left, votes |-> votes])
           /\ IsGen(NoGen) /\ NoGen.at = "idle"
           /\ [gen EXCEPT !.at = at]
                = [at |-> at, next |-> gen.next, left |-> gen.left, votes |-> gen.votes]
<1>1. IsGen([at |-> at, next |-> next, left |-> left, votes |-> votes])
  BY DEF IsGen
<1>2. IsGen(NoGen) /\ NoGen.at = "idle"
  BY DEF IsGen, NoGen
<1>3. [gen EXCEPT !.at = at]
        = [at |-> at, next |-> gen.next, left |-> gen.left, votes |-> gen.votes]
  BY DEF IsGen
<1> QED
  BY <1>1, <1>2, <1>3

\* The test is on to the next block or done with its call.
LEMMA OnToNext ==
    ASSUME IsGen(gen), gen.votes = TicketsPerBlock, gen.next = height, height \in Nat, NextBlock
    PROVE  /\ IsGen(gen') /\ gen'.at \in {"idle", "mine"}
           /\ gen'.at = "mine" => gen'.votes = TicketsPerBlock /\ gen'.next = height + 1
<1>1. CASE gen' = NoGen
  BY <1>1, GenParts
<1>2. CASE gen' = [gen EXCEPT !.at = "mine", !.left = @ - 1, !.next = @ + 1]
  <2>1. gen' = [at |-> "mine", next |-> gen.next + 1, left |-> gen.left - 1, votes |-> gen.votes]
    BY <1>2 DEF IsGen
  <2>2. IsGen(gen') /\ gen'.at = "mine" /\ gen'.votes = gen.votes /\ gen'.next = gen.next + 1
    BY <2>1 DEF IsGen
  <2> QED
    BY <2>2
<1> QED
  BY <1>1, <1>2 DEF NextBlock

\* The reply of a call is handed over.
LEMMA CalmReplied ==
    ASSUME NEW c, NEW v, Steady(c, v), Calm, GotBestBlock \/ Mined \/ Polled
    PROVE  CalmInv(c, v)'
<1>1. /\ wire # <<>> /\ wire' = Tail(wire) /\ Head(wire).kind = "reply"
      /\ UNCHANGED <<dcrdVars, outbox, handler, work, coins, tickets, maturing>>
      /\ UNCHANGED <<errors, ctxDone, winChan, answers>>
  BY Parts DEF GotBestBlock, Mined, Polled, nonTestVars, chanVars, walletVars
<1>2. UNCHANGED <<height, poolTickets, poolVotes>> /\ height \in Nat
  BY <1>1, Where DEF dcrdVars, Steady
<1>3. /\ CalmChain(c, v)' /\ CalmWallet(c, v)' /\ CalmWork(c, v)' /\ CalmOutbox'
      /\ CalmWinners' /\ CalmAnswered(c, v)'
      /\ Head(wire) \in ToSet(wire) /\ OneReply(wire')
      /\ \A m \in ToSet(wire') : m.kind # "reply"
  BY <1>1, CalmRead
<1>4. CalmReplies'
  BY <1>3 DEF CalmReplies
<1>5. Met' = Met
  BY <1>2 DEF Met
<1>6. IsGen(gen) /\ CalmGen
  BY DEF Steady, CalmInv, CalmGen
<1>7. CalmGen'
  <2>1. CASE GotBestBlock
    <3>1. Met
      BY <2>1 DEF GotBestBlock, Steady, CalmInv, CalmGen
    <3>2. CASE gen' = NoGen
      BY <1>5, <3>1, <3>2 DEF CalmGen, NoGen, IsGen
    <3>3. CASE gen' = [gen EXCEPT !.at = "mine", !.next = height + 1, !.votes = limit]
      <4>1. gen' = [at |-> "mine", next |-> height + 1, left |-> gen.left,
                    votes |-> TicketsPerBlock]
        BY <1>6, <3>3 DEF Calm, IsGen
      <4>2. /\ IsGen(gen') /\ gen'.at = "mine" /\ gen'.votes = TicketsPerBlock
            /\ gen'.next = height + 1
        BY <4>1 DEF IsGen
      <4> QED
        BY <1>2, <1>5, <3>1, <4>2 DEF CalmGen
    <3> QED
      BY <2>1, <3>2, <3>3 DEF GotBestBlock
  <2>2. CASE gen.at \in {"mining", "polling"} /\ gen' = [gen EXCEPT !.at = "poll"]
    <3>1. gen' = [at |-> "poll", next |-> gen.next, left |-> gen.left, votes |-> gen.votes]
      BY <1>6, <2>2, GenParts
    <3>2. IsGen(gen') /\ gen'.at = "poll" /\ gen'.votes = gen.votes /\ gen'.next = gen.next
      BY <3>1 DEF IsGen
    <3> QED
      BY <1>2, <1>6, <2>2, <3>2 DEF CalmGen
  <2>3. CASE gen.at \in {"mining", "polling"} /\ NextBlock /\ Met
    <3>1. gen.votes = TicketsPerBlock /\ gen.next = height
      BY <2>3 DEF Steady, CalmInv, CalmGen
    <3>2. /\ IsGen(gen') /\ gen'.at \in {"idle", "mine"}
          /\ gen'.at = "mine" => gen'.votes = TicketsPerBlock /\ gen'.next = height + 1
      BY <1>2, <1>6, <2>3, <3>1, OnToNext
    <3> QED
      BY <1>2, <1>5, <2>3, <3>2 DEF CalmGen
  <2>4. CASE Mined
    <3>1. CASE needsVotes \/ needsTickets
      BY <2>2, <2>4, <3>1 DEF Mined
    <3>2. CASE ~needsVotes /\ ~needsTickets
      <4>1. gen.at = "mining" /\ NextBlock
        BY <2>4, <3>2 DEF Mined
      <4>2. height < FirstBuy /\ height < FirstDraw
        <5>1. gen.next = height
          BY <4>1 DEF Steady, CalmInv, CalmGen
        <5> QED
          BY <1>2, <3>2, <5>1, Heights DEF needsVotes, needsTickets, FirstBuy, FirstDraw
      <4>3. Met
        BY <1>2, <4>2, Heights DEF Met
      <4> QED
        BY <2>3, <4>1, <4>3
    <3> QED
      BY <3>1, <3>2
  <2>5. CASE Polled
    <3>1. CASE Head(wire) = Reply("met")
      <4>1. gen.at = "polling" /\ NextBlock
        BY <2>5, <3>1 DEF Polled
      <4>2. Met
        BY <1>3, <3>1, Parts DEF Steady, CalmInv, CalmReplies
      <4> QED
        BY <2>3, <4>1, <4>2
    <3>2. CASE Head(wire) # Reply("met")
      BY <2>2, <2>5, <3>2 DEF Polled
    <3> QED
      BY <3>1, <3>2
  <2> QED
    BY <2>1, <2>4, <2>5
<1>8. CalmHandler(c, v)'
  <2>1. handler # "unstarted"
    BY DEF GotBestBlock, Mined, Polled, Steady, CalmInv, CalmHandler
  <2> QED
    BY <1>1, <1>2, <2>1 DEF Steady, CalmInv, CalmHandler
<1> QED
  BY <1>3, <1>4, <1>7, <1>8 DEF CalmInv

\* The dispatcher hands over any message.
LEMMA CalmDispatched ==
    ASSUME NEW c, NEW v, Steady(c, v), Calm, DispatcherNext
    PROVE  CalmInv(c, v)'
<1>1. CASE DropReply
  <2>1. /\ wire # <<>> /\ wire' = Tail(wire)
        /\ UNCHANGED <<dcrdVars, outbox, handler, work, coins, tickets, maturing>>
        /\ UNCHANGED <<errors, gen, ctxDone, winChan, answers>>
    BY <1>1 DEF DropReply, nonTestVars, chanVars, walletVars, testVars
  <2>2. UNCHANGED <<height, poolTickets, poolVotes>>
    BY <2>1 DEF dcrdVars
  <2>3. /\ CalmChain(c, v)' /\ CalmWallet(c, v)' /\ CalmWork(c, v)' /\ CalmOutbox'
        /\ CalmWinners' /\ CalmAnswered(c, v)'
        /\ ToSet(wire') \subseteq ToSet(wire) /\ OneReply(wire')
    BY <2>1, CalmRead
  <2>4. CalmHandler(c, v)' /\ CalmGen' /\ CalmReplies'
    BY <2>1, <2>2, <2>3, HandlerFrame, GenFrame, RepliesFrame DEF Steady, CalmInv
  <2> QED
    BY <2>3, <2>4 DEF CalmInv
<1> QED
  BY <1>1, CalmDelivered, CalmReplied DEF DispatcherNext

-----------------------------------------------------------------------------
(* Coins and tickets by the block.                                         *)

\* The tickets of one block more.
LEMMA BoughtNext ==
    ASSUME NEW a \in Nat, NEW b \in Int
    PROVE  /\ b < a => Bought(a, b) = {}
           /\ a <= b => Bought(a, b) = Bought(a, b - 1) \union Round(b)
           /\ Round(b) = {b} \X (1..TicketsPerBlock)
<1>1. b < a => Bought(a, b) = {}
  BY DEF Bought
<1>2. a <= b => a..b = (a..(b - 1)) \union (b..b)
  OBVIOUS
<1>3. b..b = {b}
  OBVIOUS
<1> QED
  BY <1>1, <1>2, <1>3 DEF Bought, Round

\* The tickets of a block were bought.
LEMMA RoundWithin ==
    ASSUME NEW a \in Nat, NEW b \in Int, NEW k \in Int, a <= k, k <= b
    PROVE  Round(k) \subseteq Bought(a, b)
  BY DEF Bought, Round

\* Spendable coins stay spendable.
LEMMA SpendableGrows ==
    ASSUME NEW coin, NEW b \in Int, NEW d \in Int, b <= d, Spendable(coin, b)
    PROVE  Spendable(coin, d)
<1> DEFINE m == CoinbaseMaturity + TicketMaturity + 1
<1>1. m \in Int /\ b - CoinbaseMaturity - TicketMaturity - 1 = b - m
      /\ d - CoinbaseMaturity - TicketMaturity - 1 = d - m
  BY Heights
<1> HIDE DEF m
<1>2. FirstBuy..(b - m) \subseteq FirstBuy..(d - m)
  BY <1>1, Heights
<1> QED
  BY <1>1, <1>2 DEF Spendable, Bought

\* Start funds enough tickets until the first votes return their coins, and
\* from then on every block returns what it takes.
LEMMA ShareSteps ==
    ASSUME NEW c \in Nat
    PROVE  /\ Share(c, c) \in Int /\ Share(c, c - 1) \in Int /\ Share(c + 1, c) \in Int
           /\ Share(c, c) >= 1
           /\ c < FirstBuy => Share(c, c) = CoinbaseMaturity + TicketMaturity + 2
           /\ c + 1 >= FirstBuy => Share(c + 1, c) = Share(c, c) - 1
           /\ c >= FirstDraw + CoinbaseMaturity => Share(c, c) = Share(c, c - 1) + 1
           /\ c < FirstDraw + CoinbaseMaturity => Share(c, c) = Share(c, c - 1)
  BY Heights DEF Share, Rounds

-----------------------------------------------------------------------------
(* handleBlockConnectedNtfn and its tickets while all is calm.             *)

\* Nothing is on its way to dcrd while the handler waits for no answer.
LEMMA NothingOut ==
    ASSUME NEW c, NEW v, Steady(c, v), handler \notin {"tickets", "votes"}
    PROVE  outbox = {}
  BY DEF Steady, CalmInv, CalmOutbox

\* A block before the first purchase.
LEMMA CalmEarlyBlock ==
    ASSUME NEW c, NEW v, Steady(c, v), handleBlockConnectedNtfn, c + 1 < FirstBuy,
           UNCHANGED <<outbox, answers, coins, handler, work, errors, faults>>
    PROVE  CalmInv(c + 1, v)'
<1>1. /\ handler = "select"
      /\ UNCHANGED <<dcrdVars, wire, winChan, tickets, maturing, gen, ctxDone>>
  BY DEF handleBlockConnectedNtfn, testVars
<1>2. UNCHANGED <<height, poolTickets, poolVotes>>
  BY <1>1 DEF dcrdVars
<1>3. /\ c \in Nat /\ v \in Nat /\ height \in Nat /\ c + 1 <= height
      /\ height < FirstDraw => v = FirstDraw - 1
  BY Where, BlockTaken DEF Steady
<1>4. CalmHandler(c + 1, v)'
  BY <1>1, <1>2, <1>3 DEF Steady, CalmInv, CalmHandler
<1>5. CalmChain(c + 1, v)'
  <2>1. CalmChain(c, v)'
    BY <1>1, ChainFrame DEF Steady, CalmInv
  <2>2. poolTickets' = {}
    BY <1>2, <1>3 DEF Steady, CalmInv, CalmChain
  <2> QED
    BY <2>1, <2>2 DEF CalmChain
<1>6. CalmWallet(c + 1, v)'
  <2>1. Paid(c) = c /\ Paid(c + 1)' = c + 1 /\ Kept(v) = v /\ Kept(v)' = v
    BY <1>1 DEF Paid, Kept
  <2>2. tickets' = Bought(FirstBuy, c + 1)
    <3>1. tickets = Bought(FirstBuy, c)
      BY <1>1, <2>1 DEF Steady, CalmInv, CalmWallet
    <3>2. Bought(FirstBuy, c) = {} /\ Bought(FirstBuy, c + 1) = {}
      BY <1>3, BoughtNext, Heights
    <3> QED
      BY <1>1, <3>1, <3>2
  <2>3. Len(coins') = TicketsPerBlock * Share(c + 1, c + 1)
    <3>1. Share(c + 1, c + 1) = Share(c, c)
      BY <1>3, ShareSteps, Heights
    <3> QED
      BY <1>1, <2>1, <3>1 DEF Steady, CalmInv, CalmWallet
  <2>4. \A i \in 1..Len(coins') : Spendable(coins'[i], c + 1)
    BY <1>1, <1>3, <2>1, SpendableGrows DEF Steady, CalmInv, CalmWallet
  <2>5. \A k \in 1..(MaxHeight + CoinbaseMaturity) :
           (c < k /\ FirstDraw + CoinbaseMaturity <= k)
             <=> (c + 1 < k /\ FirstDraw + CoinbaseMaturity <= k)
    BY <1>3, Heights
  <2> QED
    BY <1>1, <2>1, <2>2, <2>3, <2>4, <2>5 DEF Steady, CalmInv, CalmWallet
<1>7. CalmWork(c + 1, v)' /\ CalmWinners' /\ CalmOutbox' /\ CalmGen'
  <2>1. CalmWork(c + 1, v)'
    BY <1>1 DEF CalmWork
  <2> QED
    BY <1>1, <1>2, <2>1, WinnersFrame, OutboxFrame, GenFrame DEF Steady, CalmInv
<1>8. CalmAnswered(c + 1, v)'
  <2>1. \A tx : Sent(tx, c, v) => Sent(tx, c + 1, v)'
    <3>1. 0..c \subseteq 0..(c + 1)
      BY <1>3
    <3> QED
      BY <1>1, <3>1 DEF Sent
  <2> QED
    BY <1>1, <2>1 DEF Steady, CalmInv, CalmAnswered
<1>9. CalmReplies'
  BY <1>1, <1>2, RepliesFrame DEF Steady, CalmInv, CalmReplies
<1> QED
  BY <1>4, <1>5, <1>6, <1>7, <1>8, <1>9 DEF CalmInv

\* The tickets for a block are sent.
LEMMA CalmTicketsSent ==
    ASSUME NEW c, NEW v, Steady(c, v), handleBlockConnectedNtfn, c + 1 >= FirstBuy,
           Len(coins) >= TicketsPerBlock,
           coins' = SubSeq(coins, 1, Len(coins) - TicketsPerBlock),
           Publish("tickets", [NoWork EXCEPT !.height = c + 1,
              !.txs = TicketTxs(c + 1, SubSeq(coins, Len(coins) - TicketsPerBlock + 1, Len(coins)))])
    PROVE  CalmInv(c + 1, v)'
<1> DEFINE rest == Len(coins) - TicketsPerBlock
           taken == SubSeq(coins, rest + 1, Len(coins))
           txs == TicketTxs(c + 1, taken)
<1>1. /\ handler = "select"
      /\ UNCHANGED <<dcrdVars, wire, winChan, tickets, maturing, gen, ctxDone>>
  BY DEF handleBlockConnectedNtfn, testVars
<1>2. UNCHANGED <<height, poolTickets, poolVotes>>
  BY <1>1 DEF dcrdVars
<1>3. /\ c \in Nat /\ v \in Nat /\ height \in Nat /\ c + 1 <= height /\ v <= LastDraw
      /\ height >= FirstDraw => LastDraw = height
      /\ height < FirstDraw => v = FirstDraw - 1
  BY Where, BlockTaken DEF Steady
<1>4. c + 1 = height
  <2>1. height > FirstBuy => c >= height - 1
    BY DEF Steady, CalmInv, CalmHandler
  <2> QED
    BY <1>3, <2>1, Heights
<1>5. /\ IsSeq(coins) /\ Len(coins) \in Nat /\ rest \in Nat /\ Len(coins') = rest
      /\ \A i \in 1..rest : coins'[i] = coins[i]
      /\ Len(taken) = TicketsPerBlock
      /\ \A i \in 1..TicketsPerBlock : taken[i] = coins[rest + i]
  BY CoinsTaken, SetOf DEF Steady, InHand
<1>6. /\ Len(coins) = TicketsPerBlock * Share(c, c)
      /\ \A i \in 1..Len(coins) : Spendable(coins[i], c)
      /\ tickets = Bought(FirstBuy, c)
  BY <1>1 DEF Steady, CalmInv, CalmWallet, Paid
<1>7. \A i \in 1..rest : i \in 1..Len(coins)
  BY <1>5, Heights
<1>8. \A i \in 1..TicketsPerBlock : rest + i \in 1..Len(coins)
  <2>0. TicketsPerBlock \in Nat /\ Len(coins) \in Nat /\ rest \in Nat
    BY <1>5, Heights
  <2>1. rest + TicketsPerBlock = Len(coins)
    BY <2>0
  <2> HIDE DEF rest
  <2> QED
    BY <2>0, <2>1
<1> HIDE DEF taken
<1>9. /\ IsSeq(txs) /\ DOMAIN txs = 1..TicketsPerBlock /\ Len(txs) = TicketsPerBlock
      /\ \A i \in 1..TicketsPerBlock :
            txs[i] = [kind |-> "ticket", id |-> <<c + 1, i>>, coin |-> taken[i]]
  BY <1>5, Purchases
<1>10. /\ outbox' = outbox \union ToSet(txs) /\ handler' = "tickets" /\ UNCHANGED <<answers, errors>>
       /\ work' = [height |-> c + 1, txs |-> txs, got |-> 0, todo |-> <<>>, cap |-> 0]
  BY DEF Publish, NoWork, taken
<1> HIDE DEF txs
<1>11. work'.height = c + 1 /\ work'.txs = txs /\ work'.got = 0
  BY <1>10
<1>12. \A i \in 1..TicketsPerBlock : /\ txs[i].kind = "ticket" /\ txs[i].id = <<c + 1, i>>
                                     /\ txs[i].coin = taken[i]
  <2> SUFFICES ASSUME NEW i \in 1..TicketsPerBlock
               PROVE  txs[i].kind = "ticket" /\ txs[i].id = <<c + 1, i>> /\ txs[i].coin = taken[i]
    OBVIOUS
  <2>1. txs[i] = [kind |-> "ticket", id |-> <<c + 1, i>>, coin |-> taken[i]]
    BY <1>9
  <2> QED
    BY <2>1
<1>13. outbox' = {txs[i] : i \in 1..TicketsPerBlock}
  <2>1. outbox = {}
    BY <1>1, NothingOut
  <2> QED
    BY <1>9, <1>10, <2>1, SetOf
<1>14. poolTickets = {}
  BY <1>3, <1>4 DEF Steady, CalmInv, CalmChain
<1>15. CalmHandler(c + 1, v)'
  <2>1. v <= c + 1 \/ v = FirstDraw - 1
    BY <1>3, <1>4, Heights
  <2> QED
    BY <1>1, <1>2, <1>3, <1>4, <1>10, <2>1 DEF Steady, CalmInv, CalmHandler
<1>16. CalmChain(c + 1, v)'
  <2>1. CalmChain(c, v)'
    BY <1>1, <1>10, ChainFrame DEF Steady, CalmInv
  <2> QED
    BY <1>2, <1>14, <2>1 DEF CalmChain
<1>17. CalmWallet(c + 1, v)'
  <2>1. Paid(c) = c /\ Paid(c + 1)' = c /\ Kept(v) = v /\ Kept(v)' = v
    BY <1>1, <1>3, <1>10 DEF Paid, Kept
  <2>2. tickets' = Bought(FirstBuy, c) \union ({c + 1} \X (1..work'.got))
    BY <1>1, <1>6, <1>11
  <2>3. Len(coins') = TicketsPerBlock * Share(c + 1, c)
    <3>1. Share(c + 1, c) = Share(c, c) - 1 /\ Share(c, c) \in Int
      BY <1>3, ShareSteps
    <3>2. TicketsPerBlock * (Share(c, c) - 1) = TicketsPerBlock * Share(c, c) - TicketsPerBlock
      BY <3>1, Heights
    <3> QED
      BY <1>5, <1>6, <3>1, <3>2
  <2>4. \A i \in 1..Len(coins') : Spendable(coins'[i], c)
    BY <1>5, <1>6, <1>7
  <2> QED
    BY <1>1, <1>10, <2>1, <2>2, <2>3, <2>4 DEF Steady, CalmInv, CalmWallet
<1>18. CalmWork(c + 1, v)'
  <2>1. ASSUME NEW i \in 1..TicketsPerBlock
        PROVE  /\ txs[i] = [kind |-> "ticket", id |-> <<c + 1, i>>, coin |-> txs[i].coin]
               /\ Spendable(txs[i].coin, (c + 1) - 1)
    <3>1. txs[i].coin = coins[rest + i]
      BY <1>5, <1>12
    <3>3. Spendable(coins[rest + i], c)
      BY <1>6, <1>8
    <3>4. (c + 1) - 1 = c
      BY <1>3
    <3>2. txs[i] = [kind |-> "ticket", id |-> <<c + 1, i>>, coin |-> taken[i]]
      BY <1>9
    <3> QED
      BY <1>12, <3>1, <3>2, <3>3, <3>4
  <2> QED
    BY <1>9, <1>10, <1>11, <2>1, Heights DEF CalmWork
<1>19. CalmWinners' /\ CalmGen' /\ CalmReplies'
  BY <1>1, <1>2, WinnersFrame, GenFrame, RepliesFrame DEF Steady, CalmInv, CalmReplies
<1>20. CalmOutbox'
  <2> SUFFICES ASSUME NEW i \in 1..TicketsPerBlock
               PROVE  /\ \E j \in (work'.got + 1)..TicketsPerBlock : txs[i] = work'.txs[j]
                      /\ txs[i].kind = "ticket" => txs[i].id \notin poolTickets'
                      /\ txs[i].kind = "vote" => <<txs[i].id, txs[i].block>> \notin poolVotes'
    BY <1>2, <1>4, <1>10, <1>11, <1>13 DEF CalmOutbox
  <2>1. i \in (work'.got + 1)..TicketsPerBlock
    BY <1>11
  <2> QED
    BY <1>2, <1>11, <1>12, <1>14, <2>1
<1>21. CalmAnswered(c + 1, v)'
  <2>1. \A tx : Sent(tx, c, v) => Sent(tx, c + 1, v)'
    <3>1. 0..c \subseteq 0..(c + 1)
      BY <1>3
    <3> QED
      BY <1>1, <1>10, <3>1 DEF Sent
  <2>2. ASSUME NEW tx, Sent(tx, c, v) PROVE tx \notin outbox'
    <3> SUFFICES ASSUME NEW i \in 1..TicketsPerBlock, tx = txs[i] PROVE FALSE
      BY <1>13
    <3>1. tx.kind = "ticket" /\ tx.id[1] = c + 1
      BY <1>12
    <3> QED
      BY <1>3, <2>2, <3>1 DEF Sent
  <2> QED
    BY <1>1, <1>10, <2>1, <2>2 DEF Steady, CalmInv, CalmAnswered
<1> QED
  BY <1>15, <1>16, <1>17, <1>18, <1>19, <1>20, <1>21 DEF CalmInv

\* The handler takes a block: it has the coins, and nothing fails.
LEMMA CalmBlockHandled ==
    ASSUME NEW c, NEW v, Steady(c, v), Calm, Calm', handleBlockConnectedNtfn
    PROVE  CalmInv(c + 1, v)'
<1> DEFINE h == Head(blockChan)
           taken == SubSeq(coins, Len(coins) - TicketsPerBlock + 1, Len(coins))
<1>1. h = c + 1 /\ c \in Nat
  BY BlockTaken, Where DEF Steady
<1>2. ~Fault
  BY DEF Calm, Fault
<1>3. Len(coins) >= TicketsPerBlock
  <2>1. Len(coins) = TicketsPerBlock * Share(c, c)
    BY DEF handleBlockConnectedNtfn, Steady, CalmInv, CalmWallet, Paid
  <2>2. Share(c, c) \in Int /\ Share(c, c) >= 1
    BY <1>1, ShareSteps
  <2>3. \A s \in Int, n \in Nat \ {0} : s >= 1 => n * s >= n
    OBVIOUS
  <2> QED
    BY <2>1, <2>2, <2>3, Heights
<1>4. ~(Len(coins) < TicketsPerBlock)
  <2>1. Len(coins) \in Nat
    BY SetOf DEF Steady, InHand
  <2> QED
    BY <1>3, <2>1, Heights
<1>5. \/ /\ h < ticketPurchaseStartHeight
         /\ UNCHANGED <<outbox, answers, coins, handler, work, errors, faults>>
      \/ /\ h >= ticketPurchaseStartHeight
         /\ coins' = SubSeq(coins, 1, Len(coins) - TicketsPerBlock)
         /\ Publish("tickets", [NoWork EXCEPT !.height = h, !.txs = TicketTxs(h, taken)])
  BY <1>2, <1>4 DEF handleBlockConnectedNtfn
<1> HIDE DEF h
<1>6. CASE /\ h < ticketPurchaseStartHeight
           /\ UNCHANGED <<outbox, answers, coins, handler, work, errors, faults>>
  BY <1>1, <1>6, CalmEarlyBlock DEF FirstBuy
<1>7. CASE /\ h >= ticketPurchaseStartHeight
           /\ coins' = SubSeq(coins, 1, Len(coins) - TicketsPerBlock)
           /\ Publish("tickets", [NoWork EXCEPT !.height = h, !.txs = TicketTxs(h, taken)])
  BY <1>1, <1>3, <1>7, CalmTicketsSent DEF FirstBuy
<1> QED
  BY <1>5, <1>6, <1>7

\* What the handler waits for was accepted, and is no longer on its way.
LEMMA NextAccepted ==
    ASSUME NEW c, NEW v, Steady(c, v), handler \in {"tickets", "votes"}, NEW a \in NextAnswer
    PROVE  /\ a.ok /\ a.tx = work.txs[work.got + 1] /\ a.tx \notin outbox
           /\ work.got \in Nat /\ work.got + 1 \in 1..TicketsPerBlock
           /\ Len(work.txs) = TicketsPerBlock
           /\ \A tx \in outbox : \E j \in (work.got + 2)..TicketsPerBlock : tx = work.txs[j]
<1>1. /\ a.ok /\ a.tx = work.txs[work.got + 1] /\ a.tx \notin outbox
  BY DEF NextAnswer, Steady, CalmInv, CalmAnswered
<1>2. work.got \in Nat /\ work.got < TicketsPerBlock /\ Len(work.txs) = TicketsPerBlock
  BY DEF Steady, CalmInv, CalmWork
<1>3. work.got + 1 \in 1..TicketsPerBlock
  BY <1>2, Heights
<1>4. ASSUME NEW tx \in outbox
      PROVE  \E j \in (work.got + 2)..TicketsPerBlock : tx = work.txs[j]
  <2>1. PICK j \in (work.got + 1)..TicketsPerBlock : tx = work.txs[j]
    BY OnItsWay
  <2>2. j # work.got + 1
    BY <1>1, <2>1
  <2>3. j \in (work.got + 2)..TicketsPerBlock
    BY <1>2, <2>1, <2>2, Heights
  <2> QED
    BY <2>1, <2>3
<1> QED
  BY <1>1, <1>2, <1>3, <1>4

\* The locals of the handler after one more answer.
LEMMA OneAnswerMore ==
    ASSUME IsWork(work), work' = [work EXCEPT !.got = @ + 1]
    PROVE  /\ work'.height = work.height /\ work'.txs = work.txs /\ work'.got = work.got + 1
           /\ work'.todo = work.todo /\ work'.cap = work.cap
<1>1. work' = [height |-> work.height, txs |-> work.txs, got |-> work.got + 1,
               todo |-> work.todo, cap |-> work.cap]
  BY DEF IsWork
<1> QED
  BY <1>1

\* The handler takes the answer for a ticket that is not the last.
LEMMA CalmTicketReceived ==
    ASSUME NEW c, NEW v, Steady(c, v), ReceiveTicket, handler' = handler,
           work.got + 1 < Len(work.txs), work' = [work EXCEPT !.got = @ + 1],
           NEW a \in NextAnswer, tickets' = tickets \union {a.tx.id},
           UNCHANGED <<coins, maturing, answers, errors>>
    PROVE  CalmInv(c, v)'
<1>1. /\ handler = "tickets" /\ UNCHANGED <<dcrdVars, outbox, wire, winChan, gen, ctxDone>>
  BY DEF ReceiveTicket, chanVars, testVars
<1>2. UNCHANGED <<height, poolTickets, poolVotes>> /\ v \in Nat
  BY <1>1, Where DEF dcrdVars, Steady
<1>3. /\ a.tx = work.txs[work.got + 1] /\ work.got \in Nat /\ Len(work.txs) = TicketsPerBlock
      /\ work.got + 1 \in 1..TicketsPerBlock
      /\ \A tx \in outbox : \E j \in (work.got + 2)..TicketsPerBlock : tx = work.txs[j]
  BY <1>1, NextAccepted
<1>4. work'.height = work.height /\ work'.txs = work.txs /\ work'.got = work.got + 1
  BY OneAnswerMore DEF Steady, InHand
<1>5. CalmHandler(c, v)' /\ CalmChain(c, v)' /\ CalmWinners' /\ CalmAnswered(c, v)' /\ CalmGen'
      /\ CalmReplies'
  <2>1. CalmHandler(c, v)'
    BY <1>1, <1>2, <1>4 DEF Steady, CalmInv, CalmHandler
  <2>2. CalmChain(c, v)' /\ CalmWinners' /\ CalmGen'
    BY <1>1, <1>2, ChainFrame, WinnersFrame, GenFrame DEF Steady, CalmInv
  <2>3. CalmAnswered(c, v)'
    BY <1>1, <1>2, AnsweredFrame DEF Steady, CalmInv
  <2>4. CalmReplies'
    BY <1>1, <1>2, RepliesFrame DEF Steady, CalmInv, CalmReplies
  <2> QED
    BY <2>1, <2>2, <2>3, <2>4
<1>6. CalmWallet(c, v)'
  <2>1. Paid(c)' = Paid(c) /\ Kept(v)' = Kept(v)
    BY DEF Paid, Kept
  <2>2. a.tx.id = <<c, work.got + 1>>
    <3>1. a.tx = [kind |-> "ticket", id |-> <<c, work.got + 1>>, coin |-> a.tx.coin]
      BY <1>1, <1>3 DEF Steady, CalmInv, CalmWork
    <3> QED
      BY <3>1
  <2>3. 1..(work.got + 1) = (1..work.got) \union {work.got + 1}
    BY <1>3
  <2>4. tickets' = Bought(FirstBuy, Paid(c)) \union ({c} \X (1..(work.got + 1)))
    <3>1. tickets = Bought(FirstBuy, Paid(c)) \union ({c} \X (1..work.got))
      BY <1>1 DEF Steady, CalmInv, CalmWallet
    <3>2. {c} \X (1..(work.got + 1)) = ({c} \X (1..work.got)) \union {<<c, work.got + 1>>}
      BY <2>3
    <3> QED
      BY <2>2, <3>1, <3>2
  <2> QED
    BY <1>1, <1>4, <2>1, <2>4 DEF Steady, CalmInv, CalmWallet
<1>7. CalmWork(c, v)'
  <2>1. work.got + 1 \in Nat /\ work.got + 1 < TicketsPerBlock
    BY <1>3
  <2> QED
    BY <1>1, <1>4, <2>1 DEF Steady, CalmInv, CalmWork
<1>8. CalmOutbox'
  <2>1. (work.got + 1) + 1 = work.got + 2
    BY <1>3
  <2>2. ASSUME NEW tx \in outbox'
        PROVE  /\ handler' \in {"tickets", "votes"} /\ work'.height = height'
               /\ \E j \in (work'.got + 1)..TicketsPerBlock : tx = work'.txs[j]
               /\ tx.kind = "ticket" => tx.id \notin poolTickets'
               /\ tx.kind = "vote" => <<tx.id, tx.block>> \notin poolVotes'
    <3>1. tx \in outbox
      BY <1>1
    <3>2. \E j \in (work'.got + 1)..TicketsPerBlock : tx = work'.txs[j]
      BY <1>3, <1>4, <2>1, <3>1
    <3>3. /\ work.height = height
          /\ tx.kind = "ticket" => tx.id \notin poolTickets
          /\ tx.kind = "vote" => <<tx.id, tx.block>> \notin poolVotes
      BY <3>1 DEF Steady, CalmInv, CalmOutbox
    <3> QED
      BY <1>1, <1>2, <1>4, <3>2, <3>3
  <2> QED
    BY <2>2 DEF CalmOutbox
<1> QED
  BY <1>5, <1>6, <1>7, <1>8 DEF CalmInv

\* The last ticket is recorded, and the coins that mature come back.
LEMMA CalmTicketsDone ==
    ASSUME NEW c, NEW v, Steady(c, v), ReceiveTicket, ~(work.got + 1 < Len(work.txs)),
           NEW a \in NextAnswer, tickets' = tickets \union {a.tx.id},
           ReleaseMaturing(work.height), Return({})
    PROVE  CalmInv(c, v)'
<1>1. /\ handler = "tickets" /\ UNCHANGED <<dcrdVars, outbox, wire, winChan, gen, ctxDone>>
  BY DEF ReceiveTicket, chanVars, testVars
<1>2. UNCHANGED <<height, poolTickets, poolVotes>>
  BY <1>1 DEF dcrdVars
<1>3. /\ c \in Nat /\ v \in Nat /\ height \in Nat /\ c <= height /\ height <= MaxHeight
      /\ work.height = c /\ c >= FirstBuy
      /\ height >= FirstDraw => v >= height - 1
  BY <1>1, Where DEF Steady
<1>4. /\ a.tx = work.txs[work.got + 1] /\ work.got \in Nat /\ work.got + 1 = TicketsPerBlock
      /\ \A tx \in outbox : \E j \in (work.got + 2)..TicketsPerBlock : tx = work.txs[j]
  <2>1. /\ a.tx = work.txs[work.got + 1] /\ work.got \in Nat /\ Len(work.txs) = TicketsPerBlock
        /\ work.got + 1 \in 1..TicketsPerBlock
        /\ \A tx \in outbox : \E j \in (work.got + 2)..TicketsPerBlock : tx = work.txs[j]
    BY <1>1, NextAccepted
  <2> QED
    BY <2>1, Heights
<1>5. outbox = {}
  <2>1. (work.got + 2)..TicketsPerBlock = {}
    BY <1>4, Heights
  <2> QED
    BY <1>4, <2>1
<1>6. handler' = "select" /\ answers' = {} /\ errors' = errors
  BY DEF Return
<1>7. CalmHandler(c, v)' /\ CalmChain(c, v)' /\ CalmWork(c, v)' /\ CalmWinners'
      /\ CalmOutbox' /\ CalmAnswered(c, v)' /\ CalmGen' /\ CalmReplies'
  <2>1. CalmHandler(c, v)'
    BY <1>1, <1>2, <1>6 DEF Steady, CalmInv, CalmHandler
  <2>2. CalmChain(c, v)' /\ CalmWinners' /\ CalmGen'
    BY <1>1, <1>2, <1>6, ChainFrame, WinnersFrame, GenFrame DEF Steady, CalmInv
  <2>3. CalmAnswered(c, v)'
    BY <1>1, <1>3, <1>6, AnsweredFrame DEF Steady, CalmInv
  <2>4. CalmReplies'
    BY <1>1, <1>2, RepliesFrame DEF Steady, CalmInv, CalmReplies
  <2>5. CalmWork(c, v)'
    BY <1>6 DEF CalmWork
  <2>6. CalmOutbox'
    BY <1>1, <1>5 DEF CalmOutbox
  <2> QED
    BY <2>1, <2>2, <2>3, <2>4, <2>5, <2>6
<1>8. CalmWallet(c, v)'
  <2>1. Paid(c) = c - 1 /\ Paid(c)' = c /\ Kept(v) = v /\ Kept(v)' = v
    BY <1>1, <1>6 DEF Paid, Kept
  <2>2. tickets' = Bought(FirstBuy, c)
    <3>1. a.tx = [kind |-> "ticket", id |-> <<c, work.got + 1>>, coin |-> a.tx.coin]
      <4>1. work.got + 1 \in 1..TicketsPerBlock
        BY <1>4, Heights
      <4> QED
        BY <1>1, <1>4, <4>1 DEF Steady, CalmInv, CalmWork
    <3>2. a.tx.id = <<c, TicketsPerBlock>>
      BY <1>4, <3>1
    <3>3. tickets = Bought(FirstBuy, c - 1) \union ({c} \X (1..work.got))
      BY <1>1, <2>1 DEF Steady, CalmInv, CalmWallet
    <3>4. 1..TicketsPerBlock = (1..work.got) \union {TicketsPerBlock}
      BY <1>4, Heights
    <3>5. {c} \X (1..TicketsPerBlock) = ({c} \X (1..work.got)) \union {<<c, TicketsPerBlock>>}
      BY <3>4
    <3>6. Bought(FirstBuy, c) = Bought(FirstBuy, c - 1) \union ({c} \X (1..TicketsPerBlock))
      BY <1>3, BoughtNext, Heights
    <3> QED
      BY <3>2, <3>3, <3>5, <3>6
  <2>3. c \in DOMAIN maturing /\ DOMAIN maturing = 1..(MaxHeight + CoinbaseMaturity)
    BY <1>3, Heights DEF Steady, InHand
  <2>4. coins' = coins \o maturing[c] /\ maturing' = [maturing EXCEPT ![c] = <<>>]
    BY <1>3 DEF ReleaseMaturing
  <2>5. /\ Len(maturing[c]) = IF FirstDraw + CoinbaseMaturity <= c THEN TicketsPerBlock ELSE 0
        /\ \A i \in 1..Len(maturing[c]) : maturing[c][i] \in DrawnFor(c - CoinbaseMaturity)
    <3>1. /\ Len(maturing[c]) =
                IF /\ c - 1 < c /\ FirstDraw + CoinbaseMaturity <= c /\ c <= v + CoinbaseMaturity
                  THEN TicketsPerBlock ELSE 0
          /\ \A i \in 1..Len(maturing[c]) : maturing[c][i] \in DrawnFor(c - CoinbaseMaturity)
      BY <2>1, <2>3 DEF Steady, CalmInv, CalmWallet
    <3>2. FirstDraw + CoinbaseMaturity <= c => c <= v + CoinbaseMaturity
      BY <1>3, Heights
    <3> QED
      BY <1>3, <3>1, <3>2
  <2>6. /\ IsSeq(coins) /\ IsSeq(maturing[c]) /\ Len(coins) = TicketsPerBlock * Share(c, c - 1)
        /\ \A i \in 1..Len(coins) : Spendable(coins[i], c - 1)
    BY <1>1, <2>1, <2>3 DEF Steady, InHand, CalmInv, CalmWallet
  <2>7. /\ Len(coins') = Len(coins) + Len(maturing[c])
        /\ Len(coins) \in Nat /\ Len(maturing[c]) \in Nat
        /\ \A i \in 1..Len(coins) : coins'[i] = coins[i]
        /\ \A i \in 1..Len(maturing[c]) : coins'[Len(coins) + i] = maturing[c][i]
    <3> DEFINE m == maturing[c]
    <3>1. coins' = coins \o m /\ IsSeq(coins) /\ IsSeq(m)
      BY <2>4, <2>6
    <3> HIDE DEF m
    <3>2. /\ Len(coins) \in Nat /\ Len(m) \in Nat /\ Len(coins') = Len(coins) + Len(m)
          /\ \A i \in 1..Len(coins) : coins'[i] = coins[i]
          /\ \A i \in 1..Len(m) : coins'[Len(coins) + i] = m[i]
      BY <3>1, Concat
    <3> QED
      BY <3>2 DEF m
  <2>8. Len(coins') = TicketsPerBlock * Share(c, c)
    <3>1. Share(c, c - 1) \in Int /\ Share(c, c) \in Int
      BY <1>3, ShareSteps
    <3>2. CASE c >= FirstDraw + CoinbaseMaturity
      <4>1. Share(c, c) = Share(c, c - 1) + 1
        BY <1>3, <3>2, ShareSteps
      <4>2. TicketsPerBlock * (Share(c, c - 1) + 1) = TicketsPerBlock * Share(c, c - 1) + TicketsPerBlock
        BY <3>1, Heights
      <4> QED
        BY <2>5, <2>6, <2>7, <3>2, <4>1, <4>2
    <3>3. CASE c < FirstDraw + CoinbaseMaturity
      <4>1. Share(c, c) = Share(c, c - 1) /\ Len(maturing[c]) = 0
        BY <1>3, <2>5, <3>3, ShareSteps, Heights
      <4> QED
        BY <2>6, <2>7, <4>1
    <3> QED
      BY <1>3, <3>2, <3>3, Heights
  <2>9. \A i \in 1..Len(coins') : Spendable(coins'[i], c)
    <3>1. \A i \in 1..Len(coins) : Spendable(coins[i], c)
      BY <1>3, <2>6, SpendableGrows
    <3>2. \A i \in 1..Len(maturing[c]) : Spendable(maturing[c][i], c)
      <4> SUFFICES ASSUME NEW i \in 1..Len(maturing[c]) PROVE Spendable(maturing[c][i], c)
        OBVIOUS
      <4>1. FirstDraw + CoinbaseMaturity <= c
        BY <2>5
      <4> DEFINE k == c - CoinbaseMaturity - TicketMaturity - 1
      <4>2. k \in Int /\ FirstBuy <= k /\ (c - CoinbaseMaturity) - 1 - TicketMaturity = k
        BY <1>3, <4>1, Heights
      <4>3. DrawnFor(c - CoinbaseMaturity) = Round(k)
        BY <4>2 DEF DrawnFor
      <4>4. Round(k) \subseteq Bought(FirstBuy, k)
        BY <4>2, RoundWithin, Heights
      <4> QED
        BY <2>5, <4>3, <4>4 DEF Spendable
    <3>3. ASSUME NEW i \in 1..Len(coins') PROVE Spendable(coins'[i], c)
      <4>1. CASE i \in 1..Len(coins)
        BY <2>7, <3>1, <4>1
      <4>2. CASE i \notin 1..Len(coins)
        <5>1. i - Len(coins) \in 1..Len(maturing[c]) /\ Len(coins) + (i - Len(coins)) = i
          BY <2>7, <4>2
        <5> QED
          BY <2>7, <3>2, <5>1
      <4> QED
        BY <4>1, <4>2
    <3> QED
      BY <3>3
  <2>10. ASSUME NEW k \in 1..(MaxHeight + CoinbaseMaturity)
         PROVE  /\ Len(maturing'[k]) =
                     IF /\ c < k /\ FirstDraw + CoinbaseMaturity <= k /\ k <= v + CoinbaseMaturity
                       THEN TicketsPerBlock ELSE 0
                /\ \A i \in 1..Len(maturing'[k]) : maturing'[k][i] \in DrawnFor(k - CoinbaseMaturity)
    <3>1. CASE k = c
      <4>1. maturing'[k] = <<>> /\ Len(<<>>) = 0
        BY <2>3, <2>4, <3>1
      <4> QED
        BY <1>3, <3>1, <4>1
    <3>2. CASE k # c
      <4>1. maturing'[k] = maturing[k] /\ (c < k <=> c - 1 < k)
        BY <1>3, <2>3, <2>4, <3>2, Heights
      <4> QED
        BY <2>1, <2>3, <4>1 DEF Steady, CalmInv, CalmWallet
    <3> QED
      BY <3>1, <3>2
  <2> QED
    BY <1>6, <2>1, <2>2, <2>8, <2>9, <2>10 DEF CalmWallet
<1> QED
  BY <1>7, <1>8 DEF CalmInv

\* The handler takes the answer for a ticket.
LEMMA CalmTicket ==
    ASSUME NEW c, NEW v, Steady(c, v), ReceiveTicket
    PROVE  CalmInv(c, v)'
<1>1. handler = "tickets"
  BY DEF ReceiveTicket
<1>2. PICK a \in NextAnswer :
        /\ a.ok
        /\ tickets' = tickets \union {a.tx.id}
        /\ IF work.got + 1 < Len(work.txs)
             THEN /\ work' = [work EXCEPT !.got = @ + 1]
                  /\ UNCHANGED <<coins, maturing, handler, answers, errors>>
             ELSE ReleaseMaturing(work.height) /\ Return({})
  BY <1>1, NextAccepted DEF ReceiveTicket
<1>3. CASE work.got + 1 < Len(work.txs)
  BY <1>2, <1>3, CalmTicketReceived
<1>4. CASE ~(work.got + 1 < Len(work.txs))
  BY <1>2, <1>4, CalmTicketsDone
<1> QED
  BY <1>3, <1>4

-----------------------------------------------------------------------------
(* handleWinningTicketsNtfn and its votes while all is calm.               *)

\* The winners of a block are a sequence.
LEMMA DrawIsSeq ==
    ASSUME NEW w, NEW h, IsDraw(w, h)
    PROVE  /\ IsSeq(w) /\ Len(w) = TicketsPerBlock
           /\ \A i \in 1..TicketsPerBlock : w[i] \in DrawnFor(h)
           /\ \A i, j \in 1..TicketsPerBlock : w[i] = w[j] => i = j
<1>1. w \in [1..TicketsPerBlock -> DrawnFor(h)]
  BY DEF IsDraw
<1>2. w \in Seq(DrawnFor(h)) /\ Len(w) = TicketsPerBlock
  BY <1>1, Heights
<1> QED
  BY <1>1, <1>2 DEF IsSeq, IsDraw

\* The handler takes the winners of the last block.
LEMMA CalmWinnersHandled ==
    ASSUME NEW c, NEW v, Steady(c, v), Calm, Calm', handleWinningTicketsNtfn
    PROVE  CalmInv(c, v + 1)'
<1> DEFINE m == Head(winChan)
<1>0. ~Fault
  BY DEF Calm, Fault
<1>1. /\ handler = "select" /\ handler' = "create" /\ winChan # <<>> /\ winChan' = Tail(winChan)
      /\ UNCHANGED <<dcrdVars, outbox, wire, answers, coins, tickets, maturing>>
      /\ UNCHANGED <<errors, gen, ctxDone>>
  BY <1>0 DEF handleWinningTicketsNtfn, walletVars, testVars
<1>2. UNCHANGED <<height, poolTickets, poolVotes>>
  BY <1>1 DEF dcrdVars
<1>3. /\ c \in Nat /\ v \in Nat /\ height \in Nat /\ c <= height /\ v <= LastDraw
      /\ height >= FirstDraw => LastDraw = height /\ v >= height - 1
      /\ height < FirstDraw => LastDraw = FirstDraw - 1 /\ v = FirstDraw - 1
      /\ m.height = v + 1 /\ v + 1 <= LastDraw /\ v + 1 >= FirstDraw
  BY Where, WinnersTaken DEF Steady
<1>4. v + 1 = height /\ height >= FirstDraw
  BY <1>3, Heights
<1>5. m \in ToSet(winChan) /\ ToSet(winChan') \subseteq ToSet(winChan)
  BY <1>1, SetOfTail DEF Steady, InOrder
<1>6. IsDraw(m.winners, v + 1)
  BY <1>3, <1>5 DEF Steady, CalmInv, CalmWinners
<1>7. work' = [height |-> v + 1, txs |-> <<>>, got |-> 0, todo |-> m.winners, cap |-> TicketsPerBlock]
  BY <1>0, <1>3 DEF handleWinningTicketsNtfn, NoWork, Calm
<1> HIDE DEF m
<1>8. /\ work'.height = v + 1 /\ work'.txs = <<>> /\ work'.got = 0 /\ work'.todo = m.winners
      /\ work'.cap = TicketsPerBlock /\ Len(<<>>) = 0
  BY <1>7
<1>9. outbox = {}
  BY <1>1, NothingOut
<1>10. CalmHandler(c, v + 1)'
  BY <1>1, <1>2, <1>3, <1>4, <1>8 DEF Steady, CalmInv, CalmHandler
<1>11. CalmChain(c, v + 1)'
  <2>1. poolVotes = {}
    BY <1>3, <1>4 DEF Steady, CalmInv, CalmChain
  <2>2. UNCHANGED <<height, poolTickets, poolVotes, minedAt, votedAt, drawn>>
    BY <1>1 DEF dcrdVars
  <2>3. LastDraw' = LastDraw
    BY <2>2 DEF LastDraw
  <2> QED
    BY <2>1, <2>2, <2>3 DEF Steady, CalmInv, CalmChain
<1>12. CalmWallet(c, v + 1)'
  <2>1. Paid(c)' = Paid(c) /\ Kept(v + 1)' = Kept(v)
    BY <1>1, <1>3 DEF Paid, Kept
  <2> QED
    BY <1>1, <2>1 DEF Steady, CalmInv, CalmWallet
<1>13. CalmWork(c, v + 1)'
  <2>1. IsSeq(m.winners) /\ Len(m.winners) = TicketsPerBlock
    BY <1>6, DrawIsSeq
  <2>2. \A i \in 1..Len(m.winners) : m.winners[i] = m.winners[Len(<<>>) + i]
    BY <1>8, <2>1, Heights
  <2>3. Len(<<>>) + Len(m.winners) = TicketsPerBlock
    BY <1>8, <2>1, Heights
  <2>4. \A i \in 1..Len(<<>>) : <<>>[i] = VoteFor(m.winners[i], v + 1)
    BY <1>8
  <2> QED
    BY <1>1, <1>6, <1>8, <2>1, <2>2, <2>3, <2>4 DEF CalmWork
<1>14. CalmWinners'
  BY <1>1, <1>5 DEF Steady, CalmInv, CalmWinners
<1>15. CalmOutbox'
  BY <1>1, <1>9 DEF CalmOutbox
<1>16. CalmAnswered(c, v + 1)'
  <2>1. \A tx : Sent(tx, c, v) => Sent(tx, c, v + 1)'
    <3>1. (v + 1) - 1 = v
      BY <1>3
    <3> QED
      BY <1>1, <3>1 DEF Sent
  <2> QED
    BY <1>1, <2>1 DEF Steady, CalmInv, CalmAnswered
<1>17. CalmGen' /\ CalmReplies'
  BY <1>1, <1>2, GenFrame, RepliesFrame DEF Steady, CalmInv, CalmReplies
<1> QED
  BY <1>10, <1>11, <1>12, <1>13, <1>14, <1>15, <1>16, <1>17 DEF CalmInv

\* The handler has bought every ticket that wins.
LEMMA WinnerIsMine ==
    ASSUME NEW c, NEW v, Steady(c, v), handler = "create"
    PROVE  DrawnFor(v) \subseteq tickets
<1>1. /\ c \in Nat /\ v \in Nat /\ height \in Nat /\ v = height /\ v >= FirstDraw
      /\ height > FirstBuy => c >= height - 1
  BY Where DEF Steady, CalmInv, CalmHandler
<1> DEFINE k == v - 1 - TicketMaturity
<1>2. k \in Int /\ FirstBuy <= k /\ k <= c
  BY <1>1, Heights
<1>3. tickets = Bought(FirstBuy, c)
  BY DEF Steady, CalmInv, CalmWallet, Paid
<1> HIDE DEF k
<1>4. Round(k) \subseteq Bought(FirstBuy, c)
  BY <1>1, <1>2, RoundWithin, Heights
<1> QED
  BY <1>3, <1>4 DEF DrawnFor, k

\* One vote more is made: of the next winner.
LEMMA CalmVoteMade ==
    ASSUME NEW c, NEW v, Steady(c, v), Calm, Calm', CreateVote
    PROVE  CalmInv(c, v)'
<1> DEFINE wt == Head(work.todo)
           made == Append(work.txs, VoteTx(wt))
           n == Len(work.txs)
<1>1. /\ handler = "create" /\ work.todo # <<>>
      /\ UNCHANGED <<dcrdVars, outbox, wire, winChan, coins, tickets, maturing, gen, ctxDone>>
  BY DEF CreateVote, chanVars, walletVars, testVars
<1>2. UNCHANGED <<height, poolTickets, poolVotes>> /\ v \in Nat /\ IsWork(work)
  BY <1>1 DEF dcrdVars, Steady, InOrder, InHand
<1>3. /\ work.height = v /\ work.cap = TicketsPerBlock /\ work.got = 0
      /\ IsSeq(work.todo) /\ IsSeq(work.txs)
      /\ n + Len(work.todo) = TicketsPerBlock
  BY <1>1 DEF Steady, CalmInv, CalmHandler, CalmWork, InHand
<1>4. PICK w : /\ IsDraw(w, v)
               /\ \A i \in 1..n : work.txs[i] = VoteFor(w[i], v)
               /\ \A i \in 1..Len(work.todo) : work.todo[i] = w[n + i]
  BY <1>1 DEF Steady, CalmInv, CalmWork
<1>5. /\ Len(work.todo) \in Nat \ {0} /\ IsSeq(Tail(work.todo)) /\ wt = work.todo[1]
      /\ Len(Tail(work.todo)) = Len(work.todo) - 1
      /\ \A i \in 1..Len(Tail(work.todo)) : Tail(work.todo)[i] = work.todo[i + 1]
  BY <1>1, <1>3, WithoutHead
<1>6. n \in Nat /\ n < TicketsPerBlock /\ n + 1 \in 1..TicketsPerBlock
  <2>1. n \in Nat
    BY <1>3, SetOf
  <2> HIDE DEF n
  <2> QED
    BY <1>3, <1>5, <2>1, Heights
<1>7. wt = w[n + 1] /\ wt \in tickets
  <2>1. 1 \in 1..Len(work.todo)
    BY <1>5
  <2>2. w[n + 1] \in DrawnFor(v)
    BY <1>4, <1>6, DrawIsSeq
  <2> QED
    BY <1>1, <1>4, <1>5, <2>1, <2>2, WinnerIsMine
<1>8. ~Fault
  BY DEF Calm, Fault
<1>9. /\ work' = [work EXCEPT !.txs = made,
                              !.todo = IF Len(made) >= limit THEN <<>> ELSE Tail(@)]
      /\ UNCHANGED <<handler, answers, errors>>
  BY <1>7, <1>8 DEF CreateVote
<1>10. /\ IsSeq(made) /\ Len(made) = n + 1 /\ made[n + 1] = VoteFor(wt, v)
       /\ \A i \in 1..n : made[i] = work.txs[i]
  <2> DEFINE e == VoteTx(wt)
             s == work.txs
  <2>1. e = VoteFor(wt, v)
    BY <1>3 DEF VoteTx, VoteFor
  <2>2. IsSeq(s) /\ IsSeq(<<e>>) /\ Len(<<e>>) = 1 /\ <<e>>[1] = e /\ Append(s, e) = s \o <<e>>
    BY <1>3, Single, AppendAs
  <2> HIDE DEF e, s
  <2>3. /\ IsSeq(s \o <<e>>) /\ Len(s) \in Nat /\ Len(s \o <<e>>) = Len(s) + 1
        /\ \A i \in 1..Len(s) : (s \o <<e>>)[i] = s[i]
        /\ \A i \in 1..Len(<<e>>) : (s \o <<e>>)[Len(s) + i] = <<e>>[i]
    BY <2>2, Concat
  <2>4. 1 \in 1..Len(<<e>>)
    BY <2>2
  <2>5. (s \o <<e>>)[Len(s) + 1] = e
    BY <2>2, <2>3, <2>4
  <2> QED
    BY <2>1, <2>2, <2>3, <2>5 DEF s, e
<1> DEFINE left == Len(work.todo)
           size == Len(made)
           rest == IF size >= limit THEN <<>> ELSE Tail(work.todo)
<1>21. /\ n \in Nat /\ left \in Nat \ {0} /\ n + left = TicketsPerBlock /\ size = n + 1
       /\ TicketsPerBlock \in Nat /\ limit = TicketsPerBlock
  BY <1>3, <1>5, <1>6, <1>10, Heights DEF Calm
<1>11. /\ IsSeq(rest) /\ Len(rest) = Len(work.todo) - 1
       /\ \A i \in 1..Len(rest) : rest[i] = work.todo[i + 1]
  <2>1. CASE size >= limit
    <3>1. left = 1
      <4> HIDE DEF n, left, size
      <4> QED
        BY <1>21, <2>1
    <3>2. rest = <<>> /\ IsSeq(<<>>) /\ Len(<<>>) = 0
      <4>1. <<>> \in Seq({}) /\ Len(<<>>) = 0
        OBVIOUS
      <4> QED
        BY <2>1, <4>1 DEF IsSeq
    <3> HIDE DEF rest
    <3> QED
      BY <3>1, <3>2
  <2>2. CASE ~(size >= limit)
    BY <1>5, <2>2
  <2> QED
    BY <2>1, <2>2
<1>12. work' = [height |-> work.height, txs |-> made, got |-> work.got, todo |-> rest,
                cap |-> work.cap]
  BY <1>2, <1>9 DEF IsWork
<1> HIDE DEF made, rest, wt, size
<1>13. /\ work'.height = v /\ work'.txs = made /\ work'.got = 0 /\ work'.todo = rest
       /\ work'.cap = TicketsPerBlock
  BY <1>3, <1>12
<1>14. outbox = {}
  BY <1>1, NothingOut
<1>15. CalmHandler(c, v)'
  BY <1>1, <1>2, <1>3, <1>9, <1>13 DEF Steady, CalmInv, CalmHandler
<1>16. CalmChain(c, v)' /\ CalmWinners' /\ CalmAnswered(c, v)'
  BY <1>1, <1>2, <1>9, ChainFrame, WinnersFrame, AnsweredFrame DEF Steady, CalmInv
<1>17. CalmWallet(c, v)'
  <2>1. Paid(c)' = Paid(c) /\ Kept(v)' = Kept(v)
    BY <1>9 DEF Paid, Kept
  <2> QED
    BY <1>1, <1>9, <2>1 DEF Steady, CalmInv, CalmWallet
<1>18. CalmWork(c, v)'
  <2> HIDE DEF n
  <2>1. \A i \in 1..(n + 1) : made[i] = VoteFor(w[i], v)
    BY <1>4, <1>6, <1>7, <1>10 DEF n
  <2>2. \A i \in 1..Len(rest) : rest[i] = w[(n + 1) + i]
    <3> SUFFICES ASSUME NEW i \in 1..Len(rest) PROVE rest[i] = w[(n + 1) + i]
      OBVIOUS
    <3>1. i + 1 \in 1..Len(work.todo) /\ n + (i + 1) = (n + 1) + i
      BY <1>5, <1>6, <1>11
    <3> QED
      BY <1>4, <1>11, <3>1
  <2>3. (n + 1) + Len(rest) = TicketsPerBlock
    <3>1. Len(rest) = left - 1
      BY <1>11
    <3> HIDE DEF left
    <3> QED
      BY <1>21, <3>1
  <2> QED
    <3>1. handler' = "create" /\ Len(made) = n + 1 /\ IsSeq(rest)
      BY <1>1, <1>9, <1>10, <1>11
    <3>2. /\ work'.cap = TicketsPerBlock /\ work'.got = 0 /\ IsSeq(work'.todo)
          /\ Len(work'.txs) + Len(work'.todo) = TicketsPerBlock
      BY <1>13, <2>3, <3>1
    <3>3. /\ \A i \in 1..Len(work'.txs) : work'.txs[i] = VoteFor(w[i], v)
          /\ \A i \in 1..Len(work'.todo) : work'.todo[i] = w[Len(work'.txs) + i]
      BY <1>13, <2>1, <2>2, <3>1
    <3> QED
      BY <1>4, <3>1, <3>2, <3>3 DEF CalmWork
<1>19. CalmOutbox'
  BY <1>1, <1>14 DEF CalmOutbox
<1>20. CalmGen' /\ CalmReplies'
  BY <1>1, <1>2, GenFrame, RepliesFrame DEF Steady, CalmInv, CalmReplies
<1> QED
  BY <1>15, <1>16, <1>17, <1>18, <1>19, <1>20 DEF CalmInv

\* All votes are made, and sent.
LEMMA CalmVotesSent ==
    ASSUME NEW c, NEW v, Steady(c, v), PublishVotes
    PROVE  CalmInv(c, v)'
<1> DEFINE txs == work.txs
<1>1. /\ handler = "create" /\ work.todo = <<>>
      /\ UNCHANGED <<dcrdVars, wire, winChan, coins, tickets, gen, ctxDone>>
  BY DEF PublishVotes, chanVars, testVars
<1>2. UNCHANGED <<height, poolTickets, poolVotes>> /\ c \in Nat /\ v \in Nat
  BY <1>1, Where DEF dcrdVars, Steady
<1>3. /\ work.height = v /\ v = height /\ c <= v /\ work.got = 0
      /\ IsSeq(txs) /\ Len(txs) + Len(work.todo) = TicketsPerBlock
      /\ \E w : IsDraw(w, v) /\ \A i \in 1..Len(txs) : txs[i] = VoteFor(w[i], v)
  BY <1>1 DEF Steady, CalmInv, CalmHandler, CalmWork, InHand
<1>4. Len(txs) = TicketsPerBlock
  <2>1. Len(work.todo) = 0 /\ Len(txs) \in Nat
    BY <1>1, <1>3, SetOf
  <2> HIDE DEF txs
  <2> QED
    BY <1>3, <2>1
<1>5. txs # <<>>
  BY <1>4, Heights
<1>6. /\ outbox' = outbox \union ToSet(txs) /\ handler' = "votes" /\ work' = work
      /\ UNCHANGED <<answers, errors, maturing>>
  BY <1>5 DEF PublishVotes, Publish
<1>7. outbox = {}
  BY <1>1, NothingOut
<1>8. outbox' = {txs[i] : i \in 1..TicketsPerBlock}
  BY <1>3, <1>4, <1>6, <1>7, SetOf
<1>9. \A i \in 1..TicketsPerBlock : txs[i].kind = "vote" /\ txs[i].block = v
  BY <1>3, <1>4, Parts
<1> HIDE DEF txs
<1>10. work'.txs = txs /\ work'.got = 0 /\ work'.height = v /\ work'.todo = <<>>
  BY <1>1, <1>3, <1>6 DEF txs
<1>11. CalmHandler(c, v)'
  BY <1>1, <1>2, <1>3, <1>6 DEF Steady, CalmInv, CalmHandler
<1>12. CalmChain(c, v)' /\ CalmWinners'
  BY <1>1, <1>6, ChainFrame, WinnersFrame DEF Steady, CalmInv
<1>13. CalmWallet(c, v)'
  <2>1. Paid(c)' = Paid(c) /\ Kept(v)' = Kept(v)
    BY <1>1, <1>6 DEF Paid, Kept
  <2> QED
    BY <1>1, <1>6, <2>1 DEF Steady, CalmInv, CalmWallet
<1>14. CalmWork(c, v)'
  <2>1. PICK w : IsDraw(w, v) /\ \A i \in 1..TicketsPerBlock : txs[i] = VoteFor(w[i], v)
    BY <1>3, <1>4
  <2>2. 0 \in Nat /\ 0 < TicketsPerBlock
    BY Heights
  <2> QED
    BY <1>4, <1>6, <1>10, <2>1, <2>2 DEF CalmWork
<1>15. CalmOutbox'
  <2>1. poolVotes = {}
    BY <1>1 DEF Steady, CalmInv, CalmChain
  <2>2. ASSUME NEW i \in 1..TicketsPerBlock
        PROVE  /\ \E j \in (work'.got + 1)..TicketsPerBlock : txs[i] = work'.txs[j]
               /\ txs[i].kind = "vote" => <<txs[i].id, txs[i].block>> \notin poolVotes'
               /\ txs[i].kind # "ticket"
    <3>1. i \in (work'.got + 1)..TicketsPerBlock
      BY <1>10
    <3> QED
      BY <1>2, <1>9, <1>10, <2>1, <3>1
  <2> QED
    BY <1>2, <1>3, <1>6, <1>8, <1>10, <2>2 DEF CalmOutbox
<1>16. CalmAnswered(c, v)'
  <2>1. \A tx : Sent(tx, c, v) => Sent(tx, c, v)'
    <3>1. 0..(v - 1) \subseteq 0..v
      BY <1>2
    <3> QED
      BY <1>1, <1>6, <3>1 DEF Sent
  <2>2. ASSUME NEW tx, Sent(tx, c, v) PROVE tx \notin outbox'
    <3> SUFFICES ASSUME NEW i \in 1..TicketsPerBlock, tx = txs[i] PROVE FALSE
      BY <1>8
    <3>1. tx.kind = "vote" /\ tx.block = v
      BY <1>9
    <3> QED
      BY <1>1, <1>2, <2>2, <3>1 DEF Sent
  <2> QED
    BY <1>1, <1>6, <2>1, <2>2 DEF Steady, CalmInv, CalmAnswered
<1>17. CalmGen' /\ CalmReplies'
  BY <1>1, <1>2, GenFrame, RepliesFrame DEF Steady, CalmInv, CalmReplies
<1> QED
  BY <1>11, <1>12, <1>13, <1>14, <1>15, <1>16, <1>17 DEF CalmInv

\* The handler takes the answer for a vote that is not the last.
LEMMA CalmVoteReceived ==
    ASSUME NEW c, NEW v, Steady(c, v), ReceiveVote,
           work.got + 1 < Len(work.txs), work' = [work EXCEPT !.got = @ + 1],
           UNCHANGED <<maturing, handler, answers, errors>>
    PROVE  CalmInv(c, v)'
<1>1. /\ handler = "votes"
      /\ UNCHANGED <<dcrdVars, outbox, wire, winChan, gen, ctxDone, coins, tickets>>
  BY DEF ReceiveVote, chanVars, testVars
<1>2. UNCHANGED <<height, poolTickets, poolVotes>> /\ v \in Nat
  BY <1>1, Where DEF dcrdVars, Steady
<1>3. PICK a \in NextAnswer : TRUE
  BY DEF ReceiveVote
<1>4. /\ work.got \in Nat /\ Len(work.txs) = TicketsPerBlock
      /\ work.got + 1 \in 1..TicketsPerBlock
      /\ \A tx \in outbox : \E j \in (work.got + 2)..TicketsPerBlock : tx = work.txs[j]
  BY <1>1, <1>3, NextAccepted
<1>5. /\ work'.height = work.height /\ work'.txs = work.txs /\ work'.got = work.got + 1
      /\ work'.todo = work.todo
  BY OneAnswerMore DEF Steady, InHand
<1>6. CalmHandler(c, v)'
  BY <1>1, <1>2, <1>5 DEF Steady, CalmInv, CalmHandler
<1>7. CalmChain(c, v)' /\ CalmWinners' /\ CalmGen' /\ CalmAnswered(c, v)'
  BY <1>1, <1>2, ChainFrame, WinnersFrame, GenFrame, AnsweredFrame DEF Steady, CalmInv
<1>8. CalmReplies'
  BY <1>1, <1>2, RepliesFrame DEF Steady, CalmInv, CalmReplies
<1>9. CalmWallet(c, v)'
  <2>1. Paid(c)' = Paid(c) /\ Kept(v)' = Kept(v)
    BY DEF Paid, Kept
  <2> QED
    BY <1>1, <2>1 DEF Steady, CalmInv, CalmWallet
<1>10. CalmWork(c, v)'
  <2>1. work.got + 1 \in Nat /\ work.got + 1 < TicketsPerBlock
    BY <1>4
  <2> QED
    BY <1>1, <1>5, <2>1 DEF Steady, CalmInv, CalmWork
<1>11. CalmOutbox'
  <2>1. (work.got + 1) + 1 = work.got + 2
    BY <1>4
  <2>2. ASSUME NEW tx \in outbox'
        PROVE  /\ handler' \in {"tickets", "votes"} /\ work'.height = height'
               /\ \E j \in (work'.got + 1)..TicketsPerBlock : tx = work'.txs[j]
               /\ tx.kind = "ticket" => tx.id \notin poolTickets'
               /\ tx.kind = "vote" => <<tx.id, tx.block>> \notin poolVotes'
    <3>1. tx \in outbox
      BY <1>1
    <3>2. \E j \in (work'.got + 1)..TicketsPerBlock : tx = work'.txs[j]
      BY <1>4, <1>5, <2>1, <3>1
    <3>3. /\ work.height = height
          /\ tx.kind = "ticket" => tx.id \notin poolTickets
          /\ tx.kind = "vote" => <<tx.id, tx.block>> \notin poolVotes
      BY <3>1 DEF Steady, CalmInv, CalmOutbox
    <3> QED
      BY <1>1, <1>2, <1>5, <3>2, <3>3
  <2> QED
    BY <2>2 DEF CalmOutbox
<1> QED
  BY <1>6, <1>7, <1>8, <1>9, <1>10, <1>11 DEF CalmInv

\* The last vote is accepted: what the votes return is kept.
LEMMA CalmVotesDone ==
    ASSUME NEW c, NEW v, Steady(c, v), ReceiveVote, ~(work.got + 1 < Len(work.txs)),
           KeepReturns(work.height, work.txs), Return({})
    PROVE  CalmInv(c, v)'
<1>1. /\ handler = "votes"
      /\ UNCHANGED <<dcrdVars, outbox, wire, winChan, gen, ctxDone, coins, tickets>>
  BY DEF ReceiveVote, chanVars, testVars
<1>2. UNCHANGED <<height, poolTickets, poolVotes>>
  BY <1>1 DEF dcrdVars
<1>3. /\ c \in Nat /\ v \in Nat /\ height \in Nat /\ c <= v /\ v <= height /\ height <= MaxHeight
      /\ v >= FirstDraw /\ work.height = v
  <2>1. /\ c \in Nat /\ v \in Nat /\ height \in Nat /\ height <= MaxHeight
        /\ v >= FirstDraw /\ v <= LastDraw /\ height >= FirstDraw
        /\ height >= FirstDraw => LastDraw = height
    BY <1>1, Where DEF Steady
  <2> QED
    BY <1>1, <2>1 DEF Steady, CalmInv, CalmHandler
<1>4. PICK a \in NextAnswer : TRUE
  BY DEF ReceiveVote
<1>5. outbox = {} /\ Len(work.txs) = TicketsPerBlock
  <2>1. /\ work.got \in Nat /\ Len(work.txs) = TicketsPerBlock
        /\ work.got + 1 \in 1..TicketsPerBlock
        /\ \A tx \in outbox : \E j \in (work.got + 2)..TicketsPerBlock : tx = work.txs[j]
    BY <1>1, <1>4, NextAccepted
  <2>2. (work.got + 2)..TicketsPerBlock = {}
    BY <2>1, Heights
  <2> QED
    BY <2>1, <2>2
<1>6. handler' = "select" /\ answers' = {} /\ errors' = errors
  BY DEF Return
<1>7. CalmHandler(c, v)'
  BY <1>1, <1>2, <1>6 DEF Steady, CalmInv, CalmHandler
<1>8. CalmChain(c, v)' /\ CalmWinners' /\ CalmGen' /\ CalmAnswered(c, v)'
  BY <1>1, <1>2, <1>3, <1>6, ChainFrame, WinnersFrame, GenFrame, AnsweredFrame
     DEF Steady, CalmInv
<1>9. CalmReplies' /\ CalmWork(c, v)' /\ CalmOutbox'
  <2>1. CalmReplies'
    BY <1>1, <1>2, RepliesFrame DEF Steady, CalmInv, CalmReplies
  <2>2. CalmWork(c, v)' /\ CalmOutbox'
    BY <1>1, <1>5, <1>6 DEF CalmWork, CalmOutbox
  <2> QED
    BY <2>1, <2>2
<1>10. CalmWallet(c, v)'
  <2>1. Paid(c) = c /\ Paid(c)' = c /\ Kept(v) = v - 1 /\ Kept(v)' = v
    BY <1>1, <1>6 DEF Paid, Kept
  <2> DEFINE r == [i \in DOMAIN work.txs |-> work.txs[i].id]
  <2>2. v + CoinbaseMaturity \in DOMAIN maturing
        /\ DOMAIN maturing = 1..(MaxHeight + CoinbaseMaturity)
    BY <1>3, Heights DEF Steady, InHand
  <2>3. maturing' = [maturing EXCEPT ![v + CoinbaseMaturity] = r]
    BY <1>3 DEF KeepReturns
  <2>4. Len(r) = TicketsPerBlock /\ \A i \in 1..TicketsPerBlock : r[i] \in DrawnFor(v)
    <3>1. DOMAIN work.txs = 1..TicketsPerBlock
      BY <1>5 DEF Steady, InHand, IsSeq
    <3>2. PICK w : IsDraw(w, v) /\ \A i \in 1..TicketsPerBlock : work.txs[i] = VoteFor(w[i], v)
      BY <1>1 DEF Steady, CalmInv, CalmWork
    <3>3. \A i \in 1..TicketsPerBlock : r[i] = w[i]
      BY <3>1, <3>2, Parts
    <3>4. Len(r) = TicketsPerBlock
      BY <3>1, Heights
    <3> QED
      BY <3>2, <3>3, <3>4, DrawIsSeq
  <2> HIDE DEF r
  <2>5. ASSUME NEW k \in 1..(MaxHeight + CoinbaseMaturity)
         PROVE  /\ Len(maturing'[k]) =
                     IF /\ c < k /\ FirstDraw + CoinbaseMaturity <= k /\ k <= v + CoinbaseMaturity
                       THEN TicketsPerBlock ELSE 0
                /\ \A i \in 1..Len(maturing'[k]) : maturing'[k][i] \in DrawnFor(k - CoinbaseMaturity)
    <3>1. CASE k = v + CoinbaseMaturity
      <4>1. maturing'[k] = r /\ k - CoinbaseMaturity = v
        BY <1>3, <2>2, <2>3, <3>1, Heights
      <4>2. c < k /\ FirstDraw + CoinbaseMaturity <= k /\ k <= v + CoinbaseMaturity
        BY <1>3, <3>1, Heights
      <4> QED
        BY <2>4, <4>1, <4>2
    <3>2. CASE k # v + CoinbaseMaturity
      <4>1. maturing'[k] = maturing[k]
            /\ (k <= v + CoinbaseMaturity <=> k <= v - 1 + CoinbaseMaturity)
        BY <1>3, <2>2, <2>3, <3>2, Heights
      <4> QED
        BY <2>1, <2>2, <4>1 DEF Steady, CalmInv, CalmWallet
    <3> QED
      BY <3>1, <3>2
  <2>6. /\ tickets' = Bought(FirstBuy, c)
        /\ Len(coins') = TicketsPerBlock * Share(c, c)
        /\ \A i \in 1..Len(coins') : Spendable(coins'[i], c)
    BY <1>1, <2>1 DEF Steady, CalmInv, CalmWallet
  <2> QED
    BY <1>6, <2>1, <2>5, <2>6 DEF CalmWallet
<1> QED
  BY <1>7, <1>8, <1>9, <1>10 DEF CalmInv

\* The handler takes the answer for a vote.
LEMMA CalmVote ==
    ASSUME NEW c, NEW v, Steady(c, v), ReceiveVote
    PROVE  CalmInv(c, v)'
<1>1. handler = "votes"
  BY DEF ReceiveVote
<1>2. IF work.got + 1 < Len(work.txs)
        THEN /\ work' = [work EXCEPT !.got = @ + 1]
             /\ UNCHANGED <<maturing, handler, answers, errors>>
        ELSE KeepReturns(work.height, work.txs) /\ Return({})
  BY <1>1, NextAccepted DEF ReceiveVote
<1>3. CASE work.got + 1 < Len(work.txs)
  BY <1>2, <1>3, CalmVoteReceived
<1>4. CASE ~(work.got + 1 < Len(work.txs))
  BY <1>2, <1>4, CalmVotesDone
<1> QED
  BY <1>3, <1>4

\* The handler takes a step: it goes on to the next block or winners, or stays.
LEMMA CalmHandled ==
    ASSUME NEW c, NEW v, Steady(c, v), Calm, Calm', HandlerNext
    PROVE  \E d, e : InOrder(d, e)' /\ Bounded(d, e)' /\ InHand(d, e)' /\ CalmInv(d, e)'
<1>1. InOrder(c, v) /\ Bounded(c, v) /\ InHand(c, v) /\ ctxDone = FALSE
  BY DEF Steady, CalmInv, CalmHandler
<1>2. CASE handleBlockConnectedNtfn
  <2>1. InOrder(c + 1, v)' /\ Bounded(c + 1, v)' /\ InHand(c + 1, v)'
    BY <1>1, <1>2, BlockHandled
  <2>2. CalmInv(c + 1, v)'
    BY <1>2, CalmBlockHandled
  <2> QED
    BY <2>1, <2>2
<1>3. CASE handleWinningTicketsNtfn
  <2>1. InOrder(c, v + 1)' /\ Bounded(c, v + 1)' /\ InHand(c, v + 1)'
    BY <1>1, <1>3, WinnersHandled
  <2>2. CalmInv(c, v + 1)'
    BY <1>3, CalmWinnersHandled
  <2> QED
    BY <2>1, <2>2
<1>4. CASE ReceiveTicket \/ ReceiveVote
  <2>1. InOrder(c, v)' /\ Bounded(c, v)' /\ InHand(c, v)'
    BY <1>1, <1>4, Received
  <2>2. CalmInv(c, v)'
    BY <1>4, CalmTicket, CalmVote
  <2> QED
    BY <2>1, <2>2
<1>5. CASE CreateVote
  <2>1. InOrder(c, v)' /\ Bounded(c, v)' /\ InHand(c, v)'
    BY <1>1, <1>5, VoteHandled
  <2>2. CalmInv(c, v)'
    BY <1>5, CalmVoteMade
  <2> QED
    BY <2>1, <2>2
<1>6. CASE PublishVotes
  <2>1. InOrder(c, v)' /\ Bounded(c, v)' /\ InHand(c, v)'
    BY <1>1, <1>6, VotesSent
  <2>2. CalmInv(c, v)'
    BY <1>6, CalmVotesSent
  <2> QED
    BY <2>1, <2>2
<1>7. CASE CreateVotePanics
  <2>1. /\ handler = "create" /\ work.todo # <<>> /\ Len(work.txs) >= work.cap
    BY <1>7 DEF CreateVotePanics
  <2>2. /\ work.cap = TicketsPerBlock /\ IsSeq(work.todo) /\ IsSeq(work.txs)
        /\ Len(work.txs) + Len(work.todo) = TicketsPerBlock
    BY <1>1, <2>1 DEF Steady, CalmInv, CalmWork, InHand
  <2>3. Len(work.todo) \in Nat \ {0} /\ Len(work.txs) \in Nat
    BY <2>1, <2>2, WithoutHead, SetOf
  <2>4. \A a, b \in Nat : a + b = TicketsPerBlock /\ a >= TicketsPerBlock => b = 0
    BY Heights
  <2> QED
    BY <2>1, <2>2, <2>3, <2>4
<1>8. CASE ReceiveStopping \/ HandlerExit
  BY <1>1, <1>8 DEF ReceiveStopping, HandlerExit
<1> QED
  BY <1>2, <1>3, <1>4, <1>5, <1>6, <1>7, <1>8 DEF HandlerNext

-----------------------------------------------------------------------------
(* The test while all is calm.                                             *)

\* The tickets of a block are as many as a block needs.
LEMMA RoundCount ==
    ASSUME NEW k \in Nat
    PROVE  /\ IsFiniteSet(Round(k)) /\ Cardinality(Round(k)) = TicketsPerBlock
           /\ \A S : S \subseteq Round(k) /\ Cardinality(S) >= TicketsPerBlock => S = Round(k)
<1>1. /\ IsFiniteSet(Bought(k, k)) /\ Cardinality(Bought(k, k)) = (k - k + 1) * TicketsPerBlock
  BY BoughtFinite
<1>2. (k - k + 1) * TicketsPerBlock = TicketsPerBlock
  BY Heights
<1>3. IsFiniteSet(Round(k)) /\ Cardinality(Round(k)) = TicketsPerBlock
  BY <1>1, <1>2 DEF Round
<1>4. ASSUME NEW S, S \subseteq Round(k), Cardinality(S) >= TicketsPerBlock
      PROVE  S = Round(k)
  <2>1. /\ IsFiniteSet(S) /\ Cardinality(S) <= Cardinality(Round(k))
        /\ Cardinality(S) = Cardinality(Round(k)) => S = Round(k)
    BY <1>3, <1>4, FS_Subset
  <2>2. Cardinality(S) \in Nat
    BY <2>1, FS_CardinalityType
  <2> QED
    BY <1>3, <1>4, <2>1, <2>2, Heights
<1> QED
  BY <1>3, <1>4

\* Votes on one block are as many as those who vote.
LEMMA VotesCount ==
    ASSUME NEW k \in Nat, NEW h
    PROVE  /\ Cardinality(Round(k) \X {h}) = TicketsPerBlock
           /\ \A S : S \subseteq Round(k) \X {h} /\ Cardinality(S) >= TicketsPerBlock
                        => S = Round(k) \X {h}
<1>1. IsFiniteSet(Round(k)) /\ Cardinality(Round(k)) = TicketsPerBlock
  BY RoundCount
<1>2. IsFiniteSet({h}) /\ Cardinality({h}) = 1
  BY FS_Singleton
<1>3. /\ IsFiniteSet(Round(k) \X {h})
      /\ Cardinality(Round(k) \X {h}) = Cardinality(Round(k)) * Cardinality({h})
  BY <1>1, <1>2, FS_Product
<1>4. Cardinality(Round(k) \X {h}) = TicketsPerBlock
  BY <1>1, <1>2, <1>3, Heights
<1>5. ASSUME NEW S, S \subseteq Round(k) \X {h}, Cardinality(S) >= TicketsPerBlock
      PROVE  S = Round(k) \X {h}
  <2>1. /\ IsFiniteSet(S) /\ Cardinality(S) <= Cardinality(Round(k) \X {h})
        /\ Cardinality(S) = Cardinality(Round(k) \X {h}) => S = Round(k) \X {h}
    BY <1>3, <1>5, FS_Subset
  <2>2. Cardinality(S) \in Nat
    BY <2>1, FS_CardinalityType
  <2> QED
    BY <1>4, <1>5, <2>1, <2>2, Heights
<1> QED
  BY <1>4, <1>5

\* What GenerateBlocks counts is all there can be.
LEMMA MetWhenCounted ==
    ASSUME NEW c, NEW v, Steady(c, v), gen.votes = TicketsPerBlock, gen.next = height, gotAllReqs
    PROVE  Met
<1>1. height \in Nat
  BY Where DEF Steady
<1>2. poolTickets \subseteq Round(height) /\ poolVotes \subseteq DrawnFor(height) \X {height}
  BY DEF Steady, CalmInv, CalmChain
<1>3. ASSUME height >= FirstBuy PROVE poolTickets = Round(height)
  <2>1. Cardinality(poolTickets) >= TicketsPerBlock
    BY <1>3 DEF gotAllReqs, needsTickets, FirstBuy
  <2> QED
    BY <1>1, <1>2, <2>1, RoundCount
<1>4. ASSUME height >= FirstDraw PROVE poolVotes = DrawnFor(height) \X {height}
  <2>1. Cardinality(poolVotes) >= TicketsPerBlock
    BY <1>4 DEF gotAllReqs, needsVotes, FirstDraw
  <2>2. height - 1 - TicketMaturity \in Nat
    BY <1>1, <1>4, Heights
  <2> QED
    BY <1>2, <2>1, <2>2, VotesCount DEF DrawnFor
<1> QED
  BY <1>3, <1>4 DEF Met

\* With all requirements met the tickets that can win the next block are those
\* bought TicketMaturity + 1 blocks earlier.
LEMMA NextLive ==
    ASSUME NEW c, NEW v, Steady(c, v), Met
    PROVE  /\ DOMAIN MinedNext = Bought(FirstBuy, height)
           /\ \A t \in DOMAIN MinedNext : MinedNext[t] = t[1] + 1
           /\ height + 1 >= FirstDraw => Live(MinedNext, height + 1) = DrawnFor(height + 1)
<1>1. height \in Nat /\ (height >= FirstDraw => LastDraw = height)
      /\ (height < FirstDraw => LastDraw = FirstDraw - 1)
  BY Where DEF Steady
<1>2. /\ DOMAIN minedAt = Bought(FirstBuy, height - 1)
      /\ \A t \in DOMAIN minedAt : minedAt[t] = t[1] + 1
      /\ drawn = Bought(FirstBuy, LastDraw - 1 - TicketMaturity)
      /\ poolTickets # {} => height >= FirstBuy
  BY DEF Steady, CalmInv, CalmChain
<1>3. /\ height < FirstBuy => poolTickets = {}
      /\ height >= FirstBuy => poolTickets = Round(height)
  BY <1>1, <1>2, Heights DEF Met
<1>4. DOMAIN MinedNext = Bought(FirstBuy, height)
  <2>1. DOMAIN MinedNext = Bought(FirstBuy, height - 1) \union poolTickets
    BY <1>2 DEF MinedNext, Recorded
  <2>2. CASE height < FirstBuy
    <3>1. Bought(FirstBuy, height - 1) = {} /\ Bought(FirstBuy, height) = {}
      BY <1>1, <2>2, BoughtNext, Heights
    <3> QED
      BY <1>3, <2>1, <2>2, <3>1
  <2>3. CASE height >= FirstBuy
    <3>1. Bought(FirstBuy, height) = Bought(FirstBuy, height - 1) \union Round(height)
      BY <1>1, <2>3, BoughtNext, Heights
    <3> QED
      BY <1>3, <2>1, <2>3, <3>1
  <2> QED
    BY <1>1, <2>2, <2>3, Heights
<1>5. ASSUME NEW t \in DOMAIN MinedNext PROVE MinedNext[t] = t[1] + 1
  <2>1. t \in DOMAIN minedAt \union poolTickets
        /\ MinedNext[t] = IF t \in DOMAIN minedAt THEN minedAt[t] ELSE height + 1
    BY DEF MinedNext, Recorded
  <2>2. CASE t \in DOMAIN minedAt
    BY <1>2, <2>1, <2>2
  <2>3. CASE t \notin DOMAIN minedAt
    <3>1. t \in Round(height)
      BY <1>1, <1>2, <1>3, <2>1, <2>3, Heights
    <3>2. t[1] = height
      BY <1>1, <3>1 DEF Round, Bought
    <3> QED
      BY <2>1, <2>3, <3>2
  <2> QED
    BY <2>2, <2>3
<1>6. ASSUME height + 1 >= FirstDraw PROVE Live(MinedNext, height + 1) = DrawnFor(height + 1)
  <2> DEFINE k == height - TicketMaturity
  <2>1. /\ k \in Int /\ FirstBuy <= k /\ k <= height /\ (height + 1) - 1 - TicketMaturity = k
        /\ LastDraw - 1 - TicketMaturity = k - 1
    BY <1>1, <1>6, Heights
  <2>2. \A x \in Int : x + 1 + TicketMaturity <= height + 1 <=> x <= k
    BY <1>1, Heights
  <2> HIDE DEF k
  <2>3. drawn = Bought(FirstBuy, k - 1) /\ DrawnFor(height + 1) = Bought(k, k)
    BY <1>2, <2>1 DEF DrawnFor, Round
  <2>4. Live(MinedNext, height + 1) = {t \in Bought(FirstBuy, height) : t[1] <= k} \ drawn
    <3>1. ASSUME NEW t \in Bought(FirstBuy, height)
          PROVE  MinedNext[t] + TicketMaturity <= height + 1 <=> t[1] <= k
      <4>1. t[1] \in Int
        BY <3>1, Heights DEF Bought
      <4>2. MinedNext[t] = t[1] + 1
        BY <1>4, <1>5
      <4> QED
        BY <2>2, <4>1, <4>2
    <3> QED
      BY <1>4, <3>1 DEF Live
  <2>5. ASSUME NEW a \in FirstBuy..height
        PROVE  a <= k /\ a \notin FirstBuy..(k - 1) <=> a \in k..k
    BY <1>1, <2>1, Heights
  <2>6. \A a \in k..k : a \in FirstBuy..height
    BY <1>1, <2>1, Heights
  <2> QED
    BY <2>3, <2>4, <2>5, <2>6 DEF Bought
<1> QED
  BY <1>4, <1>5, <1>6

\* With all requirements met dcrd can mine the next block.
LEMMA CanMineWhenMet ==
    ASSUME NEW c, NEW v, Steady(c, v), Met
    PROVE  CanMine
<1>1. height \in Nat
  BY Where DEF Steady
<1>2. ASSUME height + 1 >= StakeValidationHeight
      PROVE  Cardinality({p \in poolVotes : p[2] = height}) >= Majority
  <2>1. height >= FirstDraw /\ height - 1 - TicketMaturity \in Nat
    BY <1>1, <1>2, Heights
  <2>2. poolVotes = Round(height - 1 - TicketMaturity) \X {height}
    BY <2>1 DEF Met, DrawnFor
  <2>3. {p \in poolVotes : p[2] = height} = poolVotes
    BY <2>2
  <2>4. Cardinality(poolVotes) = TicketsPerBlock
    BY <2>1, <2>2, VotesCount
  <2>5. TicketsPerBlock >= Majority
    BY Heights DEF Majority
  <2> QED
    BY <2>3, <2>4, <2>5
<1>3. ASSUME height + 1 >= StakeValidationHeight - 1
      PROVE  Cardinality(Live(MinedNext, height + 1)) >= TicketsPerBlock
  <2>1. height + 1 >= FirstDraw /\ (height + 1) - 1 - TicketMaturity \in Nat
    BY <1>1, <1>3, Heights
  <2>2. Live(MinedNext, height + 1) = Round((height + 1) - 1 - TicketMaturity)
    BY <2>1, NextLive DEF DrawnFor
  <2>3. Cardinality(Live(MinedNext, height + 1)) = TicketsPerBlock
    BY <2>1, <2>2, RoundCount
  <2> QED
    BY <2>3, Heights
<1> QED
  BY <1>2, <1>3 DEF CanMine

\* With all requirements met nothing is on its way to dcrd, and the handler is
\* done with the last block and its winners.
LEMMA AllDone ==
    ASSUME NEW c, NEW v, Steady(c, v), Met
    PROVE  /\ outbox = {}
           /\ height >= FirstBuy => c = height
           /\ height >= FirstDraw => v = height
           /\ handler # "create"
<1>1. height \in Nat /\ (handler = "create" => height >= FirstDraw)
  BY Where DEF Steady
<1>2. ASSUME NEW tx \in outbox PROVE FALSE
  <2>1. PICK j \in (work.got + 1)..TicketsPerBlock :
             /\ work.got \in Nat /\ j \in 1..TicketsPerBlock /\ tx = work.txs[j]
             /\ work.height = height
             /\ \/ /\ handler = "tickets" /\ c = height /\ height >= FirstBuy
                   /\ tx.kind = "ticket" /\ tx.id = <<c, j>> /\ Spendable(tx.coin, c - 1)
                   /\ tx.id \notin poolTickets
                \/ /\ handler = "votes" /\ v = height /\ height >= FirstDraw
                   /\ tx.kind = "vote" /\ tx.block = v /\ tx.id \in DrawnFor(v)
                   /\ <<tx.id, v>> \notin poolVotes
    BY OnItsWay
  <2>2. <<height, j>> \in Round(height)
    BY <1>1, <2>1 DEF Round, Bought
  <2> QED
    BY <2>1, <2>2 DEF Met
<1>3. ASSUME height >= FirstBuy PROVE c = height
  <2>1. <<height, 1>> \in Round(height)
    BY <1>1, Heights DEF Round, Bought
  <2> QED
    BY <1>3, <2>1 DEF Met, Steady, CalmInv, CalmChain
<1>4. ASSUME height >= FirstDraw PROVE v = height /\ handler # "create"
  <2> DEFINE k == height - 1 - TicketMaturity
  <2>1. k \in Nat
    BY <1>1, <1>4, Heights
  <2>2. <<k, 1>> \in Round(k)
    BY <2>1, Heights DEF Round, Bought
  <2>3. <<<<k, 1>>, height>> \in poolVotes
    BY <1>4, <2>2 DEF Met, DrawnFor
  <2> QED
    BY <2>3 DEF Steady, CalmInv, CalmChain
<1> QED
  BY <1>1, <1>2, <1>3, <1>4

\* Every ticket that can win the next block wins it, once.
LEMMA AllWin ==
    ASSUME NEW c, NEW v, Steady(c, v), Met, NEW winners \in Lottery(height + 1)
    PROVE  \/ height + 1 < FirstDraw /\ winners = <<>> /\ ToSet(winners) = {}
           \/ /\ height + 1 >= FirstDraw /\ winners # <<>> /\ IsDraw(winners, height + 1)
              /\ ToSet(winners) = DrawnFor(height + 1)
<1>1. height \in Nat /\ height + 1 \in Nat
  BY Where DEF Steady
<1>2. CASE height + 1 < FirstDraw /\ winners = <<>>
  BY <1>2 DEF ToSet
<1>3. CASE /\ height + 1 >= FirstDraw /\ winners # <<>>
           /\ winners \in [1..TicketsPerBlock -> Live(MinedNext, height + 1)]
           /\ \A i, j \in 1..TicketsPerBlock : winners[i] = winners[j] => i = j
  <2> DEFINE k == (height + 1) - 1 - TicketMaturity
  <2>1. k \in Nat
    BY <1>1, <1>3, Heights
  <2>2. Live(MinedNext, height + 1) = Round(k)
    BY <1>3, NextLive DEF DrawnFor
  <2> HIDE DEF k
  <2>3. /\ IsFiniteSet(ToSet(winners)) /\ Cardinality(ToSet(winners)) = TicketsPerBlock
        /\ ToSet(winners) \subseteq Round(k)
    BY <1>3, <2>2, Different, Heights
  <2>4. ToSet(winners) = Round(k)
    BY <2>1, <2>3, RoundCount, Heights
  <2> QED
    BY <1>3, <2>2, <2>4 DEF IsDraw, DrawnFor, k
<1> QED
  BY <1>1, <1>2, <1>3, WinnersOfBlock

\* dcrd connects a block: what the wallet knows of the chain.
LEMMA CalmChainConnect ==
    ASSUME NEW c, NEW v, Steady(c, v), Met, NEW replies, Connect(replies), handler' = handler
    PROVE  CalmChain(c, v)'
<1>1. /\ height \in Nat /\ height' = height + 1
      /\ height >= FirstDraw => LastDraw = height
      /\ height < FirstDraw => LastDraw = FirstDraw - 1
  BY Where DEF Connect, Steady
<1>2. /\ LastDraw' = IF height + 1 < FirstDraw THEN FirstDraw - 1 ELSE height + 1
      /\ poolTickets' = {} /\ poolVotes' = {} /\ minedAt' = MinedNext
  BY <1>1 DEF Connect, LastDraw
<1>3. /\ DOMAIN minedAt' = Bought(FirstBuy, height' - 1)
      /\ \A t \in DOMAIN minedAt' : minedAt'[t] = t[1] + 1
  <2>1. (height + 1) - 1 = height
    BY <1>1
  <2> QED
    BY <1>1, <1>2, <2>1, NextLive
<1>4. drawn' = Bought(FirstBuy, LastDraw' - 1 - TicketMaturity)
  <2>1. PICK winners \in Lottery(height + 1) : drawn' = drawn \union ToSet(winners)
    BY <1>1 DEF Connect
  <2>2. drawn = Bought(FirstBuy, LastDraw - 1 - TicketMaturity)
    BY DEF Steady, CalmInv, CalmChain
  <2>3. CASE height + 1 < FirstDraw
    <3>1. ToSet(winners) = {} /\ LastDraw' = LastDraw
      BY <1>1, <1>2, <2>1, <2>3, AllWin, Heights
    <3> QED
      BY <2>1, <2>2, <3>1
  <2>4. CASE height + 1 >= FirstDraw
    <3> DEFINE k == (height + 1) - 1 - TicketMaturity
    <3>1. /\ k \in Int /\ FirstBuy <= k /\ LastDraw - 1 - TicketMaturity = k - 1
          /\ LastDraw' - 1 - TicketMaturity = k
      BY <1>1, <1>2, <2>4, Heights
    <3>2. ToSet(winners) = Round(k)
      BY <1>1, <2>1, <2>4, AllWin, Heights DEF DrawnFor
    <3> HIDE DEF k
    <3>3. Bought(FirstBuy, k) = Bought(FirstBuy, k - 1) \union Round(k)
      BY <3>1, BoughtNext, Heights
    <3> QED
      BY <2>1, <2>2, <3>1, <3>2, <3>3
  <2> QED
    BY <1>1, <2>3, <2>4, Heights
<1>5. /\ DOMAIN votedAt' = Bought(FirstBuy, LastDraw' - 2 - TicketMaturity)
      /\ \A t \in DOMAIN votedAt' : votedAt'[t] = t[1] + TicketMaturity + 2
  <2> DEFINE new == {p[1] : p \in {w \in poolVotes : w[2] = height}}
  <2>1. votedAt' = Recorded(votedAt, new, height + 1)
    BY DEF Connect
  <2>2. /\ DOMAIN votedAt = Bought(FirstBuy, LastDraw - 2 - TicketMaturity)
        /\ \A t \in DOMAIN votedAt : votedAt[t] = t[1] + TicketMaturity + 2
        /\ poolVotes # {} => height >= FirstDraw
    BY DEF Steady, CalmInv, CalmChain
  <2>3. CASE height < FirstDraw
    <3>1. new = {}
      BY <1>1, <2>2, <2>3, Heights
    <3> HIDE DEF new
    <3>2. LastDraw - 2 - TicketMaturity < FirstBuy /\ LastDraw' - 2 - TicketMaturity < FirstBuy
          /\ LastDraw - 2 - TicketMaturity \in Int /\ LastDraw' - 2 - TicketMaturity \in Int
      BY <1>1, <1>2, <2>3, Heights
    <3>3. DOMAIN votedAt = {} /\ Bought(FirstBuy, LastDraw' - 2 - TicketMaturity) = {}
      BY <2>2, <3>2, BoughtNext, Heights
    <3> QED
      BY <2>1, <3>1, <3>3 DEF Recorded
  <2>4. CASE height >= FirstDraw
    <3> DEFINE k == height - 1 - TicketMaturity
    <3>1. /\ k \in Int /\ FirstBuy <= k /\ LastDraw - 2 - TicketMaturity = k - 1
          /\ LastDraw' - 2 - TicketMaturity = k /\ height + 1 = k + TicketMaturity + 2
      BY <1>1, <1>2, <2>4, Heights
    <3>2. poolVotes = Round(k) \X {height}
      BY <2>4 DEF Met, DrawnFor
    <3>3. new = Round(k)
      <4> HIDE DEF k
      <4>1. \A p \in poolVotes : p[1] \in Round(k) /\ p[2] = height
        BY <3>2
      <4>2. \A t \in Round(k) : \E p \in poolVotes : p[1] = t /\ p[2] = height
        <5> SUFFICES ASSUME NEW t \in Round(k)
                     PROVE  <<t, height>> \in poolVotes /\ <<t, height>>[1] = t
                            /\ <<t, height>>[2] = height
          OBVIOUS
        <5> QED
          BY <3>2
      <4> QED
        BY <4>1, <4>2
    <3> HIDE DEF new, k
    <3>4. Bought(FirstBuy, k) = Bought(FirstBuy, k - 1) \union Round(k)
      BY <3>1, BoughtNext, Heights
    <3>5. \A t \in Round(k) : t[1] = k
      BY <3>1 DEF Round, Bought
    <3>6. DOMAIN votedAt' = Bought(FirstBuy, k)
      BY <2>1, <2>2, <3>1, <3>3, <3>4 DEF Recorded
    <3>7. ASSUME NEW t \in DOMAIN votedAt' PROVE votedAt'[t] = t[1] + TicketMaturity + 2
      <4>1. t \in DOMAIN votedAt \union new
            /\ votedAt'[t] = IF t \in DOMAIN votedAt THEN votedAt[t] ELSE height + 1
        BY <2>1 DEF Recorded
      <4>2. CASE t \in DOMAIN votedAt
        BY <2>2, <4>1, <4>2
      <4>3. CASE t \notin DOMAIN votedAt
        BY <3>1, <3>3, <3>5, <4>1, <4>3
      <4> QED
        BY <4>2, <4>3
    <3> QED
      BY <3>1, <3>6, <3>7
  <2> QED
    BY <1>1, <2>3, <2>4, Heights
<1> QED
  BY <1>2, <1>3, <1>4, <1>5 DEF CalmChain

\* What dcrd writes about a block while all is calm.
LEMMA CalmWritten ==
    ASSUME NEW c, NEW v, Steady(c, v), Met, NEW replies, IsSeq(replies), Len(replies) \in {0, 1},
           \A m \in ToSet(replies) : m.kind = "reply",
           \A m \in ToSet(wire) : m.kind # "reply", Connect(replies)
    PROVE  /\ \A m \in ToSet(wire') : m.kind = "answer" => m \in ToSet(wire)
           /\ \A m \in ToSet(wire') : m.kind = "reply" => m \in ToSet(replies)
           /\ \A m \in ToSet(wire') : m.kind = "winning" => IsDraw(m.winners, m.height)
           /\ OneReply(wire')
<1>1. height \in Nat /\ height + 1 \in Nat /\ IsSeq(wire)
  BY Where DEF Steady, InOrder
<1>2. PICK winners, ntfns :
        /\ winners \in Lottery(height + 1) /\ ntfns \in BlockNtfns(height + 1, winners)
        /\ wire' \in {wire \o ntfns \o replies, wire \o replies \o ntfns}
  BY DEF Connect
<1>3. /\ IsSeq(ntfns) /\ \A m \in ToSet(ntfns) : m.kind \in {"block", "winning"}
      /\ \A m \in ToSet(ntfns) : m.kind = "winning" => IsDraw(m.winners, m.height)
  <2>1. /\ IsSeq(ntfns)
        /\ \A i \in 1..Len(ntfns) :
              ntfns[i].kind = "winning" => ntfns[i] = WinningNtfn(height + 1, winners)
        /\ \A i \in 1..Len(ntfns) : ntfns[i].kind \in {"block", "winning"}
    <3>1. height \in Nat /\ ntfns \in BlockNtfns(height + 1, winners)
      BY <1>1, <1>2
    <3> QED
      BY <3>1, BlockWritten
  <2>2. ToSet(ntfns) = {ntfns[i] : i \in 1..Len(ntfns)}
    BY <2>1, SetOf
  <2>3. ASSUME NEW m \in ToSet(ntfns), m.kind = "winning" PROVE IsDraw(m.winners, m.height)
    <3>1. CASE winners = <<>>
      <4>1. ntfns = <<BlockNtfn(height + 1)>>
        BY <1>2, <3>1 DEF BlockNtfns
      <4>2. m = BlockNtfn(height + 1)
        BY <2>2, <4>1, Single
      <4>3. m.kind = "block"
        BY <4>2 DEF BlockNtfn
      <4> QED
        BY <2>3, <4>3
    <3>2. CASE winners # <<>>
      <4>1. m = WinningNtfn(height + 1, winners)
        BY <2>1, <2>2, <2>3
      <4>2. m.winners = winners /\ m.height = height + 1
        BY <4>1 DEF WinningNtfn
      <4> QED
        BY <1>2, <3>2, <4>2, AllWin
    <3> QED
      BY <3>1, <3>2
  <2> QED
    BY <2>1, <2>2, <2>3
<1>4. OneReply(wire) /\ OneReply(ntfns) /\ OneReply(replies)
  <2>1. OneReply(ntfns)
    BY <1>3, FewReplies
  <2>2. OneReply(replies)
    BY DEF OneReply
  <2> QED
    BY <2>1, <2>2 DEF Steady, CalmInv, CalmReplies
<1>5. \A m \in ToSet(wire) : m.kind = "winning" => IsDraw(m.winners, m.height)
  BY DEF Steady, CalmInv, CalmWinners
<1>6. CASE wire' = wire \o ntfns \o replies
  <2>1. /\ IsSeq(wire \o ntfns) /\ ToSet(wire \o ntfns) = ToSet(wire) \union ToSet(ntfns)
        /\ OneReply(wire \o ntfns) /\ \A m \in ToSet(wire \o ntfns) : m.kind # "reply"
    BY <1>1, <1>3, <1>4, Concat, SetOfConcat, OneReplyConcat
  <2>2. ToSet(wire') = ToSet(wire \o ntfns) \union ToSet(replies) /\ OneReply(wire')
    BY <1>4, <1>6, <2>1, SetOfConcat, OneReplyConcat
  <2> QED
    BY <1>3, <1>5, <2>1, <2>2
<1>7. CASE wire' = wire \o replies \o ntfns
  <2>1. /\ IsSeq(wire \o replies) /\ ToSet(wire \o replies) = ToSet(wire) \union ToSet(replies)
        /\ OneReply(wire \o replies)
    BY <1>1, <1>4, Concat, SetOfConcat, OneReplyConcat
  <2>2. \A m \in ToSet(ntfns) : m.kind # "reply"
    BY <1>3
  <2>3. ToSet(wire') = ToSet(wire \o replies) \union ToSet(ntfns) /\ OneReply(wire')
    BY <1>3, <1>4, <1>7, <2>1, <2>2, SetOfConcat, OneReplyConcat
  <2> QED
    BY <1>3, <1>5, <2>1, <2>3
<1> QED
  BY <1>2, <1>6, <1>7

\* dcrd connects a block: all but the calls of the test.
LEMMA CalmConnect ==
    ASSUME NEW c, NEW v, Steady(c, v), Met, NEW replies, IsSeq(replies), Len(replies) \in {0, 1},
           \A m \in ToSet(replies) : m.kind = "reply",
           \A m \in ToSet(wire) : m.kind # "reply", Connect(replies),
           UNCHANGED nonTestVars, UNCHANGED ctxDone,
           handler = "unstarted" => height + 1 < FirstBuy /\ gen'.at = "idle"
    PROVE  /\ CalmHandler(c, v)' /\ CalmChain(c, v)' /\ CalmWallet(c, v)' /\ CalmWork(c, v)'
           /\ CalmWinners' /\ CalmOutbox' /\ CalmAnswered(c, v)'
           /\ \A m \in ToSet(wire') : m.kind = "reply" => m \in ToSet(replies)
           /\ OneReply(wire') /\ height' = height + 1 /\ height \in Nat
<1>1. UNCHANGED <<winChan, answers, coins, tickets, maturing, handler, work, errors, outbox>>
  BY DEF nonTestVars, chanVars, walletVars
<1>2. height \in Nat /\ height' = height + 1 /\ v \in Nat /\ c \in Nat
  BY Where DEF Connect, Steady
<1>3. /\ \A m \in ToSet(wire') : m.kind = "answer" => m \in ToSet(wire)
      /\ \A m \in ToSet(wire') : m.kind = "reply" => m \in ToSet(replies)
      /\ \A m \in ToSet(wire') : m.kind = "winning" => IsDraw(m.winners, m.height)
      /\ OneReply(wire')
  BY CalmWritten
<1>4. /\ outbox = {} /\ handler # "create"
      /\ height >= FirstBuy => c = height
  BY AllDone
<1>5. CalmHandler(c, v)'
  <2>1. height' > FirstBuy => c >= height' - 1
    BY <1>2, <1>4, Heights
  <2> QED
    BY <1>1, <1>2, <1>4, <2>1 DEF Steady, CalmInv, CalmHandler
<1>6. CalmChain(c, v)'
  BY <1>1, CalmChainConnect
<1>7. CalmWallet(c, v)' /\ CalmWork(c, v)'
  BY <1>1, WalletFrame, WorkFrame DEF Steady, CalmInv
<1>8. CalmWinners'
  BY <1>1, <1>3 DEF Steady, CalmInv, CalmWinners
<1>9. CalmOutbox'
  BY <1>1, <1>4 DEF CalmOutbox
<1>10. CalmAnswered(c, v)'
  BY <1>1, <1>2, <1>3, AnsweredFrame DEF Steady, CalmInv
<1> QED
  BY <1>2, <1>3, <1>5, <1>6, <1>7, <1>8, <1>9, <1>10

\* No reply is on its way while the test waits for none.
LEMMA NoReply ==
    ASSUME NEW c, NEW v, Steady(c, v), gen.at \notin {"best", "mining", "polling"}
    PROVE  \A m \in ToSet(wire) : m.kind # "reply"
  BY DEF Steady, CalmInv, CalmReplies

\* The parts that do not depend on the calls of the test, when nobody acts.
LEMMA CalmIdle ==
    ASSUME NEW c, NEW v, Steady(c, v), UNCHANGED <<dcrdVars, nonTestVars, ctxDone>>,
           handler # "unstarted" \/ UNCHANGED gen,
           \A m \in ToSet(wire') : m.kind \in {"winning", "answer"} => m \in ToSet(wire)
    PROVE  /\ CalmHandler(c, v)' /\ CalmChain(c, v)' /\ CalmWallet(c, v)' /\ CalmWork(c, v)'
           /\ CalmWinners' /\ CalmOutbox' /\ CalmAnswered(c, v)'
<1>1. /\ UNCHANGED <<winChan, answers, coins, tickets, maturing, handler, work, errors, outbox>>
      /\ UNCHANGED <<height, poolTickets, poolVotes>> /\ v \in Nat
  BY Where DEF nonTestVars, chanVars, walletVars, dcrdVars, Steady
<1>2. CalmHandler(c, v)'
  BY <1>1 DEF Steady, CalmInv, CalmHandler
<1> QED
  BY <1>1, <1>2, ChainFrame, WalletFrame, WorkFrame, WinnersFrame, OutboxFrame, AnsweredFrame
     DEF Steady, CalmInv

\* A request of the test is answered: its reply is the only one.
LEMMA CalmAsked ==
    ASSUME NEW c, NEW v, Steady(c, v), gen.at \notin {"best", "mining", "polling"},
           NEW call, wire' = Append(wire, Reply(call))
    PROVE  /\ \A m \in ToSet(wire') : m.kind \in {"winning", "answer"} => m \in ToSet(wire)
           /\ \A m \in ToSet(wire') : m.kind = "reply" => m = Reply(call)
           /\ OneReply(wire')
<1> DEFINE e == Reply(call)
<1>1. e.kind = "reply"
  BY Parts
<1> HIDE DEF e
<1>2. IsSeq(wire) /\ \A m \in ToSet(wire) : m.kind # "reply"
  BY NoReply DEF Steady, InOrder
<1>3. ToSet(wire') = ToSet(wire) \union {e} /\ wire' = wire \o <<e>>
  BY <1>2, AppendAs DEF e
<1>4. IsSeq(<<e>>) /\ OneReply(<<e>>) /\ OneReply(wire)
  BY Single, FewReplies DEF Steady, CalmInv, CalmReplies
<1>5. OneReply(wire')
  BY <1>2, <1>3, <1>4, OneReplyConcat
<1>6. \A m \in ToSet(wire') : m = e \/ m \in ToSet(wire)
  BY <1>3
<1> QED
  BY <1>1, <1>2, <1>5, <1>6 DEF e

\* Start funds the coins of the first purchases.
LEMMA CalmStart ==
    ASSUME NEW c, NEW v, Steady(c, v), Start
    PROVE  CalmInv(c, v)'
<1>1. /\ handler = "unstarted" /\ handler' = "select"
      /\ UNCHANGED <<dcrdVars, outbox, wire, winChan, answers, tickets, maturing, work>>
      /\ UNCHANGED <<errors, gen, ctxDone>>
  BY DEF Start, chanVars, testVars
<1>2. /\ UNCHANGED <<height, poolTickets, poolVotes>>
      /\ c \in Nat /\ v \in Nat /\ height \in Nat /\ c <= height
  BY <1>1, Where DEF dcrdVars, Steady
<1>3. c < FirstBuy
  <2>1. height < FirstBuy
    BY <1>1 DEF Steady, CalmInv, CalmHandler
  <2> QED
    BY <1>2, <2>1, Heights
<1>4. CalmHandler(c, v)'
  BY <1>1, <1>2 DEF Steady, CalmInv, CalmHandler
<1>5. CalmChain(c, v)' /\ CalmWinners' /\ CalmGen' /\ CalmAnswered(c, v)'
  BY <1>1, <1>2, ChainFrame, WinnersFrame, GenFrame, AnsweredFrame DEF Steady, CalmInv
<1>6. CalmReplies'
  BY <1>1, <1>2, RepliesFrame DEF Steady, CalmInv, CalmReplies
<1>7. CalmWork(c, v)' /\ CalmOutbox'
  BY <1>1, NothingOut DEF CalmWork, CalmOutbox
<1>8. CalmWallet(c, v)'
  <2>1. Paid(c) = c /\ Paid(c)' = c /\ Kept(v) = v /\ Kept(v)' = v
    BY <1>1 DEF Paid, Kept
  <2>2. requiredTicketCount \in Nat /\ requiredTicketCount = TicketsPerBlock * Share(c, c)
    <3>1. Share(c, c) = CoinbaseMaturity + TicketMaturity + 2
      BY <1>2, <1>3, ShareSteps
    <3>2. \A a, b \in Nat : a * b \in Nat /\ a * b = b * a
      OBVIOUS
    <3>3. CoinbaseMaturity + TicketMaturity + 2 \in Nat /\ TicketsPerBlock \in Nat
      BY Heights
    <3> HIDE DEF Share
    <3> QED
      BY <3>1, <3>2, <3>3 DEF requiredTicketCount
  <2>3. Len(coins') = requiredTicketCount /\ \A i \in 1..Len(coins') : coins'[i] = <<0, i>>
    BY <2>2 DEF Start
  <2>4. \A i \in 1..Len(coins') : Spendable(coins'[i], c)
    BY <2>3 DEF Spendable
  <2>5. tickets' = Bought(FirstBuy, c)
    BY <1>1, <2>1 DEF Steady, CalmInv, CalmWallet
  <2> QED
    BY <1>1, <2>1, <2>2, <2>3, <2>4, <2>5 DEF Steady, CalmInv, CalmWallet
<1> QED
  BY <1>4, <1>5, <1>6, <1>7, <1>8 DEF CalmInv

\* GenerateBlocks is called.
LEMMA CalmGenerateBlocks ==
    ASSUME NEW c, NEW v, Steady(c, v), GenerateBlocks
    PROVE  CalmInv(c, v)'
<1>1. /\ gen.at = "idle" /\ handler # "unstarted" /\ wire' = Append(wire, Reply("best"))
      /\ UNCHANGED <<dcrdVars, nonTestVars, ctxDone>>
  BY DEF GenerateBlocks
<1>2. PICK nb \in 1..MaxCall : gen' = [NoGen EXCEPT !.at = "best", !.left = nb]
  BY DEF GenerateBlocks
<1>3. gen' = [at |-> "best", next |-> 0, left |-> nb, votes |-> 0]
  BY <1>2 DEF NoGen
<1>4. IsGen(gen') /\ gen'.at = "best"
  BY <1>3 DEF IsGen
<1>5. Met'
  <2>1. Met
    BY <1>1 DEF Steady, CalmInv, CalmGen
  <2> QED
    BY <1>1, <2>1 DEF Met, dcrdVars
<1>6. /\ \A m \in ToSet(wire') : m.kind \in {"winning", "answer"} => m \in ToSet(wire)
      /\ \A m \in ToSet(wire') : m.kind = "reply" => m = Reply("best")
      /\ OneReply(wire')
  BY <1>1, CalmAsked
<1>7. CalmReplies'
  BY <1>4, <1>6, Parts DEF CalmReplies
<1>8. CalmGen'
  BY <1>4, <1>5 DEF CalmGen
<1> QED
  BY <1>1, <1>6, <1>7, <1>8, CalmIdle DEF CalmInv

\* GetRawMempool is asked.
LEMMA CalmPoll ==
    ASSUME NEW c, NEW v, Steady(c, v), Poll
    PROVE  CalmInv(c, v)'
<1> DEFINE answer == IF gotAllReqs THEN "met" ELSE "unmet"
<1>1. /\ gen.at = "poll" /\ wire' = Append(wire, Reply(answer))
      /\ gen' = [gen EXCEPT !.at = "polling"]
      /\ UNCHANGED <<dcrdVars, nonTestVars, ctxDone>>
  BY DEF Poll, Call
<1>2. IsGen(gen) /\ gen.votes = TicketsPerBlock /\ gen.next = height /\ handler # "unstarted"
  BY <1>1 DEF Steady, CalmInv, CalmGen, CalmHandler
<1>3. answer = "met" => Met
  BY <1>2, MetWhenCounted
<1> HIDE DEF answer
<1>4. gen' = [at |-> "polling", next |-> gen.next, left |-> gen.left, votes |-> gen.votes]
  BY <1>1, <1>2, GenParts
<1>5. IsGen(gen') /\ gen'.at = "polling" /\ gen'.votes = TicketsPerBlock /\ gen'.next = height
  BY <1>2, <1>4 DEF IsGen
<1>6. /\ \A m \in ToSet(wire') : m.kind \in {"winning", "answer"} => m \in ToSet(wire)
      /\ \A m \in ToSet(wire') : m.kind = "reply" => m = Reply(answer)
      /\ OneReply(wire')
  BY <1>1, CalmAsked
<1>7. Met' = Met /\ height' = height
  BY <1>1 DEF Met, dcrdVars
<1>8. CalmReplies'
  <2>1. answer \in {"met", "unmet"}
    BY DEF answer
  <2>2. Reply(answer).call = answer
    BY Parts
  <2> QED
    BY <1>3, <1>5, <1>6, <1>7, <2>1, <2>2 DEF CalmReplies
<1>9. CalmGen'
  BY <1>5, <1>7 DEF CalmGen
<1> QED
  BY <1>1, <1>2, <1>6, <1>8, <1>9, CalmIdle DEF CalmInv

\* dcrd mines the block it is asked for.
LEMMA CalmMine ==
    ASSUME NEW c, NEW v, Steady(c, v), Mine
    PROVE  CalmInv(c, v)'
<1> DEFINE e == Reply("mined")
           replies == <<e>>
<1>1. /\ gen.at = "mine" /\ Connect(replies) /\ gen' = [gen EXCEPT !.at = "mining"]
      /\ UNCHANGED nonTestVars /\ UNCHANGED ctxDone
  BY DEF Mine, Call
<1>2. /\ IsGen(gen) /\ gen.votes = TicketsPerBlock /\ gen.next = height + 1
      /\ handler # "unstarted" /\ Met
  BY <1>1 DEF Steady, CalmInv, CalmGen, CalmHandler
<1>3. e.kind = "reply" /\ e.call = "mined"
  BY Parts
<1> HIDE DEF e
<1>4. IsSeq(replies) /\ Len(replies) \in {0, 1} /\ ToSet(replies) = {e}
  BY Single, SetOf
<1> HIDE DEF replies
<1>5. \A m \in ToSet(wire) : m.kind # "reply"
  BY <1>1, NoReply
<1>6. /\ CalmHandler(c, v)' /\ CalmChain(c, v)' /\ CalmWallet(c, v)' /\ CalmWork(c, v)'
      /\ CalmWinners' /\ CalmOutbox' /\ CalmAnswered(c, v)'
      /\ \A m \in ToSet(wire') : m.kind = "reply" => m \in ToSet(replies)
      /\ OneReply(wire') /\ height' = height + 1 /\ height \in Nat
  BY <1>1, <1>2, <1>3, <1>4, <1>5, CalmConnect
<1>7. gen' = [at |-> "mining", next |-> gen.next, left |-> gen.left, votes |-> gen.votes]
  BY <1>1, <1>2, GenParts
<1>8. IsGen(gen') /\ gen'.at = "mining" /\ gen'.votes = TicketsPerBlock /\ gen'.next = height + 1
  BY <1>2, <1>7 DEF IsGen
<1>9. CalmGen'
  BY <1>6, <1>8 DEF CalmGen
<1>10. CalmReplies'
  BY <1>3, <1>4, <1>6, <1>8 DEF CalmReplies
<1> QED
  BY <1>6, <1>9, <1>10 DEF CalmInv

\* The test mines without the wallet, before tickets are needed.
LEMMA CalmGenerateOther ==
    ASSUME NEW c, NEW v, Steady(c, v), Calm, Calm', GenerateOther
    PROVE  CalmInv(c, v)'
<1>1. /\ gen.at = "idle" /\ Connect(<<>>)
      /\ UNCHANGED nonTestVars /\ UNCHANGED <<gen, ctxDone>>
  BY DEF GenerateOther, testVars
<1>2. height + 1 < FirstBuy /\ height \in Nat
  <2>1. ~Fault
    BY DEF Calm, Fault
  <2>2. height \in Nat /\ faults = 0
    BY Where DEF Steady, Calm
  <2> QED
    BY <2>1, <2>2, Heights DEF GenerateOther, FirstBuy
<1>3. Met /\ IsGen(gen)
  BY <1>1 DEF Steady, CalmInv, CalmGen
<1>4. IsSeq(<<>>) /\ Len(<<>>) = 0 /\ ToSet(<<>>) = {}
  <2>1. <<>> \in Seq({}) /\ Len(<<>>) = 0
    OBVIOUS
  <2>2. IsSeq(<<>>)
    BY <2>1 DEF IsSeq
  <2> QED
    BY <2>1, <2>2 DEF ToSet
<1>5. \A m \in ToSet(wire) : m.kind # "reply"
  BY <1>1, NoReply
<1> DEFINE replies == <<>>
<1>6. /\ IsSeq(replies) /\ Len(replies) \in {0, 1} /\ ToSet(replies) = {}
      /\ \A m \in ToSet(replies) : m.kind = "reply"
  BY <1>4
<1>7. Connect(replies)
  BY <1>1
<1> HIDE DEF replies
<1>8. /\ CalmHandler(c, v)' /\ CalmChain(c, v)' /\ CalmWallet(c, v)' /\ CalmWork(c, v)'
      /\ CalmWinners' /\ CalmOutbox' /\ CalmAnswered(c, v)'
      /\ \A m \in ToSet(wire') : m.kind = "reply" => m \in ToSet(replies)
      /\ OneReply(wire') /\ height' = height + 1
  BY <1>1, <1>2, <1>3, <1>5, <1>6, <1>7, CalmConnect
<1>9. Met'
  BY <1>2, <1>8, Heights DEF Met
<1>10. CalmGen' /\ CalmReplies'
  BY <1>1, <1>3, <1>6, <1>8, <1>9 DEF CalmGen, CalmReplies
<1> QED
  BY <1>8, <1>10 DEF CalmInv

\* The test takes a step.
LEMMA CalmTested ==
    ASSUME NEW c, NEW v, Steady(c, v), Calm, Calm', TestNext
    PROVE  CalmInv(c, v)'
<1>1. ~Fault /\ ctxDone = FALSE
  BY DEF Calm, Fault, Steady, CalmInv, CalmHandler
<1>2. CASE MineFails
  <2>1. Met
    BY <1>2 DEF MineFails, Steady, CalmInv, CalmGen
  <2> QED
    BY <1>2, <2>1, CanMineWhenMet DEF MineFails
<1>3. CASE Timeout \/ Stopping \/ Cancel
  BY <1>1, <1>3 DEF Timeout, Stopping, Cancel
<1>4. ASSUME NEW n \in 0..TicketsPerBlock, LimitNbVotes(n) PROVE CalmInv(c, v)'
  <2>1. /\ UNCHANGED <<dcrdVars, nonTestVars, wire>> /\ UNCHANGED <<gen, ctxDone>>
        /\ UNCHANGED <<height, poolTickets, poolVotes>>
    BY <1>4 DEF LimitNbVotes, dcrdVars
  <2>2. /\ CalmHandler(c, v)' /\ CalmChain(c, v)' /\ CalmWallet(c, v)' /\ CalmWork(c, v)'
        /\ CalmWinners' /\ CalmOutbox' /\ CalmAnswered(c, v)'
    BY <2>1, CalmIdle
  <2>3. CalmGen' /\ CalmReplies'
    BY <2>1, GenFrame, RepliesFrame DEF Steady, CalmInv, CalmReplies
  <2> QED
    BY <2>2, <2>3 DEF CalmInv
<1> QED
  BY <1>2, <1>3, <1>4, CalmStart, CalmGenerateBlocks, CalmMine, CalmPoll, CalmGenerateOther
     DEF TestNext

-----------------------------------------------------------------------------
(* Every run, as long as all is calm.                                      *)

\* Faults are only counted up and the limit only lowered, so that a calm
\* state follows calm states only.
LEMMA CalmBack ==
    ASSUME faults \in Nat, limit \in 0..TicketsPerBlock, [Next]_vars
    PROVE  faults' \in Nat /\ limit' \in 0..TicketsPerBlock /\ (Calm' => Calm)
<1>1. /\ faults' = faults \/ Fault
      /\ limit' = limit \/ \E n \in 0..TicketsPerBlock : LimitNbVotes(n)
  <2>1. CASE DcrdNext
    BY <2>1 DEF DcrdNext, AcceptTx, RefuseTx, testVars
  <2>2. CASE DispatcherNext
    BY <2>2 DEF DispatcherNext, onBlockConnected, onWinningTickets, DeliverAnswer, GotBestBlock,
                Mined, Polled, DropReply, testVars
  <2>3. CASE HandlerNext
    BY <2>3 DEF HandlerNext, handleBlockConnectedNtfn, ReceiveTicket, handleWinningTicketsNtfn,
                CreateVote, CreateVotePanics, PublishVotes, ReceiveVote, ReceiveStopping,
                HandlerExit, testVars
  <2>4. CASE TestNext
    BY <2>4 DEF TestNext, Start, GenerateBlocks, Mine, Call, MineFails, Poll, Timeout, Stopping,
                LimitNbVotes, GenerateOther, Cancel, testVars
  <2>5. CASE UNCHANGED vars
    BY <2>5 DEF vars, testVars
  <2> QED
    BY <2>1, <2>2, <2>3, <2>4, <2>5 DEF Next
<1>2. faults' \in Nat /\ (faults' = 0 => faults = 0)
  BY <1>1 DEF Fault
<1>3. limit' \in 0..limit
  BY <1>1, Heights DEF LimitNbVotes
<1> QED
  BY <1>2, <1>3, Heights DEF Calm

\* While all is calm the handler keeps up and every coin is where it belongs.
CalmKept ==
    /\ faults \in Nat /\ limit \in 0..TicketsPerBlock
    /\ Calm => \E c, v : Steady(c, v)

\* Before the first block.
LEMMA CalmInit ==
    ASSUME Init
    PROVE  \E c, v : Steady(c, v)
<1> DEFINE v == FirstDraw - 1
<1>1. v \in Nat /\ height = 0 /\ 0 < FirstDraw /\ 0 < FirstBuy
  BY Heights DEF Init
<1>2. LastDraw = v
  BY <1>1 DEF LastDraw
<1>3. IsSeq(<<>>) /\ Len(<<>>) = 0 /\ ToSet(<<>>) = {}
  BY NothingInHand DEF NoWork, ToSet
<1>4. InOrder(0, v)
  <2>1. Queued(<<>>, "block", 0, 0) /\ Queued(<<>>, "winning", v, v)
    BY <1>1, <1>3, QueuedNone
  <2> QED
    BY <1>1, <1>2, <1>3, <2>1 DEF InOrder, Init
<1>5. Bounded(0, v)
  <2>1. Cardinality(drawn) = 0 /\ TicketsPerBlock * (v - FirstDraw + 1) = 0
    BY Heights, FS_EmptySet DEF Init
  <2>2. DOMAIN minedAt = {}
    BY DEF Init
  <2> QED
    BY <1>1, <1>2, <2>1, <2>2, Heights DEF Bounded, Init
<1>6. InHand(0, v)
  <2>1. IsWork(work) /\ IsSeq(work.txs)
    BY NothingInHand DEF Init
  <2> QED
    BY <1>3, <2>1 DEF InHand, Init
<1>7. handler = "unstarted" /\ wire = <<>> /\ winChan = <<>> /\ outbox = {} /\ answers = {}
      /\ gen = NoGen
  BY DEF Init
<1>8. CalmHandler(0, v)
  BY <1>1, <1>7, Heights DEF CalmHandler, Init, NoGen
<1>9. CalmChain(0, v)
  <2>1. /\ Bought(FirstBuy, height - 1) = {} /\ Bought(FirstBuy, LastDraw - 1 - TicketMaturity) = {}
        /\ Bought(FirstBuy, LastDraw - 2 - TicketMaturity) = {}
    <3>1. \A b \in Int : b < FirstBuy => Bought(FirstBuy, b) = {}
      BY BoughtNext, Heights
    <3> QED
      BY <1>1, <1>2, <3>1, Heights
  <2>2. DOMAIN minedAt = {} /\ DOMAIN votedAt = {} /\ drawn = {} /\ poolTickets = {} /\ poolVotes = {}
    BY DEF Init
  <2> QED
    BY <2>1, <2>2 DEF CalmChain
<1>10. CalmWallet(0, v)
  <2>1. Paid(0) = 0 /\ Kept(v) = v
    BY <1>7 DEF Paid, Kept
  <2>2. tickets = {} /\ Bought(FirstBuy, 0) = {}
    BY <1>1, BoughtNext, Heights DEF Init
  <2>3. Len(coins) = 0
    BY <1>3 DEF Init
  <2>4. \A k \in 1..(MaxHeight + CoinbaseMaturity) : maturing[k] = <<>>
    BY DEF Init
  <2>5. \A k \in Nat : ~(FirstDraw + CoinbaseMaturity <= k /\ k <= v + CoinbaseMaturity)
    BY Heights
  <2> QED
    BY <1>3, <1>7, <2>1, <2>2, <2>3, <2>4, <2>5 DEF CalmWallet
<1>11. CalmWork(0, v) /\ CalmWinners /\ CalmOutbox /\ CalmAnswered(0, v)
  BY <1>3, <1>7 DEF CalmWork, CalmWinners, CalmOutbox, CalmAnswered
<1>12. CalmGen /\ CalmReplies
  <2>1. Met
    BY <1>1, Heights DEF Met
  <2> QED
    BY <1>3, <1>7, <2>1, FewReplies, GenParts DEF CalmGen, CalmReplies, IsGen, NoGen
<1> QED
  BY <1>4, <1>5, <1>6, <1>8, <1>9, <1>10, <1>11, <1>12 DEF Steady, CalmInv

\* Nobody acts.
LEMMA CalmStutter ==
    ASSUME NEW c, NEW v, Steady(c, v), UNCHANGED vars
    PROVE  Steady(c, v)'
<1>1. /\ UNCHANGED <<dcrdVars, nonTestVars, ctxDone>> /\ UNCHANGED gen /\ UNCHANGED wire
      /\ UNCHANGED <<height, poolTickets, poolVotes, minedAt, drawn, blockChan, winChan, outbox>>
      /\ UNCHANGED <<work, coins, maturing, handler>>
  BY DEF vars, nonTestVars, dcrdVars, testVars, chanVars, walletVars
<1>2. InOrder(c, v)' /\ Bounded(c, v)' /\ InHand(c, v)'
  BY <1>1, InOrderSame, BoundedSame, InHandSame DEF Steady
<1>3. CalmGen' /\ CalmReplies'
  BY <1>1, GenFrame, RepliesFrame DEF Steady, CalmInv, CalmReplies
<1> QED
  BY <1>1, <1>2, <1>3, CalmIdle DEF Steady, CalmInv

\* A run stays on its way as long as all is calm.
LEMMA CalmInvariance == Spec => []CalmKept
<1>1. Init => CalmKept
  <2>1. Init => faults \in Nat /\ limit \in 0..TicketsPerBlock
    BY Heights DEF Init
  <2> QED
    BY <2>1, CalmInit DEF CalmKept
<1>2. CalmKept /\ [Next]_vars => CalmKept'
  <2> SUFFICES ASSUME CalmKept, [Next]_vars, Calm, Calm' PROVE \E c, v : Steady(c, v)'
    BY CalmBack DEF CalmKept
  <2>1. PICK c, v : Steady(c, v)
    BY DEF CalmKept
  <2>2. InOrder(c, v) /\ Bounded(c, v) /\ InHand(c, v)
    BY <2>1 DEF Steady
  <2>3. CASE DcrdNext
    <3>1. PICK tx \in outbox : AcceptTx(tx)
      BY <2>1, <2>3, NothingRefused DEF DcrdNext
    <3>2. CalmInv(c, v)'
      BY <2>1, <3>1, CalmAccepted
    <3> QED
      BY <2>2, <2>3, <3>2, Answered DEF Steady
  <2>4. CASE DispatcherNext
    <3>1. CalmInv(c, v)'
      BY <2>1, <2>4, CalmDispatched
    <3> QED
      BY <2>2, <2>4, <3>1, Dispatched DEF Steady
  <2>5. CASE HandlerNext
    BY <2>1, <2>5, CalmHandled DEF Steady
  <2>6. CASE TestNext
    <3>1. CalmInv(c, v)'
      BY <2>1, <2>6, CalmTested
    <3> QED
      BY <2>2, <2>6, <3>1, Tested DEF Steady
  <2>7. CASE UNCHANGED vars
    BY <2>1, <2>7, CalmStutter
  <2> QED
    BY <2>3, <2>4, <2>5, <2>6, <2>7 DEF Next
<1> QED
  BY <1>1, <1>2, PTL DEF Spec

\* The chain goes on as long as nothing happens that the wallet does not
\* stand: the handler logs no error, it always has the coins for the next
\* tickets, and dcrd can make every block that GenerateBlocks asks for.
THEOREM ChainContinuesCorrect == Spec => []ChainContinues
<1>1. CalmKept => ChainContinues
  <2> SUFFICES ASSUME CalmKept, Calm PROVE errors = {} /\ (gen.at = "mine" => CanMine)
    BY DEF ChainContinues
  <2>1. PICK c, v : Steady(c, v)
    BY DEF CalmKept
  <2>2. errors = {}
    BY <2>1 DEF Steady, CalmInv, CalmHandler
  <2>3. gen.at = "mine" => Met
    BY <2>1 DEF Steady, CalmInv, CalmGen
  <2> QED
    BY <2>1, <2>2, <2>3, CanMineWhenMet
<1> QED
  BY <1>1, CalmInvariance, PTL

-----------------------------------------------------------------------------
(* Counting the coins.                                                     *)

\* Where the handler is with the purchases and with the winners.
LEMMA Places ==
    ASSUME NEW c, NEW v, Steady(c, v)
    PROVE  /\ Paid(c) \in Nat /\ Kept(v) \in Nat /\ c \in Nat
           /\ Kept(v) >= FirstDraw - 1 /\ Kept(v) <= LastDraw /\ Paid(c) <= Kept(v) + 1
           /\ Kept(v) >= FirstDraw => Kept(v) <= height
           /\ Paid(c) >= FirstBuy => Kept(v) - TicketMaturity <= Paid(c) + 1
           /\ Paid(c) < FirstBuy => Kept(v) = FirstDraw - 1
           /\ handler = "tickets" => /\ c = Paid(c) + 1 /\ c >= FirstBuy
                                     /\ Kept(v) - TicketMaturity <= c
           /\ handler # "tickets" => Paid(c) = c
           /\ handler \in {"create", "votes"} => v = Kept(v) + 1 /\ v <= LastDraw
           /\ handler \notin {"create", "votes"} => v = Kept(v)
           /\ LastDraw \in Nat /\ height \in Nat /\ height <= MaxHeight /\ c <= height
<1>1. /\ c \in Nat /\ v \in Nat /\ height \in Nat /\ c <= height /\ height <= MaxHeight
      /\ v >= FirstDraw - 1 /\ v <= LastDraw /\ LastDraw \in Nat
      /\ height >= FirstDraw => LastDraw = height /\ v >= height - 1
      /\ height < FirstDraw => LastDraw = FirstDraw - 1 /\ v = FirstDraw - 1
      /\ handler \in {"create", "votes"} => v >= FirstDraw /\ height >= FirstDraw
      /\ handler = "tickets" => c >= FirstBuy
  BY Where, LastDrawType DEF Steady
<1>2. /\ height > FirstBuy => c >= height - 1
      /\ handler = "tickets" => v <= c \/ v = FirstDraw - 1
      /\ handler \in {"create", "votes"} => c <= v
  BY DEF Steady, CalmInv, CalmHandler
<1>3. CASE handler = "tickets"
  <2>1. Paid(c) = c - 1 /\ Kept(v) = v
    BY <1>3 DEF Paid, Kept
  <2> QED
    BY <1>1, <1>2, <1>3, <2>1, Heights
<1>4. CASE handler \in {"create", "votes"}
  <2>1. Paid(c) = c /\ Kept(v) = v - 1
    BY <1>4 DEF Paid, Kept
  <2> QED
    BY <1>1, <1>2, <1>4, <2>1, Heights
<1>5. CASE handler \notin {"tickets", "create", "votes"}
  <2>1. Paid(c) = c /\ Kept(v) = v
    BY <1>5 DEF Paid, Kept
  <2> QED
    BY <1>1, <1>2, <1>5, <2>1, Heights
<1> QED
  BY <1>3, <1>4, <1>5

\* How many tickets are bought for some blocks.
LEMMA BoughtCount ==
    ASSUME NEW a \in Nat, NEW b \in Nat
    PROVE  /\ IsFiniteSet(Bought(a, b)) /\ Rounds(a, b) \in Nat
           /\ Cardinality(Bought(a, b)) = TicketsPerBlock * Rounds(a, b)
<1>1. /\ IsFiniteSet(Bought(a, b))
      /\ a <= b => Cardinality(Bought(a, b)) = (b - a + 1) * TicketsPerBlock
      /\ a > b => Cardinality(Bought(a, b)) = 0
  BY BoughtFinite
<1>2. CASE a <= b
  <2>1. Rounds(a, b) = b - a + 1 /\ b - a + 1 \in Nat
    BY <1>2 DEF Rounds
  <2>2. \A x, y \in Nat : x * y = y * x
    OBVIOUS
  <2> QED
    BY <1>1, <1>2, <2>1, <2>2, Heights
<1>3. CASE a > b
  <2>1. Rounds(a, b) = 0
    BY <1>3 DEF Rounds
  <2> QED
    BY <1>1, <1>3, <2>1, Heights
<1> QED
  BY <1>2, <1>3

\* The winners of a block are all that were bought for one.
LEMMA DrawIsRound ==
    ASSUME NEW w, NEW h \in Nat, h >= FirstDraw, IsDraw(w, h)
    PROVE  ToSet(w) = DrawnFor(h)
<1> DEFINE k == h - 1 - TicketMaturity
<1>1. k \in Nat
  BY Heights
<1>2. w \in [1..TicketsPerBlock -> Round(k)] /\ \A i, j \in 1..TicketsPerBlock : w[i] = w[j] => i = j
  BY DEF IsDraw, DrawnFor
<1> HIDE DEF k
<1>3. ToSet(w) \subseteq Round(k) /\ Cardinality(ToSet(w)) = TicketsPerBlock
  BY <1>2, Different, Heights
<1>4. ToSet(w) = Round(k)
  BY <1>1, <1>3, RoundCount, Heights
<1> QED
  BY <1>4 DEF k, DrawnFor

\* The winners the handler has not finished with are those of the last blocks.
LEMMA Pending ==
    ASSUME NEW c, NEW v, Steady(c, v)
    PROVE  PendingWinners = UNION {DrawnFor(h) : h \in (Kept(v) + 1)..LastDraw}
<1> DEFINE n == Len(winChan)
           Onwire == UNION {ToSet(m.winners) : m \in Ntfns("winning")}
           Queuing == UNION {ToSet(m.winners) : m \in ToSet(winChan)}
           Working == IF handler \in {"create", "votes"}
                        THEN ToSet(work.todo) \union {work.txs[i].id : i \in DOMAIN work.txs} ELSE {}
<1>1. PendingWinners = Onwire \union Queuing \union Working
  <2> DEFINE A == Ntfns("winning")
             B == ToSet(winChan)
             All == UNION {ToSet(m.winners) : m \in A \union B}
  <2>1. PendingWinners = All \union Working
    BY Zenon DEF PendingWinners
  <2> HIDE DEF A, B
  <2>2. ASSUME NEW x PROVE x \in All <=> x \in Onwire \union Queuing
    <3>1. x \in All <=> \E m \in A \union B : x \in ToSet(m.winners)
      OBVIOUS
    <3>2. x \in Onwire <=> \E m \in A : x \in ToSet(m.winners)
      BY DEF A
    <3>3. x \in Queuing <=> \E m \in B : x \in ToSet(m.winners)
      BY DEF B
    <3> HIDE DEF All, Onwire, Queuing
    <3> QED
      BY <3>1, <3>2, <3>3
  <2> HIDE DEF All, Onwire, Queuing, Working
  <2> QED
    BY <2>1, <2>2
<1>2. /\ v \in Nat /\ LastDraw \in Nat /\ v >= FirstDraw - 1 /\ v + n <= LastDraw /\ n \in Nat
      /\ IsSeq(wire) /\ IsSeq(winChan)
  BY SetOf, Places DEF Steady, InOrder, Queued
<1>3. Onwire = UNION {DrawnFor(h) : h \in (v + n + 1)..LastDraw}
  <2>1. DOMAIN wire = 1..Len(wire) /\ \A i \in 1..Len(wire) : wire[i] \in ToSet(wire)
    BY <1>2, SetOf DEF IsSeq
  <2>2. ASSUME NEW m \in Ntfns("winning")
        PROVE  m.height \in (v + n + 1)..LastDraw /\ ToSet(m.winners) = DrawnFor(m.height)
    <3>1. PICK i \in 1..Len(wire) : m = wire[i] /\ wire[i].kind = "winning"
      BY <2>1 DEF Ntfns
    <3>2. m.height \in (v + n + 1)..LastDraw
      BY <3>1 DEF Steady, InOrder, Queued
    <3>3. IsDraw(m.winners, m.height)
      BY <2>1, <3>1 DEF Steady, CalmInv, CalmWinners
    <3>4. m.height \in Nat /\ m.height >= FirstDraw
      BY <1>2, <3>2, Heights
    <3> QED
      BY <3>2, <3>3, <3>4, DrawIsRound
  <2>3. ASSUME NEW h \in (v + n + 1)..LastDraw
        PROVE  \E m \in Ntfns("winning") : m.height = h
    <3>1. PICK i \in 1..Len(wire) : wire[i].kind = "winning" /\ wire[i].height = h
      BY DEF Steady, InOrder, Queued
    <3> QED
      BY <2>1, <3>1 DEF Ntfns
  <2>4. Onwire \subseteq UNION {DrawnFor(h) : h \in (v + n + 1)..LastDraw}
    BY <2>2
  <2>5. ASSUME NEW h \in (v + n + 1)..LastDraw PROVE DrawnFor(h) \subseteq Onwire
    <3>1. PICK m \in Ntfns("winning") : m.height = h
      BY <2>3
    <3>2. ToSet(m.winners) = DrawnFor(h)
      BY <2>2, <3>1
    <3> QED
      BY <3>2
  <2> HIDE DEF Onwire
  <2> QED
    BY <2>4, <2>5
<1>4. Queuing = UNION {DrawnFor(h) : h \in (v + 1)..(v + n)}
  <2>1. ToSet(winChan) = {winChan[i] : i \in 1..n} /\ \A i \in 1..n : winChan[i] \in ToSet(winChan)
    BY <1>2, SetOf
  <2>2. ASSUME NEW i \in 1..n
        PROVE  winChan[i].height = v + i /\ ToSet(winChan[i].winners) = DrawnFor(v + i)
    <3>1. winChan[i].height = v + i
      BY DEF Steady, InOrder
    <3>2. IsDraw(winChan[i].winners, v + i)
      BY <2>1, <3>1 DEF Steady, CalmInv, CalmWinners
    <3>3. v + i \in Nat /\ v + i >= FirstDraw
      BY <1>2, Heights
    <3> QED
      BY <3>1, <3>2, <3>3, DrawIsRound
  <2>3. Queuing = UNION {ToSet(winChan[i].winners) : i \in 1..n}
    BY <2>1
  <2>4. Queuing = UNION {DrawnFor(v + i) : i \in 1..n}
    BY <2>2, <2>3
  <2>5. ASSUME NEW h \in (v + 1)..(v + n) PROVE h - v \in 1..n /\ v + (h - v) = h
    BY <1>2
  <2>6. \A i \in 1..n : v + i \in (v + 1)..(v + n)
    BY <1>2
  <2> HIDE DEF Queuing, n
  <2>7. Queuing \subseteq UNION {DrawnFor(h) : h \in (v + 1)..(v + n)}
    BY <2>4, <2>6
  <2>8. ASSUME NEW h \in (v + 1)..(v + n) PROVE DrawnFor(h) \subseteq Queuing
    <3>1. DrawnFor(v + (h - v)) \subseteq Queuing
      BY <2>4, <2>5
    <3> QED
      BY <2>5, <3>1
  <2> QED
    BY <2>7, <2>8
<1>5. Working = UNION {DrawnFor(h) : h \in (Kept(v) + 1)..v}
  <2>1. CASE handler \in {"create", "votes"}
    <3>1. v = Kept(v) + 1 /\ v >= FirstDraw
      BY <2>1, Places, Where DEF Steady
    <3>2. (Kept(v) + 1)..v = {v}
      BY <1>2, <3>1
    <3>3. Working = DrawnFor(v)
      <4>1. IsSeq(work.txs) /\ DOMAIN work.txs = 1..Len(work.txs) /\ Len(work.txs) \in Nat
        BY SetOf DEF Steady, InHand, IsSeq
      <4>2. CASE handler = "create"
        <5>1. PICK w : /\ IsDraw(w, v)
                       /\ \A i \in 1..Len(work.txs) : work.txs[i] = VoteFor(w[i], v)
                       /\ \A i \in 1..Len(work.todo) : work.todo[i] = w[Len(work.txs) + i]
          BY <4>2 DEF Steady, CalmInv, CalmWork
        <5>2. IsSeq(work.todo) /\ Len(work.txs) + Len(work.todo) = TicketsPerBlock
          BY <4>2 DEF Steady, CalmInv, CalmWork
        <5>3. ToSet(work.todo) = {work.todo[i] : i \in 1..Len(work.todo)} /\ Len(work.todo) \in Nat
          BY <5>2, SetOf
        <5>4. ToSet(w) = {w[i] : i \in 1..TicketsPerBlock} /\ ToSet(w) = DrawnFor(v)
          BY <1>2, <3>1, <5>1, DrawIsRound, DrawIsSeq, SetOf
        <5>5. {work.txs[i].id : i \in DOMAIN work.txs} = {w[i] : i \in 1..Len(work.txs)}
          BY <4>1, <5>1, Parts
        <5> DEFINE p == Len(work.txs)
                   q == Len(work.todo)
        <5>11. p \in Nat /\ q \in Nat /\ p + q = TicketsPerBlock
          BY <4>1, <5>2, <5>3
        <5>6. ASSUME NEW i \in 1..TicketsPerBlock
              PROVE  i \in 1..Len(work.txs) \/ w[i] \in ToSet(work.todo)
          <6> SUFFICES ASSUME i \notin 1..p PROVE w[i] \in ToSet(work.todo)
            OBVIOUS
          <6>1. i - p \in 1..q /\ p + (i - p) = i
            <7> HIDE DEF p, q
            <7> QED
              BY <5>11
          <6> QED
            BY <5>1, <5>3, <6>1
        <5>7. /\ \A i \in 1..p : i \in 1..TicketsPerBlock
              /\ \A i \in 1..q : p + i \in 1..TicketsPerBlock
          <6> HIDE DEF p, q
          <6> QED
            BY <5>11
        <5>8. ToSet(work.todo) \subseteq ToSet(w)
          BY <5>1, <5>3, <5>4, <5>7
        <5>9. {w[i] : i \in 1..Len(work.txs)} \subseteq ToSet(w)
          BY <5>4, <5>7
        <5>10. ToSet(w) \subseteq ToSet(work.todo) \union {w[i] : i \in 1..Len(work.txs)}
          BY <5>4, <5>6
        <5> QED
          BY <2>1, <5>4, <5>5, <5>8, <5>9, <5>10
      <4>3. CASE handler = "votes"
        <5>1. PICK w : IsDraw(w, v) /\ \A i \in 1..TicketsPerBlock : work.txs[i] = VoteFor(w[i], v)
          BY <4>3 DEF Steady, CalmInv, CalmWork
        <5>2. DOMAIN work.txs = 1..TicketsPerBlock /\ work.todo = <<>>
          BY <4>1, <4>3 DEF Steady, CalmInv, CalmWork
        <5>3. ToSet(w) = {w[i] : i \in 1..TicketsPerBlock} /\ ToSet(w) = DrawnFor(v)
          BY <1>2, <3>1, <5>1, DrawIsRound, DrawIsSeq, SetOf
        <5>4. {work.txs[i].id : i \in DOMAIN work.txs} = {w[i] : i \in 1..TicketsPerBlock}
          BY <5>1, <5>2, Parts
        <5>5. ToSet(work.todo) = {}
          BY <5>2 DEF ToSet
        <5> QED
          BY <2>1, <5>3, <5>4, <5>5
      <4> QED
        BY <2>1, <4>2, <4>3
    <3> HIDE DEF Working
    <3> QED
      BY <3>2, <3>3
  <2>2. CASE handler \notin {"create", "votes"}
    <3>1. (Kept(v) + 1)..v = {}
      BY <1>2, <2>2, Places
    <3> QED
      BY <2>2, <3>1
  <2> QED
    BY <2>1, <2>2
<1> HIDE DEF Onwire, Queuing, Working, n
<1>6. (Kept(v) + 1)..LastDraw
        = ((Kept(v) + 1)..v) \union ((v + 1)..(v + n)) \union ((v + n + 1)..LastDraw)
  <2>1. Kept(v) \in Nat /\ Kept(v) <= v
    BY <1>2, Places
  <2> QED
    BY <1>2, <2>1
<1> QED
  BY <1>1, <1>3, <1>4, <1>5, <1>6

\* The votes whose coins are kept are those of the last blocks handled.
LEMMA Waiting ==
    ASSUME NEW c, NEW v, Steady(c, v), NEW a \in Nat,
           a = IF Paid(c) + 1 >= FirstDraw + CoinbaseMaturity
                 THEN Paid(c) + 1 ELSE FirstDraw + CoinbaseMaturity
    PROVE  WaitingCoins = Bought(a, Kept(v) + CoinbaseMaturity)
<1> DEFINE b == Kept(v) + CoinbaseMaturity
<1>1. /\ Paid(c) \in Nat /\ Kept(v) \in Nat /\ height <= MaxHeight /\ height \in Nat
      /\ Kept(v) >= FirstDraw => Kept(v) <= height
  BY Places
<1>2. DOMAIN maturing = 1..(MaxHeight + CoinbaseMaturity)
  BY DEF Steady, InHand
<1>3. \A k \in 1..(MaxHeight + CoinbaseMaturity) :
         Len(maturing[k]) = IF k \in a..b THEN TicketsPerBlock ELSE 0
  <2> SUFFICES ASSUME NEW k \in 1..(MaxHeight + CoinbaseMaturity)
               PROVE  Len(maturing[k]) = IF k \in a..b THEN TicketsPerBlock ELSE 0
    OBVIOUS
  <2>1. Len(maturing[k]) =
          IF Paid(c) < k /\ FirstDraw + CoinbaseMaturity <= k /\ k <= b THEN TicketsPerBlock ELSE 0
    BY DEF Steady, CalmInv, CalmWallet
  <2>2. k \in a..b <=> Paid(c) < k /\ FirstDraw + CoinbaseMaturity <= k /\ k <= b
    BY <1>1, Heights
  <2> QED
    BY <2>1, <2>2
<1>4. \A k \in a..b : k \in 1..(MaxHeight + CoinbaseMaturity)
  BY <1>1, Heights
<1> HIDE DEF b
<1>5. WaitingCoins = UNION {{k} \X (1..Len(maturing[k])) : k \in 1..(MaxHeight + CoinbaseMaturity)}
  BY <1>2 DEF WaitingCoins
<1>6. ASSUME NEW k \in 1..(MaxHeight + CoinbaseMaturity)
      PROVE  {k} \X (1..Len(maturing[k])) = IF k \in a..b THEN {k} \X (1..TicketsPerBlock) ELSE {}
  BY <1>3
<1>7. WaitingCoins \subseteq (a..b) \X (1..TicketsPerBlock)
  BY <1>5, <1>6
<1>8. (a..b) \X (1..TicketsPerBlock) \subseteq WaitingCoins
  BY <1>4, <1>5, <1>6
<1> QED
  BY <1>7, <1>8 DEF Bought, b

\* The tickets that give no vote any more are those whose vote was kept.
LEMMA Holding ==
    ASSUME NEW c, NEW v, Steady(c, v)
    PROVE  (tickets \ drawn) \union (tickets \intersect PendingWinners)
             = Bought(Kept(v) - TicketMaturity, Paid(c))
                 \union (IF handler = "tickets" THEN {c} \X (1..work.got) ELSE {})
<1> DEFINE K == Kept(v)
           P == Paid(c)
           extra == IF handler = "tickets" THEN {c} \X (1..work.got) ELSE {}
           live == LastDraw - TicketMaturity
<1>1. /\ K \in Nat /\ P \in Nat /\ c \in Nat /\ LastDraw \in Nat
      /\ K >= FirstDraw - 1 /\ K <= LastDraw
      /\ handler = "tickets" => c >= FirstBuy /\ K - TicketMaturity <= c
  BY Places
<1>2. tickets = Bought(FirstBuy, P) \union extra
  BY DEF Steady, CalmInv, CalmWallet
<1>3. drawn = Bought(FirstBuy, live - 1)
  <2>1. drawn = Bought(FirstBuy, LastDraw - 1 - TicketMaturity)
    BY DEF Steady, CalmInv, CalmChain
  <2>2. LastDraw - 1 - TicketMaturity = live - 1
    BY <1>1, Heights
  <2> QED
    BY <2>1, <2>2
<1>4. PendingWinners = Bought(K - TicketMaturity, live - 1)
  <2>1. PendingWinners = UNION {DrawnFor(h) : h \in (K + 1)..LastDraw}
    BY Pending
  <2>2. ASSUME NEW h \in (K + 1)..LastDraw
        PROVE  DrawnFor(h) \subseteq Bought(K - TicketMaturity, live - 1)
    <3> DEFINE k == h - 1 - TicketMaturity
    <3>1. k \in (K - TicketMaturity)..(live - 1) /\ k..k = {k}
      BY <1>1, Heights
    <3> HIDE DEF k, live, K
    <3> QED
      BY <3>1 DEF k, DrawnFor, Round, Bought
  <2>3. ASSUME NEW k \in (K - TicketMaturity)..(live - 1)
        PROVE  \E h \in (K + 1)..LastDraw : DrawnFor(h) = {k} \X (1..TicketsPerBlock)
    <3> DEFINE h == k + 1 + TicketMaturity
    <3>1. h \in (K + 1)..LastDraw /\ h - 1 - TicketMaturity = k /\ k..k = {k}
      BY <1>1, Heights
    <3>2. DrawnFor(h) = {k} \X (1..TicketsPerBlock)
      BY <3>1 DEF DrawnFor, Round, Bought
    <3> HIDE DEF h
    <3> QED
      BY <3>1, <3>2
  <2> HIDE DEF K, live
  <2>4. PendingWinners \subseteq Bought(K - TicketMaturity, live - 1)
    BY <2>1, <2>2
  <2>5. Bought(K - TicketMaturity, live - 1) \subseteq PendingWinners
    <3> SUFFICES ASSUME NEW t \in Bought(K - TicketMaturity, live - 1) PROVE t \in PendingWinners
      OBVIOUS
    <3>1. PICK k \in (K - TicketMaturity)..(live - 1) : t \in {k} \X (1..TicketsPerBlock)
      BY DEF Bought
    <3> QED
      BY <2>1, <2>3, <3>1
  <2> QED
    BY <2>4, <2>5
<1>5. /\ K - TicketMaturity \in Int /\ live \in Int /\ FirstBuy \in Int
      /\ FirstBuy <= K - TicketMaturity /\ K - TicketMaturity <= live
  BY <1>1, Heights
<1> DEFINE a == K - TicketMaturity
<1>6. \A t \in tickets : t[1] \in Int /\ t[1] >= FirstBuy /\ t \in Int \X (1..TicketsPerBlock)
  <2>1. ASSUME handler = "tickets" PROVE 1..work.got \subseteq 1..TicketsPerBlock
    <3>1. work.got \in Nat /\ work.got < TicketsPerBlock
      BY <2>1 DEF Steady, CalmInv, CalmWork
    <3> QED
      BY <3>1, Heights
  <2>2. \A t \in extra : t[1] = c /\ c >= FirstBuy /\ t \in Int \X (1..TicketsPerBlock)
    BY <1>1, <2>1
  <2>3. \A t \in Bought(FirstBuy, P) : /\ t[1] \in Int /\ t[1] >= FirstBuy
                                      /\ t \in Int \X (1..TicketsPerBlock)
    BY <1>1, Heights DEF Bought
  <2> HIDE DEF extra, P
  <2> QED
    BY <1>1, <1>2, <2>2, <2>3
<1>7. \A t \in extra : t[1] = c /\ c >= a
  BY <1>1
<1>8. \A x, y \in Int, t \in Int \X (1..TicketsPerBlock) : t \in Bought(x, y) <=> t[1] \in x..y
  BY DEF Bought
<1>9. P \in Int /\ K \in Int /\ a \in Int /\ live \in Int /\ FirstBuy \in Int
      /\ FirstBuy <= a /\ a <= live
  BY <1>1, Heights
<1> HIDE DEF extra, K, P, live, a
<1>10. ASSUME NEW t \in tickets
       PROVE  t \in (tickets \ drawn) \union (tickets \intersect PendingWinners) <=> t[1] >= a
  <2>1. t \in Int \X (1..TicketsPerBlock) /\ t[1] \in Int /\ t[1] >= FirstBuy
    BY <1>6
  <2>2. t \in drawn <=> t[1] \in FirstBuy..(live - 1)
    BY <1>3, <1>8, <1>9, <2>1
  <2>3. t \in PendingWinners <=> t[1] \in a..(live - 1)
    BY <1>4, <1>8, <1>9, <2>1 DEF a
  <2> QED
    BY <1>9, <2>1, <2>2, <2>3
<1>11. ASSUME NEW t \in tickets
       PROVE  t \in Bought(a, P) \union extra <=> t[1] >= a
  <2>1. t \in Int \X (1..TicketsPerBlock) /\ t[1] \in Int /\ t[1] >= FirstBuy
    BY <1>6
  <2>2. t \in Bought(a, P) <=> t[1] \in a..P
    BY <1>8, <1>9, <2>1
  <2>3. t \in Bought(FirstBuy, P) <=> t[1] \in FirstBuy..P
    BY <1>8, <1>9, <2>1
  <2> QED
    BY <1>2, <1>7, <1>9, <2>1, <2>2, <2>3
<1>12. Bought(a, P) \subseteq Bought(FirstBuy, P)
  <2>1. a..P \subseteq FirstBuy..P
    BY <1>9
  <2> QED
    BY <2>1 DEF Bought
<1>13. (tickets \ drawn) \union (tickets \intersect PendingWinners) = Bought(a, P) \union extra
  BY <1>2, <1>10, <1>11, <1>12
<1> QED
  BY <1>13 DEF a, P, K, extra

\* The blocks between, on either side, count once.
LEMMA RoundsSum ==
    ASSUME NEW c, NEW v, Steady(c, v)
    PROVE  LET P == Paid(c)
               K == Kept(v)
               a == IF P + 1 >= FirstDraw + CoinbaseMaturity THEN P + 1
                    ELSE FirstDraw + CoinbaseMaturity
           IN Share(c, P) + (IF handler = "tickets" THEN 1 ELSE 0)
                + Rounds(K - TicketMaturity, P) + Rounds(a, K + CoinbaseMaturity)
              = CoinbaseMaturity + TicketMaturity + 2
<1> DEFINE P == Paid(c)
           K == Kept(v)
           a == IF P + 1 >= FirstDraw + CoinbaseMaturity THEN P + 1
                ELSE FirstDraw + CoinbaseMaturity
<1>1. /\ P \in Nat /\ K \in Nat /\ c \in Nat
      /\ K >= FirstDraw - 1 /\ P <= K + 1
      /\ P >= FirstBuy => K - TicketMaturity <= P + 1
      /\ P < FirstBuy => K = FirstDraw - 1
      /\ handler = "tickets" => c = P + 1 /\ c >= FirstBuy
      /\ handler # "tickets" => P = c
  BY Places
<1> HIDE DEF P, K
<1>2. Rounds(FirstBuy, c) - (IF handler = "tickets" THEN 1 ELSE 0) = Rounds(FirstBuy, P)
  BY <1>1, Heights DEF Rounds
<1>3. Rounds(FirstDraw + CoinbaseMaturity, P) + Rounds(a, K + CoinbaseMaturity) = K - FirstDraw + 1
  BY <1>1, Heights DEF Rounds
<1>4. Rounds(K - TicketMaturity, P) + (K - FirstDraw + 1) = Rounds(FirstBuy, P)
  BY <1>1, Heights DEF Rounds
<1>5. /\ Rounds(FirstBuy, c) \in Int /\ Rounds(FirstBuy, P) \in Int
      /\ Rounds(FirstDraw + CoinbaseMaturity, P) \in Int
      /\ Rounds(a, K + CoinbaseMaturity) \in Int /\ Rounds(K - TicketMaturity, P) \in Int
  BY <1>1, Heights DEF Rounds
<1> DEFINE r == Rounds(FirstBuy, c)
           one == IF handler = "tickets" THEN 1 ELSE 0
           s == Rounds(FirstBuy, P)
           x == Rounds(FirstDraw + CoinbaseMaturity, P)
           y == Rounds(a, K + CoinbaseMaturity)
           z == Rounds(K - TicketMaturity, P)
           n == CoinbaseMaturity + TicketMaturity + 2
           d == K - FirstDraw + 1
<1>6. /\ r \in Int /\ one \in Int /\ s \in Int /\ x \in Int /\ y \in Int /\ z \in Int
      /\ n \in Int /\ d \in Int
      /\ r - one = s /\ x + y = d /\ z + d = s /\ Share(c, P) = n - r + x
  BY <1>1, <1>2, <1>3, <1>4, <1>5, Heights DEF Share
<1>7. Share(c, P) + one + z + y = n
  <2> HIDE DEF r, one, s, x, y, z, n, d
  <2> QED
    BY <1>6
<1> QED
  BY <1>7 DEF P, K

\* As many coins are given out, in tickets or waiting, as Start has funded.
LEMMA AllCounted ==
    ASSUME NEW c, NEW v, Steady(c, v), handler # "unstarted"
    PROVE  Len(coins) + BeingSpent
             + Cardinality((tickets \ drawn) \union (tickets \intersect PendingWinners))
             + Cardinality(WaitingCoins) = requiredTicketCount
<1> DEFINE P == Paid(c)
           K == Kept(v)
           T == TicketsPerBlock
           a == IF P + 1 >= FirstDraw + CoinbaseMaturity THEN P + 1
                ELSE FirstDraw + CoinbaseMaturity
           b == K - TicketMaturity
           extra == IF handler = "tickets" THEN {c} \X (1..work.got) ELSE {}
           one == IF handler = "tickets" THEN 1 ELSE 0
           got == IF handler = "tickets" THEN work.got ELSE 0
           held == Rounds(b, P)
           kept == Rounds(a, K + CoinbaseMaturity)
<1>1. /\ P \in Nat /\ K \in Nat /\ c \in Nat /\ K >= FirstDraw - 1
      /\ handler = "tickets" => c = P + 1
  BY Places
<1>2. handler = "tickets" => Len(work.txs) = T /\ work.got \in Nat
  BY DEF Steady, CalmInv, CalmWork
<1>3. a \in Nat /\ b \in Nat /\ K + CoinbaseMaturity \in Nat
  BY <1>1, Heights
<1>4. Len(coins) = T * Share(c, P)
  BY DEF Steady, CalmInv, CalmWallet
<1>5. BeingSpent = T * one - got /\ got \in Nat /\ one \in Int
  BY <1>2, Heights DEF BeingSpent
<1>6. Share(c, P) + one + held + kept = CoinbaseMaturity + TicketMaturity + 2
  BY RoundsSum
<1>7. WaitingCoins = Bought(a, K + CoinbaseMaturity)
  BY <1>3, Waiting
<1>8. (tickets \ drawn) \union (tickets \intersect PendingWinners) = Bought(b, P) \union extra
  BY Holding
<1>9. IsFiniteSet(extra) /\ Cardinality(extra) = got
  <2>1. CASE handler = "tickets"
    <3> DEFINE w == work.got
    <3>a. w \in Nat
      BY <1>2, <2>1
    <3>b. IsFiniteSet(1..w) /\ Cardinality(1..w) = w
      <4> HIDE DEF w
      <4>1. /\ IsFiniteSet(1..w)
            /\ Cardinality(1..w) = IF 1 > w THEN 0 ELSE w - 1 + 1
        BY <3>a, FS_Interval
      <4> QED
        BY <3>a, <4>1
    <3>1. IsFiniteSet(1..work.got) /\ Cardinality(1..work.got) = work.got
      BY <3>b
    <3>2. IsFiniteSet({c}) /\ Cardinality({c}) = 1
      BY FS_Singleton
    <3>3. /\ IsFiniteSet({c} \X (1..work.got))
          /\ Cardinality({c} \X (1..work.got)) = Cardinality({c}) * Cardinality(1..work.got)
      BY <3>1, <3>2, FS_Product
    <3> QED
      BY <1>2, <2>1, <3>1, <3>2, <3>3
  <2>2. CASE handler # "tickets"
    BY <2>2, FS_EmptySet
  <2> QED
    BY <2>1, <2>2
<1>10. Bought(b, P) \intersect extra = {}
  <2>1. \A t \in Bought(b, P) : t[1] \in Int /\ t[1] <= P
    BY <1>1, <1>3 DEF Bought
  <2>2. \A t \in extra : t[1] = P + 1
    BY <1>1
  <2> HIDE DEF extra, P, b
  <2> QED
    BY <1>1, <2>1, <2>2
<1> HIDE DEF P, K, a, b, extra, one, got
<1>11. /\ IsFiniteSet(Bought(b, P)) /\ Cardinality(Bought(b, P)) = T * held /\ held \in Nat
       /\ Cardinality(WaitingCoins) = T * kept /\ kept \in Nat
  BY <1>1, <1>3, <1>7, BoughtCount
<1>12. Cardinality(Bought(b, P) \union extra) = T * held + got
  <2>1. Cardinality(Bought(b, P) \union extra)
          = Cardinality(Bought(b, P)) + Cardinality(extra) - Cardinality(Bought(b, P) \intersect extra)
    BY <1>9, <1>11, FS_Union
  <2>2. Cardinality(Bought(b, P) \intersect extra) = 0
    BY <1>10, FS_EmptySet
  <2>3. T * held \in Int
    BY <1>11, Heights
  <2> QED
    BY <1>5, <1>9, <1>11, <2>1, <2>2, <2>3
<1>13. Share(c, P) \in Int
  BY <1>1, Heights DEF Share, Rounds
<1> DEFINE s == Share(c, P)
           n == CoinbaseMaturity + TicketMaturity + 2
<1>14. /\ T \in Int /\ s \in Int /\ one \in Int /\ held \in Int /\ kept \in Int /\ got \in Int
       /\ n \in Int /\ s + one + held + kept = n
  BY <1>5, <1>6, <1>11, <1>13, Heights
<1>15. \A i, j, k, l, m \in Int : i * (j + k + l + m) = i * j + i * k + i * l + i * m
  OBVIOUS
<1> HIDE DEF s, n, held, kept, T
<1>16. T * s + (T * one - got) + (T * held + got) + T * kept = T * n
  <2>1. T * (s + one + held + kept) = T * s + T * one + T * held + T * kept
    BY <1>14, <1>15
  <2>2. T * s \in Int /\ T * one \in Int /\ T * held \in Int /\ T * kept \in Int
    BY <1>14
  <2>3. T * (s + one + held + kept) = T * n
    BY <1>14
  <2> QED
    BY <1>14, <2>1, <2>2, <2>3
<1>17. requiredTicketCount = T * n
  <2>1. \A i, j \in Int : i * j = j * i
    OBVIOUS
  <2> QED
    BY <1>14, <2>1 DEF requiredTicketCount, T, n
<1> QED
  BY <1>4, <1>5, <1>8, <1>11, <1>12, <1>16, <1>17 DEF s

\* A coin waits for a block the handler has not finished with.
LEMMA WaitsAhead ==
    ASSUME NEW c, NEW v, Steady(c, v), NEW h \in DOMAIN maturing, maturing[h] # <<>>, h <= height
    PROVE  h \in PendingBlocks
<1>1. /\ c \in Nat /\ height \in Nat /\ Paid(c) \in Nat
      /\ handler = "tickets" => c = Paid(c) + 1 /\ work.height = c
      /\ handler # "tickets" => Paid(c) = c
  BY Places, Where DEF Steady
<1>2. DOMAIN maturing = 1..(MaxHeight + CoinbaseMaturity) /\ IsSeq(maturing[h]) /\ h \in Int
  BY Heights DEF Steady, InHand
<1>3. Paid(c) < h
  <2>1. Len(maturing[h]) # 0
    BY <1>2, WithoutHead
  <2> QED
    BY <1>2, <2>1 DEF Steady, CalmInv, CalmWallet
<1> DEFINE n == Len(blockChan)
<1>4. /\ IsSeq(blockChan) /\ n \in Nat /\ IsSeq(wire)
      /\ \A i \in 1..n : blockChan[i] = c + i /\ blockChan[i] \in ToSet(blockChan)
  BY SetOf DEF Steady, InOrder
<1>5. CASE handler = "tickets" /\ h = c
  BY <1>1, <1>5 DEF PendingBlocks
<1>6. CASE h \in (c + 1)..(c + n)
  <2>1. h - c \in 1..n /\ c + (h - c) = h
    BY <1>1, <1>4, <1>6
  <2>2. h \in ToSet(blockChan)
    BY <1>4, <2>1
  <2> QED
    BY <2>2 DEF PendingBlocks
<1>7. CASE h \in (c + n + 1)..height
  <2>1. PICK i \in 1..Len(wire) : wire[i].kind = "block" /\ wire[i].height = h
    BY <1>7 DEF Steady, InOrder, Queued
  <2>2. DOMAIN wire = 1..Len(wire)
    BY <1>4 DEF IsSeq
  <2>3. wire[i] \in Ntfns("block")
    BY <2>1, <2>2 DEF Ntfns
  <2> QED
    BY <2>1, <2>3 DEF PendingBlocks
<1>8. \/ h = c /\ handler = "tickets"
      \/ h \in (c + 1)..(c + n)
      \/ h \in (c + n + 1)..height
  BY <1>1, <1>2, <1>3, <1>4
<1> QED
  BY <1>5, <1>6, <1>7, <1>8

\* As long as nothing happens that the wallet does not stand every coin Start
\* has funded is a coin to spend, a ticket or a kept vote, once, whatever the
\* order in which handleNotifications serves its channels, and no kept vote
\* waits for a block that was handled already.
THEOREM CoinsConservedCorrect == Spec => []CoinsConserved
<1>1. CalmKept => CoinsConserved
  <2> SUFFICES ASSUME CalmKept, Calm, handler \in {"select", "tickets", "create", "votes"}
               PROVE  /\ Len(coins) + BeingSpent
                           + Cardinality((tickets \ drawn) \union (tickets \intersect PendingWinners))
                           + Cardinality(WaitingCoins) = requiredTicketCount
                      /\ \A h \in DOMAIN maturing :
                            maturing[h] # <<>> => h > height \/ h \in PendingBlocks
    BY DEF CoinsConserved
  <2>1. PICK c, v : Steady(c, v)
    BY DEF CalmKept
  <2>2. height \in Nat /\ DOMAIN maturing \subseteq Int
    BY <2>1, Places, Heights DEF Steady, InHand
  <2>3. ASSUME NEW h \in DOMAIN maturing, maturing[h] # <<>>, ~(h > height)
        PROVE  h \in PendingBlocks
    BY <2>1, <2>2, <2>3, WaitsAhead
  <2> QED
    BY <2>1, <2>3, AllCounted
<1> QED
  BY <1>1, CalmInvariance, PTL

-----------------------------------------------------------------------------
(* Types                                                                   *)

\* What onWinningTickets sends to the handler.
Drawing == [height : 1..MaxHeight, winners : Seq(Ids)]

\* What dcrd writes to the connection.
Messages ==
    [kind : {"block"}, height : 1..MaxHeight]
    \union [kind : {"winning"}, height : 1..MaxHeight, winners : Seq(Ids)]
    \union [kind : {"answer"}, tx : Txs, ok : BOOLEAN]
    \union [kind : {"reply"}, call : {"best", "mined", "met", "unmet"}]

\* What dcrd knows of the chain and keeps in its memory pool.
ChainType ==
    /\ height \in 0..MaxHeight
    /\ poolTickets \subseteq Ids /\ poolVotes \subseteq Ids \X (1..MaxHeight)
    /\ DOMAIN minedAt \subseteq Ids

\* The connection, the channels and the answers.
QueueType ==
    /\ outbox \subseteq Txs /\ wire \in Seq(Messages)
    /\ blockChan \in Seq(1..MaxHeight) /\ winChan \in Seq(Drawing)
    /\ Len(blockChan) <= BufferLen /\ Len(winChan) <= BufferLen
    /\ answers \subseteq [tx : Txs, ok : BOOLEAN]

\* The coins, the tickets and the kept votes.
WalletType ==
    /\ coins \in Seq(Ids) /\ tickets \subseteq Ids
    /\ maturing \in [1..(MaxHeight + CoinbaseMaturity) -> Seq(Ids)]

\* The locals of the handler.
WorkType ==
    /\ handler \in {"unstarted", "select", "tickets", "create", "votes", "exited", "panicked"}
    /\ IsWork(work) /\ work.txs \in Seq(Txs) /\ work.todo \in Seq(Ids)
    /\ work.cap \in 0..TicketsPerBlock /\ work.got \in 0..TicketsPerBlock
    /\ Len(work.txs) <= TicketsPerBlock
    /\ handler \in {"tickets", "create", "votes"} => work.height \in 1..MaxHeight
    /\ errors \subseteq {"coins", "sign", "refused", "stopping"}

\* The limit, the call of GenerateBlocks and the faults.
TestType ==
    /\ limit \in 0..TicketsPerBlock
    /\ gen.at \in {"idle", "best", "mine", "mining", "poll", "polling", "dead"}
    /\ IsGen(gen)
    /\ ctxDone \in BOOLEAN /\ faults \in 0..MaxFaults

TypeInv == ChainType /\ QueueType /\ WalletType /\ WorkType /\ TestType

-----------------------------------------------------------------------------
(* Every step keeps the types.                                             *)

\* The fields of a transaction.
LEMMA TxFields ==
    ASSUME NEW tx \in Txs
    PROVE  /\ tx.id \in Ids
           /\ tx.kind = "ticket" => tx.coin \in Ids
           /\ tx.kind = "vote" => tx.block \in 1..MaxHeight
  BY DEF Txs

\* The fields of a message.
LEMMA MessageFields ==
    ASSUME NEW m \in Messages
    PROVE  /\ m.kind = "block" => m.height \in 1..MaxHeight
           /\ m.kind = "winning" => m.height \in 1..MaxHeight /\ m.winners \in Seq(Ids)
           /\ m.kind = "answer" => m.tx \in Txs /\ m.ok \in BOOLEAN
  BY DEF Messages

\* The first element of a queue is of its type, and so are the others.
LEMMA TypedTail ==
    ASSUME NEW S, NEW s \in Seq(S), s # <<>>
    PROVE  Head(s) \in S /\ Tail(s) \in Seq(S) /\ Len(Tail(s)) = Len(s) - 1
  OBVIOUS

\* The chain grows by a block that was asked for, with tickets bought before.
LEMMA ChainTyped ==
    ASSUME TypeInv, [Next]_vars
    PROVE  ChainType'
<1>1. ASSUME UNCHANGED <<height, minedAt, poolTickets, poolVotes>> PROVE ChainType'
  BY <1>1 DEF TypeInv, ChainType
<1>2. ASSUME NEW replies, Connect(replies) PROVE ChainType'
  <2>1. /\ height' = height + 1 /\ height' <= MaxHeight /\ minedAt' = MinedNext
        /\ poolTickets' = {} /\ poolVotes' = {}
    BY <1>2 DEF Connect
  <2>2. DOMAIN minedAt' = DOMAIN minedAt \union poolTickets
    BY <2>1 DEF MinedNext, Recorded
  <2> QED
    BY <2>1, <2>2, Heights DEF TypeInv, ChainType
<1>3. ASSUME NEW tx \in outbox, AcceptTx(tx) PROVE ChainType'
  <2>1. tx \in Txs
    BY DEF TypeInv, QueueType
  <2>2. UNCHANGED <<height, minedAt>>
    BY <1>3 DEF AcceptTx
  <2>3. poolTickets' \subseteq Ids /\ poolVotes' \subseteq Ids \X (1..MaxHeight)
    BY <1>3, <2>1, TxFields DEF AcceptTx, TypeInv, ChainType
  <2> QED
    BY <2>2, <2>3 DEF TypeInv, ChainType
<1>4. ASSUME NEW tx \in outbox, RefuseTx(tx) PROVE ChainType'
  BY <1>1, <1>4 DEF RefuseTx, dcrdVars
<1>5. CASE DispatcherNext
  BY <1>1, <1>5 DEF DispatcherNext, onBlockConnected, onWinningTickets, DeliverAnswer,
                    GotBestBlock, Mined, Polled, DropReply, dcrdVars
<1>6. CASE HandlerNext
  BY <1>1, <1>6 DEF HandlerNext, handleBlockConnectedNtfn, ReceiveTicket,
                    handleWinningTicketsNtfn, CreateVote, CreateVotePanics, PublishVotes,
                    ReceiveVote, ReceiveStopping, HandlerExit, dcrdVars
<1>7. CASE TestNext
  BY <1>1, <1>2, <1>7 DEF TestNext, Start, GenerateBlocks, Mine, MineFails, Poll, Timeout,
                          Stopping, LimitNbVotes, GenerateOther, Cancel, dcrdVars
<1>8. CASE UNCHANGED vars
  BY <1>1, <1>8 DEF vars, dcrdVars
<1> QED
  BY <1>3, <1>4, <1>5, <1>6, <1>7, <1>8 DEF Next, DcrdNext

\* The test: its call and its limit.
LEMMA TestTyped ==
    ASSUME TypeInv, [Next]_vars
    PROVE  TestType'
<1>1. ASSUME UNCHANGED limit, ctxDone' \in BOOLEAN, faults' \in 0..MaxFaults,
             \/ gen' = gen
             \/ gen' = NoGen
             \/ IsGen(gen') /\ gen'.at \in {"best", "mine", "mining", "poll", "polling", "dead"}
      PROVE  TestType'
  BY <1>1 DEF TypeInv, TestType, NoGen, IsGen
<1>2. faults \in 0..MaxFaults /\ MaxFaults \in Nat /\ (Fault => faults' \in 0..MaxFaults)
  BY VotingWalletAssumption DEF TypeInv, TestType, Fault
<1>3. IsGen(gen) /\ limit \in 0..TicketsPerBlock /\ ctxDone \in BOOLEAN
  BY DEF TypeInv, TestType
<1>4. CASE DcrdNext
  BY <1>1, <1>2, <1>3, <1>4 DEF DcrdNext, AcceptTx, RefuseTx, testVars
<1>5. CASE onBlockConnected \/ onWinningTickets \/ DeliverAnswer \/ DropReply
  BY <1>1, <1>2, <1>3, <1>5
     DEF onBlockConnected, onWinningTickets, DeliverAnswer, DropReply, testVars
<1>6. CASE GotBestBlock
  <2>1. gen' = NoGen \/ (IsGen(gen') /\ gen'.at = "mine")
    BY <1>3, <1>6 DEF GotBestBlock, IsGen
  <2> QED
    BY <1>1, <1>2, <1>3, <1>6, <2>1 DEF GotBestBlock
<1>7. ASSUME NextBlock \/ gen' = [gen EXCEPT !.at = "poll"],
             UNCHANGED <<limit, ctxDone, faults>>
      PROVE  TestType'
  <2>1. gen' = NoGen \/ (IsGen(gen') /\ gen'.at \in {"mine", "poll"})
    BY <1>3, <1>7 DEF NextBlock, IsGen
  <2> QED
    BY <1>1, <1>2, <1>3, <1>7, <2>1
<1>8. CASE Mined \/ Polled
  BY <1>7, <1>8 DEF Mined, Polled
<1>9. ASSUME NEW at \in {"best", "mine", "mining", "poll", "polling"}, Call(at), UNCHANGED faults
      PROVE  TestType'
  <2>1. IsGen(gen') /\ gen'.at = at
    BY <1>3, <1>9 DEF Call, IsGen
  <2> QED
    BY <1>1, <1>2, <1>3, <1>9, <2>1 DEF Call
<1>10. CASE handleBlockConnectedNtfn \/ ReceiveTicket \/ handleWinningTicketsNtfn \/ CreateVote
  BY <1>1, <1>2, <1>3, <1>10
     DEF handleBlockConnectedNtfn, ReceiveTicket, handleWinningTicketsNtfn, CreateVote, testVars
<1>11. CASE PublishVotes \/ ReceiveVote \/ ReceiveStopping \/ HandlerExit
  BY <1>1, <1>2, <1>3, <1>11
     DEF PublishVotes, ReceiveVote, ReceiveStopping, HandlerExit, testVars
<1>12. CASE CreateVotePanics
  <2>1. IsGen(gen') /\ gen'.at = "dead"
    BY <1>12 DEF CreateVotePanics, NoGen, IsGen
  <2> QED
    BY <1>1, <1>2, <1>3, <1>12, <2>1 DEF CreateVotePanics
<1>13. CASE Start \/ MineFails \/ Timeout \/ Stopping \/ GenerateOther
  BY <1>1, <1>2, <1>3, <1>13
     DEF Start, MineFails, Timeout, Stopping, GenerateOther, testVars
<1>14. CASE GenerateBlocks
  <2>1. IsGen(gen') /\ gen'.at = "best"
    BY <1>14 DEF GenerateBlocks, NoGen, IsGen
  <2> QED
    BY <1>1, <1>2, <1>3, <1>14, <2>1 DEF GenerateBlocks
<1>15. CASE Mine \/ Poll
  BY <1>9, <1>15 DEF Mine, Poll
<1>16. ASSUME NEW n \in 0..TicketsPerBlock, LimitNbVotes(n) PROVE TestType'
  BY <1>16 DEF LimitNbVotes, TypeInv, TestType, IsGen
<1>17. CASE Cancel
  BY <1>1, <1>2, <1>3, <1>17 DEF Cancel
<1>18. CASE UNCHANGED vars
  BY <1>1, <1>2, <1>3, <1>18 DEF vars, testVars
<1> QED
  BY <1>4, <1>5, <1>6, <1>8, <1>10, <1>11, <1>12, <1>13, <1>14, <1>15, <1>16, <1>17, <1>18
     DEF Next, DispatcherNext, HandlerNext, TestNext

\* A round of coins is no more than all of them.
LEMMA RoundFits == TicketsPerBlock <= requiredTicketCount /\ requiredTicketCount \in Nat
<1> DEFINE k == CoinbaseMaturity + TicketMaturity + 2
<1>1. k \in Nat /\ k >= 1
  BY Heights
<1>2. requiredTicketCount = k * TicketsPerBlock
  BY DEF requiredTicketCount
<1> HIDE DEF k
<1>3. \A a, b \in Nat : a >= 1 => b <= a * b /\ a * b \in Nat
  OBVIOUS
<1> QED
  BY <1>1, <1>2, <1>3, Heights

\* A round of coins taken off the end, and the tickets made of them.
LEMMA TicketsTyped ==
    ASSUME NEW s \in Seq(Ids), NEW n \in Nat, n <= requiredTicketCount, Len(s) >= n,
           NEW h \in 1..MaxHeight
    PROVE  LET rest == Len(s) - n
               taken == SubSeq(s, rest + 1, Len(s))
           IN /\ SubSeq(s, 1, rest) \in Seq(Ids)
              /\ TicketTxs(h, taken) \in Seq(Txs) /\ Len(TicketTxs(h, taken)) = n
<1> DEFINE rest == Len(s) - n
           taken == SubSeq(s, rest + 1, Len(s))
           txs == TicketTxs(h, taken)
<1>1. Len(s) \in Nat /\ rest \in 0..Len(s)
  OBVIOUS
<1>2. SubSeq(s, 1, rest) \in Seq(Ids)
  <2> HIDE DEF rest
  <2> QED
    BY <1>1, SubSeqProperties
<1>3. taken \in Seq(Ids) /\ Len(taken) = n
  <2>1. rest + 1 \in 1..(Len(s) + 1) /\ Len(s) - (rest + 1) + 1 = n
    BY <1>1
  <2> HIDE DEF rest
  <2> QED
    BY <1>1, <2>1, SubSeqProperties
<1> HIDE DEF taken
<1>4. ASSUME NEW i \in 1..n
      PROVE  [kind |-> "ticket", id |-> <<h, i>>, coin |-> taken[i]] \in Txs
  <2>1. <<h, i>> \in Ids
    BY Heights, RoundFits DEF Ids
  <2>2. taken[i] \in Ids
    BY <1>3
  <2> QED
    BY <2>1, <2>2 DEF Txs
<1>5. txs = [i \in 1..n |-> [kind |-> "ticket", id |-> <<h, i>>, coin |-> taken[i]]]
  BY <1>3 DEF TicketTxs
<1>6. txs \in [1..n -> Txs]
  BY <1>4, <1>5
<1>7. txs \in Seq(Txs) /\ Len(txs) = n
  <2> HIDE DEF txs
  <2> QED
    BY <1>6
<1> QED
  BY <1>2, <1>7 DEF taken

\* The handler's locals.
LEMMA WorkTyped ==
    ASSUME TypeInv, [Next]_vars
    PROVE  WorkType'
<1>1. ASSUME UNCHANGED <<work, errors>>,
             \/ handler' = handler
             \/ handler' \in {"select", "exited", "panicked"}
      PROVE  WorkType'
  BY <1>1 DEF TypeInv, WorkType, IsWork
<1>2. ASSUME NEW errs \in SUBSET {"coins", "sign", "refused", "stopping"}, Return(errs)
      PROVE  WorkType'
  <2>1. work' = NoWork /\ handler' = "select" /\ errors' = errors \union errs
    BY <1>2 DEF Return
  <2>2. /\ IsWork(NoWork) /\ NoWork.txs = <<>> /\ NoWork.todo = <<>>
        /\ NoWork.cap = 0 /\ NoWork.got = 0
    BY DEF NoWork, IsWork
  <2>3. <<>> \in Seq(Txs) /\ <<>> \in Seq(Ids) /\ Len(<<>>) = 0 /\ 0 \in 0..TicketsPerBlock
    BY Heights
  <2>4. errors' \subseteq {"coins", "sign", "refused", "stopping"}
    BY <2>1 DEF TypeInv, WorkType
  <2> QED
    BY <2>1, <2>2, <2>3, <2>4, Heights DEF WorkType, IsWork
<1>3. WorkType /\ IsWork(work) /\ TicketsPerBlock \in Nat
  BY Heights DEF TypeInv, WorkType
<1>4. ASSUME NEW h \in 0..MaxHeight, NEW txs \in Seq(Txs), NEW got \in 0..TicketsPerBlock,
             NEW todo \in Seq(Ids), NEW cap \in 0..TicketsPerBlock,
             Len(txs) <= TicketsPerBlock,
             work' = [height |-> h, txs |-> txs, got |-> got, todo |-> todo, cap |-> cap],
             handler' \in {"select", "tickets", "create", "votes"},
             handler' # "select" => h \in 1..MaxHeight, errors' = errors
      PROVE  WorkType'
  <2>1. IsWork(work)'
    BY <1>4 DEF IsWork
  <2> QED
    BY <1>3, <1>4, <2>1 DEF WorkType
<1>5. CASE handleBlockConnectedNtfn
  <2> DEFINE h == Head(blockChan)
             taken == SubSeq(coins, Len(coins) - TicketsPerBlock + 1, Len(coins))
             txs == TicketTxs(h, taken)
  <2>1. h \in 1..MaxHeight
    BY <1>5, TypedTail DEF handleBlockConnectedNtfn, TypeInv, QueueType
  <2>2. CASE UNCHANGED <<handler, work, errors>>
    BY <1>1, <2>2
  <2>3. CASE Return({"coins"}) \/ Return({"sign"})
    BY <1>2, <2>3
  <2>4. CASE /\ Len(coins) >= TicketsPerBlock
             /\ Publish("tickets", [NoWork EXCEPT !.height = h, !.txs = txs])
    <3>1. txs \in Seq(Txs) /\ Len(txs) = TicketsPerBlock
      <4>1. coins \in Seq(Ids)
        BY DEF TypeInv, WalletType
      <4> HIDE DEF h
      <4> QED
        BY <1>3, <2>1, <2>4, <4>1, RoundFits, TicketsTyped
    <3> HIDE DEF h, txs
    <3>2. /\ work' = [height |-> h, txs |-> txs, got |-> 0, todo |-> <<>>, cap |-> 0]
          /\ handler' = "tickets" /\ errors' = errors
      BY <2>4 DEF Publish, NoWork
    <3>3. <<>> \in Seq(Ids) /\ 0 \in 0..TicketsPerBlock /\ h \in 0..MaxHeight
      BY <1>3, <2>1
    <3>4. /\ IsWork(work)' /\ work'.height = h /\ work'.txs = txs /\ work'.got = 0
          /\ work'.todo = <<>> /\ work'.cap = 0
      BY <3>2 DEF IsWork
    <3> QED
      BY <1>3, <2>1, <3>1, <3>2, <3>3, <3>4 DEF WorkType
  <2> QED
    BY <1>5, <2>2, <2>3, <2>4 DEF handleBlockConnectedNtfn
<1>6. ASSUME handler \in {"tickets", "votes"}, work.got + 1 < Len(work.txs),
             work' = [work EXCEPT !.got = @ + 1], UNCHANGED <<handler, errors>>
      PROVE  WorkType'
  <2>1. work' = [height |-> work.height, txs |-> work.txs, got |-> work.got + 1,
                 todo |-> work.todo, cap |-> work.cap]
    BY <1>3, <1>6 DEF IsWork
  <2>2. Len(work.txs) \in Nat /\ work.got + 1 \in 0..TicketsPerBlock
    BY <1>3, <1>6 DEF WorkType
  <2>3. work.height \in 1..MaxHeight /\ work.height \in 0..MaxHeight
    BY <1>3, <1>6 DEF WorkType
  <2> QED
    BY <1>3, <1>4, <1>6, <2>1, <2>2, <2>3 DEF WorkType
<1>7. CASE ReceiveTicket \/ ReceiveVote
  BY <1>2, <1>6, <1>7 DEF ReceiveTicket, ReceiveVote
<1>8. CASE handleWinningTicketsNtfn
  <2> DEFINE m == Head(winChan)
  <2>1. m.height \in 1..MaxHeight /\ m.winners \in Seq(Ids)
    <3>1. winChan \in Seq(Drawing) /\ winChan # <<>>
      BY <1>8 DEF handleWinningTicketsNtfn, TypeInv, QueueType
    <3>2. m \in Drawing
      BY <3>1, TypedTail
    <3> QED
      BY <3>2 DEF Drawing
  <2>2. limit \in 0..TicketsPerBlock
    BY DEF TypeInv, TestType
  <2> HIDE DEF m
  <2>3. CASE Return({"sign"})
    BY <1>2, <2>3
  <2>4. CASE /\ work' = [NoWork EXCEPT !.height = m.height, !.todo = m.winners, !.cap = limit]
             /\ handler' = "create" /\ errors' = errors
    <3>1. work' = [height |-> m.height, txs |-> <<>>, got |-> 0, todo |-> m.winners,
                   cap |-> limit]
      BY <2>4 DEF NoWork
    <3>2. /\ <<>> \in Seq(Txs) /\ Len(<<>>) = 0 /\ 0 \in 0..TicketsPerBlock
          /\ m.height \in 0..MaxHeight
      BY <1>3, <2>1
    <3>3. /\ IsWork(work)' /\ work'.height = m.height /\ work'.txs = <<>> /\ work'.got = 0
          /\ work'.todo = m.winners /\ work'.cap = limit
      BY <3>1 DEF IsWork
    <3>4. handler' = "create" /\ errors' = errors
      BY <2>4
    <3> QED
      BY <1>3, <2>1, <2>2, <3>2, <3>3, <3>4 DEF WorkType
  <2> QED
    BY <1>8, <2>3, <2>4 DEF handleWinningTicketsNtfn, m
<1>9. CASE CreateVote
  <2> DEFINE made == Append(work.txs, VoteTx(Head(work.todo)))
  <2>1. /\ handler = "create" /\ work.todo # <<>> /\ work.height \in 1..MaxHeight
        /\ work.height \in 0..MaxHeight
    BY <1>3, <1>9 DEF CreateVote, WorkType
  <2>2. Head(work.todo) \in Ids /\ Tail(work.todo) \in Seq(Ids) /\ <<>> \in Seq(Ids)
    BY <1>3, <2>1, TypedTail DEF WorkType
  <2>3. VoteTx(Head(work.todo)) \in Txs
    BY <2>1, <2>2 DEF VoteTx, Txs
  <2>4. made \in Seq(Txs) /\ Len(made) = Len(work.txs) + 1 /\ Len(work.txs) \in Nat
    BY <1>3, <2>3 DEF WorkType
  <2>5. CASE work' = [work EXCEPT !.todo = Tail(@)] /\ UNCHANGED <<handler, errors>>
    <3>1. work' = [height |-> work.height, txs |-> work.txs, got |-> work.got,
                   todo |-> Tail(work.todo), cap |-> work.cap]
      BY <1>3, <2>5 DEF IsWork
    <3> QED
      BY <1>3, <1>4, <2>1, <2>2, <2>5, <3>1 DEF WorkType
  <2>6. CASE /\ work' = [work EXCEPT !.txs = made,
                                     !.todo = IF Len(made) >= limit THEN <<>> ELSE Tail(@)]
             /\ Len(work.txs) < work.cap /\ UNCHANGED <<handler, errors>>
    <3> HIDE DEF made
    <3>1. PICK todo \in Seq(Ids) :
             work' = [height |-> work.height, txs |-> made, got |-> work.got,
                      todo |-> todo, cap |-> work.cap]
      BY <1>3, <2>2, <2>6 DEF IsWork
    <3>2. Len(made) <= TicketsPerBlock
      BY <1>3, <2>4, <2>6 DEF WorkType
    <3> QED
      BY <1>3, <1>4, <2>1, <2>4, <2>6, <3>1, <3>2 DEF WorkType
  <2>7. CASE Return({"sign"})
    BY <1>2, <2>7
  <2> QED
    BY <1>9, <2>5, <2>6, <2>7 DEF CreateVote
<1>10. CASE CreateVotePanics \/ HandlerExit
  BY <1>1, <1>10 DEF CreateVotePanics, HandlerExit
<1>11. CASE PublishVotes
  <2>1. CASE Return({})
    BY <1>2, <2>1
  <2>2. CASE Publish("votes", work) /\ handler = "create"
    BY <1>3, <2>2 DEF Publish, WorkType, IsWork
  <2> QED
    BY <1>11, <2>1, <2>2 DEF PublishVotes
<1>12. CASE ReceiveStopping
  BY <1>2, <1>12 DEF ReceiveStopping
<1>13. CASE DcrdNext \/ DispatcherNext
  BY <1>1, <1>13
     DEF DcrdNext, AcceptTx, RefuseTx, DispatcherNext, onBlockConnected, onWinningTickets,
         DeliverAnswer, GotBestBlock, Mined, Polled, DropReply, nonTestVars
<1>14. CASE TestNext
  BY <1>1, <1>14
     DEF TestNext, Start, GenerateBlocks, Mine, MineFails, Poll, Timeout, Stopping,
         LimitNbVotes, GenerateOther, Cancel, nonTestVars
<1>15. CASE UNCHANGED vars
  BY <1>1, <1>15 DEF vars
<1> QED
  BY <1>5, <1>7, <1>8, <1>9, <1>10, <1>11, <1>12, <1>13, <1>14, <1>15 DEF Next, HandlerNext

\* The ids of a sequence of transactions.
LEMMA IdsOf ==
    ASSUME NEW txs \in Seq(Txs)
    PROVE  [i \in DOMAIN txs |-> txs[i].id] \in Seq(Ids)
<1>1. Len(txs) \in Nat /\ DOMAIN txs = 1..Len(txs) /\ \A i \in 1..Len(txs) : txs[i] \in Txs
  OBVIOUS
<1>2. [i \in DOMAIN txs |-> txs[i].id] \in [1..Len(txs) -> Ids]
  BY <1>1, TxFields
<1> DEFINE ids == [i \in DOMAIN txs |-> txs[i].id]
<1> HIDE DEF ids
<1> QED
  BY <1>1, <1>2 DEF ids

\* The coins, the tickets and the kept votes.
LEMMA WalletTyped ==
    ASSUME TypeInv, [Next]_vars
    PROVE  WalletType'
<1> DEFINE D == 1..(MaxHeight + CoinbaseMaturity)
<1>1. WalletType /\ WorkType
  BY DEF TypeInv
<1>2. ASSUME UNCHANGED walletVars PROVE WalletType'
  BY <1>1, <1>2 DEF WalletType, walletVars
<1>3. CASE Start
  <2> DEFINE s == [i \in 1..requiredTicketCount |-> <<0, i>>]
  <2>1. requiredTicketCount \in Nat
    BY RoundFits
  <2>2. s \in [1..requiredTicketCount -> Ids]
    BY <2>1, Heights DEF Ids
  <2> HIDE DEF s
  <2>3. s \in Seq(Ids)
    BY <2>1, <2>2
  <2> QED
    BY <1>1, <1>3, <2>3 DEF Start, WalletType, s
<1>4. CASE handleBlockConnectedNtfn
  <2>1. UNCHANGED <<tickets, maturing>>
    BY <1>4 DEF handleBlockConnectedNtfn
  <2>2. CASE coins' = coins
    BY <1>1, <2>1, <2>2 DEF WalletType
  <2>3. CASE /\ Len(coins) >= TicketsPerBlock
             /\ coins' = SubSeq(coins, 1, Len(coins) - TicketsPerBlock)
    <3> DEFINE rest == Len(coins) - TicketsPerBlock
    <3>1. coins \in Seq(Ids) /\ Len(coins) \in Nat /\ rest \in 0..Len(coins)
      BY <1>1, <2>3, Heights DEF WalletType
    <3>2. coins' = SubSeq(coins, 1, rest)
      BY <2>3
    <3> HIDE DEF rest
    <3>3. coins' \in Seq(Ids)
      BY <3>1, <3>2, SubSeqProperties
    <3> QED
      BY <1>1, <2>1, <3>3 DEF WalletType
  <2> QED
    BY <1>4, <2>2, <2>3 DEF handleBlockConnectedNtfn
<1>5. CASE ReceiveTicket
  <2>1. PICK a \in answers :
          \/ /\ a.ok /\ tickets' = tickets \union {a.tx.id}
             /\ UNCHANGED <<coins, maturing>> \/ ReleaseMaturing(work.height)
          \/ UNCHANGED walletVars
    BY <1>5 DEF ReceiveTicket, NextAnswer
  <2>2. a.tx \in Txs
    BY DEF TypeInv, QueueType
  <2>3. tickets' \subseteq Ids
    BY <1>1, <2>1, <2>2, TxFields DEF WalletType, walletVars
  <2>4. work.height \in D
    BY <1>1, <1>5, Heights DEF ReceiveTicket, WorkType
  <2>5. ASSUME ReleaseMaturing(work.height) PROVE coins' \in Seq(Ids) /\ maturing' \in [D -> Seq(Ids)]
    <3>1. maturing[work.height] \in Seq(Ids) /\ <<>> \in Seq(Ids)
      BY <1>1, <2>4 DEF WalletType
    <3>2. coins' \in Seq(Ids)
      BY <1>1, <2>5, <3>1 DEF ReleaseMaturing, WalletType
    <3>3. maturing' \in [D -> Seq(Ids)]
      BY <1>1, <2>4, <2>5, <3>1 DEF ReleaseMaturing, WalletType
    <3> QED
      BY <3>2, <3>3
  <2> QED
    BY <1>1, <2>1, <2>3, <2>5 DEF WalletType, walletVars
<1>6. ASSUME UNCHANGED <<coins, tickets>>, work.height \in 1..MaxHeight,
             maturing' = maturing \/ (\E txs \in Seq(Txs) : KeepReturns(work.height, txs))
      PROVE  WalletType'
  <2>1. work.height + CoinbaseMaturity \in D
    BY <1>6, Heights
  <2>2. maturing' \in [D -> Seq(Ids)]
    BY <1>1, <1>6, <2>1, IdsOf DEF KeepReturns, WalletType
  <2> QED
    BY <1>1, <1>6, <2>2 DEF WalletType
<1>7. CASE PublishVotes \/ ReceiveVote
  <2>1. work.height \in 1..MaxHeight /\ work.txs \in Seq(Txs) /\ <<>> \in Seq(Txs)
    BY <1>1, <1>7 DEF PublishVotes, ReceiveVote, WorkType
  <2> QED
    BY <1>6, <1>7, <2>1 DEF PublishVotes, ReceiveVote
<1>8. CASE handleWinningTicketsNtfn \/ CreateVote \/ CreateVotePanics \/ ReceiveStopping \/ HandlerExit
  BY <1>2, <1>8
     DEF handleWinningTicketsNtfn, CreateVote, CreateVotePanics, ReceiveStopping, HandlerExit
<1>9. CASE DcrdNext \/ DispatcherNext
  BY <1>2, <1>9
     DEF DcrdNext, AcceptTx, RefuseTx, DispatcherNext, onBlockConnected, onWinningTickets,
         DeliverAnswer, GotBestBlock, Mined, Polled, DropReply, nonTestVars
<1>10. CASE TestNext /\ ~Start
  BY <1>2, <1>10
     DEF TestNext, GenerateBlocks, Mine, MineFails, Poll, Timeout, Stopping,
         LimitNbVotes, GenerateOther, Cancel, nonTestVars
<1>11. CASE UNCHANGED vars
  BY <1>2, <1>11 DEF vars
<1> QED
  BY <1>3, <1>4, <1>5, <1>7, <1>8, <1>9, <1>10, <1>11 DEF Next, HandlerNext, TestNext

\* The notifications of a block.
LEMMA NtfnsTyped ==
    ASSUME TypeInv, height + 1 <= MaxHeight, NEW winners \in Lottery(height + 1),
           NEW ntfns \in BlockNtfns(height + 1, winners)
    PROVE  winners \in Seq(Ids) /\ ntfns \in Seq(Messages)
<1>1. height + 1 \in 1..MaxHeight /\ height + 1 \in Nat
  BY Heights DEF TypeInv, ChainType
<1>2. Live(MinedNext, height + 1) \subseteq Ids
  BY DEF Live, MinedNext, Recorded, TypeInv, ChainType
<1>3. winners \in Seq(Ids)
  <2>1. CASE winners = <<>>
    BY <2>1
  <2>2. CASE winners \in [1..TicketsPerBlock -> Live(MinedNext, height + 1)]
    BY <1>2, <2>2, Heights
  <2> QED
    BY <1>1, <2>1, <2>2, WinnersOfBlock
<1>4. BlockNtfn(height + 1) \in Messages /\ WinningNtfn(height + 1, winners) \in Messages
  BY <1>1, <1>3 DEF BlockNtfn, WinningNtfn, Messages
<1>5. \A e, f \in Messages : <<e>> \in Seq(Messages) /\ <<e, f>> \in Seq(Messages)
  OBVIOUS
<1> QED
  BY <1>3, <1>4, <1>5 DEF BlockNtfns

\* The connection and the channels.
LEMMA QueueTyped ==
    ASSUME TypeInv, [Next]_vars
    PROVE  QueueType'
<1>1. QueueType /\ WorkType
  BY DEF TypeInv
<1>2. ASSUME outbox' \subseteq Txs, wire' \in Seq(Messages), UNCHANGED chanVars,
             answers' \subseteq [tx : Txs, ok : BOOLEAN]
      PROVE  QueueType'
  BY <1>1, <1>2 DEF QueueType, chanVars
<1>3. ASSUME NEW m \in Messages, wire' = Append(wire, m), outbox' \subseteq outbox,
             UNCHANGED <<chanVars, answers>>
      PROVE  QueueType'
  BY <1>1, <1>2, <1>3 DEF QueueType
<1>4. ASSUME wire # <<>>, wire' = Tail(wire), UNCHANGED <<outbox, chanVars>>,
             answers' \subseteq [tx : Txs, ok : BOOLEAN]
      PROVE  QueueType'
  BY <1>1, <1>2, <1>4, TypedTail DEF QueueType
<1>5. ASSUME NEW tx \in outbox, NEW ok \in BOOLEAN PROVE Answer(tx, ok) \in Messages
  BY <1>1, <1>5 DEF Answer, Messages, QueueType
<1>6. CASE DcrdNext
  BY <1>3, <1>5, <1>6 DEF DcrdNext, AcceptTx, RefuseTx
<1>7. CASE onBlockConnected
  <2>1. Head(wire) \in Messages /\ Tail(wire) \in Seq(Messages)
    BY <1>1, <1>7, TypedTail DEF onBlockConnected, QueueType
  <2>2. Head(wire).height \in 1..MaxHeight
    BY <1>7, <2>1, MessageFields DEF onBlockConnected
  <2>3. blockChan' \in Seq(1..MaxHeight) /\ Len(blockChan') <= BufferLen
    BY <1>1, <1>7, <2>2, Heights DEF onBlockConnected, Room, QueueType
  <2> QED
    BY <1>1, <1>7, <2>1, <2>3 DEF onBlockConnected, QueueType
<1>8. CASE onWinningTickets
  <2> DEFINE m == [height |-> Head(wire).height, winners |-> Head(wire).winners]
  <2>1. Head(wire) \in Messages /\ Tail(wire) \in Seq(Messages)
    BY <1>1, <1>8, TypedTail DEF onWinningTickets, QueueType
  <2>2. m \in Drawing
    BY <1>8, <2>1, MessageFields DEF onWinningTickets, Drawing
  <2> HIDE DEF m
  <2>3. winChan' \in Seq(Drawing) /\ Len(winChan') <= BufferLen
    BY <1>1, <1>8, <2>2, Heights DEF onWinningTickets, Room, QueueType, m
  <2> QED
    BY <1>1, <1>8, <2>1, <2>3 DEF onWinningTickets, QueueType
<1>9. CASE DeliverAnswer
  <2>1. Head(wire) \in Messages
    BY <1>1, <1>9, TypedTail DEF DeliverAnswer, QueueType
  <2>2. [tx |-> Head(wire).tx, ok |-> Head(wire).ok] \in [tx : Txs, ok : BOOLEAN]
    BY <1>9, <2>1, MessageFields DEF DeliverAnswer
  <2>3. answers' \subseteq [tx : Txs, ok : BOOLEAN]
    BY <1>1, <1>9, <2>2 DEF DeliverAnswer, QueueType
  <2> QED
    BY <1>4, <1>9, <2>3 DEF DeliverAnswer
<1>10. CASE GotBestBlock \/ Mined \/ Polled \/ DropReply
  <2>1. answers' = answers /\ answers \subseteq [tx : Txs, ok : BOOLEAN]
    BY <1>1, <1>10 DEF GotBestBlock, Mined, Polled, DropReply, nonTestVars, QueueType
  <2> QED
    BY <1>4, <1>10, <2>1 DEF GotBestBlock, Mined, Polled, DropReply, nonTestVars, chanVars
<1>11. ASSUME NEW replies \in Seq(Messages), Connect(replies), UNCHANGED <<outbox, chanVars, answers>>
       PROVE  QueueType'
  <2>1. height + 1 <= MaxHeight
    BY <1>11 DEF Connect
  <2>2. PICK winners \in Lottery(height + 1) : \E ntfns \in BlockNtfns(height + 1, winners) :
          wire' \in {wire \o ntfns \o replies, wire \o replies \o ntfns}
    BY <1>11 DEF Connect
  <2>3. PICK ntfns \in BlockNtfns(height + 1, winners) :
          wire' \in {wire \o ntfns \o replies, wire \o replies \o ntfns}
    BY <2>2
  <2>4. ntfns \in Seq(Messages) /\ wire \in Seq(Messages)
    BY <1>1, <2>1, NtfnsTyped DEF QueueType
  <2>5. \A r, s, t \in Seq(Messages) : r \o s \o t \in Seq(Messages)
    OBVIOUS
  <2>6. wire' \in Seq(Messages)
    BY <1>11, <2>3, <2>4, <2>5
  <2> QED
    BY <1>1, <1>2, <1>11, <2>6 DEF QueueType
<1>12. \A call \in {"best", "mined", "met", "unmet"} : Reply(call) \in Messages
  BY DEF Reply, Messages
<1>13. CASE Mine \/ GenerateOther
  <2>1. <<>> \in Seq(Messages) /\ <<Reply("mined")>> \in Seq(Messages)
    BY <1>12
  <2> QED
    BY <1>11, <1>13, <2>1 DEF Mine, GenerateOther, nonTestVars
<1>14. CASE GenerateBlocks \/ Poll
  BY <1>3, <1>12, <1>14 DEF GenerateBlocks, Poll, nonTestVars
<1>15. ASSUME UNCHANGED <<outbox, wire, blockChan, winChan, answers>> PROVE QueueType'
  BY <1>1, <1>15 DEF QueueType
<1>16. CASE Start \/ MineFails \/ Timeout \/ Stopping \/ Cancel
             \/ (\E n \in 0..TicketsPerBlock : LimitNbVotes(n))
  BY <1>15, <1>16
     DEF Start, MineFails, Timeout, Stopping, LimitNbVotes, Cancel, nonTestVars, chanVars
<1>17. ASSUME outbox' = outbox \/ outbox' = outbox \union ToSet(work'.txs),
              WorkType', UNCHANGED wire, answers' \in {{}, answers},
              /\ blockChan' = blockChan \/ (blockChan # <<>> /\ blockChan' = Tail(blockChan))
              /\ winChan' = winChan \/ (winChan # <<>> /\ winChan' = Tail(winChan))
       PROVE  QueueType'
  <2>1. outbox' \subseteq Txs
    BY <1>1, <1>17 DEF QueueType, WorkType, ToSet
  <2>2. \A S : \A s \in Seq(S) :
          s # <<>> /\ Len(s) <= BufferLen => Tail(s) \in Seq(S) /\ Len(Tail(s)) <= BufferLen
    <3> SUFFICES ASSUME NEW S, NEW s \in Seq(S), s # <<>>, Len(s) <= BufferLen
                 PROVE  Tail(s) \in Seq(S) /\ Len(Tail(s)) <= BufferLen
      OBVIOUS
    <3>1. Len(s) \in Nat
      OBVIOUS
    <3> QED
      BY <3>1, TypedTail, Heights
  <2>3. blockChan' \in Seq(1..MaxHeight) /\ Len(blockChan') <= BufferLen
    BY <1>1, <1>17, <2>2 DEF QueueType
  <2>4. winChan' \in Seq(Drawing) /\ Len(winChan') <= BufferLen
    BY <1>1, <1>17, <2>2 DEF QueueType
  <2> QED
    BY <1>1, <1>17, <2>1, <2>3, <2>4 DEF QueueType
<1>18. CASE HandlerNext /\ ~CreateVotePanics
  <2>1. WorkType'
    BY WorkTyped
  <2> QED
    BY <1>17, <1>18, <2>1
       DEF HandlerNext, handleBlockConnectedNtfn, ReceiveTicket, handleWinningTicketsNtfn,
           CreateVote, PublishVotes, ReceiveVote, ReceiveStopping, HandlerExit, Publish,
           Return, chanVars
<1>19. CASE CreateVotePanics
  BY <1>1, <1>2, <1>19 DEF CreateVotePanics, QueueType
<1>20. CASE UNCHANGED vars
  BY <1>15, <1>20 DEF vars, chanVars
<1> QED
  BY <1>6, <1>7, <1>8, <1>9, <1>10, <1>13, <1>14, <1>16, <1>18, <1>19, <1>20
     DEF Next, DispatcherNext, HandlerNext, TestNext

-----------------------------------------------------------------------------
(* Whose votes are sent.                                                   *)

\* The votes are of tickets that won a block.
VotesWon(txs) == \A tx \in txs : tx.kind = "vote" => tx.id \in drawn

\* Only tickets that were mined win, and only winners vote, from the drawing to
\* the block that has the vote.
WonInv ==
    /\ drawn \subseteq DOMAIN minedAt /\ DOMAIN votedAt \subseteq drawn
    /\ \A v \in poolVotes : v[1] \in drawn
    /\ VotesWon(outbox) /\ VotesWon(ToSet(work.txs))
    /\ \A m \in ToSet(wire) : m.kind = "winning" => ToSet(m.winners) \subseteq drawn
    /\ \A m \in ToSet(winChan) : ToSet(m.winners) \subseteq drawn
    /\ ToSet(work.todo) \subseteq drawn

\* A step that adds only winners, and votes of winners.
LEMMA WonMore ==
    ASSUME WonInv, drawn \subseteq drawn',
           drawn' \subseteq DOMAIN minedAt', DOMAIN votedAt' \subseteq drawn',
           \A v \in poolVotes' : v[1] \in drawn',
           \A tx \in outbox' : tx \in outbox \/ tx \in ToSet(work'.txs),
           \A tx \in ToSet(work'.txs) :
              tx \in ToSet(work.txs) \/ tx.kind # "vote" \/ tx.id \in drawn',
           \A m \in ToSet(wire') :
              m \in ToSet(wire) \/ m.kind # "winning" \/ ToSet(m.winners) \subseteq drawn',
           \A m \in ToSet(winChan') : m \in ToSet(winChan) \/ ToSet(m.winners) \subseteq drawn',
           \A t \in ToSet(work'.todo) : t \in ToSet(work.todo) \/ t \in drawn'
    PROVE  WonInv'
  BY DEF WonInv, VotesWon

\* A step that leaves the chain alone.
LEMMA WonSame ==
    ASSUME WonInv, UNCHANGED <<drawn, minedAt, votedAt, poolVotes, outbox, work>>,
           \A m \in ToSet(wire') : m \in ToSet(wire) \/ m.kind # "winning",
           \A m \in ToSet(winChan') : m \in ToSet(winChan)
    PROVE  WonInv'
  BY DEF WonInv, VotesWon

\* The queues and the handler's sequences are sequences.
LEMMA TypedSeqs ==
    ASSUME TypeInv
    PROVE  /\ IsSeq(wire) /\ IsSeq(winChan) /\ IsSeq(work.todo) /\ IsSeq(work.txs)
           /\ IsWork(work) /\ height \in Nat
  BY Heights DEF TypeInv, QueueType, WorkType, ChainType, IsSeq

\* dcrd connects a block: its winners were mined, and so were the votes of the
\* last drawing (Connect).
LEMMA WonConnect ==
    ASSUME TypeInv, WonInv, NEW replies, IsSeq(replies),
           \A m \in ToSet(replies) : m.kind = "reply", Connect(replies),
           UNCHANGED <<outbox, winChan, work>>
    PROVE  WonInv'
<1>1. height \in Nat /\ height + 1 \in Nat /\ IsSeq(wire)
  BY TypedSeqs
<1>2. PICK winners, ntfns :
        /\ winners \in Lottery(height + 1) /\ ntfns \in BlockNtfns(height + 1, winners)
        /\ drawn' = drawn \union ToSet(winners)
        /\ wire' \in {wire \o ntfns \o replies, wire \o replies \o ntfns}
  BY DEF Connect
<1>3. DOMAIN minedAt' = DOMAIN minedAt \union poolTickets
  BY DEF Connect, MinedNext, Recorded
<1>4. ToSet(winners) \subseteq DOMAIN minedAt'
  <2>1. CASE winners = <<>>
    BY <2>1 DEF ToSet
  <2>2. CASE winners \in [1..TicketsPerBlock -> Live(MinedNext, height + 1)]
    <3>1. ToSet(winners) \subseteq Live(MinedNext, height + 1)
      BY <2>2 DEF ToSet
    <3>2. minedAt' = MinedNext
      BY DEF Connect
    <3> QED
      BY <3>1, <3>2 DEF Live
  <2> QED
    BY <1>1, <1>2, <2>1, <2>2, WinnersOfBlock
<1>5. DOMAIN votedAt' \subseteq drawn
  <2>1. DOMAIN votedAt' = DOMAIN votedAt \union {v[1] : v \in {w \in poolVotes : w[2] = height}}
    BY DEF Connect, Recorded
  <2> QED
    BY <2>1 DEF WonInv
<1>6. /\ IsSeq(ntfns) /\ \A m \in ToSet(ntfns) : m.kind = "winning" => m.winners = winners
  <2>1. /\ IsSeq(ntfns)
        /\ \A i \in 1..Len(ntfns) :
              ntfns[i].kind = "winning" => ntfns[i] = WinningNtfn(height + 1, winners)
    <3>1. height \in Nat /\ ntfns \in BlockNtfns(height + 1, winners)
      BY <1>1, <1>2
    <3> QED
      BY <3>1, BlockWritten
  <2>2. ToSet(ntfns) = {ntfns[i] : i \in 1..Len(ntfns)}
    BY <2>1, SetOf
  <2> QED
    BY <2>1, <2>2 DEF WinningNtfn
<1>7. ToSet(wire') \subseteq ToSet(wire) \union ToSet(ntfns) \union ToSet(replies)
  <2>1. /\ ToSet(wire \o ntfns \o replies) = ToSet(wire) \union ToSet(ntfns) \union ToSet(replies)
        /\ ToSet(wire \o replies \o ntfns) = ToSet(wire) \union ToSet(replies) \union ToSet(ntfns)
    BY <1>1, <1>6, Concat, SetOfConcat
  <2> QED
    BY <1>2, <2>1
<1>8. \A m \in ToSet(wire') :
         m \in ToSet(wire) \/ m.kind # "winning" \/ ToSet(m.winners) \subseteq drawn'
  BY <1>2, <1>6, <1>7
<1>9. drawn \subseteq drawn' /\ drawn' \subseteq DOMAIN minedAt'
  BY <1>2, <1>3, <1>4 DEF WonInv
<1>10. poolVotes' = {}
  BY DEF Connect
<1> QED
  BY <1>5, <1>8, <1>9, <1>10, WonMore

\* The handler's steps (handleBlockConnectedNtfn, handleWinningTicketsNtfn).
LEMMA WonHandler ==
    ASSUME TypeInv, WonInv, HandlerNext
    PROVE  WonInv'
<1>1. /\ IsSeq(wire) /\ IsSeq(winChan) /\ IsSeq(work.todo) /\ IsSeq(work.txs) /\ IsWork(work)
  BY TypedSeqs
<1>2. /\ drawn \subseteq DOMAIN minedAt /\ DOMAIN votedAt \subseteq drawn
      /\ \A v \in poolVotes : v[1] \in drawn
  BY DEF WonInv
<1>3. UNCHANGED <<drawn, minedAt, votedAt, poolVotes>>
  BY DEF HandlerNext, handleBlockConnectedNtfn, ReceiveTicket, handleWinningTicketsNtfn,
         CreateVote, CreateVotePanics, PublishVotes, ReceiveVote, ReceiveStopping,
         HandlerExit, dcrdVars
<1>4. ASSUME \/ work' = work
             \/ work' = NoWork
             \/ work' = [work EXCEPT !.got = @ + 1],
             \A tx \in outbox' : tx \in outbox \/ tx \in ToSet(work'.txs),
             wire' = wire \/ wire' = <<>>, winChan' = winChan
      PROVE  WonInv'
  <2>1. ToSet(<<>>) = {}
    BY DEF ToSet
  <2>2. ToSet(work'.txs) \in {ToSet(work.txs), {}} /\ ToSet(work'.todo) \in {ToSet(work.todo), {}}
    BY <1>1, <1>4, <2>1 DEF NoWork, IsWork
  <2>3. ToSet(wire') \subseteq ToSet(wire)
    BY <1>4, <2>1
  <2> QED
    BY <1>2, <1>3, <1>4, <2>2, <2>3, WonMore
<1>5. CASE handleBlockConnectedNtfn
  <2> DEFINE h == Head(blockChan)
             taken == SubSeq(coins, Len(coins) - TicketsPerBlock + 1, Len(coins))
             txs == TicketTxs(h, taken)
  <2>1. UNCHANGED <<wire, winChan>>
    BY <1>5 DEF handleBlockConnectedNtfn
  <2>2. CASE (work' = work \/ work' = NoWork) /\ outbox' = outbox
    BY <1>4, <2>1, <2>2
  <2>3. CASE Publish("tickets", [NoWork EXCEPT !.height = h, !.txs = txs])
    <3>1. \A tx \in ToSet(txs) : tx.kind = "ticket"
      <4>1. \A i \in DOMAIN txs : txs[i].kind = "ticket"
        <5> HIDE DEF taken, h
        <5> QED
          BY DEF TicketTxs
      <4> HIDE DEF txs
      <4> QED
        BY <4>1 DEF ToSet
    <3> HIDE DEF h, txs
    <3>2. work'.txs = txs /\ work'.todo = <<>> /\ outbox' = outbox \union ToSet(txs)
      BY <2>3 DEF Publish, NoWork
    <3>3. ToSet(work'.todo) = {}
      BY <3>2 DEF ToSet
    <3> QED
      BY <1>2, <1>3, <2>1, <3>1, <3>2, <3>3, WonMore
  <2> QED
    BY <1>5, <2>2, <2>3 DEF handleBlockConnectedNtfn, Return
<1>6. CASE ReceiveTicket \/ ReceiveVote
  BY <1>4, <1>6 DEF ReceiveTicket, ReceiveVote, Return, chanVars
<1>7. CASE handleWinningTicketsNtfn
  <2> DEFINE m == Head(winChan)
  <2>1. /\ work'.txs = <<>> /\ (work'.todo = <<>> \/ work'.todo = m.winners)
        /\ winChan # <<>> /\ winChan' = Tail(winChan)
        /\ UNCHANGED <<wire, outbox>>
    <3>1. CASE Return({"sign"})
      BY <1>7, <3>1 DEF handleWinningTicketsNtfn, NoWork, Return
    <3>2. CASE work' = [NoWork EXCEPT !.height = m.height, !.todo = m.winners, !.cap = limit]
      BY <1>7, <3>2 DEF handleWinningTicketsNtfn, NoWork
    <3> QED
      BY <1>7, <3>1, <3>2 DEF handleWinningTicketsNtfn
  <2>2. m \in ToSet(winChan) /\ ToSet(winChan') \subseteq ToSet(winChan)
    BY <1>1, <2>1, SetOfTail
  <2>3. ToSet(work'.todo) \subseteq drawn /\ ToSet(work'.txs) = {}
    BY <2>1, <2>2 DEF WonInv, ToSet
  <2> QED
    BY <1>2, <1>3, <2>1, <2>2, <2>3, WonMore
<1>8. CASE CreateVote
  <2> DEFINE vote == VoteTx(Head(work.todo))
  <2>1. work.todo # <<>> /\ UNCHANGED <<wire, outbox, winChan>>
    BY <1>8 DEF CreateVote, chanVars
  <2>2. /\ Head(work.todo) \in ToSet(work.todo) /\ ToSet(Tail(work.todo)) \subseteq ToSet(work.todo)
        /\ ToSet(work.todo) \subseteq drawn
    BY <1>1, <2>1, SetOfTail DEF WonInv
  <2>3. vote.id \in drawn
    BY <2>2 DEF VoteTx
  <2> HIDE DEF vote
  <2>4. \/ work' = NoWork
        \/ work' = [work EXCEPT !.todo = Tail(@)]
        \/ work' = [work EXCEPT !.txs = Append(work.txs, vote),
                                !.todo = IF Len(Append(work.txs, vote)) >= limit THEN <<>>
                                         ELSE Tail(@)]
    BY <1>8 DEF CreateVote, Return, vote
  <2>5. ASSUME work'.todo \in {<<>>, Tail(work.todo)},
               work'.txs \in {work.txs, Append(work.txs, vote)}
        PROVE  WonInv'
    <3>1. ToSet(<<>>) = {}
      BY DEF ToSet
    <3>2. ToSet(work'.todo) \subseteq ToSet(work.todo)
      BY <2>2, <2>5, <3>1
    <3>3. ToSet(work'.txs) \subseteq ToSet(work.txs) \union {vote}
      BY <1>1, <2>5, AppendAs
    <3> QED
      BY <1>2, <1>3, <2>1, <2>2, <2>3, <3>2, <3>3, WonMore
  <2>6. CASE work' = NoWork
    BY <1>4, <2>1, <2>6
  <2>7. CASE work' = [work EXCEPT !.todo = Tail(@)]
    BY <1>1, <2>5, <2>7 DEF IsWork
  <2>8. CASE work' = [work EXCEPT !.txs = Append(work.txs, vote),
                                  !.todo = IF Len(Append(work.txs, vote)) >= limit THEN <<>>
                                           ELSE Tail(@)]
    <3> DEFINE made == Append(work.txs, vote)
               done == Len(made) >= limit
    <3> HIDE DEF made, done
    <3>1. work' = [work EXCEPT !.txs = made, !.todo = IF done THEN <<>> ELSE Tail(@)]
      BY <2>8 DEF made, done
    <3>2. work'.txs = made /\ work'.todo \in {<<>>, Tail(work.todo)}
      BY <1>1, <3>1 DEF IsWork
    <3> QED
      BY <2>5, <3>2 DEF made
  <2> QED
    BY <2>4, <2>6, <2>7, <2>8
<1>9. CASE CreateVotePanics
  BY <1>4, <1>9 DEF CreateVotePanics, chanVars
<1>10. CASE PublishVotes
  BY <1>4, <1>10 DEF PublishVotes, Publish, Return, chanVars
<1>11. CASE ReceiveStopping \/ HandlerExit
  BY <1>4, <1>11 DEF ReceiveStopping, HandlerExit, Return, chanVars
<1> QED
  BY <1>5, <1>6, <1>7, <1>8, <1>9, <1>10, <1>11 DEF HandlerNext

\* The steps outside the handler.
LEMMA WonOutside ==
    ASSUME TypeInv, WonInv, DcrdNext \/ DispatcherNext \/ TestNext \/ UNCHANGED vars
    PROVE  WonInv'
<1>1. IsSeq(wire) /\ IsSeq(winChan)
  BY TypedSeqs
<1>2. \A m : /\ ToSet(Append(wire, m)) = ToSet(wire) \union {m}
             /\ ToSet(Append(winChan, m)) = ToSet(winChan) \union {m}
  BY <1>1, AppendAs
<1>3. wire # <<>> => Head(wire) \in ToSet(wire) /\ ToSet(Tail(wire)) \subseteq ToSet(wire)
  BY <1>1, SetOfTail
<1>4. ASSUME NEW tx \in outbox, AcceptTx(tx) \/ RefuseTx(tx) PROVE WonInv'
  <2>1. UNCHANGED <<drawn, minedAt, votedAt, winChan, work>> /\ outbox' = outbox \ {tx}
    BY <1>4 DEF AcceptTx, RefuseTx, dcrdVars, chanVars
  <2>2. PICK ok \in BOOLEAN : wire' = Append(wire, Answer(tx, ok))
    BY <1>4 DEF AcceptTx, RefuseTx
  <2>3. Answer(tx, ok).kind = "answer"
    BY DEF Answer
  <2>4. \A m \in ToSet(wire') : m \in ToSet(wire) \/ m.kind # "winning"
    BY <1>2, <2>2, <2>3
  <2>5. \A v \in poolVotes' : v[1] \in drawn
    <3>1. /\ \A v \in poolVotes : v[1] \in drawn
          /\ tx.kind = "vote" => tx.id \in drawn
      BY DEF WonInv, VotesWon
    <3>2. poolVotes' = poolVotes \/ (tx.kind = "vote" /\ poolVotes' = poolVotes \union {<<tx.id, tx.block>>})
      BY <1>4 DEF AcceptTx, RefuseTx, dcrdVars
    <3> QED
      BY <3>1, <3>2
  <2>6. drawn \subseteq DOMAIN minedAt /\ DOMAIN votedAt \subseteq drawn
    BY DEF WonInv
  <2> QED
    BY <2>1, <2>4, <2>5, <2>6, WonMore
<1>5. CASE onWinningTickets
  <2> DEFINE m == Head(wire)
             drawing == [height |-> m.height, winners |-> m.winners]
  <2>1. /\ m \in ToSet(wire) /\ m.kind = "winning"
        /\ wire' = Tail(wire) /\ winChan' = Append(winChan, drawing)
        /\ UNCHANGED <<drawn, minedAt, votedAt, poolVotes, outbox, work>>
    BY <1>3, <1>5 DEF onWinningTickets, dcrdVars
  <2>2. ToSet(drawing.winners) \subseteq drawn
    BY <2>1 DEF WonInv
  <2> HIDE DEF drawing
  <2>3. \A n \in ToSet(winChan') : n \in ToSet(winChan) \/ ToSet(n.winners) \subseteq drawn
    BY <1>2, <2>1, <2>2
  <2>4. ToSet(wire') \subseteq ToSet(wire)
    BY <1>3, <1>5 DEF onWinningTickets
  <2>5. /\ drawn \subseteq DOMAIN minedAt /\ DOMAIN votedAt \subseteq drawn
        /\ \A v \in poolVotes : v[1] \in drawn
    BY DEF WonInv
  <2> QED
    BY <2>1, <2>3, <2>4, <2>5, WonMore
<1>6. CASE onBlockConnected \/ DeliverAnswer \/ GotBestBlock \/ Mined \/ Polled \/ DropReply
  BY <1>3, <1>6, WonSame
     DEF onBlockConnected, DeliverAnswer, GotBestBlock, Mined, Polled, DropReply,
         nonTestVars, dcrdVars, chanVars
<1>7. ASSUME NEW call, wire' = Append(wire, Reply(call)),
             UNCHANGED <<drawn, minedAt, votedAt, poolVotes, outbox, winChan, work>>
      PROVE  WonInv'
  <2>1. Reply(call).kind = "reply"
    BY DEF Reply
  <2> QED
    BY <1>2, <1>7, <2>1, WonSame
<1>8. CASE GenerateBlocks \/ Poll
  BY <1>7, <1>8 DEF GenerateBlocks, Poll, nonTestVars, dcrdVars, chanVars
<1>9. CASE Mine \/ GenerateOther
  <2>1. /\ IsSeq(<<>>) /\ ToSet(<<>>) = {}
        /\ IsSeq(<<Reply("mined")>>) /\ ToSet(<<Reply("mined")>>) = {Reply("mined")}
    <3>1. <<>> \in Seq({}) /\ ToSet(<<>>) = {}
      BY DEF ToSet
    <3>2. ASSUME NEW e PROVE IsSeq(<<e>>) /\ ToSet(<<e>>) = {e}
      BY Single, SetOf
    <3>3. IsSeq(<<>>)
      BY <3>1 DEF IsSeq
    <3> QED
      BY <3>1, <3>2, <3>3
  <2>2. Reply("mined").kind = "reply"
    BY DEF Reply
  <2> QED
    BY <1>9, <2>1, <2>2, WonConnect DEF Mine, GenerateOther, nonTestVars, chanVars
<1>10. CASE Start \/ MineFails \/ Timeout \/ Stopping \/ Cancel
            \/ (\E n \in 0..TicketsPerBlock : LimitNbVotes(n)) \/ UNCHANGED vars
  BY <1>10, WonSame
     DEF Start, MineFails, Timeout, Stopping, LimitNbVotes, Cancel, vars, nonTestVars,
         dcrdVars, chanVars
<1> QED
  BY <1>4, <1>5, <1>6, <1>8, <1>9, <1>10 DEF DcrdNext, DispatcherNext, TestNext

\* The types and the origin of the votes hold in every state.
LEMMA TypeInvariance == Spec => [](TypeInv /\ WonInv)
<1>1. Init => TypeInv
  <2> SUFFICES ASSUME Init PROVE TypeInv
    OBVIOUS
  <2>1. ChainType
    BY Heights DEF Init, ChainType
  <2>2. QueueType
    BY Heights DEF Init, QueueType
  <2>3. WalletType
    BY Heights DEF Init, WalletType
  <2>4. WorkType
    <3>1. IsWork(NoWork) /\ NoWork.txs = <<>> /\ NoWork.todo = <<>> /\ NoWork.cap = 0 /\ NoWork.got = 0
      BY DEF NoWork, IsWork
    <3>2. work = NoWork /\ handler = "unstarted" /\ errors = {}
      BY DEF Init
    <3>3. <<>> \in Seq(Txs) /\ <<>> \in Seq(Ids) /\ Len(<<>>) = 0 /\ 0 \in 0..TicketsPerBlock
      BY Heights
    <3>4. IsWork(work) /\ work.txs = <<>> /\ work.todo = <<>> /\ work.cap = 0 /\ work.got = 0
      BY <3>1, <3>2
    <3>5. /\ work.txs \in Seq(Txs) /\ work.todo \in Seq(Ids)
          /\ work.cap \in 0..TicketsPerBlock /\ work.got \in 0..TicketsPerBlock
          /\ Len(work.txs) <= TicketsPerBlock
      BY <3>3, <3>4, Heights
    <3> QED
      BY <3>2, <3>4, <3>5 DEF WorkType
  <2>5. TestType
    <3>1. IsGen(NoGen) /\ NoGen.at = "idle"
      BY DEF NoGen, IsGen
    <3>2. gen = NoGen /\ limit = TicketsPerBlock /\ ctxDone = FALSE /\ faults = 0
      BY DEF Init
    <3>3. limit \in 0..TicketsPerBlock /\ faults \in 0..MaxFaults
      BY <3>2, Heights, VotingWalletAssumption
    <3> QED
      BY <3>1, <3>2, <3>3 DEF TestType, IsGen
  <2> QED
    BY <2>1, <2>2, <2>3, <2>4, <2>5 DEF TypeInv
<1>2. Init => WonInv
  BY DEF Init, WonInv, VotesWon, NoWork, ToSet
<1>3. TypeInv /\ [Next]_vars => TypeInv'
  BY ChainTyped, QueueTyped, WalletTyped, WorkTyped, TestTyped DEF TypeInv
<1>4. TypeInv /\ WonInv /\ [Next]_vars => WonInv'
  BY WonHandler, WonOutside DEF Next
<1> QED
  BY <1>1, <1>2, <1>3, <1>4, PTL DEF Spec

\* Every reachable state of dcrd, the client, the voting wallet and the test is
\* well typed, the votes that were mined are of tickets that were, and no
\* channel holds more than its buffer (NewVotingWallet, handleNotifications).
THEOREM TypeCorrect == Spec => []TypeOK
<1>1. TypeInv /\ WonInv => TypeOK
  <2> SUFFICES ASSUME TypeInv, WonInv PROVE TypeOK
    OBVIOUS
  <2>1. DOMAIN maturing = 1..(MaxHeight + CoinbaseMaturity)
    BY DEF TypeInv, WalletType
  <2>2. Len(blockChan) \in 0..BufferLen /\ Len(winChan) \in 0..BufferLen
    BY Heights DEF TypeInv, QueueType
  <2> QED
    BY <2>1, <2>2 DEF TypeInv, ChainType, QueueType, WalletType, WorkType, TestType, WonInv,
                      TypeOK, Coins
<1> QED
  BY <1>1, TypeInvariance, PTL

\* A vote that the wallet sends, that waits in the memory pool or that was mined
\* is of a ticket that won a block, and no ticket was drawn that was not mined,
\* whatever fails and whatever the test does (handleWinningTicketsNtfn).
THEOREM OnlyWinnersVote ==
    Spec => [](/\ VotesWon(outbox)
               /\ DOMAIN votedAt \union {v[1] : v \in poolVotes} \subseteq drawn
               /\ drawn \subseteq DOMAIN minedAt)
<1>1. WonInv => /\ VotesWon(outbox)
                /\ DOMAIN votedAt \union {v[1] : v \in poolVotes} \subseteq drawn
                /\ drawn \subseteq DOMAIN minedAt
  BY DEF WonInv
<1> QED
  BY <1>1, TypeInvariance, PTL
=============================================================================
