-------------------------- MODULE SolveBlockProofs --------------------------
(* Proofs about SolveBlock, for any number of cores and any width of the   *)
(* nonce: the ranges of the cores cover all nonces but zero, and           *)
(* solveBlock finds a nonce if and only if there is one.                   *)
EXTENDS SolveBlock, FiniteSetTheorems, TLAPS

\* Multiplication is monotonic.
LEMMA MulMono ==
    ASSUME NEW k \in Nat, NEW a \in Int, NEW b \in Int, a <= b
    PROVE  k * a <= k * b
  OBVIOUS

\* What the division of a by b leaves.
LEMMA DivBounds ==
    ASSUME NEW a \in Nat, NEW b \in Nat \ {0}
    PROVE  /\ a \div b \in Nat
           /\ b * (a \div b) <= a
           /\ a < b * (a \div b) + b
  OBVIOUS

\* The range of every core lies within the nonces, so that none of the sums
\* that solveBlock makes for it overflows.
LEMMA RangeBounds ==
    ASSUME NEW c \in Cores
    PROVE  /\ noncesPerCore \in Nat
           /\ RangeStart(c) \in 1..MaxNonce
           /\ RangeStop(c) \in 0..MaxNonce
<1>1. NumCores \in Nat \ {0} /\ MaxNonce \in Nat \ {0}
  BY SolveBlockAssumption
<1>2. /\ noncesPerCore \in Nat
      /\ NumCores * noncesPerCore <= MaxNonce - 1
  BY <1>1, DivBounds, MaxNonce - 1 \in Nat DEF noncesPerCore, startNonce
<1>3. c \in Nat /\ c <= NumCores - 1 /\ c + 1 <= NumCores
  BY <1>1 DEF Cores
<1>4. noncesPerCore * c >= 0 /\ noncesPerCore * (c + 1) >= 0
  BY <1>2, <1>3, MulMono, noncesPerCore * 0 = 0
<1>5. noncesPerCore * (c + 1) <= noncesPerCore * NumCores
  BY <1>1, <1>2, <1>3, MulMono
<1>6. noncesPerCore * c <= noncesPerCore * (c + 1)
  BY <1>2, <1>3, MulMono
<1>7. noncesPerCore * (c + 1) <= MaxNonce - 1
  BY <1>1, <1>2, <1>3, <1>5
<1>8. noncesPerCore * c \in Int /\ noncesPerCore * (c + 1) \in Int
  BY <1>2, <1>3
<1>9. RangeStart(c) \in 1..MaxNonce
  BY <1>1, <1>4, <1>6, <1>7, <1>8 DEF RangeStart, startNonce
<1>10. RangeStop(c) \in 0..MaxNonce
  BY <1>1, <1>4, <1>7, <1>8 DEF RangeStop, startNonce
<1> QED
  BY <1>2, <1>9, <1>10

\* Every nonce but zero is in the range of some core.
THEOREM RangesCover ==
    ASSUME NEW n \in 1..MaxNonce
    PROVE  \E c \in Cores : n \in RangeStart(c)..RangeStop(c)
<1>1. NumCores \in Nat \ {0} /\ MaxNonce \in Nat \ {0}
  BY SolveBlockAssumption
<1>2. NumCores - 1 \in Cores
  BY <1>1 DEF Cores
<1>3. noncesPerCore \in Nat
  BY <1>2, RangeBounds
<1> DEFINE last == NumCores - 1
<1>4. CASE n >= RangeStart(last)
  <2>1. RangeStop(last) = MaxNonce
    BY DEF RangeStop
  <2>2. RangeStart(last) \in Int
    BY <1>2, RangeBounds
  <2>3. n \in RangeStart(last)..RangeStop(last)
    BY <1>1, <1>4, <2>1, <2>2
  <2> QED
    BY <1>2, <2>3
<1>5. CASE ~(n >= RangeStart(last))
  <2>1. n < 1 + noncesPerCore * last /\ noncesPerCore * last \in Int
    BY <1>1, <1>3, <1>5 DEF RangeStart, startNonce
  <2>2. noncesPerCore # 0
    BY <1>1, <2>1
  <2> DEFINE c == (n - 1) \div noncesPerCore
  <2>3. /\ c \in Nat
        /\ noncesPerCore * c <= n - 1
        /\ n - 1 < noncesPerCore * c + noncesPerCore
    BY <1>3, <2>2, DivBounds, n - 1 \in Nat
  <2>4. c < last
    <3>1. SUFFICES ASSUME last <= c PROVE FALSE
      BY <1>1, <2>3
    <3>2. noncesPerCore * last <= noncesPerCore * c
      BY <1>1, <1>3, <2>3, <3>1, MulMono
    <3> QED
      BY <1>1, <1>3, <2>1, <2>3, <3>2
  <2>5. c \in Cores /\ c # NumCores - 1
    BY <1>1, <2>3, <2>4 DEF Cores
  <2>6. noncesPerCore * (c + 1) = noncesPerCore * c + noncesPerCore
    BY <1>3, <2>3
  <2>7. noncesPerCore * c \in Int
    BY <1>3, <2>3
  <2>8. RangeStart(c) <= n /\ n <= RangeStop(c) /\ RangeStart(c) \in Int /\ RangeStop(c) \in Int
    <3> HIDE DEF c
    <3> QED
      BY <1>3, <2>3, <2>5, <2>6, <2>7 DEF RangeStart, RangeStop, startNonce
  <2> QED
    BY <2>5, <2>8
<1> QED
  BY <1>4, <1>5

-----------------------------------------------------------------------------
(* Type correctness                                                        *)

\* The increment of i, which overflows to zero.
LEMMA Increment ==
    ASSUME NEW k \in Nonces
    PROVE  /\ (k + 1) % (MaxNonce + 1) \in Nonces
           /\ k < MaxNonce => (k + 1) % (MaxNonce + 1) = k + 1
           /\ k = MaxNonce => (k + 1) % (MaxNonce + 1) = 0
<1>1. MaxNonce \in Nat \ {0} /\ k \in Nat /\ k <= MaxNonce
  BY SolveBlockAssumption DEF Nonces
<1>2. CASE k < MaxNonce
  <2>1. (k + 1) % (MaxNonce + 1) = k + 1
    BY <1>1, <1>2
  <2> QED
    BY <1>1, <1>2, <2>1 DEF Nonces
<1>3. CASE k = MaxNonce
  <2>1. (k + 1) % (MaxNonce + 1) = 0
    BY <1>1, <1>3
  <2> QED
    BY <1>1, <1>3, <2>1 DEF Nonces
<1> QED
  BY <1>1, <1>2, <1>3

\* The initial state is well typed.
LEMMA TypeCorrectInit ==
    ASSUME Init
    PROVE  TypeOK
<1>1. \A c \in Cores : RangeStart(c) \in Nonces
  BY RangeBounds, SolveBlockAssumption DEF Nonces
<1>2. 0 \in Nonces /\ 0 \in 0..NumCores
  BY SolveBlockAssumption DEF Nonces
<1>3. NotFound \in [found : BOOLEAN, nonce : Nonces]
  BY <1>2 DEF NotFound
<1> QED
  BY <1>1, <1>2, <1>3 DEF Init, TypeOK

\* Every step of a solver or of main preserves the types.
LEMMA TypeCorrectStep ==
    ASSUME TypeOK, [Next]_vars
    PROVE  TypeOK'
<1>1. NotFound \in [found : BOOLEAN, nonce : Nonces]
  BY SolveBlockAssumption DEF NotFound, Nonces
<1>2. ASSUME NEW c \in Cores, NEW r \in [found : BOOLEAN, nonce : Nonces], Send(c, r)
      PROVE  TypeOK'
  BY <1>2 DEF TypeOK, Send, mainVars
<1>3. ASSUME NEW c \in Cores, Quit(c) PROVE TypeOK'
  BY <1>1, <1>2, <1>3 DEF Quit
<1>4. ASSUME NEW c \in Cores, Solves(c) PROVE TypeOK'
  <2>1. nonce[c] \in Nonces
    BY DEF TypeOK
  <2> QED
    BY <1>2, <1>4, <2>1 DEF Solves
<1>5. ASSUME NEW c \in Cores, Tries(c) PROVE TypeOK'
  <2>1. (nonce[c] + 1) % (MaxNonce + 1) \in Nonces
    BY Increment DEF TypeOK
  <2> QED
    BY <1>5, <2>1 DEF TypeOK, Tries, mainVars
<1>6. ASSUME NEW c \in Cores, Exhausts(c) PROVE TypeOK'
  BY <1>1, <1>2, <1>6 DEF Exhausts
<1>7. ASSUME NEW c \in Cores, Receive(c) PROVE TypeOK'
  <2>1. result[c].nonce \in Nonces
    BY DEF TypeOK
  <2>2. got' \in 0..NumCores
    BY <1>7, SolveBlockAssumption DEF TypeOK, Receive
  <2>3. pc' \in [Cores -> {"test", "send", "done"}]
    BY <1>7 DEF TypeOK, Receive
  <2>4. quit' \in BOOLEAN /\ found' \in BOOLEAN /\ header' \in Nonces
    BY <1>7, <2>1 DEF TypeOK, Receive
  <2> QED
    BY <1>7, <2>2, <2>3, <2>4 DEF TypeOK, Receive
<1>8. CASE UNCHANGED vars
  BY <1>8 DEF TypeOK, vars
<1> QED
  BY <1>3, <1>4, <1>5, <1>6, <1>7, <1>8 DEF Next, Solver

\* Every reachable state of main and its solvers is well typed; the nonce of a
\* solver stays within its 32 bits.
THEOREM TypeCorrect == Spec => []TypeOK
BY TypeCorrectInit, TypeCorrectStep, PTL DEF Spec

-----------------------------------------------------------------------------
(* What solveBlock promises                                                *)

Share(c) == RangeStart(c)..RangeStop(c)

\* The nonces a solver is done with: all of them when i overflowed.
Tested(c) == {n \in Share(c) : n < nonce[c] \/ nonce[c] < RangeStart(c)}

Done == {c \in Cores : pc[c] = "done"}

\* A solver that goes on found nothing yet.  One that sends or has sent a
\* failure either tried its whole range or was told to quit.
SolverInv ==
    \A c \in Cores :
        /\ pc[c] = "test" => Tested(c) \intersect good = {}
        /\ pc[c] # "test" /\ ~result[c].found => found \/ Share(c) \intersect good = {}
        /\ result[c].found => result[c].nonce \in good \intersect (startNonce..MaxNonce)
        /\ pc[c] = "done" /\ result[c].found => found

\* quit is closed exactly when a nonce was found, and every result received is
\* that of a solver of its own.
MainInv ==
    /\ quit = found
    /\ found => header \in good \intersect (startNonce..MaxNonce)
    /\ got = Cardinality(Done)

SearchInv == TypeOK /\ SolverInv /\ MainInv

\* A step of one solver that leaves main alone preserves the invariant when it
\* does for that solver.
LEMMA SolverStep ==
    ASSUME SearchInv, TypeOK', NEW c \in Cores,
           UNCHANGED <<good, mainVars>>,
           pc[c] # "done", pc'[c] # "done",
           \A d \in Cores \ {c} : /\ pc'[d] = pc[d]
                                  /\ nonce'[d] = nonce[d]
                                  /\ result'[d] = result[d],
           pc'[c] = "test" => Tested(c)' \intersect good = {},
           pc'[c] # "test" /\ ~result'[c].found => found \/ Share(c) \intersect good = {},
           result'[c].found => result'[c].nonce \in good \intersect (startNonce..MaxNonce)
    PROVE  SearchInv'
<1>1. SolverInv'
  <2> SUFFICES ASSUME NEW d \in Cores
               PROVE  /\ pc'[d] = "test" => Tested(d)' \intersect good = {}
                      /\ pc'[d] # "test" /\ ~result'[d].found
                           => found \/ Share(d) \intersect good = {}
                      /\ result'[d].found
                           => result'[d].nonce \in good \intersect (startNonce..MaxNonce)
                      /\ pc'[d] = "done" /\ result'[d].found => found
    BY DEF SolverInv, Share, RangeStart, RangeStop, noncesPerCore, startNonce, mainVars
  <2>1. CASE d = c
    BY <2>1
  <2>2. CASE d # c
    <3>1. pc'[d] = pc[d] /\ nonce'[d] = nonce[d] /\ result'[d] = result[d]
      BY <2>2
    <3>2. Tested(d)' = Tested(d)
      BY <3>1 DEF Tested, Share, RangeStart, RangeStop, noncesPerCore, startNonce
    <3> QED
      BY <3>1, <3>2 DEF SearchInv, SolverInv
  <2> QED
    BY <2>1, <2>2
<1>2. MainInv'
  <2>1. Done' = Done
    BY DEF Done
  <2> QED
    BY <2>1 DEF SearchInv, MainInv, mainVars, startNonce
<1> QED
  BY <1>1, <1>2 DEF SearchInv

\* A nonce more that does not solve the block.
LEMMA TriesStep ==
    ASSUME SearchInv, TypeOK', NEW c \in Cores, Tries(c)
    PROVE  SearchInv'
<1>1. /\ nonce[c] \in Share(c) /\ nonce[c] \in Nonces /\ nonce[c] >= RangeStart(c)
      /\ nonce[c] \notin good /\ pc[c] = "test" /\ pc' = pc /\ result' = result
      /\ nonce'[c] = (nonce[c] + 1) % (MaxNonce + 1)
      /\ RangeStart(c) \in 1..MaxNonce /\ RangeStop(c) \in 0..MaxNonce
  BY RangeBounds, SolveBlockAssumption DEF SearchInv, TypeOK, Tries, InRange, Share, Nonces
<1>2. Tested(c)' \subseteq Tested(c) \cup {nonce[c]}
  <2> SUFFICES ASSUME NEW n \in Share(c), n < nonce'[c] \/ nonce'[c] < RangeStart(c)
               PROVE  n < nonce[c] \/ n = nonce[c]
    BY DEF Tested, Share, RangeStart, RangeStop, noncesPerCore, startNonce
  <2>1. n \in Nat /\ n <= MaxNonce /\ nonce[c] \in Nat /\ nonce[c] <= MaxNonce /\ MaxNonce \in Nat
    BY <1>1, SolveBlockAssumption DEF Share, Nonces
  <2>2. CASE nonce[c] < MaxNonce
    <3>1. nonce'[c] = nonce[c] + 1
      BY <1>1, <2>2, Increment
    <3>2. RangeStart(c) \in Int /\ nonce[c] >= RangeStart(c)
      BY <1>1
    <3> QED
      BY <2>1, <3>1, <3>2
  <2>3. CASE nonce[c] = MaxNonce
    BY <2>1, <2>3
  <2> QED
    BY <2>1, <2>2, <2>3
<1>3. Tested(c)' \intersect good = {}
  BY <1>1, <1>2 DEF SearchInv, SolverInv
<1>4. \A d \in Cores \ {c} : nonce'[d] = nonce[d]
  BY DEF SearchInv, TypeOK, Tries
<1>5. UNCHANGED <<good, mainVars>>
  BY DEF Tries
<1>6. result[c].found => result[c].nonce \in good \intersect (startNonce..MaxNonce)
  BY DEF SearchInv, SolverInv
<1> QED
  BY <1>1, <1>3, <1>4, <1>5, <1>6, SolverStep

\* The loop ends, with a nonce or without.
LEMMA SendStep ==
    ASSUME SearchInv, TypeOK', NEW c \in Cores, NEW r \in [found : BOOLEAN, nonce : Nonces],
           Send(c, r), pc[c] = "test",
           ~r.found => found \/ Share(c) \intersect good = {},
           r.found => r.nonce \in good \intersect (startNonce..MaxNonce)
    PROVE  SearchInv'
<1>1. pc'[c] = "send" /\ result'[c] = r
  BY DEF SearchInv, TypeOK, Send
<1>2. \A d \in Cores \ {c} : pc'[d] = pc[d] /\ nonce'[d] = nonce[d] /\ result'[d] = result[d]
  BY DEF SearchInv, TypeOK, Send
<1>3. UNCHANGED <<good, mainVars>>
  BY DEF Send
<1> QED
  BY <1>1, <1>2, <1>3, SolverStep

\* main takes a result: of one more solver, and the first nonce is its header's.
LEMMA ReceiveStep ==
    ASSUME SearchInv, TypeOK', NEW c \in Cores, Receive(c)
    PROVE  SearchInv'
<1>1. /\ pc[c] = "send" /\ pc'[c] = "done" /\ UNCHANGED <<good, nonce, result>>
      /\ \A d \in Cores \ {c} : pc'[d] = pc[d]
  BY DEF SearchInv, TypeOK, Receive
<1>2. /\ found => found'
      /\ result[c].found => found'
      /\ quit' = found'
  BY DEF SearchInv, MainInv, TypeOK, Receive
<1>3. found' => header' \in good \intersect (startNonce..MaxNonce)
  BY DEF SearchInv, SolverInv, MainInv, TypeOK, Receive
<1>4. \A d \in Cores : Tested(d)' = Tested(d) /\ Share(d)' = Share(d)
  BY <1>1 DEF Tested, Share, RangeStart, RangeStop, noncesPerCore, startNonce
<1>5. SolverInv'
  <2> SUFFICES ASSUME NEW d \in Cores
               PROVE  /\ pc'[d] = "test" => Tested(d) \intersect good = {}
                      /\ pc'[d] # "test" /\ ~result[d].found
                           => found' \/ Share(d) \intersect good = {}
                      /\ result[d].found
                           => result[d].nonce \in good \intersect (startNonce..MaxNonce)
                      /\ pc'[d] = "done" /\ result[d].found => found'
    BY <1>1, <1>4 DEF SolverInv, startNonce
  <2>1. pc[c] = "send"
    BY <1>1
  <2>2. CASE d = c
    BY <1>1, <1>2, <2>1, <2>2 DEF SearchInv, SolverInv
  <2>3. CASE d # c
    BY <1>1, <1>2, <2>3 DEF SearchInv, SolverInv
  <2> QED
    BY <2>2, <2>3
<1>6. got' = Cardinality(Done')
  <2>1. Done' = Done \cup {c} /\ c \notin Done
    BY <1>1 DEF Done
  <2>2. IsFiniteSet(Cores)
    BY FS_Interval, SolveBlockAssumption DEF Cores
  <2>3. IsFiniteSet(Done)
    BY <2>2, FS_Subset, Done \in SUBSET Cores DEF Done
  <2>4. Cardinality(Done') = Cardinality(Done) + 1
    BY <2>1, <2>3, FS_AddElement
  <2> QED
    BY <2>4 DEF SearchInv, MainInv, Receive
<1>7. MainInv'
  BY <1>1, <1>2, <1>3, <1>6 DEF MainInv, startNonce
<1> QED
  BY <1>5, <1>7 DEF SearchInv

\* The inductive invariant of solveBlock: what a solver has left to try, and
\* what its result says, agree with the nonces that solve the block.
THEOREM SearchInvariant == Spec => []SearchInv
<1>1. Init => SearchInv
  <2> SUFFICES ASSUME Init PROVE SearchInv
    OBVIOUS
  <2>1. TypeOK
    BY TypeCorrectInit
  <2>2. \A c \in Cores : Tested(c) = {}
    <3> SUFFICES ASSUME NEW c \in Cores, NEW n \in Share(c)
                 PROVE  ~(n < nonce[c] \/ nonce[c] < RangeStart(c))
      BY DEF Tested
    <3>1. nonce[c] = RangeStart(c) /\ RangeStart(c) \in Int /\ RangeStop(c) \in Int
      BY RangeBounds DEF Init
    <3> QED
      BY <3>1 DEF Share
  <2>3. SolverInv
    BY <2>2 DEF SolverInv, Init, NotFound
  <2>4. Done = {}
    BY DEF Done, Init
  <2>5. MainInv
    BY <2>4, FS_EmptySet DEF MainInv, Init
  <2> QED
    BY <2>1, <2>3, <2>5 DEF SearchInv
<1>2. SearchInv /\ [Next]_vars => SearchInv'
  <2> SUFFICES ASSUME SearchInv, [Next]_vars PROVE SearchInv'
    OBVIOUS
  <2>1. TypeOK'
    BY TypeCorrectStep DEF SearchInv
  <2>2. NotFound \in [found : BOOLEAN, nonce : Nonces] /\ ~NotFound.found
    BY SolveBlockAssumption DEF NotFound, Nonces
  <2>3. ASSUME NEW c \in Cores, Quit(c) PROVE SearchInv'
    <3>1. found
      BY <2>3 DEF SearchInv, MainInv, Quit
    <3> QED
      BY <2>1, <2>2, <2>3, <3>1, SendStep DEF Quit
  <2>4. ASSUME NEW c \in Cores, Solves(c) PROVE SearchInv'
    <3> DEFINE r == [found |-> TRUE, nonce |-> nonce[c]]
    <3>1. nonce[c] \in Nonces
      BY DEF SearchInv, TypeOK
    <3>2. nonce[c] \in good \intersect (startNonce..MaxNonce)
      BY <2>4, <3>1, RangeBounds, SolveBlockAssumption DEF Solves, InRange, Nonces, startNonce
    <3>3. r \in [found : BOOLEAN, nonce : Nonces] /\ r.found /\ r.nonce = nonce[c]
      BY <3>1
    <3>4. Send(c, r) /\ pc[c] = "test"
      BY <2>4 DEF Solves
    <3> HIDE DEF r
    <3> QED
      BY <2>1, <3>2, <3>3, <3>4, SendStep
  <2>5. ASSUME NEW c \in Cores, Tries(c) PROVE SearchInv'
    BY <2>1, <2>5, TriesStep
  <2>6. ASSUME NEW c \in Cores, Exhausts(c) PROVE SearchInv'
    <3>1. /\ nonce[c] \in Int /\ RangeStart(c) \in Int /\ RangeStop(c) \in Int
      BY RangeBounds, SolveBlockAssumption DEF SearchInv, TypeOK, Nonces
    <3>2. Share(c) = Tested(c)
      BY <2>6, <3>1 DEF Exhausts, InRange, Tested, Share
    <3>3. Share(c) \intersect good = {}
      BY <2>6, <3>2 DEF SearchInv, SolverInv, Exhausts
    <3> QED
      BY <2>1, <2>2, <2>6, <3>3, SendStep DEF Exhausts
  <2>7. ASSUME NEW c \in Cores, Receive(c) PROVE SearchInv'
    BY <2>1, <2>7, ReceiveStep
  <2>8. CASE UNCHANGED vars
    <3>1. Done' = Done /\ \A c \in Cores : Tested(c)' = Tested(c)
      BY <2>8 DEF Done, Tested, Share, RangeStart, RangeStop, noncesPerCore, startNonce, vars
    <3>2. SolverInv'
      BY <2>8, <3>1 DEF SearchInv, SolverInv, Share, RangeStart, RangeStop, noncesPerCore, startNonce, vars
    <3>3. MainInv'
      BY <2>8, <3>1 DEF SearchInv, MainInv, startNonce, vars
    <3> QED
      BY <2>1, <3>2, <3>3 DEF SearchInv
  <2> QED
    BY <2>3, <2>4, <2>5, <2>6, <2>7, <2>8 DEF Next, Solver
<1> QED
  BY <1>1, <1>2, PTL DEF Spec

\* When solveBlock returns it found a nonce that solves the block if and only
\* if some nonce but zero does, for any number of cores.
THEOREM Search == Spec => []FoundIfSolvable
<1>1. SearchInv => FoundIfSolvable
  <2> SUFFICES ASSUME SearchInv, Returned
               PROVE  /\ found <=> good \intersect (startNonce..MaxNonce) # {}
                      /\ found => header \in good
    BY DEF FoundIfSolvable
  <2>1. found => header \in good \intersect (startNonce..MaxNonce)
    BY DEF SearchInv, MainInv
  <2>2. Done = Cores
    <3>1. IsFiniteSet(Cores) /\ Cardinality(Cores) = NumCores
      BY FS_Interval, SolveBlockAssumption DEF Cores
    <3>2. Done \in SUBSET Cores /\ Cardinality(Done) = NumCores
      BY DEF Done, SearchInv, MainInv, Returned
    <3> QED
      BY <3>1, <3>2, FS_Subset
  <2>3. ASSUME NEW n \in good \intersect (startNonce..MaxNonce) PROVE found
    <3>1. PICK c \in Cores : n \in Share(c)
      BY RangesCover DEF Share, startNonce
    <3>2. pc[c] = "done"
      BY <2>2 DEF Done
    <3>3. Share(c) \intersect good # {}
      BY <3>1
    <3> QED
      BY <3>2, <3>3 DEF SearchInv, SolverInv
  <2>4. found \in BOOLEAN
    BY DEF SearchInv, TypeOK
  <2> QED
    BY <2>1, <2>3, <2>4
<1> QED
  BY <1>1, SearchInvariant, PTL
=============================================================================
