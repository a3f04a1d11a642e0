---------------------------- MODULE ChainProofs ----------------------------
(***************************************************************************)
(* Facts about valid chains: how the created, spent and unspent outputs of *)
(* a chain change with its last block and of a block with its last         *)
(* transaction; and which prefixes and extensions of chains are equal.     *)
(***************************************************************************)
EXTENDS Chain, SequenceTheorems, TLAPS

\* The first n + 1 transactions create and spend what the first n and
\* transaction n + 1 do.
LEMMA TxStep ==
    ASSUME NEW txns, NEW n \in Nat
    PROVE  /\ OutsOf(txns, n + 1) = OutsOf(txns, n) \cup txns[n + 1].outs
           /\ InsOf(txns, n + 1) = InsOf(txns, n) \cup txns[n + 1].ins
           /\ OutsOf(txns, 0) = {} /\ InsOf(txns, 0) = {}
<1>1. 1..(n + 1) = 1..n \cup {n + 1} /\ 1..0 = {}
  OBVIOUS
<1> QED
  BY <1>1 DEF OutsOf, InsOf

\* The same for blocks.
LEMMA BlockStep ==
    ASSUME NEW c, NEW n \in Nat
    PROVE  /\ Created(c, n + 1) = Created(c, n) \cup Outs(c[n + 1])
           /\ Spent(c, n + 1) = Spent(c, n) \cup Ins(c[n + 1])
           /\ Created(c, 0) = {} /\ Spent(c, 0) = {}
<1>1. 1..(n + 1) = 1..n \cup {n + 1} /\ 1..0 = {}
  OBVIOUS
<1> QED
  BY <1>1 DEF Created, Spent

\* More transactions create and spend more, and so do more blocks.
LEMMA Monotone ==
    ASSUME NEW s, NEW m \in Nat, NEW n \in Nat, m <= n
    PROVE  /\ OutsOf(s, m) \subseteq OutsOf(s, n)
           /\ InsOf(s, m) \subseteq InsOf(s, n)
           /\ Created(s, m) \subseteq Created(s, n)
           /\ Spent(s, m) \subseteq Spent(s, n)
<1>1. 1..m \subseteq 1..n
  OBVIOUS
<1> QED
  BY <1>1 DEF OutsOf, InsOf, Created, Spent

\* What a chain's first n blocks do depends on these blocks only.
LEMMA PrefixSame ==
    ASSUME NEW c, NEW d, NEW n \in Nat, \A k \in 1..n : c[k] = d[k]
    PROVE  /\ Created(c, n) = Created(d, n)
           /\ Spent(c, n) = Spent(d, n)
           /\ Unspent(c, n) = Unspent(d, n)
           /\ \A h : Immature(c, n, h) = Immature(d, n, h)
           /\ \A b : ValidBlock(c, n, b) <=> ValidBlock(d, n, b)
<1>1. Created(c, n) = Created(d, n) /\ Spent(c, n) = Spent(d, n)
  BY DEF Created, Spent
<1>2. Unspent(c, n) = Unspent(d, n)
  BY <1>1 DEF Unspent
<1>3. ASSUME NEW h PROVE Immature(c, n, h) = Immature(d, n, h)
  BY DEF Immature
<1>4. ASSUME NEW b PROVE ValidBlock(c, n, b) <=> ValidBlock(d, n, b)
  BY <1>1, <1>3 DEF ValidBlock, ValidTx
<1> QED
  BY <1>1, <1>2, <1>3, <1>4

\* A transaction of a valid block spends what is unspent when its turn comes,
\* and nothing it creates was spent before.
LEMMA ValidTxStep ==
    ASSUME NEW c, NEW n \in Nat, NEW b \in Block, ValidBlock(c, n, b),
           NEW i \in 1..Len(b.txns)
    PROVE  LET done == (Unspent(c, n) \cup OutsOf(b.txns, i - 1))
                          \ InsOf(b.txns, i - 1)
           IN /\ b.txns[i].ins \subseteq done
              /\ b.txns[i].outs \cap InsOf(b.txns, i - 1) = {}
<1> DEFINE t == b.txns
<1>1. Len(t) \in Nat
  BY DEF Block
<1>2. /\ t[i].ins \subseteq (Created(c, n) \cup OutsOf(t, i - 1))
                             \ (Spent(c, n) \cup InsOf(t, i - 1))
      /\ t[i].outs \cap (Created(c, n) \cup OutsOf(t, i - 1)) = {}
  BY DEF ValidBlock, ValidTx
<1>3. InsOf(t, i - 1) \subseteq Created(c, n) \cup OutsOf(t, i - 1)
  <2>1. ASSUME NEW j \in 1..(i - 1)
        PROVE  t[j].ins \subseteq Created(c, n) \cup OutsOf(t, i - 1)
    <3>1. j \in 1..Len(t) /\ j - 1 \in Nat /\ i - 1 \in Nat /\ j - 1 <= i - 1
      BY <1>1
    <3>2. t[j].ins \subseteq Created(c, n) \cup OutsOf(t, j - 1)
      BY <3>1 DEF ValidBlock, ValidTx
    <3> QED
      BY <3>1, <3>2, Monotone
  <2> QED
    BY <2>1 DEF InsOf
<1> QED
  BY <1>2, <1>3 DEF Unspent

\* A valid block creates only new outputs and spends only unspent ones or its
\* own.
LEMMA ValidBlockFacts ==
    ASSUME NEW c, NEW n \in Nat, NEW b \in Block, ValidBlock(c, n, b)
    PROVE  /\ b.height = n + 1
           /\ Outs(b) \cap Created(c, n) = {}
           /\ Ins(b) \subseteq Created(c, n) \cup Outs(b)
           /\ Ins(b) \cap Spent(c, n) = {}
<1> DEFINE t == b.txns
<1>1. Len(t) \in Nat
  BY DEF Block
<1>2. Outs(b) \cap Created(c, n) = {}
  BY DEF ValidBlock, ValidTx, Outs, OutsOf
<1>3. ASSUME NEW i \in 1..Len(t)
      PROVE  /\ t[i].ins \subseteq Created(c, n) \cup Outs(b)
             /\ t[i].ins \cap Spent(c, n) = {}
  <2>1. /\ t[i].ins \subseteq Created(c, n) \cup OutsOf(t, i - 1)
        /\ t[i].ins \cap Spent(c, n) = {}
    BY DEF ValidBlock, ValidTx
  <2>2. i - 1 \in Nat /\ i - 1 <= Len(t)
    BY <1>1
  <2>3. OutsOf(t, i - 1) \subseteq OutsOf(t, Len(t))
    BY <1>1, <2>2, Monotone
  <2> QED
    BY <2>1, <2>3 DEF Outs
<1>4. Ins(b) \subseteq Created(c, n) \cup Outs(b) /\ Ins(b) \cap Spent(c, n) = {}
  BY <1>3 DEF Ins, InsOf
<1> QED
  BY <1>2, <1>4 DEF ValidBlock

\* A valid chain spends only what it created.
LEMMA SpentCreated ==
    ASSUME NEW c \in Seq(Block), ValidChain(c), NEW n \in 0..Len(c)
    PROVE  Spent(c, n) \subseteq Created(c, n)
<1>1. ASSUME NEW k \in 1..n PROVE Ins(c[k]) \subseteq Created(c, n)
  <2>1. k - 1 \in Nat /\ k \in 1..Len(c) /\ c[k] \in Block /\ n \in Nat
    OBVIOUS
  <2>2. Ins(c[k]) \subseteq Created(c, k - 1) \cup Outs(c[k])
    BY <2>1, ValidBlockFacts DEF ValidChain
  <2>3. Created(c, k - 1) \subseteq Created(c, n)
    BY <2>1, Monotone
  <2>4. Outs(c[k]) \subseteq Created(c, n)
    BY DEF Created
  <2> QED
    BY <2>2, <2>3, <2>4
<1> QED
  BY <1>1 DEF Spent

\* Connecting a block: what is unspent afterwards. Disconnecting it: what
\* UnwindBlock takes away and gives back restores what was unspent before,
\* except for what the block both created and spent.
THEOREM UnspentStep ==
    ASSUME NEW c \in Seq(Block), ValidChain(c), NEW k \in 1..Len(c)
    PROVE  /\ Unspent(c, k) = (Unspent(c, k - 1) \cup Outs(c[k])) \ Ins(c[k])
           /\ Unspent(c, k - 1) \subseteq (Unspent(c, k) \ Outs(c[k])) \cup Ins(c[k])
           /\ Unspent(c, k) \ Outs(c[k]) \subseteq Unspent(c, k - 1)
           /\ Ins(c[k]) \ Outs(c[k]) \subseteq Unspent(c, k - 1)
<1> DEFINE n == k - 1
           b == c[k]
<1>1. n \in Nat /\ n \in 0..Len(c) /\ b \in Block /\ n + 1 = k
  OBVIOUS
<1>2. ValidBlock(c, n, b)
  BY DEF ValidChain
<1>3. /\ Created(c, k) = Created(c, n) \cup Outs(b)
      /\ Spent(c, k) = Spent(c, n) \cup Ins(b)
  BY <1>1, BlockStep
<1>4. Spent(c, n) \subseteq Created(c, n)
  BY <1>1, SpentCreated
<1>5. /\ Outs(b) \cap Created(c, n) = {}
      /\ Ins(b) \subseteq Created(c, n) \cup Outs(b)
      /\ Ins(b) \cap Spent(c, n) = {}
  BY <1>1, <1>2, ValidBlockFacts
<1> QED
  BY <1>3, <1>4, <1>5 DEF Unspent

-----------------------------------------------------------------------------
(* Chains as sequences                                                     *)

\* The first n blocks of a chain.
LEMMA Prefix ==
    ASSUME NEW c \in Seq(Block), NEW n \in 0..Len(c)
    PROVE  /\ SubSeq(c, 1, n) \in Seq(Block) /\ Len(SubSeq(c, 1, n)) = n
           /\ \A k \in 1..n : SubSeq(c, 1, n)[k] = c[k]
           /\ SubSeq(c, 1, n) = [k \in 1..n |-> c[k]]
  OBVIOUS

\* Blocks with the same first blocks have the same prefix.
LEMMA PrefixEqual ==
    ASSUME NEW c \in Seq(Block), NEW d \in Seq(Block), NEW n \in Nat, n <= Len(c),
           n <= Len(d), \A k \in 1..n : c[k] = d[k]
    PROVE  SubSeq(c, 1, n) = SubSeq(d, 1, n)
<1>1. n \in 0..Len(c) /\ n \in 0..Len(d)
  OBVIOUS
<1> QED
  BY <1>1, Prefix

\* What the rest of a block's transactions create and spend.
LEMMA Rest ==
    ASSUME NEW t \in Seq(Tx), NEW i \in 1..(Len(t) + 1)
    PROVE  LET rest == SubSeq(t, i, Len(t)) IN
           /\ OutsOf(rest, Len(rest)) = UNION {t[j].outs : j \in i..Len(t)}
           /\ InsOf(rest, Len(rest)) = UNION {t[j].ins : j \in i..Len(t)}
<1> DEFINE n == Len(t)
           rest == SubSeq(t, i, n)
           m == n - i + 1
<1>1. n \in Nat /\ i \in 1..(n + 1) /\ m \in Nat
  OBVIOUS
<1>2. Len(rest) = m
  <2>1. t \in Seq(Tx)
    OBVIOUS
  <2> HIDE DEF n
  <2> QED
    BY <1>1, <2>1
<1>3. \A k \in 1..m : k + i - 1 \in i..n /\ rest[k] = t[k + i - 1]
  OBVIOUS
<1>4. \A j \in i..n : j - i + 1 \in 1..m /\ rest[j - i + 1] = t[j]
  <2>1. \A j \in i..n : j - i + 1 \in 1..m /\ (j - i + 1) + i - 1 = j
    BY <1>1
  <2> QED
    BY <1>3, <2>1
<1> HIDE DEF rest, m, n
<1>5. UNION {rest[k].outs : k \in 1..m} = UNION {t[j].outs : j \in i..n}
  BY <1>3, <1>4
<1>6. UNION {rest[k].ins : k \in 1..m} = UNION {t[j].ins : j \in i..n}
  BY <1>3, <1>4
<1> QED
  BY <1>2, <1>5, <1>6 DEF OutsOf, InsOf, rest, n

\* A chain with one block more.
LEMMA AppendEqual ==
    ASSUME NEW c \in Seq(Block), NEW d \in Seq(Block), NEW b \in Block,
           Len(d) = Len(c) + 1, d[Len(c) + 1] = b, \A k \in 1..Len(c) : d[k] = c[k]
    PROVE  d = Append(c, b)
<1> DEFINE e == Append(c, b)
           n == Len(c)
<1>1. n \in Nat /\ e \in Seq(Block) /\ Len(e) = n + 1 /\ e[n + 1] = b
      /\ \A k \in 1..n : e[k] = c[k]
  OBVIOUS
<1>2. ASSUME NEW k \in 1..Len(d) PROVE d[k] = e[k]
  <2>1. CASE k = n + 1
    BY <1>1, <2>1
  <2>2. CASE k # n + 1
    <3>1. k \in 1..n
      BY <1>1, <2>2
    <3> QED
      BY <1>1, <3>1
  <2> QED
    BY <2>1, <2>2
<1> HIDE DEF e
<1>3. d = e
  BY <1>1, <1>2, SeqEqual
<1> QED
  BY <1>3 DEF e
=============================================================================
