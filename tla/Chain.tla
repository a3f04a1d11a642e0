------------------------------- MODULE Chain -------------------------------
(***************************************************************************)
(* The block chain as the memWallet of src/dcrdtest/memwallet.go sees it.  *)
(* An outpoint stands for one transaction output that pays the wallet; a   *)
(* transaction is reduced to the wallet's outpoints it creates and spends. *)
(* Which blocks dcrd connects is decided outside the repository: the       *)
(* validity rules below are what the handlers may rely on.                 *)
(***************************************************************************)
EXTENDS Naturals, Sequences

CONSTANTS
    OutPoints,          \* outputs that pay an address of the wallet
    CoinbaseMaturity    \* chaincfg.Params.CoinbaseMaturity

ASSUME CoinbaseMaturityAssumption == CoinbaseMaturity \in Nat \ {0}

Tx == [coinbase : BOOLEAN, outs : SUBSET OutPoints, ins : SUBSET OutPoints]

\* The filtered block of an OnBlockConnected notification, later a chainUpdate.
Block == [height : Nat, txns : Seq(Tx)]

NoBlock == [height |-> 0, txns |-> <<>>]

-----------------------------------------------------------------------------

\* What the first n transactions of a block create and spend.
OutsOf(txns, n) == UNION {txns[i].outs : i \in 1..n}
InsOf(txns, n)  == UNION {txns[i].ins : i \in 1..n}

Outs(b) == OutsOf(b.txns, Len(b.txns))
Ins(b)  == InsOf(b.txns, Len(b.txns))

\* What the first n blocks of a chain create, spend and leave unspent.
Created(c, n) == UNION {Outs(c[k]) : k \in 1..n}
Spent(c, n)   == UNION {Ins(c[k]) : k \in 1..n}
Unspent(c, n) == Created(c, n) \ Spent(c, n)

\* The outpoints that coinbases of the first n blocks created less than
\* CoinbaseMaturity blocks before a block of the given height.
Immature(c, n, height) ==
    UNION { UNION {c[k].txns[i].outs : i \in {j \in 1..Len(c[k].txns) :
                                                c[k].txns[j].coinbase}} :
            k \in {m \in 1..n : m + CoinbaseMaturity > height} }

\* Transaction i of the list is valid on top of the first n blocks of c and of
\* the transactions before it: its inputs exist and are unspent, its outputs
\* are new, and only the first transaction may be a coinbase.
ValidTx(c, n, txns, i) ==
    /\ txns[i].ins \subseteq (Created(c, n) \cup OutsOf(txns, i - 1))
                             \ (Spent(c, n) \cup InsOf(txns, i - 1))
    /\ txns[i].outs \cap (Created(c, n) \cup OutsOf(txns, i - 1)) = {}
    /\ txns[i].coinbase => i = 1 /\ txns[i].ins = {}
    /\ txns[i].ins \cap Immature(c, n, n + 1) = {}
    /\ i > 1 /\ txns[1].coinbase => txns[i].ins \cap txns[1].outs = {}

\* Block b may follow the first n blocks of c.
ValidBlock(c, n, b) ==
    /\ b.height = n + 1
    /\ \A i \in 1..Len(b.txns) : ValidTx(c, n, b.txns, i)

ValidChain(c) == \A k \in 1..Len(c) : ValidBlock(c, k - 1, c[k])
=============================================================================
