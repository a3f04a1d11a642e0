----------------------------- MODULE WalletView -----------------------------
(***************************************************************************)
(* What the memWallet promises a test about blocks: it goes from one chain *)
(* to the next by whole blocks, each applied once and in order or undone   *)
(* from the tip, and its coins change with them and with nothing else. No  *)
(* queue, no lock, no transaction by transaction evaluation.               *)
(***************************************************************************)
EXTENDS Chain

VARIABLES
    applied,    \* the blocks whose effect the wallet's coins have
    coins       \* the outpoints the wallet knows as its own

viewVars == <<applied, coins>>

Init == applied = <<>> /\ coins = {}

\* A valid block takes effect as a whole. (The block is named through applied'
\* because TLC cannot enumerate Block.)
Extend ==
    /\ Len(applied') = Len(applied) + 1
    /\ LET b == applied'[Len(applied')] IN
         /\ ValidBlock(applied, Len(applied), b)
         /\ applied' = Append(applied, b)
         /\ coins' = (coins \cup Outs(b)) \ Ins(b)

\* The last block is undone as a whole. An output the block both created and
\* spent comes back too: this is what UnwindBlock's two loops do.
Retract ==
    /\ applied # <<>>
    /\ applied' = SubSeq(applied, 1, Len(applied) - 1)
    /\ coins' = LET b == applied[Len(applied)] IN (coins \ Outs(b)) \cup Ins(b)

Spec == Init /\ [][Extend \/ Retract]_viewVars
=============================================================================
