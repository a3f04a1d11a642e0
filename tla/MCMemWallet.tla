---------------------------- MODULE MCMemWallet ----------------------------
(* Instances of MemWallet for TLC. *)
EXTENDS MemWallet, TLC

\* Safety only: outpoints and callers are interchangeable.
Symmetry == Permutations(OutPoints) \cup Permutations(Callers)
=============================================================================
