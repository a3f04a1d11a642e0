---------------------------- MODULE MCSolveBlock ----------------------------
(* An instance of SolveBlock for TLC: three cores share nonces 1 to 9, so    *)
(* that the last range is the longest, and any of them may solve.          *)
EXTENDS SolveBlock
=============================================================================
