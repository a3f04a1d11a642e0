--------------------------- MODULE MCVotingWallet ---------------------------
(* An instance of VotingWallet for TLC: tickets are bought from block 2    *)
(* and vote from block 4, and the first coin that a vote returned buys a   *)
(* ticket at block 6, the last one.                                        *)
EXTENDS VotingWallet
=============================================================================
