----------------------------- MODULE MCNodeSync -----------------------------
(* An instance of NodeSync for TLC: three nodes, the third of which was    *)
(* told to connect to the first, and a test that connects the first to the *)
(* second and removes the connection.                                      *)
EXTENDS NodeSync

MCPairs == {<<1, 2>>}
MCInitWanted == {<<3, 1>>}
=============================================================================
