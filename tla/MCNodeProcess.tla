--------------------------- MODULE MCNodeProcess ---------------------------
(* An instance of NodeProcess for TLC. *)
EXTENDS NodeProcess

\* dcrd with one P2P and one RPC listener, and a message nextIPCMessage does
\* not know in between.
MCEvents == <<"p2plistenaddr", "other", "rpclistenaddr">>
=============================================================================
