----------------------------- MODULE MCHarness -----------------------------
(* An instance of Harness for TLC: no test chain or one with one mature    *)
(* output, and two attempts to connect.                                    *)
EXTENDS Harness

MCEvents == <<"p2plistenaddr", "rpclistenaddr">>
=============================================================================
