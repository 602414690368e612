--------------------------- MODULE MCPeerFlagDda ----------------------------
(* A small instance of PeerFlagDda for TLC: two ranks of two workgroups,    *)
(* two operations.                                                          *)
EXTENDS PeerFlagDda

Ranks == 0..(Parts - 1)
=============================================================================
