------------------------------ MODULE MCDbPool ------------------------------
(* Instances of DbPool for TLC: the world thread, which pings, a network    *)
(* thread, and the thread of a remote access socket, which nobody joins.    *)
EXTENDS DbPool
CONSTANTS world, network, ra
=============================================================================
