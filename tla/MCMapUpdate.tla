---------------------------- MODULE MCMapUpdate ----------------------------
(* Instance of MapUpdate for TLC. *)
EXTENDS MapUpdate
CONSTANTS w1, w2, bg1, bg2
=============================================================================
