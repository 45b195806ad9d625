---------------------------- MODULE MCLoginQueue ----------------------------
(* LoginQueue on small instances.  Session addresses are interchangeable, so *)
(* are the accounts without a privilege.                                     *)
EXTENDS LoginQueue, TLC

CONSTANTS a1, a2, a3

SessionSymmetry == Permutations(Sessions)
=============================================================================
