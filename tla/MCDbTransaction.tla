-------------------------- MODULE MCDbTransaction --------------------------
(* Instances of DbTransaction for TLC: the lengths of the transactions that *)
(* go through the worker one after the other.                               *)
EXTENDS DbTransaction

TwoTransactions   == <<2, 2>>
FourTransactions  == <<3, 0, 2, 2>>
=============================================================================
