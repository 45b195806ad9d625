---------------------------- MODULE AtomicStore ----------------------------
(***************************************************************************)
(* What the callers of BeginTransaction / CommitTransaction rely on: the   *)
(* database changes by one whole transaction at a time, in the order the   *)
(* transactions were submitted, and no transaction is applied twice.       *)
(* A transaction may also be dropped.  A transaction whose session is      *)
(* replaced midway is torn: from then on its statements may take effect    *)
(* one by one, still in order and before every later transaction.          *)
(***************************************************************************)
EXTENDS Naturals, Sequences

CONSTANT Size       \* number of statements of each transaction

VARIABLES
    committed,      \* statements <<transaction, index>> the database holds
    torn            \* transactions that lost their session midway

Whole(t) == [i \in 1..Size[t] |-> <<t, i>>]

Last == IF committed = <<>> THEN <<0, 0>> ELSE committed[Len(committed)]

Init == committed = <<>> /\ torn = {}

(* Transactions after the last one and before t are dropped, t is applied. *)
Apply(t) ==
    /\ Last[1] < t
    /\ committed' = committed \o Whole(t)
    /\ UNCHANGED torn

(* Nothing of t has taken effect when its session is replaced. *)
Tear(t) ==
    /\ Last[1] < t
    /\ torn' = torn \cup {t}
    /\ UNCHANGED committed

ApplyPiece(t, i) ==
    /\ t \in torn
    /\ Last[1] < t \/ (Last[1] = t /\ Last[2] <= i)
    /\ committed' = Append(committed, <<t, i>>)
    /\ UNCHANGED torn

Next ==
    \E t \in DOMAIN Size :
        Apply(t) \/ Tear(t) \/ \E i \in 1..Size[t] : ApplyPiece(t, i)

Spec == Init /\ [][Next]_<<committed, torn>>
=============================================================================
