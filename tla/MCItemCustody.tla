--------------------------- MODULE MCItemCustody ---------------------------
(* Instances of ItemCustody for TLC. *)
EXTENDS ItemCustody

CONSTANTS i1

PlayerSymmetry == Permutations(Players)

Some(n, gms, items, begun, sums, trans) ==
    UNION {{[players |-> P, masters |-> G, items |-> items, uses |-> begun, sums |-> sums, commits |-> trans] :
                G \in kSubset(gms, P)} : P \in kSubset(n, Players)}

(* Three players over an auction; two who trade two items; two over a trade *)
(* of one item, which may also be sold from the window; two over their      *)
(* mail; a game master who mails sums at the limits: the int32 above the    *)
(* maximum, a postage that turns into a gain, a sum that wraps.             *)
MCScenarios ==
    Some(3, 0, {i1}, {"auction"}, {}, 4)
    \cup Some(2, 0, Items, {"trade"}, {}, 1) \cup Some(2, 0, {i1}, {"trade", "auction"}, {}, 2)
    \cup Some(2, 0, {i1}, {"mail"}, {1}, 4) \cup Some(2, 1, {i1}, {"mail"}, {5, 9, 11}, 2)

=============================================================================
