------------------------------- MODULE MCAdDeal -------------------------------
(***************************************************************************)
(* Small instances of AdDeal.                                               *)
(***************************************************************************)
EXTENDS AdDeal, TLC

(* of ten, the platform takes two *)
TwoEach == [d \in Deals |-> 2]

Everything == Operation \X Deals

(* Everything of one deal, while another is funded and locked out of the same *)
(* wallet.  A decline never writes.                                          *)
First == CHOOSE d \in Deals : TRUE
OneAtWork == {a \in Everything : a[1] \in {"fund", "lock"} \/ a[2] = First}
             \ ({"decline"} \X Deals)

Slots == Permutations(Calls)
=============================================================================
