-------------------------- MODULE MCPostDelivery --------------------------
(***************************************************************************)
(* Small instances of PostDelivery.                                         *)
(***************************************************************************)
EXTENDS PostDelivery, TLC

PromptDispatch == Mishaps \ {"dispatcher"}
DispatchMishaps == {"dispatcher", "throw"}

(* The events were created one after another. *)
OneByOne == CHOOSE order \in [Jobs -> 1..Cardinality(Jobs)] :
    \A j, k \in Jobs : order[j] = order[k] => j = k

Slots == Permutations(Workers)
=============================================================================
