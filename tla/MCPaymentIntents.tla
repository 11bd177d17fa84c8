-------------------------- MODULE MCPaymentIntents --------------------------
(***************************************************************************)
(* Small instances of PaymentIntents.                                       *)
(***************************************************************************)
EXTENDS PaymentIntents, TLC

(* every intent is worth the same, so a withdrawal takes all of one deposit *)
Ten == [i \in Intents |-> 10]

Slots == Permutations(Calls)
=============================================================================
