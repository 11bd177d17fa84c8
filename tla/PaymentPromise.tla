---------------------------- MODULE PaymentPromise ----------------------------
(***************************************************************************)
(* What the payment intents promise about a wallet: money moves only for an *)
(* intent its user has asked for, by the amount asked for, once.            *)
(***************************************************************************)
EXTENDS Integers

CONSTANTS
    Intents,
    Change      \* what each intent adds to the balance

VARIABLES
    asked,      \* intents the user has asked for
    booked,     \* intents the wallet has moved for
    balance

Init ==
    /\ asked = {}
    /\ booked = {}
    /\ balance = 0

Ask(i) ==
    /\ asked' = asked \cup {i}
    /\ UNCHANGED <<booked, balance>>

Book(i) ==
    /\ i \in asked \ booked
    /\ booked' = booked \cup {i}
    /\ balance' = balance + Change[i]
    /\ UNCHANGED asked

Next == \E i \in Intents : Ask(i) \/ Book(i)

Spec == Init /\ [][Next]_<<asked, booked, balance>>
=============================================================================
