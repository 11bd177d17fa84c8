---------------------------- MODULE EscrowPromise ----------------------------
(***************************************************************************)
(* What the escrow promises about money, whoever calls it and in whatever   *)
(* order: the price of a target leaves the advertiser once, stays held, and *)
(* then goes once to publisher and platform or once back, in one step.      *)
(***************************************************************************)
EXTENDS Integers

CONSTANTS
    Targets,
    Price,      \* of each target
    Commission, \* the platform's part of it
    Opening     \* opening balance of the advertiser

VARIABLES
    place,      \* where the price of each target is
    balance     \* of each wallet

Place == {"advertiser", "escrow", "paid", "returned"}

Init ==
    /\ place = [t \in Targets |-> "advertiser"]
    /\ balance = [advertiser |-> Opening, publisher |-> 0, platform |-> 0]

Hold(t) ==
    /\ place[t] = "advertiser"
    /\ place' = [place EXCEPT ![t] = "escrow"]
    /\ balance' = [balance EXCEPT !.advertiser = @ - Price[t]]

Pay(t) ==
    /\ place[t] = "escrow"
    /\ Commission[t] < Price[t]
    /\ place' = [place EXCEPT ![t] = "paid"]
    /\ balance' = [balance EXCEPT !.publisher = @ + (Price[t] - Commission[t]),
                                  !.platform = @ + Commission[t]]

Return(t) ==
    /\ place[t] = "escrow"
    /\ place' = [place EXCEPT ![t] = "returned"]
    /\ balance' = [balance EXCEPT !.advertiser = @ + Price[t]]

Next == \E t \in Targets : Hold(t) \/ Pay(t) \/ Return(t)

Spec == Init /\ [][Next]_<<place, balance>>
=============================================================================
