--------------------------- MODULE DeliveryPromise ---------------------------
(***************************************************************************)
(* What the delivery of posts promises: the escrow of a job goes one way,   *)
(* once, and to the publisher only when the post is in the channel.         *)
(***************************************************************************)
EXTENDS Naturals

CONSTANT Jobs

VARIABLES
    posts,      \* messages in the channel, per job
    escrow      \* "held", "released" or "refunded", per job

Init ==
    /\ posts = [j \in Jobs |-> 0]
    /\ escrow = [j \in Jobs |-> "held"]

Publish(j) ==
    /\ posts' = [posts EXCEPT ![j] = @ + 1]
    /\ UNCHANGED escrow

Pay(j) ==
    /\ escrow[j] = "held"
    /\ posts[j] > 0
    /\ escrow' = [escrow EXCEPT ![j] = "released"]
    /\ UNCHANGED posts

GiveBack(j) ==
    /\ escrow[j] = "held"
    /\ escrow' = [escrow EXCEPT ![j] = "refunded"]
    /\ UNCHANGED posts

Next == \E j \in Jobs : Publish(j) \/ Pay(j) \/ GiveBack(j)

Spec == Init /\ [][Next]_<<posts, escrow>>
=============================================================================
