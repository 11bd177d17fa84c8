------------------------------ MODULE Lifecycle ------------------------------
(***************************************************************************)
(* The lifecycle tables of modules/lifecycle/lifecycle.ts: which status may *)
(* follow which, and which actors may make the move.  A table is a set of   *)
(* triples <<from, to, actor>>; everything that changes the status of a     *)
(* campaign, a campaign target, a post job or an escrow asserts its move    *)
(* against one of these tables.                                             *)
(***************************************************************************)

TransitionActor ==
    {"advertiser", "publisher", "admin", "system", "worker", "payment_provider"}

CampaignStatus == {"draft", "active", "paused", "completed", "cancelled"}
CampaignTargetStatus == {"pending", "submitted", "accepted", "approved",
                         "rejected", "posted", "failed", "refunded"}
PostJobStatus == {"queued", "sending", "success", "failed"}
EscrowStatus == {"held", "releasing", "released", "refunding", "refunded"}

Edge(from, to, actors) == {from} \X {to} \X actors

campaignTransitions ==
    Edge("draft", "active", {"advertiser", "admin", "system"})
    \cup Edge("draft", "cancelled", {"admin"})
    \cup Edge("active", "paused", {"advertiser", "admin"})
    \cup Edge("active", "completed", {"admin", "system"})
    \cup Edge("active", "cancelled", {"advertiser", "admin"})
    \cup Edge("paused", "active", {"advertiser", "admin"})
    \cup Edge("paused", "cancelled", {"admin"})

campaignTargetTransitions ==
    Edge("pending", "submitted", {"advertiser"})
    \cup Edge("submitted", "accepted", {"publisher"})
    \cup Edge("submitted", "rejected", {"publisher", "admin"})
    \cup Edge("accepted", "approved", {"admin"})
    \cup Edge("accepted", "rejected", {"admin"})
    \cup Edge("approved", "posted", {"worker", "system"})
    \cup Edge("approved", "failed", {"worker", "system"})
    \cup Edge("failed", "refunded", {"worker", "system", "admin"})

postJobTransitions ==
    Edge("queued", "sending", {"worker"})
    \cup Edge("queued", "success", {"worker", "system"})
    \cup Edge("queued", "failed", {"worker", "system"})
    \cup Edge("sending", "success", {"worker", "system"})
    \cup Edge("sending", "failed", {"worker", "system"})
    \cup Edge("sending", "queued", {"worker", "system"})
    \cup Edge("failed", "queued", {"admin"})

escrowTransitions ==
    Edge("held", "releasing", {"worker", "system", "admin"})
    \cup Edge("held", "refunding", {"worker", "system", "admin"})
    \cup Edge("releasing", "released", {"worker", "system", "admin"})
    \cup Edge("refunding", "refunded", {"worker", "system", "admin"})

-----------------------------------------------------------------------------
(* The assertions.  Where the code throws, the operator is FALSE. *)

(* A move to the same status is a no-op that every actor may make. *)
TransitionAllowed(table, from, to, actor) ==
    from = to \/ <<from, to, actor>> \in table

(* A payout needs a published post, a refund one that was not published;    *)
(* an admin and a target without a post job are exempt.                     *)
PostJobOutcomeAllows(action, postJobStatus, actor) ==
    \/ actor = "admin"
    \/ postJobStatus = "none"
    \/ action = "release" /\ postJobStatus = "success"
    \/ /\ action = "refund"
       /\ postJobStatus # "success"
       /\ actor = "worker" => postJobStatus = "failed"
=============================================================================
