--------------------------- MODULE AdDealLifecycle ---------------------------
(***************************************************************************)
(* The rules of an ad deal, from modules/domain/addeal: the table of        *)
(* addeal.lifecycle.ts (who may move a deal where, and which ledger reasons *)
(* the move must have) and the invariant of addeal.aggregate.ts (which      *)
(* timestamps a status requires).  A timestamp is present or not; when it   *)
(* was taken matters to nobody.                                             *)
(***************************************************************************)
EXTENDS Lifecycle

DealState == {"created", "funded", "escrow_locked", "publisher_requested",
              "publisher_declined", "accepted", "advertiser_confirmed",
              "proof_submitted", "settled", "refunded", "disputed"}

AdDealEscrowStatus == {"locked", "settled", "refunded"}

Stamp == {"funded", "locked", "requested", "declined", "accepted", "confirmed",
          "proof", "settled", "refunded", "disputed"}

(* The actors most moves allow: one side of the deal, and the operator *)
With(side) == {side, "admin", "system"}
Everyone == {"advertiser", "publisher", "admin", "system"}
Operator == {"admin", "system"}

Negotiable == {"escrow_locked", "publisher_requested", "accepted",
               "advertiser_confirmed"}
Disputable == Negotiable \cup {"proof_submitted"}
Refundable == Disputable \cup {"disputed"}

AD_DEAL_TRANSITIONS ==
    Edge("created", "funded", {"payment_provider", "system"})
    \cup Edge("funded", "escrow_locked", With("advertiser"))
    \cup Edge("funded", "publisher_requested", With("advertiser"))
    \cup Edge("escrow_locked", "publisher_requested", With("advertiser"))
    \cup Edge("publisher_requested", "accepted", With("publisher"))
    \cup Edge("publisher_requested", "publisher_declined", With("publisher"))
    \cup Edge("accepted", "advertiser_confirmed", With("advertiser"))
    \cup Edge("advertiser_confirmed", "proof_submitted", With("publisher"))
    \cup Edge("proof_submitted", "settled", Operator)
    \cup Edge("disputed", "settled", Operator)
    \cup (Negotiable \X {"refunded"} \X With("advertiser"))
    \cup ({"proof_submitted", "disputed"} \X {"refunded"} \X Operator)
    \cup (Disputable \X {"disputed"} \X Everyone)

(* The ledger reasons a defined move requires; no move has optional ones. *)
MoneyMovement(from, to) ==
    IF to = "funded" THEN {"deposit"}
    ELSE IF from = "funded" THEN {"escrow_hold"}
    ELSE IF to \in {"refunded", "publisher_declined"} THEN {"refund"}
    ELSE IF to = "settled" THEN {"payout", "commission"}
    ELSE {}

(* The aggregate's invariant: what must have happened before a status *)
RequiredStamps(status) ==
    (IF status # "created" THEN {"funded"} ELSE {})
    \cup (IF status \notin {"created", "funded", "refunded"} THEN {"locked"} ELSE {})
    \cup (IF status \in {"publisher_requested", "publisher_declined", "accepted",
                        "advertiser_confirmed", "proof_submitted", "settled"}
          THEN {"requested"} ELSE {})
    \cup (IF status \in {"accepted", "advertiser_confirmed", "proof_submitted",
                        "settled"} THEN {"accepted"} ELSE {})
    \cup (IF status \in {"advertiser_confirmed", "proof_submitted", "settled"}
          THEN {"confirmed"} ELSE {})
    \cup (IF status \in {"proof_submitted", "settled"} THEN {"proof"} ELSE {})
    \cup (IF status = "settled" THEN {"settled"} ELSE {})
    \cup (IF status = "publisher_declined" THEN {"declined"} ELSE {})
    \cup (IF status \in {"refunded", "disputed"} THEN {status} ELSE {})
=============================================================================
