-------------------------- MODULE MCCampaignEscrow --------------------------
(***************************************************************************)
(* Small instances of CampaignEscrow.                                       *)
(***************************************************************************)
EXTENDS CampaignEscrow, TLC

(* every move the lifecycle table defines, whoever makes it *)
AllTargetMoves == TargetEdges

(* the moves that lead up to an approved target; nothing in src/ moves a     *)
(* target from approved to failed                                            *)
CodeTargetMoves == {<<"submitted", "accepted">>, <<"accepted", "approved">>}

(* ... and the one that the table has for a post that could not be made      *)
FailingTargetMoves == CodeTargetMoves \cup {<<"approved", "failed">>}

Everything == Callers \cup Disturbances
HoldAndWork == {"hold", "worker"}

(* ten a target, of which the platform takes two or all *)
Ten == [t \in Targets |-> 10]
TwoEach == [t \in Targets |-> 2]
AllCommission == [t \in Targets |-> 10]

Slots == Permutations(Calls)
SlotsAndTargets == Permutations(Calls) \cup Permutations(Targets)
=============================================================================
