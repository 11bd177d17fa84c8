----------------------------- MODULE MCPlacement -----------------------------
(***************************************************************************)
(* Small instances of Placement.                                            *)
(***************************************************************************)
EXTENDS Placement, TLC

Alike == Permutations(Channels) \cup Permutations(Campaigns) \cup Permutations(Targets)
             \cup Permutations(Calls)
=============================================================================
