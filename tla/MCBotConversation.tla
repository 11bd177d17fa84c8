------------------------- MODULE MCBotConversation -------------------------
(***************************************************************************)
(* Small instances of BotConversation.                                      *)
(***************************************************************************)
EXTENDS BotConversation, TLC

(* two flows of an advertiser, of which one ends in an order, and one of a   *)
(* publisher; the others are met in conversations of an earlier run         *)
SomeFlows == {"balance", "publisher", "public"}

BothRoles == {"advertiser", "publisher"}

Alike == Permutations(Calls) \cup Permutations(Subjects)
=============================================================================
