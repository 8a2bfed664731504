------------------------------ MODULE MCTiers ------------------------------
(***************************************************************************)
(* Tiers for TLC: the instances that serve requests are alike.             *)
(***************************************************************************)
EXTENDS Tiers, TLC

Alike == Permutations(Workers)
=============================================================================
