---------------------------- MODULE MCDurability ----------------------------
(* Instances of Durability for TLC. *)
EXTENDS DurabilityProofs, TLC

IdSymmetry == Permutations(Ids)

=============================================================================
