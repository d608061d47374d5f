------------------------------ MODULE MCParty ------------------------------
(* Small instances of Party for TLC. *)
EXTENDS Party, TLC

MCSymmetry == Permutations(Player) \cup Permutations(Slot)
=============================================================================
