------------------------------ MODULE MCClans ------------------------------
(***************************************************************************)
(* Instances of module Clans.                                              *)
(***************************************************************************)
EXTENDS Clans, TLC

Symmetry == Permutations(Char)
=============================================================================
