------------------------------ MODULE MCDuel ------------------------------
(***************************************************************************)
(* Duel for TLC: players are alike.                                        *)
(***************************************************************************)
EXTENDS Duel, TLC

Symmetry == Permutations(Players)
=============================================================================
