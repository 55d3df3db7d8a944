----------------------------- MODULE MCSession -----------------------------
(***************************************************************************)
(* Session for TLC: channels are alike, and so are the bodies of players   *)
(* that can be allocated; the names are not permuted.                      *)
(***************************************************************************)
EXTENDS Session, TLC

Symmetry == Permutations(Descs) \cup Permutations(Players)
=============================================================================
