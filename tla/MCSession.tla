----------------------------- MODULE MCSession -----------------------------
(***************************************************************************)
(* Instances of Session for TLC.                                           *)
(***************************************************************************)
EXTENDS Session, TLC

CONSTANTS alice, bob

(* The accounts are alike.                                                 *)
Symmetry == Permutations(Emails)
=============================================================================
