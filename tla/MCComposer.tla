---------------------------- MODULE MCComposer ----------------------------
(***************************************************************************)
(* An instance of Composer for TLC; its bounds are numbers.                *)
(***************************************************************************)
EXTENDS Composer
=============================================================================
