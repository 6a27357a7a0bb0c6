------------------------- MODULE MCWritePipeline -------------------------
(***************************************************************************)
(* Instances of WritePipeline for TLC.                                     *)
(***************************************************************************)
EXTENDS WritePipelineProps

CONSTANTS alice, bob
=============================================================================
