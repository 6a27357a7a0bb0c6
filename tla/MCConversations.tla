-------------------------- MODULE MCConversations --------------------------
(***************************************************************************)
(* Instances of Conversations for TLC.                                     *)
(***************************************************************************)
EXTENDS Conversations

CONSTANTS alice, dora, bob, carol
=============================================================================
