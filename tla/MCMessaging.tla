--------------------------- MODULE MCMessaging ---------------------------
(***************************************************************************)
(* Instances of Messaging for TLC.                                         *)
(***************************************************************************)
EXTENDS MessagingProps

CONSTANTS alice, bob, phone, tablet

(* Alice on the phone and Bob on the tablet.                               *)
OneEach == [d \in Devices |-> IF d = phone THEN alice ELSE bob]
=============================================================================
