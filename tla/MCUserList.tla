----------------------------- MODULE MCUserList -----------------------------
(* UserList for TLC: three users in the list, one of them without a        *)
(* picture, and one text that only the last matches.                       *)
EXTENDS UserList

CONSTANTS ann, ben, cid

AllUsers == <<ann, ben, cid>>
Matches == [t \in {"", "c"} |-> IF t = "c" THEN {cid} ELSE {ann, ben, cid}]
=============================================================================
