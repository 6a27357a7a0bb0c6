------------------------- MODULE MessageDelivery -------------------------
(***************************************************************************)
(* What FireChat promises about a message, without queues, devices or      *)
(* streams: the author's own copy is settled (stored, or refused by the    *)
(* server) before the partner gets his; among messages related by Earlier  *)
(* an earlier one is never delivered after a later one; and the input      *)
(* field is emptied only for a message its partner has.                    *)
(***************************************************************************)
CONSTANTS
    Messages,
    Earlier     \* the pairs <<m1, m2>> that must not arrive as m2, m1

VARIABLES
    posted,     \* messages handed over
    ownCopy,    \* messages the author's chat holds
    peerCopy,   \* messages the partner's chat holds
    ownLost,    \* messages whose own copy the server refused
    confirmed   \* messages whose author saw them accepted

vars == <<posted, ownCopy, peerCopy, ownLost, confirmed>>

Init ==
    /\ posted = {}
    /\ ownCopy = {}
    /\ peerCopy = {}
    /\ ownLost = {}
    /\ confirmed = {}

Post(m) ==
    /\ m \notin posted
    /\ posted' = posted \cup {m}
    /\ UNCHANGED <<ownCopy, peerCopy, ownLost, confirmed>>

StoreOwn(m) ==
    /\ m \in posted
    /\ ownCopy' = ownCopy \cup {m}
    /\ UNCHANGED <<posted, peerCopy, ownLost, confirmed>>

RefuseOwn(m) ==
    /\ m \in posted
    /\ ownLost' = ownLost \cup {m}
    /\ UNCHANGED <<posted, ownCopy, peerCopy, confirmed>>

Deliver(m) ==
    /\ m \in ownCopy \cup ownLost
    /\ m \notin peerCopy
    /\ \A l \in peerCopy : <<m, l>> \notin Earlier
    /\ peerCopy' = peerCopy \cup {m}
    /\ UNCHANGED <<posted, ownCopy, ownLost, confirmed>>

Confirm(m) ==
    /\ m \in peerCopy
    /\ confirmed' = confirmed \cup {m}
    /\ UNCHANGED <<posted, ownCopy, peerCopy, ownLost>>

Next == \E m \in Messages :
            Post(m) \/ StoreOwn(m) \/ RefuseOwn(m) \/ Deliver(m) \/ Confirm(m)

Spec == Init /\ [][Next]_vars
=============================================================================
