-------------------------- MODULE MessagingProps --------------------------
(***************************************************************************)
(* What is stated about Messaging.                                         *)
(***************************************************************************)
EXTENDS Messaging

(* The range of every variable; at no time does the stream account for     *)
(* more batches than the mutation queue of the present user holds.         *)
TypeOK ==
    /\ auth \in [Devices -> Accounts]
    /\ fs \in [Devices -> Accounts]
    /\ queue \in [Devices -> [Accounts -> Seq(Entries)]]
    /\ applied \in [Devices -> Nat]
    /\ \A d \in Devices : applied[d] <= Len(Pending(d))
    /\ main \in [Devices -> Seq(MainEvents)]
    /\ chats \in [Users \X Users -> SUBSET Copies]
    /\ recents \in [Users \X Users -> Messages \cup {NoMessage}]
    /\ clock \in [Devices -> 0..MaxSends]
    /\ sent \subseteq Messages
    /\ refused \subseteq Writes
    /\ cleared \subseteq Messages

-----------------------------------------------------------------------------
Stored(op, m) == [op |-> op, msg |-> m] \in chats[Place(op, m)]
Refused(op, m) == [op |-> op, msg |-> m] \in refused
Settled(op, m) == Stored(op, m) \/ Refused(op, m)

(* The partner never has a message whose author's own copy is still on its *)
(* way: uploadMessage writes the partner's copy from the completion of the *)
(* own write only, whatever is killed, resent or signed out in between.    *)
OwnSettledFirst ==
    \A m \in Messages : Stored("peer", m) => Settled("own", m)

(* The text the user typed is thrown away only when the partner has the    *)
(* message: ChatController empties the field in the completion of the      *)
(* partner's copy, unless that reports an error.                           *)
ClearedMeansDelivered == \A m \in cleared : Stored("peer", m)

(* The copy a recent-messages document goes with.                          *)
CopyOf(op) == IF op = "ownRecent" THEN "own" ELSE "peer"

(* A conversation list never announces a message that is neither in the    *)
(* chat of that side nor refused there: uploadMessage issues both recents  *)
(* after both copies.                                                      *)
RecentsBacked ==
    \A q \in Users \X Users : recents[q] # NoMessage =>
        \E op \in RecentOps : /\ Place(op, recents[q]) = q
                              /\ Settled(CopyOf(op), recents[q])

(* The copies of m under way: queued, or about to be fanned out.           *)
QueuedCopies(d, a, m) ==
    {<<d, a, i>> : i \in {j \in DOMAIN queue[d][a] :
                            /\ queue[d][a][j].msg = m
                            /\ queue[d][a][j].op \in CopyOps}}
FanOuts(d, m) ==
    {<<d, i>> : i \in {j \in DOMAIN main[d] : /\ main[d][j].kind = "own"
                                             /\ main[d][j].msg = m}}
Tokens(m) ==
    (UNION {QueuedCopies(d, a, m) : d \in Devices, a \in Accounts})
    \cup (UNION {FanOuts(d, m) : d \in Devices})

(* No message is uploaded twice over: at any time at most one of its       *)
(* copies is under way, as a queued write or as a completion about to fan  *)
(* out.  (Every addDocument makes a document of its own, so a second one   *)
(* would show the message twice.)                                          *)
FanOutOnce == \A m \in sent : Cardinality(Tokens(m)) <= 1

(* Messages from one device to one partner, in the order of its clock.     *)
SameLane(m1, m2) == m1.from = m2.from /\ m1.to = m2.to /\ m1.dev = m2.dev
LaneOrder == {p \in Messages \X Messages :
                 SameLane(p[1], p[2]) /\ p[1].n < p[2].n}

(* All devices have done their work.                                       *)
Idle == \A d \in Devices : main[d] = <<>> /\ \A a \in Accounts : queue[d][a] = <<>>

Between(u, p) == {m \in sent : {m.from, m.to} = {u, p}}

(* When everything is written, the conversation list of either partner     *)
(* shows the newest message of the device it came from; so with one device *)
(* writing, both lists show the same, newest, message.  Holds while the    *)
(* app is not killed and no write is refused; resent recents do not stick. *)
SettledRecents ==
    Idle => \A u, p \in Users : u # p /\ Between(u, p) # {} =>
                /\ recents[u, p] \in Between(u, p)
                /\ \A m \in Between(u, p) : <<recents[u, p], m>> \notin LaneOrder

-----------------------------------------------------------------------------
(* Messages that can be sent at all: a device changes its account only by  *)
(* signing out and in.                                                     *)
Sendable == {m \in Messages : \/ "switch" \in MayHappen
                              \/ m.from = Start[m.dev] /\ m.to # m.from}

(* Every message sent is in the end stored in its author's chat or refused,*)
(* through kills and broken streams: the queue is persistent.              *)
SentIsSettled ==
    \A m \in Sendable : (m \in sent) ~> Settled("own", m)

(* Unless the app is killed, every message reaches the partner and empties *)
(* the input field, or the server refused the partner's copy.              *)
SentIsDelivered ==
    \A m \in Sendable :
        (m \in sent) ~> (Refused("peer", m) \/ m \in cleared)

-----------------------------------------------------------------------------
(* Messages of one lane stay in order as long as nobody signs out: a       *)
(* completion that runs after a sign-out leaves the partner's copy in      *)
(* another account's queue.                                                *)
DeliveryOrder == IF "switch" \in MayHappen THEN {} ELSE LaneOrder

Delivery == INSTANCE MessageDelivery WITH
    Messages  <- Messages,
    Earlier   <- DeliveryOrder,
    posted    <- sent,
    ownCopy   <- {m \in Messages : Stored("own", m)},
    peerCopy  <- {m \in Messages : Stored("peer", m)},
    ownLost   <- {m \in Messages : Refused("own", m)},
    confirmed <- cleared

(* Messaging keeps the promise of MessageDelivery: the author's copy       *)
(* settled first, delivery in order, the field emptied only for a          *)
(* delivered message, nothing delivered that was not sent.                 *)
DeliveryKept == Delivery!Spec
=============================================================================
