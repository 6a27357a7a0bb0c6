---------------------------- MODULE Messaging ----------------------------
(***************************************************************************)
(* How a message of FireChat gets from its author to his partner:          *)
(* Service.uploadMessage (API/Service.swift), run on several devices over  *)
(* the persisted write queue of the vendored Firestore SDK.                *)
(*                                                                         *)
(* A message is four documents.  The author's own copy is written first;   *)
(* the completion of that write, on the main queue, issues the other three *)
(* writes: the partner's copy and the two "recent-messages" documents that *)
(* the conversation lists show.  Between any two of these steps the app    *)
(* can be killed, the write stream can break, the server can refuse, the   *)
(* user can sign out.                                                      *)
(***************************************************************************)
EXTENDS Integers, Sequences, FiniteSets

CONSTANTS
    Users,            \* the uids that exist
    Devices,          \* installations of the app
    Nobody,           \* Auth.auth().currentUser == nil
    NoMessage,        \* an absent "recent-messages" document
    Start,            \* the account each device is signed in to at first
    MayHappen,        \* the events of the environment that are considered
    MaxSends,         \* bound: sends per device
    MaxPendingWrites  \* kMaxPendingWrites of the SDK (10)

Accounts == Users \cup {Nobody}

Environment == {"kill", "reset", "reject", "switch"}

ASSUME NobodyAssumption == Nobody \notin Users
ASSUME StartAssumption == Start \in [Devices -> Accounts]
ASSUME MayHappenAssumption == MayHappen \subseteq Environment
ASSUME BoundsAssumption == MaxSends \in Nat /\ MaxPendingWrites \in Nat \ {0}

(* What a message is to this module: author, partner, and the reading n of *)
(* the clock of the device dev it was sent from (the "timestamp" field).   *)
Messages == [from : Users, to : Users, dev : Devices, n : 1..MaxSends]

ASSUME NoMessageAssumption == NoMessage \notin Messages

(* The four writes of a message: two copies (addDocument under a fresh id) *)
(* and two recents (setData on a document named after the partner).        *)
CopyOps == {"own", "peer"}
RecentOps == {"ownRecent", "peerRecent"}
Ops == CopyOps \cup RecentOps

Copies == [op : CopyOps, msg : Messages]
Writes == [op : Ops, msg : Messages]

(* A batch of the SDK's mutation queue.  cb: the process still holds the   *)
(* completion closure for it; a queue reloaded after a kill has none.      *)
Entries == [op : Ops, msg : Messages, cb : BOOLEAN]

(* Blocks that wait on the main queue.                                     *)
Completions == [kind : CopyOps, msg : Messages, ok : BOOLEAN]
CredentialChanges == [kind : {"credential"}, user : Accounts]
MainEvents == Completions \cup CredentialChanges

VARIABLES
    auth,     \* auth[d]: Auth.auth().currentUser on d
    fs,       \* fs[d]: the user Firestore's SyncEngine works for
    queue,    \* queue[d][a]: persisted mutation queue of account a on d
    applied,  \* applied[d]: how many batches at the head of the queue in use
              \*   the server committed on this stream, not yet acknowledged
    main,     \* main[d]: blocks dispatched to the main queue
    chats,    \* chats[u, p]: the collection messages/u/p
    recents,  \* recents[u, p]: the document messages/u/recent-messages/p
    clock,    \* clock[d]: sends made from d
    sent,     \* messages handed to uploadMessage
    refused,  \* writes the server refused for good
    cleared   \* messages whose success emptied the input field

local  == <<auth, fs, main, clock, sent, cleared>>
server == <<chats, recents>>
vars == <<auth, fs, queue, applied, main, chats, recents, clock, sent,
          refused, cleared>>

-----------------------------------------------------------------------------
(* The path each write of m goes to: <<owner, partner>>.                   *)
Place(op, m) == IF op \in {"own", "ownRecent"} THEN <<m.from, m.to>>
                                               ELSE <<m.to, m.from>>

Entry(op, m, cb) == [op |-> op, msg |-> m, cb |-> cb]
Completion(kind, m, ok) == [kind |-> kind, msg |-> m, ok |-> ok]

(* Variant: both copies at once, the partner's first.                      *)
UploadBoth(m) == <<Entry("peer", m, FALSE), Entry("own", m, TRUE)>>

Upload(m) == <<Entry("own", m, TRUE)>>

(* Variants: the recents first; the author's list forgotten; no completion *)
(* passed on.                                                              *)
FanOutRecentsFirst(m) == <<Entry("ownRecent", m, FALSE),
                           Entry("peerRecent", m, FALSE),
                           Entry("peer", m, TRUE)>>
FanOutToPartner(m) == <<Entry("peer", m, TRUE), Entry("peerRecent", m, FALSE)>>
FanOutUnheard(m) == <<Entry("peer", m, FALSE), Entry("ownRecent", m, FALSE),
                      Entry("peerRecent", m, FALSE)>>

(* What the completion of the own write issues, in program order.          *)
FanOut(m) == <<Entry("peer", m, TRUE),
               Entry("ownRecent", m, FALSE),
               Entry("peerRecent", m, FALSE)>>

(* The queue the SDK works on now, on device d.                            *)
Pending(d) == queue[d][fs[d]]

(* Variant: newer batches before older ones.                               *)
PersistInFront(d, entries) ==
    queue' = [queue EXCEPT ![d][fs[d]] = entries \o @]

Persist(d, entries) ==
    queue' = [queue EXCEPT ![d][fs[d]] = @ \o entries]

Dequeue(d) == queue' = [queue EXCEPT ![d][fs[d]] = Tail(@)]

(* Only a batch whose closure is still in memory reports back.             *)
Report(e, ok) == IF e.cb THEN <<Completion(e.op, e.msg, ok)>> ELSE <<>>

Init ==
    /\ auth = Start
    /\ fs = Start
    /\ queue = [d \in Devices |-> [a \in Accounts |-> <<>>]]
    /\ applied = [d \in Devices |-> 0]
    /\ main = [d \in Devices |-> <<>>]
    /\ chats = [q \in Users \X Users |-> {}]
    /\ recents = [q \in Users \X Users |-> NoMessage]
    /\ clock = [d \in Devices |-> 0]
    /\ sent = {}
    /\ refused = {}
    /\ cleared = {}

-----------------------------------------------------------------------------
(* The app.                                                                *)

(* The user presses Send.  The screens that offer it are reached after the *)
(* credential change of a sign-in has run, hence fs[d] = auth[d].  Only    *)
(* rows left over from another account offer a chat with oneself.          *)
Send(d, to) ==
    /\ auth[d] # Nobody
    /\ fs[d] = auth[d]
    /\ clock[d] < MaxSends
    /\ to # auth[d] \/ "switch" \in MayHappen
    /\ LET m == [from |-> auth[d], to |-> to, dev |-> d, n |-> clock[d] + 1]
       IN  /\ Persist(d, Upload(m))
           /\ sent' = sent \cup {m}
    /\ clock' = [clock EXCEPT ![d] = @ + 1]
    /\ UNCHANGED <<auth, fs, applied, main, refused, cleared, server>>

(* The completion of the own write.  Its error is not looked at.           *)
RunOwnCompletion(d) ==
    /\ main[d] # <<>>
    /\ Head(main[d]).kind = "own"
    /\ Persist(d, FanOut(Head(main[d]).msg))
    /\ main' = [main EXCEPT ![d] = Tail(@)]
    /\ UNCHANGED <<auth, fs, applied, clock, sent, refused, cleared, server>>

(* Variant: the field is emptied whatever the outcome.                     *)
RunPeerCompletionBlind(d) ==
    /\ main[d] # <<>>
    /\ Head(main[d]).kind = "peer"
    /\ cleared' = cleared \cup {Head(main[d]).msg}
    /\ main' = [main EXCEPT ![d] = Tail(@)]
    /\ UNCHANGED <<auth, fs, queue, applied, clock, sent, refused, server>>

(* The completion ChatController passed: the text field is emptied unless  *)
(* there was an error.                                                     *)
RunPeerCompletion(d) ==
    /\ main[d] # <<>>
    /\ Head(main[d]).kind = "peer"
    /\ cleared' = IF Head(main[d]).ok THEN cleared \cup {Head(main[d]).msg}
                                      ELSE cleared
    /\ main' = [main EXCEPT ![d] = Tail(@)]
    /\ UNCHANGED <<auth, fs, queue, applied, clock, sent, refused, server>>

(* Auth.signOut and a later sign-in change currentUser at once and post    *)
(* the notification that Firestore listens to from the main queue.         *)
Authenticate(d, user) ==
    /\ "switch" \in MayHappen
    /\ fs[d] = auth[d]
    /\ auth' = [auth EXCEPT ![d] = user]
    /\ main' = [main EXCEPT ![d] =
                  Append(@, [kind |-> "credential", user |-> user])]
    /\ UNCHANGED <<fs, queue, applied, clock, sent, refused, cleared, server>>

SignOut(d) == auth[d] # Nobody /\ Authenticate(d, Nobody)
SignIn(d, u) == auth[d] = Nobody /\ Authenticate(d, u)

(* The process dies: the persisted queues stay, every closure is lost.     *)
Forgotten(q) == [i \in 1..Len(q) |-> [q[i] EXCEPT !.cb = FALSE]]

(* Variants: blocks of the main queue survive; no queue is persistent.     *)
LoseClosures(d, survivors) ==
    /\ queue' = [queue EXCEPT ![d] =
                   [a \in Accounts |-> Forgotten(survivors[a])]]
    /\ applied' = [applied EXCEPT ![d] = 0]
    /\ fs' = [fs EXCEPT ![d] = auth[d]]
    /\ UNCHANGED <<auth, main, clock, sent, refused, cleared, server>>

LoseEverything(d, survivors) ==
    /\ queue' = [queue EXCEPT ![d] = [a \in Accounts |-> <<>>]]
    /\ main' = [main EXCEPT ![d] = <<>>]
    /\ applied' = [applied EXCEPT ![d] = 0]
    /\ fs' = [fs EXCEPT ![d] = auth[d]]
    /\ UNCHANGED <<auth, clock, sent, refused, cleared, server>>

LoseMemory(d, survivors) ==
    /\ queue' = [queue EXCEPT ![d] =
                   [a \in Accounts |-> Forgotten(survivors[a])]]
    /\ main' = [main EXCEPT ![d] = <<>>]
    /\ applied' = [applied EXCEPT ![d] = 0]
    /\ fs' = [fs EXCEPT ![d] = auth[d]]
    /\ UNCHANGED <<auth, clock, sent, refused, cleared, server>>

Kill(d) ==
    /\ "kill" \in MayHappen
    /\ LoseMemory(d, queue[d])

(* Dying while the completion of the own write runs: each of its three     *)
(* writes is persisted by a task of its own, so a prefix of them survives. *)
KillInFanOut(d) ==
    /\ "kill" \in MayHappen
    /\ main[d] # <<>>
    /\ Head(main[d]).kind = "own"
    /\ \E k \in 1..2 :
          LoseMemory(d, [queue[d] EXCEPT ![fs[d]] =
                           @ \o SubSeq(FanOut(Head(main[d]).msg), 1, k)])

-----------------------------------------------------------------------------
(* The SDK and the server.                                                 *)

(* SyncEngine and LocalStore change to the mutation queue of the new user  *)
(* and the write stream starts again.                                      *)
RunCredentialChange(d) ==
    /\ main[d] # <<>>
    /\ Head(main[d]).kind = "credential"
    /\ fs' = [fs EXCEPT ![d] = Head(main[d]).user]
    /\ applied' = [applied EXCEPT ![d] = 0]
    /\ main' = [main EXCEPT ![d] = Tail(@)]
    /\ UNCHANGED <<auth, queue, clock, sent, refused, cleared, server>>

(* The server commits the next batch of the pipeline.  Sent a second time, *)
(* a copy finds its document id taken by itself; a recent-messages         *)
(* document is overwritten once more.                                      *)
Commit(e) ==
    \/ /\ e.op \in CopyOps
       /\ chats' = [chats EXCEPT ![Place(e.op, e.msg)] =
                      @ \cup {[op |-> e.op, msg |-> e.msg]}]
       /\ UNCHANGED recents
    \/ /\ e.op \in RecentOps
       /\ recents' = [recents EXCEPT ![Place(e.op, e.msg)] = e.msg]
       /\ UNCHANGED chats

Apply(d) ==
    /\ applied[d] < Len(Pending(d))
    /\ applied[d] < MaxPendingWrites
    /\ Commit(Pending(d)[applied[d] + 1])
    /\ applied' = [applied EXCEPT ![d] = @ + 1]
    /\ UNCHANGED <<queue, refused, local>>

(* The answer to the oldest batch arrives: it leaves the queue and its     *)
(* closure, if there is one, is dispatched to the main queue.              *)
Ack(d) ==
    /\ applied[d] > 0
    /\ main' = [main EXCEPT ![d] = @ \o Report(Head(Pending(d)), TRUE)]
    /\ Dequeue(d)
    /\ applied' = [applied EXCEPT ![d] = @ - 1]
    /\ UNCHANGED <<auth, fs, clock, sent, refused, cleared, server>>

(* Variant: given up although the server may have committed it.            *)
RejectCommitted(d) ==
    /\ "reject" \in MayHappen
    /\ Pending(d) # <<>>
    /\ LET e == Head(Pending(d))
       IN  /\ main' = [main EXCEPT ![d] = @ \o Report(e, FALSE)]
           /\ refused' = refused \cup {[op |-> e.op, msg |-> e.msg]}
    /\ Dequeue(d)
    /\ UNCHANGED <<auth, fs, applied, clock, sent, cleared, server>>

(* A permanent error: the head of the pipeline is given up.  No answer is  *)
(* outstanding then: every batch before it was answered, or its answer was *)
(* cancelled with the stream, which is a StreamReset before this step.     *)
Reject(d) ==
    /\ "reject" \in MayHappen
    /\ applied[d] = 0
    /\ Pending(d) # <<>>
    /\ LET e == Head(Pending(d))
       IN  /\ main' = [main EXCEPT ![d] = @ \o Report(e, FALSE)]
           /\ refused' = refused \cup {[op |-> e.op, msg |-> e.msg]}
    /\ Dequeue(d)
    /\ UNCHANGED <<auth, fs, applied, clock, sent, cleared, server>>

(* The stream breaks: answers on their way are lost and the pipeline is    *)
(* sent again from its head once the stream is back.                       *)
StreamReset(d) ==
    /\ "reset" \in MayHappen
    /\ applied[d] > 0
    /\ applied' = [applied EXCEPT ![d] = 0]
    /\ UNCHANGED <<queue, refused, local, server>>

-----------------------------------------------------------------------------
Device(d) ==
    \/ \E to \in Users : Send(d, to)
    \/ RunOwnCompletion(d)
    \/ RunPeerCompletion(d)
    \/ SignOut(d)
    \/ \E u \in Users : SignIn(d, u)
    \/ Kill(d)
    \/ KillInFanOut(d)
    \/ RunCredentialChange(d)
    \/ Apply(d)
    \/ Ack(d)
    \/ Reject(d)
    \/ StreamReset(d)

Next == \E d \in Devices : Device(d)

Spec == Init /\ [][Next]_vars

(* The main queue is drained, and a network that keeps coming back lets    *)
(* the stream commit and answer.  Answers need strong fairness: each break *)
(* of the stream takes the pending ones away.  Nothing obliges the user.   *)
RunMain(d) ==
    RunOwnCompletion(d) \/ RunPeerCompletion(d) \/ RunCredentialChange(d)

Fairness ==
    \A d \in Devices :
        /\ WF_vars(RunMain(d))
        /\ WF_vars(Apply(d))
        /\ SF_vars(Ack(d))

FairSpec == Spec /\ Fairness
=============================================================================
