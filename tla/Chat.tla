------------------------------- MODULE Chat -------------------------------
(***************************************************************************)
(* One chat on one device: ChatController over Service.fetchMessages.      *)
(*                                                                         *)
(* The collection messages/<me>/<partner> receives documents from this     *)
(* device, from the user's other devices and from the partner.  A snapshot *)
(* listener on it, ordered by timestamp, appends every document that is    *)
(* "added" to an array owned by its closure and hands the whole array to   *)
(* the controller.  The place of a document in the query, and documents    *)
(* that are removed again, are not looked at.                              *)
(***************************************************************************)
EXTENDS Naturals, Sequences, SequencesExt, FiniteSets

CONSTANTS
    Sources,      \* the devices that write to the collection
    Here,         \* the one whose screen is modelled
    MaxMessages   \* bound: messages written, and places in the query's order

ASSUME SourcesAssumption == Here \in Sources
ASSUME BoundsAssumption == MaxMessages \in Nat

(* A document: its source, and its place in the query's order (timestamp,  *)
(* then document id), which no two documents share.                        *)
Messages == [src : Sources, at : 1..MaxMessages]

VARIABLES
    made,      \* messages written so far
    log,       \* the collection on the server, in the order of its commits
    seen,      \* how much of log the watch stream brought here
    pending,   \* own messages in the write queue, oldest first
    refused,   \* own messages the server refused
    open,      \* a ChatController is on screen
    events,    \* snapshots on their way to the main queue: what each one adds
    messages   \* the array, which is what the screen shows

remote == <<made, log, seen, pending, refused>>
vars == <<made, log, seen, pending, refused, open, events, messages>>

-----------------------------------------------------------------------------
(* Variant: the newest message first.                                      *)
NewestFirst(S) ==
    CHOOSE s \in [1..Cardinality(S) -> S] :
        \A i, j \in DOMAIN s : i < j => s[i].at > s[j].at

(* The order of the query, which the changes within a snapshot follow.     *)
InOrder(S) ==
    CHOOSE s \in [1..Cardinality(S) -> S] :
        \A i, j \in DOMAIN s : i < j => s[i].at < s[j].at

(* What a listener sees: what the watch stream brought, what the server    *)
(* accepted from here, and what waits in the queue.                        *)
View ==
    {log[i] : i \in 1..seen}
    \cup {m \in ToSet(log) : m.src = Here}
    \cup ToSet(pending)

(* Variant: the listener is heard once.                                    *)
TellOnce ==
    LET added == View' \ View
    IN  events' = IF added # {} /\ open /\ View = {}
                  THEN Append(events, InOrder(added)) ELSE events

(* The snapshot of a change; one that adds nothing changes nothing.        *)
Tell ==
    LET added == View' \ View
    IN  events' = IF added # {} /\ open THEN Append(events, InOrder(added))
                                        ELSE events

Init ==
    /\ made = {}
    /\ log = <<>>
    /\ seen = 0
    /\ pending = <<>>
    /\ refused = {}
    /\ open = FALSE
    /\ events = <<>>
    /\ messages = <<>>

(* A clock never gives a source an earlier time than before; the clocks of *)
(* two sources are not related.                                            *)
Make(m) ==
    /\ \A l \in made : l.at # m.at /\ (l.src = m.src => l.at < m.at)
    /\ made' = made \cup {m}

-----------------------------------------------------------------------------
(* The user.                                                               *)

(* uploadMessage, the own copy: visible here before the server has it.     *)
Write(m) ==
    /\ m.src = Here
    /\ open
    /\ Make(m)
    /\ pending' = Append(pending, m)
    /\ UNCHANGED <<log, seen, refused, open, messages>>
    /\ Tell

(* A new ChatController: fetchMessages with an empty array and a listener, *)
(* whose first snapshot is raised when there is a document to show.        *)
Open ==
    /\ ~open
    /\ open' = TRUE
    /\ messages' = <<>>
    /\ events' = IF View = {} THEN <<>> ELSE <<InOrder(View)>>
    /\ UNCHANGED remote

(* The screen is left; its listener goes on, unseen.                       *)
Close ==
    /\ open
    /\ open' = FALSE
    /\ events' = <<>>
    /\ UNCHANGED <<messages, remote>>

-----------------------------------------------------------------------------
(* The server and the SDK.                                                 *)

(* A message of another device reaches the collection.                     *)
Arrive(m) ==
    /\ m.src # Here
    /\ Make(m)
    /\ log' = Append(log, m)
    /\ UNCHANGED <<seen, pending, refused, open, events, messages>>

(* Variant: an acknowledged batch stays in the queue.                      *)
CommitAgain ==
    /\ pending # <<>>
    /\ Len(log) < 2 * MaxMessages
    /\ log' = Append(log, Head(pending))
    /\ UNCHANGED <<made, seen, pending, refused, open, events, messages>>

Commit ==
    /\ pending # <<>>
    /\ log' = Append(log, Head(pending))
    /\ pending' = Tail(pending)
    /\ UNCHANGED <<made, seen, refused, open, events, messages>>

(* The own message leaves the view; nobody takes it off the array.         *)
Refuse ==
    /\ pending # <<>>
    /\ refused' = refused \cup {Head(pending)}
    /\ pending' = Tail(pending)
    /\ UNCHANGED <<made, log, seen, open, events, messages>>

(* A consistent snapshot of the server.                                    *)
Watch ==
    /\ seen < Len(log)
    /\ seen' \in (seen + 1)..Len(log)
    /\ UNCHANGED <<made, log, pending, refused, open, messages>>
    /\ Tell

(* Variant: a snapshot replaces the array.                                 *)
ShowLatest ==
    /\ events # <<>>
    /\ messages' = Head(events)
    /\ events' = Tail(events)
    /\ UNCHANGED <<open, remote>>

(* The listener's closure on the main queue.                               *)
Show ==
    /\ events # <<>>
    /\ messages' = messages \o Head(events)
    /\ events' = Tail(events)
    /\ UNCHANGED <<open, remote>>

Next ==
    \/ \E m \in Messages : Write(m) \/ Arrive(m)
    \/ Open
    \/ Close
    \/ Commit
    \/ Refuse
    \/ Watch
    \/ Show

Spec == Init /\ [][Next]_vars

(* The network comes back and the main queue is drained.                   *)
FairSpec == Spec /\ WF_vars(Watch) /\ WF_vars(Show)

-----------------------------------------------------------------------------
(* What is stated about Chat.                                              *)

(* The range of every variable; the collection has no document twice and   *)
(* none that is also queued or refused.                                    *)
TypeOK ==
    /\ made \subseteq Messages
    /\ log \in Seq(made) /\ IsInjective(log)
    /\ seen \in 0..Len(log)
    /\ pending \in Seq(made) /\ IsInjective(pending)
    /\ refused \subseteq made
    /\ ToSet(log) \cap (ToSet(pending) \cup refused) = {}
    /\ ToSet(pending) \cap refused = {}
    /\ open \in BOOLEAN
    /\ events \in Seq(Seq(made))
    /\ messages \in Seq(made)

(* Once the snapshots have been delivered, the open chat shows every       *)
(* message of the view.  What it shows beyond them are own messages the    *)
(* server refused: "removed" is ignored, so they stay until the chat is    *)
(* opened again.                                                           *)
ShowsView ==
    open /\ events = <<>> =>
        /\ View \subseteq ToSet(messages)
        /\ ToSet(messages) \ View \subseteq refused

(* The messages of one source are shown in the order they were sent, and   *)
(* so none is shown twice, though a snapshot may add documents the first   *)
(* one had already, and the chat is left and opened again.                 *)
(* Messages of different sources need not be: one that arrives late is     *)
(* appended at the end although the query puts it before others.           *)
SourceOrder ==
    \A i, j \in DOMAIN messages :
        i < j /\ messages[i].src = messages[j].src => messages[i].at < messages[j].at

(* A message in the collection comes to an open chat.                      *)
EventuallyShown ==
    \A i \in 1..MaxMessages :
        (i <= Len(log) /\ open)
        ~> (~open \/ (i <= Len(log) /\ log[i] \in ToSet(messages)))
=============================================================================
