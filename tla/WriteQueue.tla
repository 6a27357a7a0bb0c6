--------------------------- MODULE WriteQueue ---------------------------
(***************************************************************************)
(* What the vendored Firestore SDK promises to the app about its writes,   *)
(* without streams, pipelines, tokens or the worker queue: each account    *)
(* has a persisted first-in-first-out queue; only the queue of the user in *)
(* charge moves; its oldest writes are applied in order by the server, and *)
(* a write leaves the queue at the front only, acknowledged after it was   *)
(* applied or given up.                                                    *)
(***************************************************************************)
EXTENDS Naturals, Sequences

CONSTANTS
    Accounts,   \* the users, signed-out included
    Writes      \* what a queue holds

VARIABLES
    user,       \* whose queue is worked on
    queue,      \* queue[a]: the writes of account a not yet answered
    applied     \* how many of the oldest writes of the user in charge were
                \*   applied over this stream and await their answer

vars == <<user, queue, applied>>

Init ==
    /\ user \in Accounts
    /\ queue = [a \in Accounts |-> <<>>]
    /\ applied = 0

Extends(longer, shorter) ==
    /\ Len(shorter) <= Len(longer)
    /\ SubSeq(longer, 1, Len(shorter)) = shorter

(* New writes, behind the older ones of the user in charge.                *)
Grow == \A a \in Accounts : IF a = user THEN Extends(queue'[a], queue[a])
                                       ELSE queue'[a] = queue[a]

Enqueue == Grow /\ UNCHANGED <<user, applied>>

Apply ==
    /\ applied < Len(queue[user])
    /\ applied' = applied + 1
    /\ UNCHANGED <<user, queue>>

(* The oldest write leaves the queue.                                      *)
Leave == queue' = [queue EXCEPT ![user] = Tail(@)]

Acknowledge ==
    /\ applied > 0
    /\ Leave
    /\ applied' = applied - 1
    /\ UNCHANGED user

GiveUp ==
    /\ applied = 0
    /\ queue[user] # <<>>
    /\ Leave
    /\ UNCHANGED <<user, applied>>

(* The stream breaks: answers on their way are lost, the latest first.     *)
LoseAnswers ==
    /\ applied' \in 0..applied
    /\ UNCHANGED <<user, queue>>

(* The stream starts again, possibly for another user, possibly in a new   *)
(* process that was left a last few writes.                                *)
StartOver ==
    /\ user' \in Accounts
    /\ Grow
    /\ applied' = 0

Next == Enqueue \/ Apply \/ Acknowledge \/ GiveUp \/ LoseAnswers \/ StartOver

Spec == Init /\ [][Next]_vars
=============================================================================
