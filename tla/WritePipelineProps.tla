------------------------ MODULE WritePipelineProps ------------------------
(***************************************************************************)
(* What is stated about WritePipeline.                                     *)
(***************************************************************************)
EXTENDS WritePipeline

(* The range of every variable.                                            *)
TypeOK ==
    /\ sdk \in Sdk
    /\ server \in [wire : Seq(Requests), answers : Seq(Requests),
                   status : Statuses \cup {"open"}]
    /\ committed \subseteq Writes
    /\ refused \subseteq Writes
    /\ made \in 0..MaxWrites
    /\ faults \in 0..MaxFaults

(* No HARD_ASSERT on the way of a write fails but one: a stream is never    *)
(* started twice, stopped by the SDK while needed, written to before its   *)
(* handshake; no answer finds an empty pipeline; no answer or timer of an  *)
(* earlier incarnation reaches a later one; no batch is removed twice.     *)
(* The one is that of OnWriteStreamClose, "Write stream was stopped        *)
(* gracefully while still needed", when it was not the SDK that stopped    *)
(* it: RunFinished aborts the process when the backend has ended a call    *)
(* with OK while there are writes in the pipeline.                         *)
Sound == sdk.sound

(* Answers not yet handled, oldest first.                                  *)
IsResult(r) == r # Handshake
Arrived ==
    LET reads == Select(sdk.blocks, {i \in DOMAIN sdk.blocks :
                                        sdk.blocks[i].kind = "read"})
    IN  [i \in DOMAIN reads |-> reads[i].answer]
Outstanding ==
    LET all == Arrived \o server.answers
    IN  Select(all, {i \in DOMAIN all : IsResult(all[i])})

(* An answer carries no id and is credited to the front of the pipeline:   *)
(* the answers outstanding are those to the first writes of the pipeline,  *)
(* in order, through restarts, changes of user and cancelled reads; and    *)
(* the pipeline is the front of the queue of the user in charge.  (Once an *)
(* operation of the call has failed, what is left of it is never read.)    *)
Correlated ==
    /\ Len(sdk.pipeline) <= Len(sdk.queue[sdk.user])
    /\ sdk.pipeline = SubSeq(sdk.queue[sdk.user], 1, Len(sdk.pipeline))
    /\ sdk.call = "open" =>
          /\ Len(Outstanding) <= Len(sdk.pipeline)
          /\ \A i \in DOMAIN Outstanding : Outstanding[i] = sdk.pipeline[i].write

(* Nothing of one account gets to another.  A token that was requested     *)
(* before a change of user and comes after it opens no stream; each queue  *)
(* holds the writes of its own account; and although the ids of batches    *)
(* start again when a queue is loaded, none is in use twice, so that each  *)
(* closure waits for the very write it came with.                          *)
OwnAccount ==
    /\ sdk.call = "open" => sdk.tokenOf = sdk.user
    /\ \A a \in Accounts : \A i \in DOMAIN sdk.queue[a] :
          sdk.queue[a][i].write.by = a
    /\ \A a, b \in Accounts :
          \A i \in DOMAIN sdk.queue[a], j \in DOMAIN sdk.queue[b] :
             sdk.queue[a][i].id = sdk.queue[b][j].id => <<a, i>> = <<b, j>>
    /\ \A c \in sdk.callbacks : \E i \in DOMAIN sdk.queue[c.user] :
          sdk.queue[c.user][i] = [id |-> c.id, write |-> c.write]

(* The app is told of a success only if the backend committed that write,  *)
(* and no write is committed while an older one of its account still waits *)
(* to be committed for the first time.                                     *)
ToldInOrder ==
    /\ \A t \in sdk.told : t.ok => t.write \in committed
    /\ \A w \in committed : \A i \in DOMAIN sdk.queue[w.by] :
          sdk.queue[w.by][i].write.n < w.n => sdk.queue[w.by][i].write \in committed

(* "If this was a permanent error, the request itself was the problem"     *)
(* (remote_store.cc): a write is reported as failed only if it was refused.*)
RejectedWasRefused == \A t \in sdk.told : t.ok \/ t.write \in refused

-----------------------------------------------------------------------------
(* A write in the queue of the user in charge leaves it, unless the user   *)
(* changes: the stream is restarted after every break, refusal, failing    *)
(* token and idle stop.                                                    *)
Waits(w) == \E i \in DOMAIN sdk.queue[w.by] : sdk.queue[w.by][i].write = w

EventuallyAnswered ==
    \A w \in Writes : (w.by = sdk.user /\ Waits(w)) ~>
                          (w.by # sdk.user \/ ~Waits(w))

-----------------------------------------------------------------------------
(* Answers that can still be read.                                         *)
Unanswered == IF sdk.call = "open" THEN Len(Outstanding) ELSE 0

Queues == INSTANCE WriteQueue WITH
    Accounts <- Accounts,
    Writes   <- Writes,
    user     <- sdk.user,
    queue    <- [a \in Accounts |->
                    [i \in DOMAIN sdk.queue[a] |-> sdk.queue[a][i].write]],
    applied  <- Unanswered

(* Under all of this the app sees the queues of WriteQueue.                *)
QueuesKept == Queues!Spec
=============================================================================
