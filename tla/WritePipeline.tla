-------------------------- MODULE WritePipeline --------------------------
(***************************************************************************)
(* How the vendored Firestore SDK brings the writes of one device to the   *)
(* server: SyncEngine and LocalStore with the persisted mutation queue of  *)
(* each account, RemoteStore with its write pipeline, Stream/WriteStream,  *)
(* GrpcStream below them, and the credentials provider.                    *)
(*                                                                         *)
(* Everything runs as blocks of one worker queue; completions of gRPC and  *)
(* tokens arrive on other threads and only add blocks to it.  A handler    *)
(* calls down and is called back on its way (Close calls the delegate,     *)
(* which may start the stream again), so handlers are operators from one   *)
(* state of the SDK to the next.                                           *)
(***************************************************************************)
EXTENDS Integers, Sequences, FiniteSets, Selection

CONSTANTS
    Accounts,          \* uids, and one for "signed out"
    FirstUser,         \* who is signed in when the app is first started
    MayHappen,         \* the faults that are considered
    MaxWrites,         \* bound: writes of the app
    MaxFaults,         \* bound: faults, restarts and changes of user
    MaxPendingWrites   \* kMaxPendingWrites (10)

Faults == {"break", "end", "refuse", "tokenFails", "network", "switch", "kill"}

ASSUME FirstUserAssumption == FirstUser \in Accounts
ASSUME FaultsAssumption == MayHappen \subseteq Faults
ASSUME BoundsAssumption ==
    /\ MaxWrites \in Nat
    /\ MaxFaults \in Nat
    /\ MaxPendingWrites \in Nat \ {0}

(* A write: who was signed in when the app made it, and which one it was.  *)
Writes == [by : Accounts, n : 1..MaxWrites]
Batches == [id : Nat \ {0}, write : Writes]

Handshake == [kind |-> "handshake"]
Requests == Writes \cup {Handshake}
Statuses == {"ok", "transient", "permanent"}   \* how a call ends

(* Blocks of the worker queue.                                             *)
Failed == [kind |-> "failed"]
Blocks ==
         [kind : {"write"}, write : Writes]
    \cup [kind : {"credential"}, user : Accounts]
    \cup [kind : {"token"}, user : Accounts, ok : BOOLEAN, live : BOOLEAN]
    \cup [kind : {"read"}, answer : Requests]
    \cup [kind : {"finished"}, status : Statuses]
    \cup {Failed}

VARIABLES
    sdk,         \* the state of the SDK, a record (see Sdk)
    server,      \* the far end of the stream: requests not yet handled,
                 \*   answers not yet read, and how the call ended, if it has
    committed,   \* writes the backend has committed
    refused,     \* writes the backend has refused
    made,        \* number of writes the app has made
    faults       \* number of faults so far

vars == <<sdk, server, committed, refused, made, faults>>

States == {"initial", "starting", "open", "error", "backoff"}

Sdk == [
    \* FirebaseCredentialsProvider: the user last notified, and the token
    \* requests under way ("current", "live": token_counter, close_count_
    \* have not changed since)
    notified : Accounts,
    asked : SUBSET [user : Accounts, current : BOOLEAN, live : BOOLEAN],
    \* SyncEngine and LocalStore; told stands for the closures run so far
    user : Accounts,
    queue : [Accounts -> Seq(Batches)],
    nextId : Nat,
    callbacks : SUBSET [user : Accounts, id : Nat, write : Writes],
    told : SUBSET [write : Writes, ok : BOOLEAN],
    \* RemoteStore
    enabled : BOOLEAN,
    pipeline : Seq(Batches),
    \* Stream and WriteStream
    state : States,
    handshake : BOOLEAN,
    idle : BOOLEAN,
    \* GrpcStream: the call, whose token it carries, its read and writes
    call : {"none", "open", "finishing"},
    tokenOf : Accounts,
    reading : BOOLEAN,
    buffer : Seq(Requests),
    \* the worker queue, and whether every HARD_ASSERT has held
    blocks : Seq(Blocks),
    sound : BOOLEAN]

NoCall == [wire |-> <<>>, answers |-> <<>>, status |-> "open"]

SetMax(S) == CHOOSE x \in S : \A y \in S : y <= x

HardAssert(s, condition) == [s EXCEPT !.sound = @ /\ condition]

-----------------------------------------------------------------------------
(* GrpcStream.                                                             *)

OfCall == {"read", "failed", "finished"}

(* Variant: completions already on the worker queue still run.             *)
CancelNone(s) == s

(* Completions on the worker queue cannot be taken back: their callbacks   *)
(* are cleared, which makes them blocks that do nothing.                   *)
Cancel(s) ==
    [s EXCEPT !.blocks = Select(@, {i \in DOMAIN @ : @[i].kind \notin OfCall})]

(* The call is shut down and released; nothing of it is heard again.       *)
Shutdown(s) ==
    [Cancel(s) EXCEPT !.call = "none", !.reading = FALSE, !.buffer = <<>>]

(* An operation of the call failed: the others are cancelled and the       *)
(* status of the call is fetched.                                          *)
OnOperationFailed(s, status) ==
    IF s.call = "finishing" THEN s
    ELSE LET quiet == [Cancel(s) EXCEPT !.call = "finishing", !.reading = FALSE]
         IN  [quiet EXCEPT !.blocks =
                 Append(@, [kind |-> "finished", status |-> status])]

-----------------------------------------------------------------------------
(* Stream and WriteStream.                                                 *)

IsStarted(s) == s.state \in {"starting", "backoff", "open"}

RequestCredentials(s) ==
    [s EXCEPT !.asked = @ \cup {[user |-> s.notified, current |-> TRUE,
                                 live |-> TRUE]}]

Start(s) ==
    IF s.state = "error" THEN [s EXCEPT !.state = "backoff"]
    ELSE RequestCredentials([HardAssert(s, s.state = "initial")
                                EXCEPT !.state = "starting"])

InhibitBackoff(s) == [HardAssert(s, ~IsStarted(s)) EXCEPT !.state = "initial"]

MarkIdle(s) == IF s.state = "open" THEN [s EXCEPT !.idle = TRUE] ELSE s

Write(s, requests) ==
    IF requests = <<>> THEN s
    ELSE [HardAssert(s, s.state = "open")
             EXCEPT !.idle = FALSE,
                    !.buffer = IF s.call = "open" THEN @ \o requests ELSE @]

WriteMutations(s, batches) ==
    Write(HardAssert(s, batches = <<>> \/ s.handshake),
          [i \in DOMAIN batches |-> batches[i].write])

-----------------------------------------------------------------------------
(* SyncEngine and LocalStore.                                              *)

Ids(q) == {q[i].id : i \in DOMAIN q}

Without(q, id) == Select(q, {i \in DOMAIN q : q[i].id # id})

(* Variants: the largest id itself; ids start again with each user.        *)
LoadLastBatchId(queue) ==
    SetMax({0} \cup UNION {Ids(queue[a]) : a \in Accounts})

LoadFirstBatchId(queue) == 1

(* The batch ids of all accounts share one sequence, which restarts after  *)
(* the largest id that is still in use.                                    *)
LoadNextBatchId(queue) ==
    1 + SetMax({0} \cup UNION {Ids(queue[a]) : a \in Accounts})

NotifyUser(s, id, ok) ==
    LET hits == {c \in s.callbacks : c.user = s.user /\ c.id = id}
    IN  [s EXCEPT !.callbacks = @ \ hits,
                  !.told = @ \cup {[write |-> c.write, ok |-> ok] : c \in hits}]

(* HandleSuccessfulWrite with AcknowledgeBatch, HandleRejectedWrite with   *)
(* RejectBatch: the closure runs, the batch leaves the queue.              *)
HandleWriteResult(s, id, ok) ==
    LET here == HardAssert(s, id \in Ids(s.queue[s.user]))
    IN  [NotifyUser(here, id, ok)
            EXCEPT !.queue[s.user] = Without(@, id)]

(* Variant: the newest batch first.                                        *)
WriteLocallyInFront(s, w) ==
    [s EXCEPT !.queue[s.user] = <<[id |-> s.nextId, write |-> w]>> \o @,
              !.nextId = @ + 1]

WriteLocally(s, w) ==
    [s EXCEPT !.queue[s.user] = Append(@, [id |-> s.nextId, write |-> w]),
              !.nextId = @ + 1,
              !.callbacks = @ \cup {[user |-> s.user, id |-> s.nextId,
                                     write |-> w]}]

HandleUserChange(s, u) ==
    [s EXCEPT !.user = u, !.nextId = LoadNextBatchId(s.queue)]

-----------------------------------------------------------------------------
(* RemoteStore.                                                            *)

ShouldStartWriteStream(s) ==
    s.enabled /\ ~IsStarted(s) /\ s.pipeline # <<>>

StartIfNeeded(s) == IF ShouldStartWriteStream(s) THEN Start(s) ELSE s

(* The batches of the queue behind the last one of the pipeline.           *)
Unfetched(s) ==
    LET last == IF s.pipeline = <<>> THEN 0
                ELSE s.pipeline[Len(s.pipeline)].id
        q == s.queue[s.user]
    IN  Select(q, {i \in DOMAIN q : q[i].id > last})

AddToWritePipeline(s, batches) ==
    LET filled == [s EXCEPT !.pipeline = @ \o batches]
    IN  IF s.state = "open" /\ s.handshake
        THEN WriteMutations(filled, batches) ELSE filled

FillWritePipeline(s) ==
    LET next == Unfetched(s)
        room == MaxPendingWrites - Len(s.pipeline)
        more == SubSeq(next, 1, IF Len(next) < room THEN Len(next) ELSE room)
        full == AddToWritePipeline(s, more)
    IN  IF ~s.enabled THEN s
        ELSE StartIfNeeded(IF full.pipeline = <<>> THEN MarkIdle(full)
                                                   ELSE full)

OnWriteStreamHandshakeComplete(s) == WriteMutations(s, s.pipeline)

(* The answer does not say which write it is for: it is taken to be for    *)
(* the first one of the pipeline.                                          *)
OnWriteStreamMutationResult(s) ==
    IF s.pipeline = <<>> THEN HardAssert(s, FALSE)
    ELSE FillWritePipeline(
             HandleWriteResult([s EXCEPT !.pipeline = Tail(@)],
                               Head(s.pipeline).id, TRUE))

HandleWriteError(s) ==
    LET dropped == InhibitBackoff([s EXCEPT !.pipeline = Tail(@)])
    IN  FillWritePipeline(HandleWriteResult(dropped, Head(s.pipeline).id, FALSE))

(* Variant: only a rejected write starts the stream again.                 *)
OnWriteStreamCloseForGood(s, status) ==
    IF status = "permanent" /\ s.handshake /\ s.pipeline # <<>>
    THEN HandleWriteError(s) ELSE s

OnWriteStreamClose(s, status) ==
    LET checked == HardAssert(s, status = "ok" => ~ShouldStartWriteStream(s))
        handled == IF status = "permanent" /\ s.handshake /\ s.pipeline # <<>>
                   THEN HandleWriteError(checked) ELSE checked
    IN  StartIfNeeded(handled)

(* Variant: close_count_ stays as it is.                                   *)
InvalidateNone(s) == s

(* Stream::Close.  Requests for a token that are still out, and tokens     *)
(* still on the worker queue, become stale.                                *)
Invalidate(s) ==
    [s EXCEPT !.asked = {[r EXCEPT !.live = FALSE] : r \in @},
              !.blocks = [i \in DOMAIN @ |->
                             IF @[i].kind = "token"
                             THEN [@[i] EXCEPT !.live = FALSE] ELSE @[i]]]

Close(s, status) ==
    IF status = "ok" /\ ~IsStarted(s) THEN s
    ELSE LET closed == Invalidate(Shutdown(HardAssert(s, IsStarted(s))))
             told == OnWriteStreamClose(
                        [closed EXCEPT !.idle = FALSE,
                                       !.state = IF status = "ok" THEN "initial"
                                                                  ELSE "error"],
                        status)
         IN  [told EXCEPT !.handshake = FALSE]

DisableNetworkInternal(s) == [Close(s, "ok") EXCEPT !.pipeline = <<>>]

RestartNetwork(s) ==
    LET down == DisableNetworkInternal([s EXCEPT !.enabled = FALSE])
    IN  FillWritePipeline([InhibitBackoff(down) EXCEPT !.enabled = TRUE])

(* Variant: the streams are left as they are.                              *)
HandleCredentialChangeOnly(s, u) ==
    FillWritePipeline(IF u = s.user THEN s ELSE HandleUserChange(s, u))
HandleCredentialChange(s, u) ==
    RestartNetwork(IF u = s.user THEN s ELSE HandleUserChange(s, u))

ResumeStartWithCredentials(s, b) ==
    LET starting == HardAssert(s, s.state = "starting")
    IN  IF b.ok
        THEN Write([starting EXCEPT !.state = "open", !.call = "open",
                                    !.tokenOf = b.user, !.reading = TRUE],
                   <<Handshake>>)
        ELSE Close(starting, "transient")

OnStreamRead(s) ==
    LET waiting == HardAssert([s EXCEPT !.reading = TRUE], IsStarted(s))
    IN  IF ~s.handshake
        THEN OnWriteStreamHandshakeComplete([waiting EXCEPT !.handshake = TRUE])
        ELSE OnWriteStreamMutationResult(waiting)

-----------------------------------------------------------------------------
(* FirestoreClient::Initialize in a new process: the queues are persistent,*)
(* nothing else is.                                                        *)
Launched(user, queue, told) ==
    FillWritePipeline([
        notified |-> user, asked |-> {},
        user |-> user, queue |-> queue, nextId |-> LoadNextBatchId(queue),
        callbacks |-> {}, told |-> told,
        enabled |-> TRUE, pipeline |-> <<>>,
        state |-> "initial", handshake |-> FALSE, idle |-> FALSE,
        call |-> "none", tokenOf |-> user, reading |-> FALSE, buffer |-> <<>>,
        blocks |-> <<>>, sound |-> TRUE])

Init ==
    /\ sdk = Launched(FirstUser, [a \in Accounts |-> <<>>], {})
    /\ server = NoCall
    /\ committed = {}
    /\ refused = {}
    /\ made = 0
    /\ faults = 0

-----------------------------------------------------------------------------
(* Blocks of the worker queue.  With the call the far end is gone too.     *)
Become(s) ==
    /\ sdk' = s
    /\ server' = IF s.call = "none" THEN NoCall ELSE server
    /\ UNCHANGED <<committed, refused, made, faults>>

Next1(kind) == sdk.blocks # <<>> /\ Head(sdk.blocks).kind = kind

Rest == [sdk EXCEPT !.blocks = Tail(@)]

(* SyncEngine::WriteMutations.                                             *)
RunWrite ==
    /\ Next1("write")
    /\ Become(FillWritePipeline(WriteLocally(Rest, Head(sdk.blocks).write)))

RunCredentialChange ==
    /\ Next1("credential")
    /\ Become(HandleCredentialChange(Rest, Head(sdk.blocks).user))

RunToken ==
    /\ Next1("token")
    /\ LET b == Head(sdk.blocks)
       IN  Become(IF b.live THEN ResumeStartWithCredentials(Rest, b) ELSE Rest)

RunRead ==
    /\ Next1("read")
    /\ Become(OnStreamRead(Rest))

RunFailed ==
    /\ Next1("failed")
    /\ Become(OnOperationFailed(Rest, server.status))

(* The end of the process: what is persisted is there in the next one.     *)
Relaunch ==
    /\ sdk' = [Launched(sdk.notified, sdk.queue, sdk.told)
                  EXCEPT !.sound = sdk.sound]
    /\ server' = NoCall
    /\ UNCHANGED <<committed, refused, made>>

(* Close takes an end of the call with OK for a Stop() of its own.  When   *)
(* there are writes in the pipeline it was not, and the first HARD_ASSERT  *)
(* of OnWriteStreamClose aborts the process.                               *)
StoppedWhileNeeded(status) ==
    status = "ok" /\ ShouldStartWriteStream([sdk EXCEPT !.state = "initial"])

RunFinished ==
    /\ Next1("finished")
    /\ LET status == Head(sdk.blocks).status
       IN  IF StoppedWhileNeeded(status)
           THEN Relaunch /\ UNCHANGED faults
           ELSE Become(Close(Shutdown(Rest), status))

(* Timers: they are cancelled together with what they are for.             *)
BackoffElapsed ==
    /\ sdk.state = "backoff"
    /\ Become(Start([sdk EXCEPT !.state = "initial"]))

IdleTimeout ==
    /\ sdk.idle
    /\ Become(Close(sdk, "ok"))

-----------------------------------------------------------------------------
(* Other threads.                                                          *)

AddBlock(b) == sdk' = [sdk EXCEPT !.blocks = Append(@, b)]

(* The app writes a document.                                              *)
MakeWrite ==
    /\ made < MaxWrites
    /\ made' = made + 1
    /\ AddBlock([kind |-> "write",
                 write |-> [by |-> sdk.notified, n |-> made + 1]])
    /\ UNCHANGED <<server, committed, refused, faults>>

(* Auth answers a request for a token.  If the user has changed since the  *)
(* request, it is made again.                                              *)
AnswerToken(r, ok) ==
    /\ LET less == [sdk EXCEPT !.asked = @ \ {r}]
       IN  sdk' = IF r.current
                  THEN [less EXCEPT !.blocks =
                           Append(@, [kind |-> "token", user |-> r.user,
                                      ok |-> ok, live |-> r.live])]
                  ELSE [less EXCEPT !.asked =
                           @ \cup {[r EXCEPT !.user = sdk.notified,
                                            !.current = TRUE]}]
    /\ UNCHANGED <<server, committed, refused, made>>

GiveToken == \E r \in sdk.asked : AnswerToken(r, TRUE) /\ UNCHANGED faults

(* The call takes the next write of BufferedWriter, or fails it at once    *)
(* when the far end has ended the call: then the read that was out has     *)
(* completed before.  A failed write stays active, so no other is tried.   *)
Fails == \E i \in DOMAIN sdk.blocks : sdk.blocks[i] = Failed

SendRequest ==
    /\ sdk.call = "open"
    /\ sdk.buffer # <<>>
    /\ server.status = "open"
    /\ sdk' = [sdk EXCEPT !.buffer = Tail(@)]
    /\ server' = [server EXCEPT !.wire = Append(@, Head(sdk.buffer))]
    /\ UNCHANGED <<committed, refused, made, faults>>

FailRequest ==
    /\ sdk.call = "open"
    /\ sdk.buffer # <<>>
    /\ server.status # "open"
    /\ sdk.reading => server.answers = <<>>
    /\ ~Fails
    /\ AddBlock(Failed)
    /\ UNCHANGED <<server, committed, refused, made, faults>>

(* The read of the call completes: with the next answer, or, after the     *)
(* last one, with the end of the call.                                     *)
ReceiveAnswer ==
    /\ sdk.reading
    /\ server.answers # <<>>
    /\ sdk' = [sdk EXCEPT !.reading = FALSE,
                          !.blocks = Append(@, [kind |-> "read",
                                          answer |-> Head(server.answers)])]
    /\ server' = [server EXCEPT !.answers = Tail(@)]
    /\ UNCHANGED <<committed, refused, made, faults>>

ReceiveEnd ==
    /\ sdk.reading
    /\ server.answers = <<>>
    /\ server.status # "open"
    /\ sdk' = [sdk EXCEPT !.reading = FALSE, !.blocks = Append(@, Failed)]
    /\ UNCHANGED <<server, committed, refused, made, faults>>

-----------------------------------------------------------------------------
(* The backend.                                                            *)

Serve ==
    /\ server.wire # <<>>
    /\ server.status = "open"
    /\ LET r == Head(server.wire)
       IN  /\ server' = [server EXCEPT !.wire = Tail(@),
                                       !.answers = Append(@, r)]
           /\ committed' = IF r = Handshake THEN committed
                                            ELSE committed \cup {r}
    /\ UNCHANGED <<sdk, refused, made, faults>>

-----------------------------------------------------------------------------
(* Faults, and what the environment may do besides.                        *)

Fault(kind) ==
    /\ kind \in MayHappen
    /\ faults < MaxFaults
    /\ faults' = faults + 1

(* The backend refuses a write for good, which ends the call.              *)
Refuse ==
    /\ Fault("refuse")
    /\ server.wire # <<>>
    /\ server.status = "open"
    /\ Head(server.wire) # Handshake
    /\ refused' = refused \cup {Head(server.wire)}
    /\ server' = [server EXCEPT !.wire = <<>>, !.status = "permanent"]
    /\ UNCHANGED <<sdk, committed, made>>

(* The connection breaks: a last few answers get through.                  *)
Break ==
    /\ Fault("break")
    /\ sdk.call # "none"
    /\ server.status = "open"
    /\ \E k \in 0..Len(server.answers) :
          server' = [wire |-> <<>>, status |-> "transient",
                     answers |-> SubSeq(server.answers, 1, k)]
    /\ UNCHANGED <<sdk, committed, refused, made>>

(* The backend ends the call with OK, after its last answer.               *)
EndStream ==
    /\ Fault("end")
    /\ sdk.call # "none"
    /\ server.status = "open"
    /\ server' = [server EXCEPT !.wire = <<>>, !.status = "ok"]
    /\ UNCHANGED <<sdk, committed, refused, made>>

FailToken ==
    /\ Fault("tokenFails")
    /\ \E r \in sdk.asked : AnswerToken(r, FALSE)

(* Reachability has changed, or the app came to the foreground: first      *)
(* GrpcConnection ends its calls, then, if there is a network, RemoteStore *)
(* restarts its streams.                                                   *)
NetworkChange(available) ==
    LET ended == IF sdk.call = "none" THEN sdk
                 ELSE Close(Shutdown(sdk), "transient")
        after == IF available THEN RestartNetwork(ended) ELSE ended
    IN  /\ Fault("network")
        /\ sdk' = after
        /\ server' = IF after.call = "none" THEN NoCall ELSE server
        /\ UNCHANGED <<committed, refused, made>>

(* Somebody signs in or out: contents_->current_user, ->token_counter and  *)
(* a block.                                                                *)
ChangeUser(u) ==
    /\ Fault("switch")
    /\ u # sdk.notified
    /\ sdk' = [sdk EXCEPT !.notified = u,
                          !.asked = {[r EXCEPT !.current = FALSE] : r \in @},
                          !.blocks = Append(@, [kind |-> "credential",
                                                user |-> u])]
    /\ UNCHANGED <<server, committed, refused, made>>

Kill == Fault("kill") /\ Relaunch

-----------------------------------------------------------------------------
RunBlock ==
    \/ RunWrite \/ RunCredentialChange \/ RunToken
    \/ RunRead \/ RunFailed \/ RunFinished

OtherThreads ==
    \/ GiveToken \/ SendRequest \/ FailRequest \/ ReceiveAnswer \/ ReceiveEnd

Environment ==
    \/ MakeWrite \/ IdleTimeout
    \/ Refuse \/ Break \/ EndStream \/ FailToken
    \/ \E available \in BOOLEAN : NetworkChange(available)
    \/ \E u \in Accounts : ChangeUser(u)
    \/ Kill

Next == RunBlock \/ BackoffElapsed \/ OtherThreads \/ Serve \/ Environment

Spec == Init /\ [][Next]_vars

(* The worker queue, the timers, gRPC, Auth and the backend go on; faults  *)
(* are bounded, so at last the network stays.  The first two conjuncts are *)
(* weak fairness with the guard of the action written out.                 *)
Fairness ==
    /\ []<>(sdk.blocks = <<>>) \/ []<><<RunBlock>>_vars
    /\ []<>(sdk.state # "backoff") \/ []<><<BackoffElapsed>>_vars
    /\ WF_vars(GiveToken)
    /\ WF_vars(SendRequest)
    /\ WF_vars(FailRequest)
    /\ WF_vars(ReceiveAnswer)
    /\ WF_vars(ReceiveEnd)
    /\ WF_vars(Serve)

FairSpec == Spec /\ Fairness
=============================================================================
