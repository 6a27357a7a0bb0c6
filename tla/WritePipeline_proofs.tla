----------------------- MODULE WritePipeline_proofs -----------------------
(***************************************************************************)
(* The proofs about WritePipeline.  The inductive invariant is made of     *)
(* parts over the fields of the SDK's state they are about, so that a      *)
(* handler has to be looked at only for the parts it touches.              *)
(***************************************************************************)
EXTENDS WritePipelineProps, Ordering_proofs

Batched == [Accounts -> Seq(Batches)]
Servers == [wire : Seq(Requests), answers : Seq(Requests), status : Statuses \cup {"open"}]

(* The queues: each has its account's writes, older ones first; ids are    *)
(* unique, and below the next one.                                         *)
QueuesOK(Q, next) ==
    /\ next # 0
    /\ \A a \in Accounts : \A i \in 1..Len(Q[a]) :
          Q[a][i].write.by = a /\ Q[a][i].id < next
    /\ \A a, b \in Accounts : \A i \in 1..Len(Q[a]), j \in 1..Len(Q[b]) :
          Q[a][i].id = Q[b][j].id => a = b /\ i = j
    /\ \A a \in Accounts : \A i, j \in 1..Len(Q[a]) :
          i < j => /\ Q[a][i].id < Q[a][j].id
                   /\ Q[a][i].write.n < Q[a][j].write.n

(* Each closure waits for a write that is queued.                          *)
ClosuresOK(Q, callbacks) ==
    \A c \in callbacks : \E i \in 1..Len(Q[c.user]) :
        Q[c.user][i] = [id |-> c.id, write |-> c.write]

(* The user who will be in charge when the blocks before place i have run. *)
InCharge(blocks, user, i, u) ==
    \/ /\ u = user
       /\ \A j \in 1..Len(blocks) : j < i => blocks[j].kind # "credential"
    \/ \E j \in 1..Len(blocks) :
          /\ j < i
          /\ blocks[j].kind = "credential"
          /\ blocks[j].user = u
          /\ \A k \in 1..Len(blocks) :
                j < k /\ k < i => blocks[k].kind # "credential"

(* Writes and tokens reach the user they were made for.                    *)
StampsOK(blocks, user, notified, asked) ==
    /\ \A i \in 1..Len(blocks) :
          /\ blocks[i].kind = "write" => InCharge(blocks, user, i, blocks[i].write.by)
          /\ blocks[i].kind = "token" => InCharge(blocks, user, i, blocks[i].user)
    /\ InCharge(blocks, user, Len(blocks) + 1, notified)
    /\ \A r \in asked : r.current => r.user = notified

(* The writes that are still to be queued are newer than all others.       *)
AheadOK(blocks, Q, done, m) ==
    /\ \A a \in Accounts : \A j \in 1..Len(Q[a]) : Q[a][j].write.n <= m
    /\ \A w \in done : w.n <= m
    /\ \A i \in 1..Len(blocks) : blocks[i].kind = "write" =>
          /\ blocks[i].write.n <= m
          /\ \A a \in Accounts : \A j \in 1..Len(Q[a]) :
                Q[a][j].write.n < blocks[i].write.n
          /\ \A w \in done : w.n < blocks[i].write.n
          /\ \A j \in 1..Len(blocks) : i < j /\ blocks[j].kind = "write" =>
                blocks[i].write.n < blocks[j].write.n

(* The pipeline is the front of the queue of the user in charge.           *)
PipeOK(pipeline, q) ==
    /\ Len(pipeline) <= Len(q)
    /\ Len(pipeline) <= MaxPendingWrites
    /\ \A i \in 1..Len(pipeline) : pipeline[i] = q[i]

(* A token that counts is awaited by a stream that is starting, and only   *)
(* one.                                                                    *)
LiveToken(b) == b.kind = "token" /\ b.live
TokensOK(asked, blocks, state) ==
    /\ \A r \in asked : r.live => state = "starting"
    /\ \A i \in 1..Len(blocks) : LiveToken(blocks[i]) => state = "starting"
    /\ \A r1, r2 \in asked : r1.live /\ r2.live => r1 = r2
    /\ \A i, j \in 1..Len(blocks) :
          LiveToken(blocks[i]) /\ LiveToken(blocks[j]) => i = j
    /\ \A r \in asked : \A i \in 1..Len(blocks) :
          ~(r.live /\ LiveToken(blocks[i]))

(* The states of the stream, its call and the pipeline go together.        *)
StreamOK(state, handshake, idle, call, pipeline) ==
    /\ state = "open" <=> call # "none"
    /\ state \in {"starting", "backoff"} => pipeline # <<>>
    /\ state = "open" /\ ~handshake => pipeline # <<>>
    /\ idle => state = "open" /\ pipeline = <<>>

Quiet(blocks) == \A i \in 1..Len(blocks) : blocks[i].kind \notin OfCall

(* What of a call is on the worker queue.                                  *)
CallOK(call, reading, blocks, buffer, s) ==
    /\ call = "none" => ~reading /\ buffer = <<>> /\ s = NoCall /\ Quiet(blocks)
    /\ call = "finishing" => ~reading /\ s.status # "open"
    /\ s.status # "open" => s.wire = <<>>
    /\ \A i \in 1..Len(blocks) :
          /\ blocks[i].kind = "read" => call = "open" /\ ~reading
          /\ blocks[i].kind = "failed" => call = "open" /\ s.status # "open"
          /\ blocks[i].kind = "finished" => call = "finishing"
    /\ \A i, j \in 1..Len(blocks) :
          blocks[i].kind = "read" /\ blocks[j].kind = "read" => i = j

(* The requests a call has to answer, in order.                            *)
Expected(handshake, pipeline) ==
    IF handshake THEN [i \in 1..Len(pipeline) |-> pipeline[i].write]
                 ELSE <<Handshake>>

HasRead(blocks) == \E i \in 1..Len(blocks) : blocks[i].kind = "read"
Reads(blocks) == IF HasRead(blocks) THEN 1 ELSE 0

(* Answers to writes that can still be read.                               *)
Left(s, sv) ==
    IF s.call = "open" /\ s.handshake THEN Reads(s.blocks) + Len(sv.answers) ELSE 0

(* s stands in e behind the first k.                                       *)
Within(s, k, e) == k + Len(s) <= Len(e) /\ \A i \in 1..Len(s) : s[i] = e[k + i]

(* Answers read, answers to be read, requests to be handled and requests   *)
(* to be sent are, one after the other, what the call has to answer; once  *)
(* it has ended, the answers are the first of it.                          *)
LineOK(blocks, buffer, s, e) ==
    LET a == Reads(blocks)
        w == a + Len(s.answers)
        b == w + Len(s.wire)
    IN  /\ \A i \in 1..Len(blocks) : blocks[i].kind = "read" =>
              Len(e) >= 1 /\ blocks[i].answer = e[1]
        /\ Within(s.answers, a, e)
        /\ s.status = "open" => /\ Within(s.wire, w, e)
                              /\ Within(buffer, b, e)
                              /\ b + Len(buffer) = Len(e)

(* Nothing is answered, and no success is reported, before it is committed.*)
AnswersOK(blocks, s, done) ==
    /\ \A i \in 1..Len(blocks) : blocks[i].kind = "read" =>
          blocks[i].answer \in done \cup {Handshake}
    /\ \A i \in 1..Len(s.answers) : s.answers[i] \in done \cup {Handshake}

ToldOK(told, done) == \A t \in told : t.ok => t.write \in done

(* A write that is committed has no older one before it in the queue that  *)
(* is not.                                                                 *)
CommitsOK(Q, done) ==
    \A w \in done : \A i \in 1..Len(Q[w.by]) :
        Q[w.by][i].write.n < w.n => Q[w.by][i].write \in done

(* What holds throughout the handlers: queues, closures, and the blocks of *)
(* the app and of Auth.                                                    *)
Core(s, done, m) ==
    /\ s \in Sdk
    /\ s.sound
    /\ QueuesOK(s.queue, s.nextId)
    /\ ClosuresOK(s.queue, s.callbacks)
    /\ StampsOK(s.blocks, s.user, s.notified, s.asked)
    /\ AheadOK(s.blocks, s.queue, done, m)
    /\ ToldOK(s.told, done)
    /\ CommitsOK(s.queue, done)

(* What holds between any two calls of RemoteStore's and the stream's      *)
(* handlers: pipeline, stream and call.                                    *)
Link(s, sv, done) ==
    /\ PipeOK(s.pipeline, s.queue[s.user])
    /\ TokensOK(s.asked, s.blocks, s.state)
    /\ StreamOK(s.state, s.handshake, s.idle, s.call, s.pipeline)
    /\ s.call # "none" => s.tokenOf = s.user
    /\ CallOK(s.call, s.reading, s.blocks, s.buffer, sv)
    /\ s.call = "open" =>
          LineOK(s.blocks, s.buffer, sv, Expected(s.handshake, s.pipeline))
    /\ AnswersOK(s.blocks, sv, done)

Base(s, sv, done, m) == Core(s, done, m) /\ Link(s, sv, done)

(* And what holds besides between two blocks.                              *)
Settled(s) ==
    /\ s.enabled
    /\ s.pipeline # <<>> => IsStarted(s)
    /\ s.handshake => s.state = "open"

IInv ==
    /\ server \in Servers
    /\ committed \subseteq Writes
    /\ refused \subseteq Writes
    /\ made \in 0..MaxWrites
    /\ faults \in 0..MaxFaults
    /\ Base(sdk, server, committed, made)
    /\ Settled(sdk)

-----------------------------------------------------------------------------
(***************************************************************************)
(* The worker queue.                                                       *)
(***************************************************************************)
LEMMA TailIndices ==
  ASSUME NEW E, NEW q \in Seq(E), q # <<>>
  PROVE  /\ Tail(q) \in Seq(E) /\ Len(q) \in Nat \ {0}
         /\ Len(Tail(q)) = Len(q) - 1
         /\ 1 \in 1..Len(q) /\ Head(q) = q[1] /\ Head(q) \in E
         /\ \A i \in 1..Len(Tail(q)) : i + 1 \in 1..Len(q) /\ Tail(q)[i] = q[i + 1]
<1>1. /\ Tail(q) \in Seq(E) /\ Head(q) = q[1] /\ Head(q) \in E
      /\ Len(Tail(q)) = Len(q) - 1
      /\ \A i \in 1..Len(Tail(q)) : Tail(q)[i] = q[i + 1]
  BY HeadTailProperties
<1>2. Len(q) \in Nat /\ Len(q) # 0
  BY EmptySeq, LenProperties
<1> QED BY <1>1, <1>2

LEMMA AppendIndices ==
  ASSUME NEW E, NEW q \in Seq(E), NEW x \in E
  PROVE  /\ Append(q, x) \in Seq(E) /\ Len(q) \in Nat
         /\ Len(Append(q, x)) = Len(q) + 1
         /\ \A i \in 1..Len(q) : Append(q, x)[i] = q[i]
         /\ Append(q, x)[Len(q) + 1] = x
         /\ \A i \in 1..Len(Append(q, x)) : i \in 1..Len(q) \/ i = Len(q) + 1
BY AppendProperties, LenProperties

(* new is what is left of old when blocks are taken out.                   *)
Thins(new, old, h) ==
  /\ h \in [1..Len(new) -> 1..Len(old)]
  /\ \A i, j \in 1..Len(new) : i < j => h[i] < h[j]
  /\ \A i \in 1..Len(new) : new[i] = old[h[i]]

Cancelled(blocks) ==
    Select(blocks, {i \in DOMAIN blocks : blocks[i].kind \notin OfCall})

Stale(blocks) ==
    [i \in DOMAIN blocks |-> IF blocks[i].kind = "token"
                             THEN [blocks[i] EXCEPT !.live = FALSE]
                             ELSE blocks[i]]

LEMMA TailThins ==
  ASSUME NEW blocks \in Seq(Blocks), blocks # <<>>
  PROVE  \E h : Thins(Tail(blocks), blocks, h)
<1> DEFINE h == [i \in 1..Len(Tail(blocks)) |-> i + 1]
<1>1. /\ Len(blocks) \in Nat \ {0} /\ Len(Tail(blocks)) = Len(blocks) - 1
      /\ \A i \in 1..Len(Tail(blocks)) :
            i + 1 \in 1..Len(blocks) /\ Tail(blocks)[i] = blocks[i + 1]
  BY TailIndices
<1>2. Thins(Tail(blocks), blocks, h)
  BY <1>1 DEF Thins
<1> QED BY <1>2

LEMMA CancelThins ==
  ASSUME NEW blocks \in Seq(Blocks)
  PROVE  /\ Cancelled(blocks) \in Seq(Blocks)
         /\ Quiet(Cancelled(blocks))
         /\ \E h : /\ Thins(Cancelled(blocks), blocks, h)
                   /\ \A x \in 1..Len(blocks) : blocks[x].kind \notin OfCall =>
                         \E i \in 1..Len(Cancelled(blocks)) : h[i] = x
<1> DEFINE I == {i \in DOMAIN blocks : blocks[i].kind \notin OfCall}
           new == Select(blocks, I)
<1>1. DOMAIN blocks = 1..Len(blocks)
  BY LenProperties
<1>2. I \in SUBSET (1..Len(blocks))
  BY <1>1
<1>3. new \in Seq(Blocks) /\ \E h : InPlaces(new, blocks, I, h)
  <2> HIDE DEF I
  <2> QED BY <1>2, SelectProperties
<1>4. Cancelled(blocks) = new
  BY DEF Cancelled
<1> HIDE DEF new
<1>5. PICK h : InPlaces(new, blocks, I, h)
  BY <1>3
<1>6. Quiet(new)
  BY <1>5 DEF Quiet, InPlaces
<1>7. Thins(new, blocks, h)
  <2>1. h \in [1..Len(new) -> 1..Len(blocks)]
    BY <1>2, <1>5 DEF InPlaces
  <2> QED BY <1>5, <2>1 DEF Thins, InPlaces
<1>8. \A x \in 1..Len(blocks) : blocks[x].kind \notin OfCall => x \in I
  BY <1>1
<1> HIDE DEF I
<1> QED BY <1>3, <1>4, <1>5, <1>6, <1>7, <1>8 DEF InPlaces

LEMMA StaleBlocks ==
  ASSUME NEW blocks \in Seq(Blocks)
  PROVE  /\ Stale(blocks) \in Seq(Blocks) /\ Len(Stale(blocks)) = Len(blocks)
         /\ \A i \in 1..Len(blocks) :
               /\ Stale(blocks)[i].kind = blocks[i].kind
               /\ blocks[i].kind # "token" => Stale(blocks)[i] = blocks[i]
               /\ blocks[i].kind = "token" => Stale(blocks)[i].user = blocks[i].user
               /\ ~LiveToken(Stale(blocks)[i])
<1>1. DOMAIN blocks = 1..Len(blocks) /\ Len(blocks) \in Nat
  BY LenProperties
<1>2. ASSUME NEW b \in Blocks, b.kind = "token"
      PROVE  LET c == [b EXCEPT !.live = FALSE]
             IN  c \in Blocks /\ c.kind = "token" /\ c.user = b.user /\ c.live = FALSE
  <2>1. b \in [kind : {"token"}, user : Accounts, ok : BOOLEAN, live : BOOLEAN]
    BY <1>2 DEF Blocks, Failed
  <2> DEFINE c == [b EXCEPT !.live = FALSE]
  <2>2. /\ c \in [kind : {"token"}, user : Accounts, ok : BOOLEAN, live : BOOLEAN]
        /\ c.kind = "token" /\ c.user = b.user /\ c.live = FALSE
    BY <2>1
  <2> HIDE DEF c
  <2>3. c \in Blocks
    BY <2>2 DEF Blocks
  <2> QED BY <2>2, <2>3 DEF c
<1>3. \A i \in 1..Len(blocks) : blocks[i] \in Blocks
  OBVIOUS
<1>4. \A i \in 1..Len(blocks) : Stale(blocks)[i] \in Blocks
  BY <1>1, <1>2, <1>3 DEF Stale
<1>5. Stale(blocks) \in Seq(Blocks) /\ Len(Stale(blocks)) = Len(blocks)
  <2>1. Stale(blocks) = [i \in 1..Len(blocks) |-> Stale(blocks)[i]]
    BY <1>1 DEF Stale
  <2>2. DOMAIN Stale(blocks) = 1..Len(blocks)
    BY <1>1 DEF Stale
  <2> QED BY <1>1, <1>4, <2>1, <2>2
<1>6. \A i \in 1..Len(blocks) :
               /\ Stale(blocks)[i].kind = blocks[i].kind
               /\ blocks[i].kind # "token" => Stale(blocks)[i] = blocks[i]
               /\ blocks[i].kind = "token" => Stale(blocks)[i].user = blocks[i].user
               /\ ~LiveToken(Stale(blocks)[i])
  BY <1>1, <1>2, <1>3 DEF Stale, LiveToken
<1> QED BY <1>5, <1>6

(* Taking blocks out disturbs neither the order of the writes nor the      *)
(* tokens.                                                                 *)
LEMMA ThinAhead ==
  ASSUME NEW new, NEW old, NEW h, Thins(new, old, h),
         NEW Q, NEW done, NEW m, AheadOK(old, Q, done, m)
  PROVE  AheadOK(new, Q, done, m)
<1>1. \A i \in 1..Len(new) : h[i] \in 1..Len(old) /\ new[i] = old[h[i]]
  BY DEF Thins
<1>2. \A i, j \in 1..Len(new) : i < j => h[i] < h[j]
  BY DEF Thins
<1>3. ASSUME NEW i \in 1..Len(new), new[i].kind = "write"
      PROVE  /\ new[i].write.n <= m
             /\ \A a \in Accounts : \A j \in 1..Len(Q[a]) : Q[a][j].write.n < new[i].write.n
             /\ \A w \in done : w.n < new[i].write.n
  <2>1. h[i] \in 1..Len(old) /\ old[h[i]].kind = "write"
    BY <1>1, <1>3
  <2>2. new[i] = old[h[i]]
    BY <1>1
  <2> QED BY <2>1, <2>2 DEF AheadOK
<1>4. ASSUME NEW i \in 1..Len(new), NEW j \in 1..Len(new), i < j,
             new[i].kind = "write", new[j].kind = "write"
      PROVE  new[i].write.n < new[j].write.n
  <2>1. /\ h[i] \in 1..Len(old) /\ h[j] \in 1..Len(old) /\ h[i] < h[j]
        /\ new[i] = old[h[i]] /\ new[j] = old[h[j]]
    BY <1>1, <1>2, <1>4
  <2> QED BY <1>4, <2>1 DEF AheadOK
<1> QED BY <1>3, <1>4 DEF AheadOK

LEMMA ThinTokens ==
  ASSUME NEW new \in Seq(Blocks), NEW old, NEW h, Thins(new, old, h),
         NEW asked, NEW state, TokensOK(asked, old, state)
  PROVE  TokensOK(asked, new, state)
<1>1. \A i \in 1..Len(new) : h[i] \in 1..Len(old) /\ new[i] = old[h[i]]
  BY DEF Thins
<1>2. \A i, j \in 1..Len(new) : h[i] = h[j] => i = j
  <2> SUFFICES ASSUME NEW i \in 1..Len(new), NEW j \in 1..Len(new), h[i] = h[j]
               PROVE  i = j
    OBVIOUS
  <2>1. h[i] \in 1..Len(old) /\ ~(h[i] < h[j]) /\ ~(h[j] < h[i])
    BY <1>1
  <2> QED BY <2>1 DEF Thins
<1> QED BY <1>1, <1>2 DEF TokensOK

(* The user in charge changes with the block that says so.                 *)
LEMMA TailInCharge ==
  ASSUME NEW blocks \in Seq(Blocks), blocks # <<>>, NEW user, NEW u,
         NEW i \in Nat, InCharge(blocks, user, i + 1, u), i >= 1
  PROVE  InCharge(Tail(blocks),
                  IF Head(blocks).kind = "credential" THEN Head(blocks).user ELSE user,
                  i, u)
<1> DEFINE t == Tail(blocks)
           now == IF Head(blocks).kind = "credential" THEN Head(blocks).user ELSE user
<1>1. /\ Len(blocks) \in Nat \ {0} /\ Len(t) = Len(blocks) - 1
      /\ 1 \in 1..Len(blocks) /\ Head(blocks) = blocks[1]
      /\ \A k \in 1..Len(t) : k + 1 \in 1..Len(blocks) /\ t[k] = blocks[k + 1]
  BY TailIndices
<1> HIDE DEF t
<1>2. CASE /\ u = user
           /\ \A j \in 1..Len(blocks) : j < i + 1 => blocks[j].kind # "credential"
  <2>1. Head(blocks).kind # "credential"
    BY <1>1, <1>2
  <2>2. \A k \in 1..Len(t) : k < i => t[k].kind # "credential"
    BY <1>1, <1>2
  <2> QED BY <1>2, <2>1, <2>2 DEF InCharge, t
<1>3. CASE \E j \in 1..Len(blocks) :
              /\ j < i + 1
              /\ blocks[j].kind = "credential"
              /\ blocks[j].user = u
              /\ \A k \in 1..Len(blocks) :
                    j < k /\ k < i + 1 => blocks[k].kind # "credential"
  <2>1. PICK j \in 1..Len(blocks) :
              /\ j < i + 1
              /\ blocks[j].kind = "credential"
              /\ blocks[j].user = u
              /\ \A k \in 1..Len(blocks) :
                    j < k /\ k < i + 1 => blocks[k].kind # "credential"
    BY <1>3
  <2>2. CASE j = 1
    <3>1. now = u
      BY <1>1, <2>1, <2>2
    <3>2. \A k \in 1..Len(t) : k < i => t[k].kind # "credential"
      BY <1>1, <2>1, <2>2
    <3> QED BY <3>1, <3>2 DEF InCharge, t
  <2>3. CASE j # 1
    <3>1. /\ j - 1 \in 1..Len(t) /\ j - 1 < i
          /\ t[j - 1] = blocks[j]
      <4>1. j - 1 \in 1..Len(t) /\ j - 1 < i /\ (j - 1) + 1 = j
        BY <1>1, <2>1, <2>3
      <4> QED BY <1>1, <4>1
    <3>2. \A k \in 1..Len(t) : j - 1 < k /\ k < i => t[k].kind # "credential"
      BY <1>1, <2>1
    <3> QED BY <2>1, <3>1, <3>2 DEF InCharge, t
  <2> QED BY <2>2, <2>3
<1> QED BY <1>2, <1>3 DEF InCharge

LEMMA TailStamps ==
  ASSUME NEW blocks \in Seq(Blocks), blocks # <<>>,
         NEW user, NEW notified, NEW asked,
         StampsOK(blocks, user, notified, asked)
  PROVE  /\ StampsOK(Tail(blocks),
                     IF Head(blocks).kind = "credential" THEN Head(blocks).user ELSE user,
                     notified, asked)
         /\ Head(blocks).kind = "write" => Head(blocks).write.by = user
         /\ Head(blocks).kind = "token" => Head(blocks).user = user
<1> DEFINE t == Tail(blocks)
<1>1. /\ Len(blocks) \in Nat \ {0} /\ Len(t) = Len(blocks) - 1
      /\ 1 \in 1..Len(blocks) /\ Head(blocks) = blocks[1]
      /\ \A k \in 1..Len(t) : k + 1 \in 1..Len(blocks) /\ t[k] = blocks[k + 1]
  BY TailIndices
<1>2. \A u : InCharge(blocks, user, 1, u) => u = user
  BY DEF InCharge
<1>3. \A i \in 1..Len(t) : i \in Nat /\ i >= 1
  BY <1>1
<1>4. Len(t) + 1 \in Nat /\ Len(t) + 1 >= 1 /\ (Len(t) + 1) + 1 = Len(blocks) + 1
  BY <1>1
<1>5. InCharge(blocks, user, (Len(t) + 1) + 1, notified)
  BY <1>4 DEF StampsOK
<1> HIDE DEF t
<1> QED BY <1>1, <1>2, <1>3, <1>4, <1>5, TailInCharge DEF StampsOK, t

LEMMA CancelStamps ==
  ASSUME NEW blocks \in Seq(Blocks), NEW user, NEW notified, NEW asked,
         StampsOK(blocks, user, notified, asked)
  PROVE  StampsOK(Cancelled(blocks), user, notified, asked)
<1> DEFINE new == Cancelled(blocks)
<1>1. new \in Seq(Blocks)
  BY CancelThins
<1>2. PICK h : /\ Thins(new, blocks, h)
               /\ \A x \in 1..Len(blocks) : blocks[x].kind \notin OfCall =>
                     \E i \in 1..Len(new) : h[i] = x
  BY CancelThins
<1> HIDE DEF new
<1>3. /\ Len(new) \in Nat /\ Len(blocks) \in Nat
      /\ \A i \in 1..Len(new) : h[i] \in 1..Len(blocks) /\ new[i] = blocks[h[i]]
      /\ \A i, j \in 1..Len(new) : i < j => h[i] < h[j]
      /\ \A i, j \in 1..Len(new) : h[i] < h[j] => i < j
  <2>1. /\ \A i \in 1..Len(new) : h[i] \in 1..Len(blocks) /\ new[i] = blocks[h[i]]
        /\ \A i, j \in 1..Len(new) : i < j => h[i] < h[j]
    BY <1>2 DEF Thins
  <2>2. Len(new) \in Nat /\ Len(blocks) \in Nat
    BY <1>1, LenProperties
  <2>3. ASSUME NEW i \in 1..Len(new), NEW j \in 1..Len(new), h[i] < h[j]
        PROVE  i < j
    <3>1. h[i] \in Nat /\ h[j] \in Nat /\ i \in Nat /\ j \in Nat
      BY <2>1, <2>2
    <3>2. i = j => h[i] = h[j]
      OBVIOUS
    <3>3. j < i => h[j] < h[i]
      BY <2>1
    <3> QED BY <2>3, <3>1, <3>2, <3>3
  <2> QED BY <2>1, <2>2, <2>3
<1>4. \A x \in 1..Len(blocks) : blocks[x].kind = "credential" =>
         \E i \in 1..Len(new) : h[i] = x
  BY <1>2 DEF OfCall
<1>5. ASSUME NEW i, NEW x, NEW u, InCharge(blocks, user, x, u),
             \A k \in 1..Len(new) : k < i <=> h[k] < x
      PROVE  InCharge(new, user, i, u)
  <2>1. CASE /\ u = user
             /\ \A j \in 1..Len(blocks) : j < x => blocks[j].kind # "credential"
    <3>1. \A j \in 1..Len(new) : j < i => new[j].kind # "credential"
      BY <1>3, <1>5, <2>1
    <3> QED BY <2>1, <3>1 DEF InCharge
  <2>2. CASE \E j \in 1..Len(blocks) :
                /\ j < x
                /\ blocks[j].kind = "credential"
                /\ blocks[j].user = u
                /\ \A k \in 1..Len(blocks) :
                      j < k /\ k < x => blocks[k].kind # "credential"
    <3>1. PICK j \in 1..Len(blocks) :
                /\ j < x
                /\ blocks[j].kind = "credential"
                /\ blocks[j].user = u
                /\ \A k \in 1..Len(blocks) :
                      j < k /\ k < x => blocks[k].kind # "credential"
      BY <2>2
    <3>2. PICK l \in 1..Len(new) : h[l] = j
      BY <1>4, <3>1
    <3>3. l < i /\ new[l].kind = "credential" /\ new[l].user = u
      BY <1>3, <1>5, <3>1, <3>2
    <3>4. \A k \in 1..Len(new) : l < k /\ k < i => new[k].kind # "credential"
      BY <1>3, <1>5, <3>1, <3>2
    <3> QED BY <3>3, <3>4 DEF InCharge
  <2> QED BY <1>5, <2>1, <2>2 DEF InCharge
<1>6. \A i \in 1..Len(new) : \A k \in 1..Len(new) : k < i <=> h[k] < h[i]
  BY <1>3
<1>7. \A k \in 1..Len(new) : k < Len(new) + 1 <=> h[k] < Len(blocks) + 1
  BY <1>3
<1>8. InCharge(new, user, Len(new) + 1, notified)
  BY <1>5, <1>7 DEF StampsOK
<1>9. \A i \in 1..Len(new) :
          /\ new[i].kind = "write" => InCharge(new, user, i, new[i].write.by)
          /\ new[i].kind = "token" => InCharge(new, user, i, new[i].user)
  <2> SUFFICES ASSUME NEW i \in 1..Len(new)
               PROVE  /\ new[i].kind = "write" => InCharge(new, user, i, new[i].write.by)
                      /\ new[i].kind = "token" => InCharge(new, user, i, new[i].user)
    OBVIOUS
  <2>1. h[i] \in 1..Len(blocks) /\ new[i] = blocks[h[i]]
    BY <1>3
  <2>2. \A u : InCharge(blocks, user, h[i], u) => InCharge(new, user, i, u)
    BY <1>5, <1>6
  <2>3. /\ blocks[h[i]].kind = "write" => InCharge(blocks, user, h[i], blocks[h[i]].write.by)
        /\ blocks[h[i]].kind = "token" => InCharge(blocks, user, h[i], blocks[h[i]].user)
    BY <2>1 DEF StampsOK
  <2> QED BY <2>1, <2>2, <2>3
<1> QED BY <1>8, <1>9 DEF StampsOK, new

Requesting == [user : Accounts, current : BOOLEAN, live : BOOLEAN]
Unlive(asked) == {[r EXCEPT !.live = FALSE] : r \in asked}

LEMMA UnliveProperties ==
  ASSUME NEW asked \in SUBSET Requesting
  PROVE  /\ Unlive(asked) \in SUBSET Requesting
         /\ \A r \in Unlive(asked) :
               ~r.live /\ \E q \in asked : r.user = q.user /\ r.current = q.current
<1>1. \A r \in asked : LET q == [r EXCEPT !.live = FALSE]
                       IN  /\ q \in Requesting /\ ~q.live
                           /\ q.user = r.user /\ q.current = r.current
  BY DEF Requesting
<1> QED BY <1>1 DEF Unlive

(* A call ends and the requests for a token become stale.                  *)
LEMMA ClosedBlocks ==
  ASSUME NEW blocks \in Seq(Blocks), NEW asked \in SUBSET Requesting,
         NEW user, NEW notified, StampsOK(blocks, user, notified, asked),
         NEW Q, NEW done, NEW m, AheadOK(blocks, Q, done, m)
  PROVE  LET new == Stale(Cancelled(blocks))
         IN  /\ new \in Seq(Blocks) /\ Quiet(new)
             /\ StampsOK(new, user, notified, Unlive(asked))
             /\ AheadOK(new, Q, done, m)
             /\ \A state : TokensOK(Unlive(asked), new, state)
<1> DEFINE mid == Cancelled(blocks)
           new == Stale(mid)
<1>1. /\ mid \in Seq(Blocks) /\ Quiet(mid)
      /\ StampsOK(mid, user, notified, asked)
      /\ AheadOK(mid, Q, done, m)
  BY CancelThins, CancelStamps, ThinAhead
<1> HIDE DEF mid
<1>2. /\ new \in Seq(Blocks) /\ Len(new) = Len(mid)
      /\ \A i \in 1..Len(mid) :
            /\ new[i].kind = mid[i].kind
            /\ mid[i].kind # "token" => new[i] = mid[i]
            /\ mid[i].kind = "token" => new[i].user = mid[i].user
            /\ ~LiveToken(new[i])
  BY <1>1, StaleBlocks
<1>3. \A r \in Unlive(asked) :
         ~r.live /\ \E q \in asked : r.user = q.user /\ r.current = q.current
  BY UnliveProperties
<1> HIDE DEF new
<1>4. \A i, u : InCharge(mid, user, i, u) => InCharge(new, user, i, u)
  <2> SUFFICES ASSUME NEW i, NEW u, InCharge(mid, user, i, u)
               PROVE  InCharge(new, user, i, u)
    OBVIOUS
  <2>1. CASE /\ u = user
             /\ \A j \in 1..Len(mid) : j < i => mid[j].kind # "credential"
    BY <1>2, <2>1 DEF InCharge
  <2>2. CASE \E j \in 1..Len(mid) :
                /\ j < i
                /\ mid[j].kind = "credential"
                /\ mid[j].user = u
                /\ \A k \in 1..Len(mid) :
                      j < k /\ k < i => mid[k].kind # "credential"
    <3>1. PICK j \in 1..Len(mid) :
                /\ j < i
                /\ mid[j].kind = "credential"
                /\ mid[j].user = u
                /\ \A k \in 1..Len(mid) :
                      j < k /\ k < i => mid[k].kind # "credential"
      BY <2>2
    <3>2. j \in 1..Len(new) /\ new[j].kind = "credential" /\ new[j].user = u
      BY <1>2, <3>1
    <3>3. \A k \in 1..Len(new) : j < k /\ k < i => new[k].kind # "credential"
      BY <1>2, <3>1
    <3> QED BY <3>1, <3>2, <3>3 DEF InCharge
  <2> QED BY <2>1, <2>2 DEF InCharge
<1>5. StampsOK(new, user, notified, Unlive(asked))
  <2>1. \A i \in 1..Len(new) :
          /\ new[i].kind = "write" => InCharge(new, user, i, new[i].write.by)
          /\ new[i].kind = "token" => InCharge(new, user, i, new[i].user)
    <3> SUFFICES ASSUME NEW i \in 1..Len(mid)
                 PROVE  /\ new[i].kind = "write" => InCharge(new, user, i, new[i].write.by)
                        /\ new[i].kind = "token" => InCharge(new, user, i, new[i].user)
      BY <1>2
    <3>1. /\ mid[i].kind = "write" => InCharge(mid, user, i, mid[i].write.by)
          /\ mid[i].kind = "token" => InCharge(mid, user, i, mid[i].user)
      BY <1>1 DEF StampsOK
    <3> QED BY <1>2, <1>4, <3>1
  <2>2. InCharge(new, user, Len(new) + 1, notified)
    BY <1>1, <1>2, <1>4 DEF StampsOK
  <2>3. \A r \in Unlive(asked) : r.current => r.user = notified
    BY <1>1, <1>3 DEF StampsOK
  <2> QED BY <2>1, <2>2, <2>3 DEF StampsOK
<1>6. AheadOK(new, Q, done, m)
  <2>1. \A i \in 1..Len(new) : i \in 1..Len(mid) /\ (new[i].kind = "write" => new[i] = mid[i])
    BY <1>2
  <2> QED BY <1>1, <1>2, <2>1 DEF AheadOK
<1>7. \A state : TokensOK(Unlive(asked), new, state)
  BY <1>2, <1>3 DEF TokensOK
<1>8. Quiet(new)
  BY <1>1, <1>2 DEF Quiet
<1> QED BY <1>2, <1>5, <1>6, <1>7, <1>8 DEF new, mid

-----------------------------------------------------------------------------
(***************************************************************************)
(* The end of a call.                                                      *)
(***************************************************************************)
LEMMA HardAssertHolds ==
  ASSUME NEW s \in Sdk, s.sound, NEW c, c
  PROVE  HardAssert(s, c) = s
BY DEF HardAssert, Sdk

(* What neither the stream nor its call changes.                           *)
SameStore(s, t) ==
    /\ t.notified = s.notified /\ t.user = s.user
    /\ t.queue = s.queue /\ t.nextId = s.nextId
    /\ t.callbacks = s.callbacks /\ t.told = s.told
    /\ t.enabled = s.enabled /\ t.sound = s.sound

LEMMA ShutdownFields ==
  ASSUME NEW s \in Sdk
  PROVE  LET t == Shutdown(s)
         IN  /\ t \in Sdk /\ SameStore(s, t)
             /\ t.asked = s.asked /\ t.pipeline = s.pipeline
             /\ t.state = s.state /\ t.handshake = s.handshake /\ t.idle = s.idle
             /\ t.call = "none" /\ ~t.reading /\ t.buffer = <<>>
             /\ t.tokenOf = s.tokenOf
             /\ t.blocks = Cancelled(s.blocks)
<1> DEFINE b == Cancelled(s.blocks)
           t == Shutdown(s)
<1>1. s.blocks \in Seq(Blocks)
  BY DEF Sdk
<1>2. b \in Seq(Blocks)
  BY <1>1, CancelThins
<1>3. Cancel(s) = [s EXCEPT !.blocks = b]
  BY DEF Cancel, Cancelled, Sdk
<1> HIDE DEF b
<1>4. <<>> \in Seq(Requests)
  OBVIOUS
<1>5. t = [[s EXCEPT !.blocks = b]
             EXCEPT !.call = "none", !.reading = FALSE, !.buffer = <<>>]
  BY <1>3 DEF Shutdown
<1>6. t \in Sdk
  BY <1>2, <1>4, <1>5 DEF Sdk
<1>7. SameStore(s, t)
  BY <1>5 DEF SameStore, Sdk
<1>8. /\ t.asked = s.asked /\ t.pipeline = s.pipeline
      /\ t.state = s.state /\ t.handshake = s.handshake /\ t.idle = s.idle
  BY <1>5 DEF Sdk
<1>9. /\ t.call = "none" /\ ~t.reading /\ t.buffer = <<>>
      /\ t.tokenOf = s.tokenOf /\ t.blocks = b
  BY <1>5 DEF Sdk
<1> HIDE DEF t
<1> QED BY <1>6, <1>7, <1>8, <1>9 DEF t, b

(* The state in which Close calls its delegate.                            *)
Closed(s, x) == [Invalidate(Shutdown(s)) EXCEPT !.idle = FALSE, !.state = x]

LEMMA ClosedFields ==
  ASSUME NEW s \in Sdk, NEW x \in States
  PROVE  LET t == Closed(s, x)
         IN  /\ t \in Sdk /\ SameStore(s, t)
             /\ t.asked = Unlive(s.asked) /\ t.pipeline = s.pipeline
             /\ t.state = x /\ t.handshake = s.handshake /\ ~t.idle
             /\ t.call = "none" /\ ~t.reading /\ t.buffer = <<>>
             /\ t.blocks = Stale(Cancelled(s.blocks))
<1> DEFINE d == Shutdown(s)
           t == Closed(s, x)
           a == Unlive(s.asked)
           b == Stale(d.blocks)
<1>1. /\ d \in Sdk /\ SameStore(s, d)
      /\ d.asked = s.asked /\ d.pipeline = s.pipeline
      /\ d.handshake = s.handshake
      /\ d.call = "none" /\ ~d.reading /\ d.buffer = <<>>
      /\ d.blocks = Cancelled(s.blocks)
  BY ShutdownFields
<1> HIDE DEF d
<1>2. a \in SUBSET Requesting
  <2>1. s.asked \in SUBSET Requesting
    BY DEF Sdk, Requesting
  <2> QED BY <2>1, UnliveProperties
<1>3. b \in Seq(Blocks)
  <2>1. d.blocks \in Seq(Blocks)
    BY <1>1 DEF Sdk
  <2> QED BY <2>1, StaleBlocks
<1>4. Invalidate(d) = [d EXCEPT !.asked = a, !.blocks = b]
  BY <1>1 DEF Invalidate, Stale, Unlive, Sdk
<1> HIDE DEF a, b
<1>5. t = [[d EXCEPT !.asked = a, !.blocks = b] EXCEPT !.idle = FALSE, !.state = x]
  BY <1>4 DEF Closed, d
<1>6. t \in Sdk
  BY <1>1, <1>2, <1>3, <1>5 DEF Sdk, Requesting
<1>7. SameStore(s, t)
  BY <1>1, <1>5 DEF SameStore, Sdk
<1>8. /\ t.asked = a /\ t.pipeline = s.pipeline
      /\ t.state = x /\ t.handshake = s.handshake /\ ~t.idle
  BY <1>1, <1>5 DEF Sdk
<1>9. t.call = "none" /\ ~t.reading /\ t.buffer = <<>> /\ t.blocks = b
  BY <1>1, <1>5 DEF Sdk
<1> HIDE DEF t
<1> QED BY <1>1, <1>6, <1>7, <1>8, <1>9 DEF t, a, b

LEMMA ClosedCore ==
  ASSUME NEW s, NEW done, NEW m, Core(s, done, m),
         NEW x \in {"initial", "error"}
  PROVE  LET t == Closed(s, x)
         IN  /\ Core(t, done, m)
             /\ Quiet(t.blocks)
             /\ \A state : TokensOK(t.asked, t.blocks, state)
<1> DEFINE t == Closed(s, x)
<1>1. s \in Sdk /\ x \in States
  BY DEF Core, States
<1>2. /\ t \in Sdk /\ SameStore(s, t)
      /\ t.asked = Unlive(s.asked)
      /\ t.blocks = Stale(Cancelled(s.blocks))
  BY <1>1, ClosedFields
<1> HIDE DEF t
<1>3. s.blocks \in Seq(Blocks) /\ s.asked \in SUBSET Requesting
  BY <1>1 DEF Sdk, Requesting
<1>4. /\ StampsOK(s.blocks, s.user, s.notified, s.asked)
      /\ AheadOK(s.blocks, s.queue, done, m)
  BY DEF Core
<1>5. /\ Quiet(t.blocks)
      /\ StampsOK(t.blocks, s.user, s.notified, t.asked)
      /\ AheadOK(t.blocks, s.queue, done, m)
      /\ \A state : TokensOK(t.asked, t.blocks, state)
  BY <1>2, <1>3, <1>4, ClosedBlocks
<1> QED BY <1>2, <1>5 DEF Core, SameStore, t

(* Without a call there is nothing to agree with.                          *)
LEMMA QuietLink ==
  ASSUME NEW s, NEW done,
         s.call = "none", ~s.reading, s.buffer = <<>>, Quiet(s.blocks), ~s.idle,
         s.state \in {"initial", "error"},
         TokensOK(s.asked, s.blocks, s.state),
         PipeOK(s.pipeline, s.queue[s.user])
  PROVE  Link(s, NoCall, done)
<1>1. StreamOK(s.state, s.handshake, s.idle, s.call, s.pipeline)
  BY DEF StreamOK
<1>2. CallOK(s.call, s.reading, s.blocks, s.buffer, NoCall)
  BY DEF CallOK, Quiet, NoCall, OfCall
<1>3. AnswersOK(s.blocks, NoCall, done)
  <2>1. \A i \in 1..Len(s.blocks) : s.blocks[i].kind # "read"
    BY DEF Quiet, OfCall
  <2>2. \A i \in 1..Len(NoCall.answers) : FALSE
    BY DEF NoCall
  <2> QED BY <2>1, <2>2 DEF AnswersOK
<1> QED BY <1>1, <1>2, <1>3 DEF Link

-----------------------------------------------------------------------------
(***************************************************************************)
(* RemoteStore fills its pipeline and starts the stream.                   *)
(***************************************************************************)
LEMMA StartBase ==
  ASSUME NEW s, NEW sv, NEW done, NEW m, Base(s, sv, done, m),
         s.state \in {"initial", "error"}, s.pipeline # <<>>
  PROVE  LET t == Start(s)
         IN  /\ Base(t, sv, done, m) /\ SameStore(s, t)
             /\ t.pipeline = s.pipeline /\ t.handshake = s.handshake
             /\ t.call = s.call /\ t.state \in {"starting", "backoff"}
             /\ t.blocks = s.blocks
<1> DEFINE t == Start(s)
<1>1. s \in Sdk /\ s.sound
  BY DEF Base, Core
<1>2. CASE s.state = "error"
  <2>1. t = [s EXCEPT !.state = "backoff"]
    BY <1>2 DEF Start
  <2>2. t \in Sdk
    BY <1>1, <2>1 DEF Sdk, States
  <2>3. SameStore(s, t)
    BY <1>1, <2>1 DEF SameStore, Sdk
  <2>4. /\ t.asked = s.asked /\ t.pipeline = s.pipeline
        /\ t.state = "backoff" /\ t.handshake = s.handshake /\ t.idle = s.idle
    BY <1>1, <2>1 DEF Sdk
  <2>5. /\ t.call = s.call /\ t.reading = s.reading /\ t.buffer = s.buffer
        /\ t.tokenOf = s.tokenOf /\ t.blocks = s.blocks
    BY <1>1, <2>1 DEF Sdk
  <2> HIDE DEF t
  <2>6. Core(t, done, m)
    BY <2>2, <2>3, <2>4, <2>5 DEF Base, Core, SameStore
  <2>7. TokensOK(t.asked, t.blocks, t.state)
    BY <1>2, <2>4, <2>5 DEF Base, Link, TokensOK
  <2>8. StreamOK(t.state, t.handshake, t.idle, t.call, t.pipeline)
    BY <1>2, <2>4, <2>5 DEF Base, Link, StreamOK
  <2>9. Link(t, sv, done)
    BY <2>3, <2>4, <2>5, <2>7, <2>8 DEF Base, Link, SameStore
  <2> QED BY <2>3, <2>4, <2>5, <2>6, <2>9 DEF Base, t
<1>3. CASE s.state = "initial"
  <2> DEFINE r == [user |-> s.notified, current |-> TRUE, live |-> TRUE]
             asked == s.asked \cup {r}
  <2>0. r \in Requesting
    BY <1>1 DEF Requesting, Sdk
  <2>1. t = [[s EXCEPT !.state = "starting"] EXCEPT !.asked = asked]
    <3>1. HardAssert(s, s.state = "initial") = s
      BY <1>1, <1>3, HardAssertHolds
    <3>2. t = RequestCredentials([s EXCEPT !.state = "starting"])
      BY <1>3, <3>1 DEF Start
    <3>3. /\ [s EXCEPT !.state = "starting"].notified = s.notified
          /\ [s EXCEPT !.state = "starting"].asked = s.asked
      BY <1>1 DEF Sdk
    <3> QED BY <1>1, <3>2, <3>3 DEF RequestCredentials, Sdk
  <2>2. asked \in SUBSET Requesting
    BY <1>1, <2>0 DEF Sdk, Requesting
  <2> HIDE DEF asked
  <2>3. t \in Sdk
    BY <1>1, <2>1, <2>2 DEF Sdk, States, Requesting
  <2>4. SameStore(s, t)
    BY <1>1, <2>1 DEF SameStore, Sdk
  <2>5. /\ t.asked = asked /\ t.pipeline = s.pipeline
        /\ t.state = "starting" /\ t.handshake = s.handshake /\ t.idle = s.idle
    BY <1>1, <2>1 DEF Sdk
  <2>6. /\ t.call = s.call /\ t.reading = s.reading /\ t.buffer = s.buffer
        /\ t.tokenOf = s.tokenOf /\ t.blocks = s.blocks
    BY <1>1, <2>1 DEF Sdk
  <2> HIDE DEF t
  <2>7. StampsOK(t.blocks, t.user, t.notified, t.asked)
    BY <2>4, <2>5, <2>6 DEF Base, Core, SameStore, StampsOK, asked
  <2>8. Core(t, done, m)
    BY <2>3, <2>4, <2>6, <2>7 DEF Base, Core, SameStore
  <2>9. TokensOK(t.asked, t.blocks, t.state)
    BY <1>3, <2>5, <2>6 DEF Base, Link, TokensOK, asked
  <2>10. StreamOK(t.state, t.handshake, t.idle, t.call, t.pipeline)
    BY <1>3, <2>5, <2>6 DEF Base, Link, StreamOK
  <2>11. Link(t, sv, done)
    BY <2>4, <2>5, <2>6, <2>9, <2>10 DEF Base, Link, SameStore
  <2> QED BY <2>4, <2>5, <2>6, <2>8, <2>11 DEF Base, t
<1> QED BY <1>2, <1>3

(* What starting the stream, or not, leaves alone.                         *)
SameLink(s, t) ==
    /\ SameStore(s, t)
    /\ t.handshake = s.handshake /\ t.call = s.call /\ t.blocks = s.blocks
    /\ t.state = "open" <=> s.state = "open"

LEMMA StartIfNeededBase ==
  ASSUME NEW s, NEW sv, NEW done, NEW m, Base(s, sv, done, m), s.enabled
  PROVE  LET t == StartIfNeeded(s)
         IN  /\ Base(t, sv, done, m) /\ SameLink(s, t)
             /\ t.pipeline = s.pipeline
             /\ t.pipeline # <<>> => IsStarted(t)
<1>1. s.state \in States
  BY DEF Base, Core, Sdk
<1>2. CASE ~ShouldStartWriteStream(s)
  BY <1>2 DEF ShouldStartWriteStream, StartIfNeeded, SameLink, SameStore
<1>3. CASE ShouldStartWriteStream(s)
  <2>1. s.state \in {"initial", "error"} /\ s.pipeline # <<>>
    BY <1>1, <1>3 DEF ShouldStartWriteStream, IsStarted, States
  <2> DEFINE t == Start(s)
  <2>2. /\ Base(t, sv, done, m) /\ SameStore(s, t)
        /\ t.pipeline = s.pipeline /\ t.handshake = s.handshake
        /\ t.call = s.call /\ t.state \in {"starting", "backoff"}
        /\ t.blocks = s.blocks
    BY <2>1, StartBase
  <2>3. StartIfNeeded(s) = t
    BY <1>3 DEF StartIfNeeded
  <2> HIDE DEF t
  <2> QED BY <2>1, <2>2, <2>3 DEF SameLink, IsStarted
<1> QED BY <1>2, <1>3

(* The ids of a queue ascend, so what lies behind the pipeline is the rest *)
(* of the queue.                                                           *)
LEMMA UnfetchedIs ==
  ASSUME NEW s, NEW done, NEW m, Core(s, done, m),
         PipeOK(s.pipeline, s.queue[s.user])
  PROVE  LET q == s.queue[s.user]
             p == Len(s.pipeline)
         IN  /\ q \in Seq(Batches) /\ p \in Nat /\ Len(q) \in Nat /\ p <= Len(q)
             /\ Unfetched(s) \in Seq(Batches)
             /\ Len(Unfetched(s)) = Len(q) - p
             /\ \A i \in 1..Len(q) - p : Unfetched(s)[i] = q[p + i]
<1> DEFINE q == s.queue[s.user]
           p == Len(s.pipeline)
           last == IF s.pipeline = <<>> THEN 0 ELSE s.pipeline[p].id
           I == {i \in DOMAIN q : q[i].id > last}
<1>1. s \in Sdk /\ s.user \in Accounts
  BY DEF Core, Sdk
<1>2. q \in Seq(Batches) /\ s.pipeline \in Seq(Batches)
  BY <1>1 DEF Sdk
<1>3. p \in Nat /\ Len(q) \in Nat /\ p <= Len(q) /\ DOMAIN q = 1..Len(q)
  BY <1>2 DEF PipeOK
<1>4. \A i \in 1..Len(q) : q[i] \in Batches /\ q[i].id \in Nat \ {0}
  <2>1. \A b \in Batches : b.id \in Nat \ {0}
    BY DEF Batches
  <2>2. \A i \in 1..Len(q) : q[i] \in Batches
    BY <1>2
  <2> QED BY <2>1, <2>2
<1>5. \A i, j \in 1..Len(q) : i < j => q[i].id < q[j].id
  BY <1>1 DEF Core, QueuesOK
<1>6. last = IF p = 0 THEN 0 ELSE q[p].id
  <2>1. s.pipeline = <<>> <=> p = 0
    BY <1>2, EmptySeq
  <2>2. p # 0 => s.pipeline[p] = q[p]
    BY <1>3 DEF PipeOK
  <2> QED BY <2>1, <2>2
<1> HIDE DEF q, p, last
<1>7. I = p + 1 .. Len(q)
  <2>1. ASSUME NEW i \in 1..Len(q)
        PROVE  q[i].id > last <=> i >= p + 1
    <3>1. CASE p = 0
      BY <1>3, <1>4, <1>6, <3>1
    <3>2. CASE p # 0
      <4>1. p \in 1..Len(q) /\ last = q[p].id
        BY <1>3, <1>6, <3>2
      <4>2. i < p => q[i].id < q[p].id
        BY <1>5, <4>1
      <4>3. i > p => q[p].id < q[i].id
        BY <1>5, <4>1
      <4>4. q[i].id \in Nat /\ q[p].id \in Nat /\ i \in Nat
        BY <1>3, <1>4, <4>1
      <4> QED BY <1>3, <4>1, <4>2, <4>3, <4>4
    <3> QED BY <3>1, <3>2
  <2> QED BY <1>3, <2>1
<1>8. Unfetched(s) = Select(q, I)
  BY DEF Unfetched, last, q, p
<1>9. /\ Select(q, p + 1 .. Len(q)) \in Seq(Batches)
      /\ Len(Select(q, p + 1 .. Len(q))) = Len(q) - p
      /\ \A i \in 1..Len(q) - p : Select(q, p + 1 .. Len(q))[i] = q[p + i]
  BY <1>2, <1>3, SelectSuffix DEF q
<1>10. q \in Seq(Batches)
  BY <1>2 DEF q
<1> HIDE DEF I
<1> QED BY <1>3, <1>7, <1>8, <1>9, <1>10 DEF q, p

LEMMA ConcatIndices ==
  ASSUME NEW E, NEW p \in Seq(E), NEW r \in Seq(E)
  PROVE  /\ p \o r \in Seq(E) /\ Len(p) \in Nat /\ Len(r) \in Nat
         /\ Len(p \o r) = Len(p) + Len(r)
         /\ \A i \in 1..Len(p) : (p \o r)[i] = p[i]
         /\ \A i \in 1..Len(r) : (p \o r)[Len(p) + i] = r[i]
         /\ \A i \in 1..Len(p) + Len(r) :
               i \in 1..Len(p) \/ (i - Len(p) \in 1..Len(r) /\ Len(p) + (i - Len(p)) = i)
<1>1. Len(p) \in Nat /\ Len(r) \in Nat
  BY LenProperties
<1>2. /\ p \o r \in Seq(E) /\ Len(p \o r) = Len(p) + Len(r)
      /\ \A i \in 1..Len(p) + Len(r) :
            (p \o r)[i] = IF i <= Len(p) THEN p[i] ELSE r[i - Len(p)]
  BY ConcatProperties
<1>3. \A i \in 1..Len(p) : i \in 1..Len(p) + Len(r) /\ i <= Len(p)
  BY <1>1
<1>4. \A i \in 1..Len(r) : /\ Len(p) + i \in 1..Len(p) + Len(r)
                           /\ ~(Len(p) + i <= Len(p)) /\ (Len(p) + i) - Len(p) = i
  BY <1>1
<1>5. \A i \in 1..Len(p) + Len(r) :
         i \in 1..Len(p) \/ (i - Len(p) \in 1..Len(r) /\ Len(p) + (i - Len(p)) = i)
  BY <1>1
<1> QED BY <1>1, <1>2, <1>3, <1>4, <1>5

(* The requests that stand for batches.                                    *)
WritesOf(batches) == [i \in DOMAIN batches |-> batches[i].write]

LEMMA WritesOfProperties ==
  ASSUME NEW batches \in Seq(Batches)
  PROVE  /\ WritesOf(batches) \in Seq(Writes) /\ WritesOf(batches) \in Seq(Requests)
         /\ Len(WritesOf(batches)) = Len(batches)
         /\ \A i \in 1..Len(batches) : WritesOf(batches)[i] = batches[i].write
         /\ WritesOf(batches) = <<>> <=> batches = <<>>
         /\ Expected(TRUE, batches) = WritesOf(batches)
<1>1. DOMAIN batches = 1..Len(batches) /\ Len(batches) \in Nat
  BY LenProperties
<1>2. \A i \in 1..Len(batches) : batches[i].write \in Writes
  <2>1. \A b \in Batches : b.write \in Writes
    BY DEF Batches
  <2>2. \A i \in 1..Len(batches) : batches[i] \in Batches
    OBVIOUS
  <2> QED BY <2>1, <2>2
<1>3. WritesOf(batches) = [i \in 1..Len(batches) |-> batches[i].write]
  BY <1>1 DEF WritesOf
<1>4. WritesOf(batches) \in Seq(Writes) /\ Len(WritesOf(batches)) = Len(batches)
  BY <1>1, <1>2, <1>3
<1>5. WritesOf(batches) \in Seq(Requests)
  <2>1. \A i \in 1..Len(batches) : batches[i].write \in Requests
    BY <1>2 DEF Requests
  <2> QED BY <1>1, <1>3, <2>1
<1>6. WritesOf(batches) = <<>> <=> batches = <<>>
  BY <1>4, EmptySeq
<1>7. Expected(TRUE, batches) = WritesOf(batches)
  BY <1>3 DEF Expected
<1> QED BY <1>3, <1>4, <1>5, <1>6, <1>7

LEMMA Reassociate ==
  ASSUME NEW k \in Nat, NEW x \in Nat, NEW z \in Nat, NEW y \in Int, NEW j \in Int,
         k + x = z, x + j = y
  PROVE  k + y = z + j
OBVIOUS

(* The requests to be answered grow at the end.                            *)
LEMMA LineGrows ==
  ASSUME NEW blocks, NEW buffer \in Seq(Requests), NEW sv \in Servers,
         NEW e \in Seq(Requests), NEW r \in Seq(Requests),
         LineOK(blocks, buffer, sv, e)
  PROVE  /\ LineOK(blocks, buffer \o r, sv, e \o r)
         /\ sv.status # "open" => LineOK(blocks, buffer, sv, e \o r)
<1> DEFINE a == Reads(blocks)
           w == a + Len(sv.answers)
           b == w + Len(sv.wire)
           f == e \o r
           g == buffer \o r
<1>1. /\ sv.answers \in Seq(Requests) /\ sv.wire \in Seq(Requests)
      /\ Len(sv.answers) \in Nat /\ Len(sv.wire) \in Nat /\ a \in Nat
  BY DEF Servers, Reads
<1>2. /\ Len(e) \in Nat /\ Len(r) \in Nat /\ Len(f) = Len(e) + Len(r)
      /\ \A i \in 1..Len(e) : f[i] = e[i]
      /\ \A i \in 1..Len(r) : f[Len(e) + i] = r[i]
  BY ConcatIndices
<1>3. /\ Len(buffer) \in Nat /\ Len(g) = Len(buffer) + Len(r)
      /\ \A i \in 1..Len(buffer) : g[i] = buffer[i]
      /\ \A i \in 1..Len(r) : g[Len(buffer) + i] = r[i]
      /\ \A i \in 1..Len(buffer) + Len(r) :
            i \in 1..Len(buffer)
            \/ (i - Len(buffer) \in 1..Len(r) /\ Len(buffer) + (i - Len(buffer)) = i)
  BY ConcatIndices
<1> HIDE DEF a, f, g
<1>4. \A s \in Seq(Requests) : \A k \in Nat : Within(s, k, e) => Within(s, k, f)
  <2> SUFFICES ASSUME NEW s \in Seq(Requests), NEW k \in Nat, Within(s, k, e)
               PROVE  Within(s, k, f)
    OBVIOUS
  <2>1. Len(s) \in Nat /\ \A i \in 1..Len(s) : k + i \in 1..Len(e)
    BY <1>2, LenProperties DEF Within
  <2> QED BY <1>2, <2>1 DEF Within
<1>5. \A i \in 1..Len(blocks) : blocks[i].kind = "read" =>
         Len(f) >= 1 /\ blocks[i].answer = f[1]
  BY <1>2 DEF LineOK
<1>6. Within(sv.answers, a, f)
  BY <1>1, <1>4 DEF LineOK, a
<1>7. sv.status = "open" => Within(sv.wire, w, f)
  BY <1>1, <1>4 DEF LineOK, a
<1>8. ASSUME sv.status = "open"
      PROVE  Within(g, b, f) /\ b + Len(g) = Len(f)
  <2>1. b \in Nat /\ b + Len(buffer) = Len(e) /\ Within(buffer, b, e)
    BY <1>1, <1>8 DEF LineOK, a
  <2> HIDE DEF b
  <2>0. /\ Len(buffer) \in Nat /\ Len(r) \in Nat /\ Len(e) \in Nat
        /\ Len(g) = Len(buffer) + Len(r) /\ Len(f) = Len(e) + Len(r)
        /\ b \in Nat /\ b + Len(buffer) = Len(e)
    BY <1>2, <1>3, <2>1
  <2>2. b + Len(g) = Len(f)
    <3>1. \A x, y, z, u, v, k \in Nat :
             k + x = z /\ u = x + y /\ v = z + y => k + u = v
      OBVIOUS
    <3>2. Len(g) \in Nat /\ Len(f) \in Nat
      BY <2>0
    <3> HIDE DEF w
    <3> QED BY <2>0, <3>1, <3>2
  <2>3. \A i \in 1..Len(g) : g[i] = f[b + i]
    <3> SUFFICES ASSUME NEW i \in 1..Len(g)
                 PROVE  g[i] = f[b + i]
      OBVIOUS
    <3>1. CASE i \in 1..Len(buffer)
      <4>1. g[i] = e[b + i] /\ b + i \in 1..Len(e)
        BY <1>2, <1>3, <2>1, <3>1 DEF Within
      <4> QED BY <1>2, <4>1
    <3>2. CASE i \notin 1..Len(buffer)
      <4> DEFINE l == i - Len(buffer)
      <4>1. l \in 1..Len(r) /\ Len(buffer) + l = i
        BY <1>3, <3>2
      <4>2. g[i] = r[l]
        BY <1>3, <4>1
      <4>3. b + i = Len(e) + l
        <5>2. i \in Int /\ l \in Int
          BY <2>0, <4>1
        <5> HIDE DEF l, w
        <5> QED BY <2>0, <4>1, <5>2, Reassociate
      <4> HIDE DEF l
      <4> QED BY <1>2, <4>1, <4>2, <4>3
    <3> QED BY <3>1, <3>2
  <2> QED BY <2>2, <2>3 DEF Within
<1> QED BY <1>5, <1>6, <1>7, <1>8 DEF LineOK, a, f, g

(* More batches go behind the pipeline, and, over an open stream, out.     *)
LEMMA AddFields ==
  ASSUME NEW s \in Sdk, s.sound, NEW more \in Seq(Batches)
  PROVE  LET t == AddToWritePipeline(s, more)
             out == s.state = "open" /\ s.handshake /\ more # <<>>
         IN  /\ t \in Sdk /\ SameStore(s, t)
             /\ t.asked = s.asked /\ t.pipeline = s.pipeline \o more
             /\ t.state = s.state /\ t.handshake = s.handshake
             /\ t.idle = (s.idle /\ ~out)
             /\ t.call = s.call /\ t.tokenOf = s.tokenOf /\ t.reading = s.reading
             /\ t.buffer = IF out /\ s.call = "open"
                           THEN s.buffer \o WritesOf(more) ELSE s.buffer
             /\ t.blocks = s.blocks
<1> DEFINE t == AddToWritePipeline(s, more)
           p == s.pipeline \o more
           f == [s EXCEPT !.pipeline = p]
           g == IF s.call = "open" THEN s.buffer \o WritesOf(more) ELSE s.buffer
<1>1. p \in Seq(Batches)
  <2>1. s.pipeline \in Seq(Batches)
    BY DEF Sdk
  <2> QED BY <2>1, ConcatIndices
<1>2. g \in Seq(Requests)
  <2>1. s.buffer \in Seq(Requests)
    BY DEF Sdk
  <2> QED BY <2>1, ConcatIndices, WritesOfProperties
<1>3. [s EXCEPT !.pipeline = @ \o more] = f
  BY DEF Sdk
<1> HIDE DEF p
<1>4. f \in Sdk /\ f.sound
  BY <1>1 DEF Sdk
<1>5. /\ f.state = s.state /\ f.handshake = s.handshake /\ f.buffer = s.buffer
      /\ f.call = s.call
  BY DEF Sdk
<1>6. CASE ~(s.state = "open" /\ s.handshake /\ more # <<>>)
  <2>1. t = f
    <3>1. CASE ~(s.state = "open" /\ s.handshake)
      BY <1>3, <3>1 DEF AddToWritePipeline
    <3>2. CASE s.state = "open" /\ s.handshake /\ more = <<>>
      <4>1. HardAssert(f, more = <<>> \/ f.handshake) = f
        BY <1>4, <3>2, HardAssertHolds
      <4>2. WritesOf(more) = <<>>
        BY <3>2, WritesOfProperties
      <4> HIDE DEF f
      <4>3. AddToWritePipeline(s, more) = WriteMutations(f, more)
        BY <1>3, <3>2 DEF AddToWritePipeline, f
      <4>4. WriteMutations(f, more) = Write(f, WritesOf(more))
        BY <4>1 DEF WriteMutations, WritesOf
      <4> QED BY <4>2, <4>3, <4>4 DEF Write
    <3> QED BY <1>6, <3>1, <3>2
  <2>2. SameStore(s, t)
    BY <2>1 DEF SameStore, Sdk
  <2>3. /\ t.asked = s.asked /\ t.pipeline = p
        /\ t.state = s.state /\ t.handshake = s.handshake /\ t.idle = s.idle
    BY <2>1 DEF Sdk
  <2>4. /\ t.call = s.call /\ t.tokenOf = s.tokenOf /\ t.reading = s.reading
        /\ t.buffer = s.buffer /\ t.blocks = s.blocks
    BY <2>1 DEF Sdk
  <2>5. s.idle \in BOOLEAN
    BY DEF Sdk
  <2>6. t \in Sdk
    BY <1>4, <2>1
  <2> HIDE DEF t, f
  <2>7. t.idle = (s.idle /\ ~(s.state = "open" /\ s.handshake /\ more # <<>>))
    BY <1>6, <2>3, <2>5
  <2> QED BY <1>6, <2>2, <2>3, <2>4, <2>6, <2>7 DEF t, p
<1>7. CASE s.state = "open" /\ s.handshake /\ more # <<>>
  <2>1. t = [f EXCEPT !.idle = FALSE, !.buffer = g]
    <3>1. HardAssert(f, more = <<>> \/ f.handshake) = f
      BY <1>4, <1>5, <1>7, HardAssertHolds
    <3>2. HardAssert(f, f.state = "open") = f
      BY <1>4, <1>5, <1>7, HardAssertHolds
    <3>3. WritesOf(more) # <<>>
      BY <1>7, WritesOfProperties
    <3> HIDE DEF f
    <3>4. AddToWritePipeline(s, more) = WriteMutations(f, more)
      BY <1>3, <1>7 DEF AddToWritePipeline, f
    <3>5. WriteMutations(f, more) = Write(f, WritesOf(more))
      BY <3>1 DEF WriteMutations, WritesOf
    <3>6. Write(f, WritesOf(more))
            = [f EXCEPT !.idle = FALSE,
                        !.buffer = IF f.call = "open" THEN @ \o WritesOf(more) ELSE @]
      BY <3>2, <3>3 DEF Write
    <3> QED BY <1>4, <1>5, <3>4, <3>5, <3>6 DEF Sdk
  <2> HIDE DEF g
  <2>2. t \in Sdk
    BY <1>2, <1>4, <2>1 DEF Sdk
  <2>3. SameStore(s, t)
    BY <2>1 DEF SameStore, Sdk
  <2>4. /\ t.asked = s.asked /\ t.pipeline = p
        /\ t.state = s.state /\ t.handshake = s.handshake /\ t.idle = FALSE
    BY <2>1 DEF Sdk
  <2>5. /\ t.call = s.call /\ t.tokenOf = s.tokenOf /\ t.reading = s.reading
        /\ t.buffer = g /\ t.blocks = s.blocks
    BY <2>1 DEF Sdk
  <2> HIDE DEF t, f
  <2> QED BY <1>7, <2>2, <2>3, <2>4, <2>5 DEF t, p, g
<1> QED BY <1>6, <1>7

LEMMA AddBase ==
  ASSUME NEW s, NEW sv \in Servers, NEW done, NEW m, Base(s, sv, done, m),
         NEW more \in Seq(Batches),
         PipeOK(s.pipeline \o more, s.queue[s.user])
  PROVE  LET t == AddToWritePipeline(s, more)
         IN  /\ Base(t, sv, done, m) /\ SameLink(s, t)
             /\ t.pipeline = s.pipeline \o more
             /\ t.state = s.state
<1> DEFINE t == AddToWritePipeline(s, more)
           out == s.state = "open" /\ s.handshake /\ more # <<>>
<1>1. s \in Sdk /\ s.sound
  BY DEF Base, Core
<1>2. /\ t \in Sdk /\ SameStore(s, t)
      /\ t.asked = s.asked /\ t.pipeline = s.pipeline \o more
      /\ t.state = s.state /\ t.handshake = s.handshake
      /\ t.idle = (s.idle /\ ~out)
      /\ t.call = s.call /\ t.tokenOf = s.tokenOf /\ t.reading = s.reading
      /\ t.buffer = IF out /\ s.call = "open"
                    THEN s.buffer \o WritesOf(more) ELSE s.buffer
      /\ t.blocks = s.blocks
  BY <1>1, AddFields
<1>3. s.pipeline \in Seq(Batches) /\ s.buffer \in Seq(Requests)
      /\ s.handshake \in BOOLEAN /\ s.call \in {"none", "open", "finishing"}
  BY <1>1 DEF Sdk
<1> HIDE DEF t
<1>4. s.pipeline \o <<>> = s.pipeline
  BY <1>3
<1>5. s.pipeline # <<>> => s.pipeline \o more # <<>>
  <2>1. /\ Len(s.pipeline \o more) = Len(s.pipeline) + Len(more)
        /\ Len(s.pipeline) \in Nat /\ Len(more) \in Nat
        /\ s.pipeline \o more \in Seq(Batches)
    BY <1>3, ConcatIndices
  <2>2. s.pipeline # <<>> => Len(s.pipeline) # 0
    BY <1>3, EmptySeq
  <2>3. s.pipeline # <<>> => Len(s.pipeline \o more) # 0
    BY <2>1, <2>2
  <2> QED BY <2>1, <2>3, EmptySeq
<1>6. Core(t, done, m)
  BY <1>2 DEF Base, Core, SameStore
<1>7. StreamOK(t.state, t.handshake, t.idle, t.call, t.pipeline)
  <2>1. StreamOK(s.state, s.handshake, s.idle, s.call, s.pipeline)
    BY DEF Base, Link
  <2>2. t.idle => t.state = "open" /\ t.pipeline = <<>>
    <3> SUFFICES ASSUME t.idle
                 PROVE  t.state = "open" /\ t.pipeline = <<>>
      OBVIOUS
    <3>1. s.idle /\ ~out
      BY <1>2
    <3>2. s.state = "open" /\ s.pipeline = <<>>
      BY <2>1, <3>1 DEF StreamOK
    <3>3. s.handshake
      BY <2>1, <3>2 DEF StreamOK
    <3>4. more = <<>>
      BY <3>1, <3>2, <3>3
    <3> QED BY <1>2, <1>4, <3>2, <3>4
  <2> HIDE DEF out
  <2> QED BY <1>2, <1>5, <2>1, <2>2 DEF StreamOK
<1>8. CallOK(t.call, t.reading, t.blocks, t.buffer, sv)
  <2>1. CallOK(s.call, s.reading, s.blocks, s.buffer, sv)
    BY DEF Base, Link
  <2>2. s.call = "none" => t.buffer = s.buffer
    BY <1>2
  <2> QED BY <1>2, <2>1, <2>2 DEF CallOK
<1>9. ASSUME t.call = "open"
      PROVE  LineOK(t.blocks, t.buffer, sv, Expected(t.handshake, t.pipeline))
  <2> DEFINE e == Expected(s.handshake, s.pipeline)
             r == WritesOf(more)
  <2>1. LineOK(s.blocks, s.buffer, sv, e) /\ s.state = "open"
    BY <1>2, <1>9 DEF Base, Link, StreamOK
  <2>2. CASE ~s.handshake
    <3>1. Expected(t.handshake, t.pipeline) = e
      BY <1>2, <2>2 DEF Expected
    <3> HIDE DEF e
    <3> QED BY <1>2, <2>1, <2>2, <3>1
  <2>3. CASE s.handshake
    <3>1. e \in Seq(Requests) /\ e = WritesOf(s.pipeline) /\ r \in Seq(Requests)
      BY <1>3, <2>3, WritesOfProperties
    <3>2. Expected(t.handshake, t.pipeline) = e \o r
      <4>1. t.handshake = TRUE /\ t.pipeline = s.pipeline \o more
        BY <1>2, <1>3, <2>3
      <4>2. s.pipeline \o more \in Seq(Batches)
        BY <1>3, ConcatIndices
      <4>3. Expected(TRUE, s.pipeline \o more) = WritesOf(s.pipeline \o more)
        BY <4>2, WritesOfProperties
      <4>4. WritesOf(s.pipeline \o more) = WritesOf(s.pipeline) \o r
        <5> DEFINE a == WritesOf(s.pipeline \o more)
                   c == WritesOf(s.pipeline)
        <5>1. /\ a \in Seq(Writes) /\ Len(a) = Len(s.pipeline \o more)
              /\ \A i \in 1..Len(s.pipeline \o more) : a[i] = (s.pipeline \o more)[i].write
          BY <4>2, WritesOfProperties
        <5>2. /\ c \in Seq(Writes) /\ Len(c) = Len(s.pipeline)
              /\ \A i \in 1..Len(s.pipeline) : c[i] = s.pipeline[i].write
          BY <1>3, WritesOfProperties
        <5>3. /\ r \in Seq(Writes) /\ Len(r) = Len(more)
              /\ \A i \in 1..Len(more) : r[i] = more[i].write
          BY WritesOfProperties
        <5>4. /\ Len(s.pipeline) \in Nat /\ Len(more) \in Nat
              /\ Len(s.pipeline \o more) = Len(s.pipeline) + Len(more)
              /\ \A i \in 1..Len(s.pipeline) : (s.pipeline \o more)[i] = s.pipeline[i]
              /\ \A i \in 1..Len(more) : (s.pipeline \o more)[Len(s.pipeline) + i] = more[i]
              /\ \A i \in 1..Len(s.pipeline) + Len(more) :
                    i \in 1..Len(s.pipeline)
                    \/ (i - Len(s.pipeline) \in 1..Len(more) /\ Len(s.pipeline) + (i - Len(s.pipeline)) = i)
          BY <1>3, ConcatIndices
        <5> HIDE DEF a, c, r
        <5>5. /\ c \o r \in Seq(Writes) /\ Len(c \o r) = Len(c) + Len(r)
              /\ \A i \in 1..Len(c) : (c \o r)[i] = c[i]
              /\ \A i \in 1..Len(r) : (c \o r)[Len(c) + i] = r[i]
          <6>1. c \in Seq(Writes) /\ r \in Seq(Writes)
            BY <5>2, <5>3
          <6> QED BY <6>1, ConcatIndices
        <5>6. Len(a) = Len(c \o r)
          BY <5>1, <5>2, <5>3, <5>4, <5>5
        <5>7. \A i \in 1..Len(a) : a[i] = (c \o r)[i]
          <6> SUFFICES ASSUME NEW i \in 1..Len(a)
                       PROVE  a[i] = (c \o r)[i]
            OBVIOUS
          <6>1. CASE i \in 1..Len(s.pipeline)
            BY <5>1, <5>2, <5>4, <5>5, <6>1
          <6>2. CASE i \notin 1..Len(s.pipeline)
            <7> DEFINE l == i - Len(s.pipeline)
            <7>1. l \in 1..Len(more) /\ Len(s.pipeline) + l = i
              BY <5>1, <5>4, <6>2
            <7> HIDE DEF l
            <7>2. a[i] = more[l].write
              BY <5>1, <5>4, <7>1
            <7>3. (c \o r)[i] = r[l]
              BY <5>2, <5>3, <5>5, <7>1
            <7> QED BY <5>3, <7>1, <7>2, <7>3
          <6> QED BY <6>1, <6>2
        <5>8. a = c \o r
          BY <5>1, <5>5, <5>6, <5>7, SeqEqual
        <5> QED BY <5>8 DEF a, c
      <4> QED BY <3>1, <4>1, <4>3, <4>4
    <3> HIDE DEF e, r
    <3>3. /\ LineOK(s.blocks, s.buffer \o r, sv, e \o r)
          /\ sv.status # "open" => LineOK(s.blocks, s.buffer, sv, e \o r)
      BY <1>3, <2>1, <3>1, LineGrows
    <3>4. LineOK(t.blocks, t.buffer, sv, Expected(t.handshake, t.pipeline))
      <4>1. t.buffer = s.buffer \o r
        <5>1. CASE more = <<>>
          <6>1. r = <<>>
            BY <5>1, WritesOfProperties DEF r
          <6>2. s.buffer \o <<>> = s.buffer
            BY <1>3
          <6> QED BY <1>2, <5>1, <6>1, <6>2
        <5>2. CASE more # <<>>
          BY <1>2, <1>9, <2>1, <2>3, <5>2 DEF r
        <5> QED BY <5>1, <5>2
      <4> QED BY <1>2, <3>2, <3>3, <4>1
    <3> QED BY <3>4
  <2> QED BY <2>2, <2>3
<1> HIDE DEF out
<1>10. Link(t, sv, done)
  BY <1>2, <1>7, <1>8, <1>9 DEF Base, Link, SameStore
<1> QED BY <1>2, <1>6, <1>10 DEF Base, SameLink, t

LEMMA MarkIdleBase ==
  ASSUME NEW s, NEW sv, NEW done, NEW m, Base(s, sv, done, m), s.pipeline = <<>>
  PROVE  LET t == MarkIdle(s)
         IN  Base(t, sv, done, m) /\ SameLink(s, t) /\ t.pipeline = <<>>
<1> DEFINE t == MarkIdle(s)
<1>1. s \in Sdk
  BY DEF Base, Core
<1>2. CASE s.state # "open"
  BY <1>2 DEF MarkIdle, SameLink, SameStore
<1>3. CASE s.state = "open"
  <2>1. t = [s EXCEPT !.idle = TRUE]
    BY <1>3 DEF MarkIdle
  <2>2. t \in Sdk
    BY <1>1, <2>1 DEF Sdk
  <2>3. SameStore(s, t)
    BY <1>1, <2>1 DEF SameStore, Sdk
  <2>4. /\ t.asked = s.asked /\ t.pipeline = s.pipeline
        /\ t.state = s.state /\ t.handshake = s.handshake
    BY <1>1, <2>1 DEF Sdk
  <2>5. /\ t.call = s.call /\ t.reading = s.reading /\ t.buffer = s.buffer
        /\ t.tokenOf = s.tokenOf /\ t.blocks = s.blocks
    BY <1>1, <2>1 DEF Sdk
  <2> HIDE DEF t
  <2>6. Core(t, done, m)
    BY <2>2, <2>3, <2>4, <2>5 DEF Base, Core, SameStore
  <2>7. StreamOK(t.state, t.handshake, t.idle, t.call, t.pipeline)
    BY <1>3, <2>4, <2>5 DEF Base, Link, StreamOK
  <2>8. Link(t, sv, done)
    BY <2>3, <2>4, <2>5, <2>7 DEF Base, Link, SameStore
  <2> QED BY <2>3, <2>4, <2>5, <2>6, <2>8 DEF Base, SameLink, t
<1> QED BY <1>2, <1>3

(* FillWritePipeline keeps everything in step, and starts the stream if    *)
(* there is something to send.                                             *)
LEMMA FillBase ==
  ASSUME NEW s, NEW sv \in Servers, NEW done, NEW m, Base(s, sv, done, m), s.enabled
  PROVE  LET t == FillWritePipeline(s)
         IN  /\ Base(t, sv, done, m) /\ SameLink(s, t)
             /\ t.pipeline # <<>> => IsStarted(t)
<1> DEFINE next == Unfetched(s)
           room == MaxPendingWrites - Len(s.pipeline)
           n == IF Len(next) < room THEN Len(next) ELSE room
           more == SubSeq(next, 1, n)
           full == AddToWritePipeline(s, more)
           marked == IF full.pipeline = <<>> THEN MarkIdle(full) ELSE full
           q == s.queue[s.user]
           p == Len(s.pipeline)
<1>1. /\ Core(s, done, m) /\ s \in Sdk
      /\ PipeOK(s.pipeline, q)
  BY DEF Base, Core, Link
<1>2. /\ q \in Seq(Batches) /\ p \in Nat /\ Len(q) \in Nat /\ p <= Len(q)
      /\ next \in Seq(Batches) /\ Len(next) = Len(q) - p
      /\ \A i \in 1..Len(q) - p : next[i] = q[p + i]
  BY <1>1, UnfetchedIs
<1>3. room \in Nat /\ MaxPendingWrites \in Nat
  BY <1>1, <1>2, BoundsAssumption DEF PipeOK
<1> HIDE DEF next, q
<1>4. n \in Nat /\ n <= Len(q) - p /\ n <= room
  <2>1. Len(next) \in Nat /\ Len(next) = Len(q) - p /\ room \in Nat
    BY <1>2, <1>3
  <2> HIDE DEF room, p
  <2> QED BY <2>1
<1>5. /\ more \in Seq(Batches) /\ Len(more) = n
      /\ \A i \in 1..n : more[i] = next[i]
  <2>1. \A i \in 1..n : next[i] \in Batches
    BY <1>2, <1>4
  <2>2. /\ Len(more) = n
        /\ \A i \in 1..n : more[i] = next[i]
        /\ more \in Seq(Batches)
    <3> HIDE DEF n
    <3>1. 1 \in Nat /\ n \in 0..Len(next) /\ n \in 1-1..Len(next)
      BY <1>2, <1>4
    <3>2. more = [i \in 1..n |-> next[i]]
      BY <1>2, <1>4, <3>1
    <3> QED BY <1>4, <2>1, <3>2
  <2> QED BY <2>2
<1>6. PipeOK(s.pipeline \o more, q)
  <2>1. s.pipeline \in Seq(Batches)
    BY <1>1 DEF Sdk
  <2> HIDE DEF more, n
  <2>2. /\ Len(s.pipeline \o more) = p + n
        /\ \A i \in 1..p : (s.pipeline \o more)[i] = s.pipeline[i]
        /\ \A i \in 1..n : (s.pipeline \o more)[p + i] = more[i]
        /\ \A i \in 1..p + n : i \in 1..p \/ (i - p \in 1..n /\ p + (i - p) = i)
    <3> HIDE DEF room
    <3>1. /\ Len(s.pipeline \o more) = p + Len(more)
          /\ \A i \in 1..p : (s.pipeline \o more)[i] = s.pipeline[i]
          /\ \A i \in 1..Len(more) : (s.pipeline \o more)[p + i] = more[i]
          /\ \A i \in 1..p + Len(more) : i \in 1..p \/ (i - p \in 1..Len(more) /\ p + (i - p) = i)
      <4>1. more \in Seq(Batches)
        BY <1>5
      <4> QED BY <2>1, <4>1, ConcatIndices
    <3> QED BY <1>5, <3>1
  <2>3. p + n <= Len(q) /\ p + n <= MaxPendingWrites
    <3>1. \A x, y, z, u \in Nat : x <= y - z /\ x <= u - z => z + x <= y /\ z + x <= u
      OBVIOUS
    <3>2. room = MaxPendingWrites - p
      OBVIOUS
    <3> HIDE DEF p, room
    <3>3. /\ p \in Nat /\ Len(q) \in Nat /\ MaxPendingWrites \in Nat /\ n \in Nat
          /\ n <= Len(q) - p /\ n <= MaxPendingWrites - p
      BY <1>2, <1>3, <1>4, <3>2
    <3> QED BY <3>1, <3>3
  <2>4. \A i \in 1..p : s.pipeline[i] = q[i]
    BY <1>1 DEF PipeOK
  <2>5. ASSUME NEW i \in 1..p + n
        PROVE  (s.pipeline \o more)[i] = q[i]
    <3>1. CASE i \in 1..p
      <4> HIDE DEF p, room
      <4> QED BY <2>2, <2>4, <3>1
    <3>2. CASE i \notin 1..p
      <4> DEFINE l == i - p
      <4>1. l \in 1..n /\ p + l = i
        BY <2>2, <3>2
      <4>2. l \in 1..Len(q) - p
        BY <1>2, <1>4, <4>1
      <4> HIDE DEF l
      <4>3. (s.pipeline \o more)[i] = next[l]
        BY <1>5, <2>2, <4>1
      <4> QED BY <1>2, <4>1, <4>2, <4>3
    <3> QED BY <3>1, <3>2
  <2> QED BY <2>2, <2>3, <2>5 DEF PipeOK
<1> HIDE DEF more
<1>7. Base(full, sv, done, m) /\ SameLink(s, full)
  BY <1>5, <1>6, AddBase DEF q
<1> HIDE DEF full
<1>8. /\ Base(marked, sv, done, m) /\ SameLink(full, marked)
  <2>1. CASE full.pipeline = <<>>
    BY <1>7, <2>1, MarkIdleBase
  <2>2. CASE full.pipeline # <<>>
    BY <1>7, <2>2 DEF SameLink, SameStore
  <2> QED BY <2>1, <2>2
<1>9. SameLink(s, marked) /\ marked.enabled
  BY <1>7, <1>8 DEF SameLink, SameStore
<1>10. FillWritePipeline(s) = StartIfNeeded(marked)
  BY DEF FillWritePipeline, full, more, next
<1> HIDE DEF marked
<1> DEFINE t == StartIfNeeded(marked)
<1>11. /\ Base(t, sv, done, m) /\ SameLink(marked, t)
       /\ t.pipeline = marked.pipeline
       /\ t.pipeline # <<>> => IsStarted(t)
  BY <1>8, <1>9, StartIfNeededBase
<1> HIDE DEF t
<1>12. SameLink(s, t)
  BY <1>9, <1>11 DEF SameLink, SameStore
<1> QED BY <1>10, <1>11, <1>12 DEF t

-----------------------------------------------------------------------------
(***************************************************************************)
(* The result of a write.                                                  *)
(***************************************************************************)
LEMMA WithoutFirst ==
  ASSUME NEW q \in Seq(Batches), q # <<>>,
         \A i, j \in 1..Len(q) : q[i].id = q[j].id => i = j
  PROVE  Without(q, q[1].id) = Tail(q)
<1> DEFINE I == {i \in DOMAIN q : q[i].id # q[1].id}
<1>1. /\ Tail(q) \in Seq(Batches) /\ Len(q) \in Nat \ {0}
      /\ Len(Tail(q)) = Len(q) - 1
      /\ 1 \in 1..Len(q)
      /\ \A i \in 1..Len(Tail(q)) : i + 1 \in 1..Len(q) /\ Tail(q)[i] = q[i + 1]
  BY TailIndices
<1>2. I = 1 + 1 .. Len(q)
  <2>1. DOMAIN q = 1..Len(q)
    OBVIOUS
  <2>2. \A i \in 1..Len(q) : q[i].id # q[1].id <=> i # 1
    BY <1>1
  <2>3. I = {i \in 1..Len(q) : i # 1}
    BY <2>1, <2>2
  <2> HIDE DEF I
  <2> QED BY <1>1, <2>3
<1>3. Without(q, q[1].id) = Select(q, I)
  BY DEF Without
<1> HIDE DEF I
<1> DEFINE r == Select(q, 1 + 1 .. Len(q))
<1>4. /\ r \in Seq(Batches) /\ Len(r) = Len(q) - 1
      /\ \A i \in 1..Len(q) - 1 : r[i] = q[1 + i]
  <2>1. 1 \in Nat /\ 1 <= Len(q)
    BY <1>1
  <2> QED BY <2>1, SelectSuffix
<1> HIDE DEF r
<1>5. \A i \in 1..Len(r) : r[i] = Tail(q)[i]
  <2> SUFFICES ASSUME NEW i \in 1..Len(r)
               PROVE  r[i] = Tail(q)[i]
    OBVIOUS
  <2>1. i \in 1..Len(q) - 1 /\ i \in 1..Len(Tail(q)) /\ 1 + i = i + 1
    BY <1>1, <1>4
  <2> QED BY <1>1, <1>4, <2>1
<1>6. r = Tail(q)
  BY <1>1, <1>4, <1>5, SeqEqual
<1> QED BY <1>2, <1>3, <1>6 DEF r

Hits(s, id) == {c \in s.callbacks : c.user = s.user /\ c.id = id}
Reports(s, id, ok) == {[write |-> c.write, ok |-> ok] : c \in Hits(s, id)}

(* What the result of a write leaves alone.                                *)
SameStream(s, t) ==
    /\ t.user = s.user /\ t.notified = s.notified /\ t.nextId = s.nextId
    /\ t.asked = s.asked /\ t.enabled = s.enabled
    /\ t.pipeline = s.pipeline
    /\ t.state = s.state /\ t.handshake = s.handshake /\ t.idle = s.idle
    /\ t.call = s.call /\ t.tokenOf = s.tokenOf /\ t.reading = s.reading
    /\ t.buffer = s.buffer /\ t.blocks = s.blocks

Reported(s, t, id, ok) ==
    /\ t = [s EXCEPT !.callbacks = t.callbacks, !.told = t.told, !.queue = t.queue]
    /\ t.callbacks = s.callbacks \ Hits(s, id)
    /\ t.told = s.told \cup Reports(s, id, ok)
    /\ t.queue = [s.queue EXCEPT ![s.user] = Without(s.queue[s.user], id)]
    /\ SameStream(s, t) /\ t.sound = s.sound

(* The first write leaves the queue of the user in charge.                 *)
LEMMA ResultFields ==
  ASSUME NEW s \in Sdk, s.sound, NEW id \in Nat, NEW ok \in BOOLEAN,
         id \in Ids(s.queue[s.user])
  PROVE  Reported(s, HandleWriteResult(s, id, ok), id, ok)
<1> DEFINE t == HandleWriteResult(s, id, ok)
           c == s.callbacks \ Hits(s, id)
           d == s.told \cup Reports(s, id, ok)
           q == [s.queue EXCEPT ![s.user] = Without(s.queue[s.user], id)]
<1>1. HardAssert(s, id \in Ids(s.queue[s.user])) = s
  BY HardAssertHolds
<1>2. NotifyUser(s, id, ok) = [s EXCEPT !.callbacks = c, !.told = d]
  BY DEF NotifyUser, Hits, Reports, Sdk
<1>3. t = [[s EXCEPT !.callbacks = c, !.told = d] EXCEPT !.queue = q]
  <2> HIDE DEF c, d
  <2> DEFINE n == NotifyUser(s, id, ok)
  <2>1. t = [n EXCEPT !.queue[s.user] = Without(@, id)]
    BY <1>1 DEF HandleWriteResult
  <2>2. n.queue = s.queue
    BY <1>2 DEF Sdk
  <2> HIDE DEF n, t
  <2>3. t = [n EXCEPT !.queue = q]
    BY <2>1, <2>2
  <2> HIDE DEF q
  <2>4. t = [[s EXCEPT !.callbacks = c, !.told = d] EXCEPT !.queue = q]
    BY <1>2, <2>3 DEF n
  <2> QED BY <2>4
<1> HIDE DEF c, d, q
<1>4. t = [s EXCEPT !.callbacks = c, !.told = d, !.queue = q]
  BY <1>3 DEF Sdk
<1>5. /\ t.callbacks = c /\ t.told = d /\ t.queue = q
      /\ t.user = s.user /\ t.notified = s.notified /\ t.nextId = s.nextId
      /\ t.asked = s.asked /\ t.enabled = s.enabled /\ t.sound = s.sound
  BY <1>3 DEF Sdk
<1>6. /\ t.pipeline = s.pipeline
      /\ t.state = s.state /\ t.handshake = s.handshake /\ t.idle = s.idle
      /\ t.call = s.call /\ t.tokenOf = s.tokenOf /\ t.reading = s.reading
      /\ t.buffer = s.buffer /\ t.blocks = s.blocks
  BY <1>3 DEF Sdk
<1> HIDE DEF t
<1>7. Reported(s, t, id, ok)
  BY <1>4, <1>5, <1>6 DEF Reported, SameStream, c, d, q
<1> QED BY <1>7 DEF t

LEMMA ResultCore ==
  ASSUME NEW s, NEW done \in SUBSET Writes, NEW m, Core(s, done, m), s.queue[s.user] # <<>>,
         NEW ok \in BOOLEAN, ok => s.queue[s.user][1].write \in done
  PROVE  LET t == HandleWriteResult(s, s.queue[s.user][1].id, ok)
         IN  /\ Core(t, done, m) /\ SameStream(s, t)
             /\ t.queue = [s.queue EXCEPT ![s.user] = Tail(s.queue[s.user])]
             /\ t.queue[t.user] = Tail(s.queue[s.user])
<1> DEFINE q == s.queue[s.user]
           id == q[1].id
           t == HandleWriteResult(s, id, ok)
           r == Tail(q)
<1>1. s \in Sdk /\ s.sound /\ s.user \in Accounts
  BY DEF Core, Sdk
<1>2. s.queue \in [Accounts -> Seq(Batches)] /\ q \in Seq(Batches)
  BY <1>1 DEF Sdk
<1>3. /\ r \in Seq(Batches) /\ Len(q) \in Nat \ {0} /\ Len(r) = Len(q) - 1
      /\ 1 \in 1..Len(q)
      /\ \A i \in 1..Len(r) : i + 1 \in 1..Len(q) /\ r[i] = q[i + 1]
  BY <1>2, TailIndices
<1>4. /\ \A a \in Accounts : \A i \in 1..Len(s.queue[a]) :
            s.queue[a][i].write.by = a /\ s.queue[a][i].id < s.nextId
      /\ \A a, b \in Accounts : \A i \in 1..Len(s.queue[a]), j \in 1..Len(s.queue[b]) :
            s.queue[a][i].id = s.queue[b][j].id => a = b /\ i = j
      /\ \A a \in Accounts : \A i, j \in 1..Len(s.queue[a]) :
            i < j => /\ s.queue[a][i].id < s.queue[a][j].id
                     /\ s.queue[a][i].write.n < s.queue[a][j].write.n
  BY DEF Core, QueuesOK
<1>5. Without(q, id) = r
  <2>1. \A i, j \in 1..Len(q) : q[i].id = q[j].id => i = j
    BY <1>1, <1>4
  <2> HIDE DEF q
  <2> QED BY <1>2, <2>1, WithoutFirst
<1>6. id \in Nat /\ id \in Ids(q)
  <2>1. q[1] \in Batches /\ DOMAIN q = 1..Len(q)
    BY <1>2, <1>3
  <2>2. q[1].id \in Nat
    BY <2>1 DEF Batches
  <2> HIDE DEF q
  <2> QED BY <1>3, <2>1, <2>2 DEF Ids
<1>7. /\ t = [s EXCEPT !.callbacks = t.callbacks, !.told = t.told,
                       !.queue = t.queue]
      /\ t.callbacks = s.callbacks \ Hits(s, id)
      /\ t.told = s.told \cup Reports(s, id, ok)
      /\ t.queue = [s.queue EXCEPT ![s.user] = r]
      /\ SameStream(s, t) /\ t.sound = s.sound
  <2>1. Without(s.queue[s.user], id) = r /\ id \in Ids(s.queue[s.user])
    BY <1>5, <1>6
  <2> HIDE DEF r, q, id
  <2>2. /\ t = [s EXCEPT !.callbacks = t.callbacks, !.told = t.told,
                         !.queue = t.queue]
        /\ t.callbacks = s.callbacks \ Hits(s, id)
        /\ t.told = s.told \cup Reports(s, id, ok)
        /\ t.queue = [s.queue EXCEPT ![s.user] = Without(s.queue[s.user], id)]
        /\ SameStream(s, t) /\ t.sound = s.sound
    <3>1. id \in Nat /\ s \in Sdk /\ s.sound /\ id \in Ids(s.queue[s.user])
      BY <1>1, <1>6, <2>1
    <3>2. Reported(s, t, id, ok)
      BY <3>1, ResultFields
    <3> HIDE DEF t
    <3> QED BY <3>2 DEF Reported
  <2> QED BY <2>1, <2>2
<1> HIDE DEF t
<1>8. /\ t.queue \in [Accounts -> Seq(Batches)]
      /\ t.queue[s.user] = r
      /\ \A a \in Accounts : a # s.user => t.queue[a] = s.queue[a]
  <2> HIDE DEF r, q
  <2> QED BY <1>1, <1>2, <1>3, <1>7
<1>9. \A a \in Accounts : \A i \in 1..Len(t.queue[a]) :
         \E j \in 1..Len(s.queue[a]) :
            /\ j = (IF a = s.user THEN i + 1 ELSE i)
            /\ t.queue[a][i] = s.queue[a][j]
  <2> SUFFICES ASSUME NEW a \in Accounts, NEW i \in 1..Len(t.queue[a])
               PROVE  \E j \in 1..Len(s.queue[a]) :
                         /\ j = (IF a = s.user THEN i + 1 ELSE i)
                         /\ t.queue[a][i] = s.queue[a][j]
    OBVIOUS
  <2>1. CASE a # s.user
    BY <1>8, <2>1
  <2>2. CASE a = s.user
    <3>1. t.queue[a] = r /\ i \in 1..Len(r)
      BY <1>8, <2>2
    <3> HIDE DEF r
    <3>2. i + 1 \in 1..Len(q) /\ r[i] = q[i + 1]
      BY <1>3, <3>1
    <3> QED BY <2>2, <3>1, <3>2
  <2> QED BY <2>1, <2>2
<1>10. \A c \in Hits(s, id) : c.write = q[1].write /\ c \in s.callbacks
  <2> SUFFICES ASSUME NEW c \in Hits(s, id)
               PROVE  c.write = q[1].write
    BY DEF Hits
  <2>1. c \in s.callbacks /\ c.user = s.user /\ c.id = id
    BY DEF Hits
  <2>2. PICK i \in 1..Len(q) : q[i] = [id |-> c.id, write |-> c.write]
    BY <2>1 DEF Core, ClosuresOK
  <2>3. q[i].id = q[1].id /\ q[i].write = c.write
    BY <2>1, <2>2
  <2>4. i = 1
    BY <1>1, <1>3, <1>4, <2>3
  <2> QED BY <2>3, <2>4
<1> HIDE DEF q, r
<1>11. t.told \subseteq [write : Writes, ok : BOOLEAN] /\ ToldOK(t.told, done)
  <2>1. s.told \subseteq [write : Writes, ok : BOOLEAN]
    BY <1>1 DEF Sdk
  <2>2. q[1].write \in Writes
    <3>1. q[1] \in Batches
      BY <1>2, <1>3
    <3> QED BY <3>1 DEF Batches
  <2>3. \A c \in Hits(s, id) : [write |-> c.write, ok |-> ok] \in [write : Writes, ok : BOOLEAN]
    BY <1>10, <2>2
  <2> DEFINE H == Hits(s, id)
  <2>4. t.told \subseteq [write : Writes, ok : BOOLEAN]
    <3>1. t.told = s.told \cup {[write |-> c.write, ok |-> ok] : c \in H}
      BY <1>7 DEF Reports
    <3>2. \A c \in H : [write |-> c.write, ok |-> ok] \in [write : Writes, ok : BOOLEAN]
      BY <2>3
    <3> HIDE DEF H, t
    <3> QED BY <2>1, <3>1, <3>2
  <2>5. ok => q[1].write \in done
    BY DEF q
  <2>6. ASSUME NEW x \in t.told, x.ok
        PROVE  x.write \in done
    <3>1. CASE x \in s.told
      BY <2>6, <3>1 DEF Core, ToldOK
    <3>2. CASE \E c \in Hits(s, id) : x = [write |-> c.write, ok |-> ok]
      BY <1>10, <2>5, <2>6, <3>2
    <3> QED BY <1>7, <3>1, <3>2 DEF Reports
  <2> QED BY <2>4, <2>6 DEF ToldOK
<1>12. t \in Sdk
  <2>1. t.callbacks \subseteq s.callbacks
    BY <1>7
  <2>2. s.callbacks \in SUBSET [user : Accounts, id : Nat, write : Writes]
    BY <1>1 DEF Sdk
  <2> DEFINE cb == t.callbacks
             td == t.told
             qu == t.queue
  <2>3. t = [s EXCEPT !.callbacks = cb, !.told = td, !.queue = qu]
    BY <1>7
  <2>4. /\ cb \in SUBSET [user : Accounts, id : Nat, write : Writes]
        /\ td \in SUBSET [write : Writes, ok : BOOLEAN]
        /\ qu \in [Accounts -> Seq(Batches)]
    BY <1>8, <1>11, <2>1, <2>2
  <2> HIDE DEF cb, td, qu
  <2> QED BY <1>1, <2>3, <2>4 DEF Sdk
<1>13. QueuesOK(t.queue, t.nextId)
  <2>1. t.nextId = s.nextId /\ s.nextId # 0
    BY <1>7 DEF SameStream, Core, QueuesOK
  <2>2. \A a \in Accounts : \A i \in 1..Len(t.queue[a]) :
            t.queue[a][i].write.by = a /\ t.queue[a][i].id < s.nextId
    <3> SUFFICES ASSUME NEW a \in Accounts, NEW i \in 1..Len(t.queue[a])
                 PROVE  t.queue[a][i].write.by = a /\ t.queue[a][i].id < s.nextId
      OBVIOUS
    <3>1. PICK j \in 1..Len(s.queue[a]) : t.queue[a][i] = s.queue[a][j]
      BY <1>9
    <3>2. s.queue[a][j].write.by = a /\ s.queue[a][j].id < s.nextId
      BY <1>4
    <3> QED BY <3>1, <3>2
  <2>3. ASSUME NEW a \in Accounts, NEW b \in Accounts,
               NEW i \in 1..Len(t.queue[a]), NEW j \in 1..Len(t.queue[b]),
               t.queue[a][i].id = t.queue[b][j].id
        PROVE  a = b /\ i = j
    <3>1. PICK k \in 1..Len(s.queue[a]) :
            /\ k = (IF a = s.user THEN i + 1 ELSE i)
            /\ t.queue[a][i] = s.queue[a][k]
      BY <1>9
    <3>2. PICK l \in 1..Len(s.queue[b]) :
            /\ l = (IF b = s.user THEN j + 1 ELSE j)
            /\ t.queue[b][j] = s.queue[b][l]
      BY <1>9
    <3>3. s.queue[a][k].id = s.queue[b][l].id
      BY <2>3, <3>1, <3>2
    <3>4. a = b /\ k = l
      <4>1. \A x, y \in Accounts :
               \A o \in 1..Len(s.queue[x]), p \in 1..Len(s.queue[y]) :
                  s.queue[x][o].id = s.queue[y][p].id => x = y /\ o = p
        BY <1>4
      <4> QED BY <3>3, <4>1
    <3>5. i \in Int /\ j \in Int
      BY <1>8
    <3> QED BY <3>1, <3>2, <3>4, <3>5
  <2>4. ASSUME NEW a \in Accounts,
               NEW i \in 1..Len(t.queue[a]), NEW j \in 1..Len(t.queue[a]), i < j
        PROVE  /\ t.queue[a][i].id < t.queue[a][j].id
               /\ t.queue[a][i].write.n < t.queue[a][j].write.n
    <3>1. PICK k \in 1..Len(s.queue[a]) :
            /\ k = (IF a = s.user THEN i + 1 ELSE i)
            /\ t.queue[a][i] = s.queue[a][k]
      BY <1>9
    <3>2. PICK l \in 1..Len(s.queue[a]) :
            /\ l = (IF a = s.user THEN j + 1 ELSE j)
            /\ t.queue[a][j] = s.queue[a][l]
      BY <1>9
    <3>3. k < l
      BY <2>4, <3>1, <3>2
    <3> QED BY <1>4, <3>1, <3>2, <3>3
  <2> QED BY <2>1, <2>2, <2>3, <2>4 DEF QueuesOK
<1>14. ClosuresOK(t.queue, t.callbacks)
  <2> SUFFICES ASSUME NEW c \in t.callbacks
               PROVE  \E i \in 1..Len(t.queue[c.user]) :
                         t.queue[c.user][i] = [id |-> c.id, write |-> c.write]
    BY DEF ClosuresOK
  <2>1. c \in s.callbacks /\ ~(c.user = s.user /\ c.id = id)
    BY <1>7 DEF Hits
  <2>2. c.user \in Accounts
    BY <1>1, <2>1 DEF Sdk
  <2>3. PICK i \in 1..Len(s.queue[c.user]) :
           s.queue[c.user][i] = [id |-> c.id, write |-> c.write]
    BY <2>1 DEF Core, ClosuresOK
  <2>4. CASE c.user # s.user
    BY <1>8, <2>2, <2>3, <2>4
  <2>5. CASE c.user = s.user
    <3>1. q[i].id = c.id /\ i \in 1..Len(q)
      BY <2>3, <2>5 DEF q
    <3>2. i # 1
      BY <2>1, <2>5, <3>1
    <3>3. i - 1 \in 1..Len(r) /\ (i - 1) + 1 = i
      BY <1>3, <3>1, <3>2
    <3>4. r[i - 1] = q[i]
      BY <1>3, <3>3
    <3> QED BY <1>8, <2>3, <2>5, <3>3, <3>4 DEF q
  <2> QED BY <2>4, <2>5
<1>15. StampsOK(t.blocks, t.user, t.notified, t.asked)
  BY <1>7 DEF Core, SameStream
<1>16. AheadOK(t.blocks, t.queue, done, m)
  <2>1. t.blocks = s.blocks
    BY <1>7 DEF SameStream
  <2>2. \A a \in Accounts : \A i \in 1..Len(t.queue[a]) :
           \E j \in 1..Len(s.queue[a]) : t.queue[a][i] = s.queue[a][j]
    BY <1>9
  <2>3. AheadOK(s.blocks, s.queue, done, m)
    BY DEF Core
  <2>4. \A a \in Accounts : \A j \in 1..Len(t.queue[a]) : t.queue[a][j].write.n <= m
    BY <2>2, <2>3 DEF AheadOK
  <2>5. \A i \in 1..Len(s.blocks) : s.blocks[i].kind = "write" =>
           \A a \in Accounts : \A j \in 1..Len(t.queue[a]) :
              t.queue[a][j].write.n < s.blocks[i].write.n
    BY <2>2, <2>3 DEF AheadOK
  <2> QED BY <2>1, <2>3, <2>4, <2>5 DEF AheadOK
<1>17. CommitsOK(t.queue, done)
  <2> SUFFICES ASSUME NEW w \in done, NEW i \in 1..Len(t.queue[w.by]),
                      t.queue[w.by][i].write.n < w.n
               PROVE  t.queue[w.by][i].write \in done
    BY DEF CommitsOK
  <2>1. w.by \in Accounts
    BY DEF Writes
  <2>2. PICK j \in 1..Len(s.queue[w.by]) : t.queue[w.by][i] = s.queue[w.by][j]
    BY <1>9, <2>1
  <2> QED BY <2>2 DEF Core, CommitsOK
<1>18. Core(t, done, m)
  BY <1>1, <1>7, <1>11, <1>12, <1>13, <1>14, <1>15, <1>16, <1>17 DEF Core
<1>19. t.queue[t.user] = r
  BY <1>7, <1>8 DEF SameStream
<1> QED BY <1>7, <1>18, <1>19 DEF t, q, r

LEMMA TailPipe ==
  ASSUME NEW p \in Seq(Batches), NEW q \in Seq(Batches), PipeOK(p, q), p # <<>>
  PROVE  /\ q # <<>> /\ Head(p) = q[1] /\ p[1] = q[1]
         /\ Tail(p) \in Seq(Batches)
         /\ PipeOK(Tail(p), Tail(q))
<1>1. /\ Tail(p) \in Seq(Batches) /\ Len(p) \in Nat \ {0}
      /\ Len(Tail(p)) = Len(p) - 1
      /\ 1 \in 1..Len(p) /\ Head(p) = p[1]
      /\ \A i \in 1..Len(Tail(p)) : i + 1 \in 1..Len(p) /\ Tail(p)[i] = p[i + 1]
  BY TailIndices
<1>2. /\ Len(p) <= Len(q) /\ Len(p) <= MaxPendingWrites
      /\ \A i \in 1..Len(p) : p[i] = q[i]
      /\ MaxPendingWrites \in Nat
  BY BoundsAssumption DEF PipeOK
<1>3. q # <<>>
  BY <1>1, <1>2
<1>4. /\ Tail(q) \in Seq(Batches) /\ Len(q) \in Nat \ {0}
      /\ Len(Tail(q)) = Len(q) - 1
      /\ \A i \in 1..Len(Tail(q)) : i + 1 \in 1..Len(q) /\ Tail(q)[i] = q[i + 1]
  BY <1>3, TailIndices
<1>5. Len(Tail(p)) <= Len(Tail(q)) /\ Len(Tail(p)) <= MaxPendingWrites
  BY <1>1, <1>2, <1>4
<1>6. \A i \in 1..Len(Tail(p)) : Tail(p)[i] = Tail(q)[i]
  <2> SUFFICES ASSUME NEW i \in 1..Len(Tail(p))
               PROVE  Tail(p)[i] = Tail(q)[i]
    OBVIOUS
  <2>1. i \in 1..Len(Tail(q)) /\ i + 1 \in 1..Len(p)
    BY <1>1, <1>4, <1>5
  <2> QED BY <1>1, <1>2, <1>4, <2>1
<1> QED BY <1>1, <1>2, <1>3, <1>5, <1>6 DEF PipeOK

(* There is no call, and no token is awaited.                              *)
Halted(s) ==
    /\ s.call = "none" /\ ~s.reading /\ s.buffer = <<>> /\ ~s.idle
    /\ Quiet(s.blocks)
    /\ \A state : TokensOK(s.asked, s.blocks, state)

LEMMA NoCallType == NoCall \in Servers
<1>1. <<>> \in Seq(Requests)
  OBVIOUS
<1> QED BY <1>1 DEF NoCall, Servers, Statuses

(* What a handler does to the queues at most: the first write of the user  *)
(* in charge leaves.                                                       *)
SameQueues(s, t) == t.user = s.user /\ t.queue = s.queue
FirstLeft(s, t) ==
    /\ t.user = s.user
    /\ s.queue[s.user] # <<>>
    /\ t.queue = [s.queue EXCEPT ![s.user] = Tail(s.queue[s.user])]

(* A write that was refused: the batch goes, the stream may start again    *)
(* at once.                                                                *)
LEMMA WriteErrorBase ==
  ASSUME NEW s, NEW done \in SUBSET Writes, NEW m,
         Core(s, done, m), PipeOK(s.pipeline, s.queue[s.user]), Halted(s),
         s.enabled, s.pipeline # <<>>, s.state = "error"
  PROVE  LET t == HandleWriteError(s)
         IN  /\ Base(t, NoCall, done, m) /\ t.enabled /\ t.call = "none"
             /\ FirstLeft(s, t)
<1> DEFINE p == Tail(s.pipeline)
           q == s.queue[s.user]
           u == [s EXCEPT !.pipeline = p]
           d == [u EXCEPT !.state = "initial"]
           r == HandleWriteResult(d, q[1].id, FALSE)
<1>1. s \in Sdk /\ s.sound /\ s.user \in Accounts
  BY DEF Core, Sdk
<1>2. s.pipeline \in Seq(Batches) /\ q \in Seq(Batches)
  BY <1>1 DEF Sdk
<1>3. /\ q # <<>> /\ Head(s.pipeline) = q[1] /\ p \in Seq(Batches)
      /\ PipeOK(p, Tail(q))
  <2> HIDE DEF q
  <2>1. PipeOK(s.pipeline, q)
    BY DEF q
  <2> QED BY <1>2, <2>1, TailPipe
<1> HIDE DEF p, q
<1>4. u \in Sdk /\ u.sound /\ u.state = "error"
  BY <1>1, <1>3 DEF Sdk
<1>5. InhibitBackoff(u) = d
  <2>1. ~IsStarted(u)
    BY <1>4 DEF IsStarted
  <2>2. HardAssert(u, ~IsStarted(u)) = u
    BY <1>4, <2>1, HardAssertHolds
  <2> HIDE DEF u
  <2> QED BY <2>2 DEF InhibitBackoff
<1>6. d \in Sdk
  BY <1>4 DEF Sdk, States
<1>7. SameStore(s, d)
  BY <1>1 DEF SameStore, Sdk
<1>8. /\ d.asked = s.asked /\ d.pipeline = p /\ d.state = "initial"
      /\ d.call = s.call /\ d.reading = s.reading /\ d.buffer = s.buffer
      /\ d.idle = s.idle /\ d.blocks = s.blocks
  BY <1>1 DEF Sdk
<1> HIDE DEF d, u
<1>9. Core(d, done, m)
  BY <1>6, <1>7, <1>8 DEF Core, SameStore
<1>10. d.queue[d.user] = q
  BY <1>7 DEF SameStore, q
<1>11. /\ Core(r, done, m) /\ SameStream(d, r) /\ r.queue[r.user] = Tail(q)
       /\ r.queue = [d.queue EXCEPT ![d.user] = Tail(q)]
  <2>1. LET w == HandleWriteResult(d, d.queue[d.user][1].id, FALSE)
        IN  /\ Core(w, done, m) /\ SameStream(d, w)
            /\ w.queue[w.user] = Tail(d.queue[d.user])
            /\ w.queue = [d.queue EXCEPT ![d.user] = Tail(d.queue[d.user])]
    BY <1>3, <1>9, <1>10, ResultCore
  <2> QED BY <1>10, <2>1
<1> HIDE DEF r
<1>12. Link(r, NoCall, done)
  <2>1. /\ r.call = "none" /\ ~r.reading /\ r.buffer = <<>> /\ Quiet(r.blocks)
        /\ ~r.idle /\ r.state \in {"initial", "error"}
        /\ TokensOK(r.asked, r.blocks, r.state)
    BY <1>8, <1>11 DEF SameStream, Halted
  <2>2. PipeOK(r.pipeline, r.queue[r.user])
    BY <1>3, <1>8, <1>11 DEF SameStream
  <2> QED BY <2>1, <2>2, QuietLink
<1>13. HandleWriteError(s) = FillWritePipeline(r)
  <2>1. [s EXCEPT !.pipeline = Tail(@)] = u
    BY DEF u, p
  <2> QED BY <1>3, <1>5, <2>1 DEF HandleWriteError, r
<1>14. r.enabled /\ r.call = "none"
  BY <1>7, <1>8, <1>11 DEF SameStream, SameStore, Halted
<1>15. Base(r, NoCall, done, m)
  BY <1>11, <1>12 DEF Base
<1>16. FirstLeft(s, r)
  BY <1>3, <1>7, <1>11 DEF FirstLeft, SameStream, SameStore, q
<1>17. LET t == FillWritePipeline(r)
       IN  /\ Base(t, NoCall, done, m) /\ t.enabled /\ t.call = "none"
           /\ SameStore(r, t)
  BY <1>14, <1>15, FillBase, NoCallType DEF SameLink, SameStore
<1> QED BY <1>13, <1>16, <1>17 DEF FirstLeft, SameStore

LEMMA ForgetHandshake ==
  ASSUME NEW s, NEW done, NEW m, Base(s, NoCall, done, m), s.call = "none"
  PROVE  LET t == [s EXCEPT !.handshake = FALSE]
         IN  /\ Base(t, NoCall, done, m) /\ SameStore(s, t) /\ t.call = "none"
             /\ t.pipeline = s.pipeline /\ t.state = s.state /\ ~t.handshake
<1> DEFINE t == [s EXCEPT !.handshake = FALSE]
<1>1. s \in Sdk
  BY DEF Base, Core
<1>2. t \in Sdk
  BY <1>1 DEF Sdk
<1>3. SameStore(s, t)
  BY <1>1 DEF SameStore, Sdk
<1>4. /\ t.asked = s.asked /\ t.pipeline = s.pipeline
      /\ t.state = s.state /\ ~t.handshake /\ t.idle = s.idle
  BY <1>1 DEF Sdk
<1>5. /\ t.call = s.call /\ t.reading = s.reading /\ t.buffer = s.buffer
      /\ t.tokenOf = s.tokenOf /\ t.blocks = s.blocks
  BY <1>1 DEF Sdk
<1> HIDE DEF t
<1>6. Core(t, done, m)
  BY <1>2, <1>3, <1>4, <1>5 DEF Base, Core, SameStore
<1>7. StreamOK(t.state, t.handshake, t.idle, t.call, t.pipeline)
  BY <1>4, <1>5 DEF Base, Link, StreamOK
<1>8. Link(t, NoCall, done)
  BY <1>3, <1>4, <1>5, <1>7 DEF Base, Link, SameStore
<1> QED BY <1>3, <1>4, <1>5, <1>6, <1>8 DEF Base, t

LEMMA ClosedHalted ==
  ASSUME NEW s, NEW done, NEW m, Core(s, done, m), NEW x \in {"initial", "error"}
  PROVE  LET t == Closed(s, x)
         IN  /\ Core(t, done, m) /\ Halted(t) /\ SameStore(s, t)
             /\ t.pipeline = s.pipeline /\ t.state = x
<1> DEFINE t == Closed(s, x)
<1>1. s \in Sdk /\ x \in States
  BY DEF Core, States
<1>2. /\ SameStore(s, t)
      /\ t.pipeline = s.pipeline /\ t.state = x /\ ~t.idle
      /\ t.call = "none" /\ ~t.reading /\ t.buffer = <<>>
  BY <1>1, ClosedFields
<1>3. /\ Core(t, done, m) /\ Quiet(t.blocks)
      /\ \A state : TokensOK(t.asked, t.blocks, state)
  BY ClosedCore
<1> HIDE DEF t
<1> QED BY <1>2, <1>3 DEF Halted, t

(* A stream that has started is closed, for whatever reason: then it is    *)
(* left at rest, or starts again.                                          *)
LEMMA CloseBase ==
  ASSUME NEW s, NEW done \in SUBSET Writes, NEW m,
         Core(s, done, m), PipeOK(s.pipeline, s.queue[s.user]),
         IsStarted(s), s.enabled,
         NEW status \in Statuses, status = "ok" => s.pipeline = <<>>
  PROVE  LET t == Close(s, status)
         IN  /\ Base(t, NoCall, done, m) /\ Settled(t) /\ t.call = "none"
             /\ SameQueues(s, t) \/ (status = "permanent" /\ FirstLeft(s, t))
<1> DEFINE x == IF status = "ok" THEN "initial" ELSE "error"
           c == Closed(s, x)
           handled == IF status = "permanent" /\ c.handshake /\ c.pipeline # <<>>
                      THEN HandleWriteError(c) ELSE c
           u == StartIfNeeded(handled)
           t == [u EXCEPT !.handshake = FALSE]
<1>1. s \in Sdk /\ s.sound
  BY DEF Core
<1>2. x \in {"initial", "error"}
  OBVIOUS
<1>3. /\ Core(c, done, m) /\ Halted(c) /\ SameStore(s, c)
      /\ c.pipeline = s.pipeline /\ c.state = x
  <2> HIDE DEF x
  <2> QED BY <1>2, ClosedHalted
<1> HIDE DEF c
<1>4. c \in Sdk /\ c.sound /\ c.enabled
  BY <1>3 DEF Core, SameStore
<1>5. HardAssert(c, status = "ok" => ~ShouldStartWriteStream(c)) = c
  <2>1. status = "ok" => ~ShouldStartWriteStream(c)
    BY <1>3 DEF ShouldStartWriteStream
  <2> QED BY <1>4, <2>1, HardAssertHolds
<1>6. OnWriteStreamClose(c, status) = u
  BY <1>5 DEF OnWriteStreamClose
<1>7. Close(s, status) = t
  <2>1. HardAssert(s, IsStarted(s)) = s
    BY <1>1, HardAssertHolds
  <2>2. [Invalidate(Shutdown(HardAssert(s, IsStarted(s))))
            EXCEPT !.idle = FALSE,
                   !.state = IF status = "ok" THEN "initial" ELSE "error"] = c
    BY <2>1 DEF Closed, c
  <2>3. Close(s, status)
          = [OnWriteStreamClose([Invalidate(Shutdown(HardAssert(s, IsStarted(s))))
                EXCEPT !.idle = FALSE,
                       !.state = IF status = "ok" THEN "initial" ELSE "error"],
                status) EXCEPT !.handshake = FALSE]
    BY DEF Close
  <2> HIDE DEF u, handled, x
  <2> QED BY <1>6, <2>2, <2>3
<1>8. PipeOK(c.pipeline, c.queue[c.user])
  BY <1>3 DEF SameStore
<1>9. Link(c, NoCall, done)
  BY <1>2, <1>3, <1>8, QuietLink DEF Halted
<1>10. /\ Base(handled, NoCall, done, m) /\ handled.enabled /\ handled.call = "none"
       /\ SameQueues(c, handled) \/ (status = "permanent" /\ FirstLeft(c, handled))
  <2>1. CASE ~(status = "permanent" /\ c.handshake /\ c.pipeline # <<>>)
    BY <1>3, <1>4, <1>9, <2>1 DEF Base, Halted, SameQueues
  <2>2. CASE status = "permanent" /\ c.handshake /\ c.pipeline # <<>>
    BY <1>3, <1>4, <1>8, <2>2, WriteErrorBase
  <2> QED BY <2>1, <2>2
<1> HIDE DEF handled
<1>11. /\ Base(u, NoCall, done, m) /\ SameLink(handled, u)
       /\ u.pipeline # <<>> => IsStarted(u)
  BY <1>10, StartIfNeededBase
<1> HIDE DEF u
<1>12. u.enabled /\ u.call = "none"
  BY <1>10, <1>11 DEF SameLink, SameStore
<1>13. /\ Base(t, NoCall, done, m) /\ SameStore(u, t) /\ t.call = "none"
       /\ t.pipeline = u.pipeline /\ t.state = u.state /\ ~t.handshake
  BY <1>11, <1>12, ForgetHandshake
<1> HIDE DEF t
<1>14. Settled(t)
  BY <1>11, <1>12, <1>13 DEF Settled, SameStore, IsStarted
<1>15. SameQueues(s, t) \/ (status = "permanent" /\ FirstLeft(s, t))
  <2>1. /\ c.user = s.user /\ c.queue = s.queue
        /\ t.user = handled.user /\ t.queue = handled.queue
    BY <1>3, <1>11, <1>13 DEF SameLink, SameStore
  <2> QED BY <1>10, <2>1 DEF SameQueues, FirstLeft
<1> QED BY <1>7, <1>13, <1>14, <1>15

(* RestartNetwork finds a stream that has started, or nothing of one.      *)
LEMMA RestartBase ==
  ASSUME NEW s, NEW done \in SUBSET Writes, NEW m, Core(s, done, m),
         ~IsStarted(s) => Halted(s) /\ ~s.handshake
  PROVE  LET t == RestartNetwork(s)
         IN  /\ Base(t, NoCall, done, m) /\ Settled(t) /\ t.call = "none"
             /\ SameQueues(s, t)
<1> DEFINE o == [s EXCEPT !.enabled = FALSE]
           c == Close(o, "ok")
           d == [c EXCEPT !.pipeline = <<>>]
           e == [d EXCEPT !.state = "initial"]
           f == [e EXCEPT !.enabled = TRUE]
           t == FillWritePipeline(f)
<1>1. s \in Sdk /\ s.sound
  BY DEF Core
<1>2. o \in Sdk /\ o.sound
  BY <1>1 DEF Sdk
<1>3. /\ o.notified = s.notified /\ o.user = s.user
      /\ o.queue = s.queue /\ o.nextId = s.nextId
      /\ o.callbacks = s.callbacks /\ o.told = s.told
      /\ o.asked = s.asked /\ ~o.enabled
  BY <1>1 DEF Sdk
<1>4. /\ o.state = s.state /\ o.call = s.call /\ o.reading = s.reading
      /\ o.buffer = s.buffer /\ o.idle = s.idle /\ o.blocks = s.blocks
      /\ o.handshake = s.handshake
  BY <1>1 DEF Sdk
<1> HIDE DEF o
<1>5. Core(o, done, m)
  BY <1>2, <1>3, <1>4 DEF Core
<1>6. /\ Core(c, done, m) /\ Halted(c) /\ ~c.handshake
      /\ ~IsStarted(c) /\ SameQueues(o, c)
  <2>1. CASE ~IsStarted(o)
    <3>1. c = o
      BY <2>1 DEF Close
    <3>2. ~IsStarted(s)
      BY <1>4, <2>1 DEF IsStarted
    <3>3. Halted(o) /\ ~o.handshake
      BY <1>3, <1>4, <3>2 DEF Halted
    <3> HIDE DEF c
    <3> QED BY <1>5, <2>1, <3>1, <3>3 DEF SameQueues
  <2>2. CASE IsStarted(o)
    <3> DEFINE k == Closed(o, "initial")
    <3>1. /\ Core(k, done, m) /\ Halted(k) /\ SameStore(o, k)
          /\ k.state = "initial"
      BY <1>5, ClosedHalted
    <3>2. HardAssert(o, IsStarted(o)) = o
      BY <1>2, <2>2, HardAssertHolds
    <3> HIDE DEF k
    <3>3. ~k.enabled /\ k \in Sdk /\ k.sound
      BY <1>3, <3>1 DEF SameStore, Core
    <3>4. HardAssert(k, "ok" = "ok" => ~ShouldStartWriteStream(k)) = k
      <4>1. "ok" = "ok" => ~ShouldStartWriteStream(k)
        BY <3>3 DEF ShouldStartWriteStream
      <4> QED BY <3>3, <4>1, HardAssertHolds
    <3>5. OnWriteStreamClose(k, "ok") = k
      BY <3>3, <3>4 DEF OnWriteStreamClose, StartIfNeeded, ShouldStartWriteStream
    <3>6. c = [k EXCEPT !.handshake = FALSE]
      <4>1. [Invalidate(Shutdown(HardAssert(o, IsStarted(o))))
                EXCEPT !.idle = FALSE,
                       !.state = IF "ok" = "ok" THEN "initial" ELSE "error"] = k
        BY <3>2 DEF Closed, k
      <4>2. c = [OnWriteStreamClose([Invalidate(Shutdown(HardAssert(o, IsStarted(o))))
                    EXCEPT !.idle = FALSE,
                           !.state = IF "ok" = "ok" THEN "initial" ELSE "error"],
                    "ok") EXCEPT !.handshake = FALSE]
        BY <2>2 DEF Close
      <4> HIDE DEF c
      <4> QED BY <3>5, <4>1, <4>2
    <3>7. c \in Sdk
      BY <3>3, <3>6 DEF Sdk
    <3>8. SameStore(k, c)
      BY <3>3, <3>6 DEF SameStore, Sdk
    <3>9. /\ c.asked = k.asked /\ c.state = k.state /\ ~c.handshake
          /\ c.idle = k.idle /\ c.call = k.call /\ c.reading = k.reading
          /\ c.buffer = k.buffer /\ c.blocks = k.blocks
      BY <3>3, <3>6 DEF Sdk
    <3> HIDE DEF c
    <3>10. Core(c, done, m)
      BY <3>1, <3>7, <3>8, <3>9 DEF Core, SameStore
    <3>11. SameQueues(o, c)
      BY <3>1, <3>8 DEF SameQueues, SameStore
    <3> QED BY <3>1, <3>9, <3>10, <3>11 DEF Halted, IsStarted
  <2> QED BY <2>1, <2>2
<1> HIDE DEF c
<1>7. c \in Sdk /\ c.sound
  BY <1>6 DEF Core
<1>8. d \in Sdk /\ d.sound /\ d.state = c.state /\ ~IsStarted(d)
  <2>1. <<>> \in Seq(Batches)
    OBVIOUS
  <2>2. d \in Sdk /\ d.sound /\ d.state = c.state
    BY <1>7, <2>1 DEF Sdk
  <2> HIDE DEF d
  <2> QED BY <1>6, <2>2 DEF IsStarted
<1>9. InhibitBackoff(d) = e
  <2> HIDE DEF d
  <2>1. HardAssert(d, ~IsStarted(d)) = d
    BY <1>8, HardAssertHolds
  <2> QED BY <2>1 DEF InhibitBackoff
<1>10. f \in Sdk
  <2>1. <<>> \in Seq(Batches)
    OBVIOUS
  <2> QED BY <1>7, <2>1 DEF Sdk, States
<1>11. /\ f.notified = c.notified /\ f.user = c.user
       /\ f.queue = c.queue /\ f.nextId = c.nextId
       /\ f.callbacks = c.callbacks /\ f.told = c.told
       /\ f.enabled /\ f.sound = c.sound
  BY <1>7 DEF Sdk
<1>12. /\ f.asked = c.asked /\ f.pipeline = <<>> /\ f.state = "initial"
       /\ f.handshake = c.handshake /\ f.idle = c.idle
  BY <1>7 DEF Sdk
<1>13. /\ f.call = c.call /\ f.reading = c.reading /\ f.buffer = c.buffer
       /\ f.blocks = c.blocks
  BY <1>7 DEF Sdk
<1>14. RestartNetwork(s) = t
  <2>1. DisableNetworkInternal([s EXCEPT !.enabled = FALSE]) = d
    BY DEF DisableNetworkInternal, o, c
  <2> HIDE DEF d, e
  <2> QED BY <1>9, <2>1 DEF RestartNetwork
<1> HIDE DEF f
<1>15. Core(f, done, m)
  BY <1>6, <1>10, <1>11, <1>12, <1>13 DEF Core
<1>16. PipeOK(f.pipeline, f.queue[f.user])
  <2>1. f.queue[f.user] \in Seq(Batches)
    BY <1>10 DEF Sdk
  <2> HIDE DEF d, e
  <2> QED BY <1>12, <2>1, BoundsAssumption DEF PipeOK
<1>17. Link(f, NoCall, done)
  BY <1>6, <1>12, <1>13, <1>16, QuietLink DEF Halted
<1>18. /\ Base(t, NoCall, done, m) /\ SameLink(f, t)
       /\ t.pipeline # <<>> => IsStarted(t)
  BY <1>11, <1>15, <1>17, FillBase, NoCallType DEF Base
<1> HIDE DEF t
<1>19. t.enabled /\ t.call = "none" /\ ~t.handshake
  BY <1>6, <1>11, <1>12, <1>13, <1>18 DEF SameLink, SameStore, Halted
<1>20. Settled(t)
  BY <1>18, <1>19 DEF Settled
<1>21. SameQueues(s, t)
  BY <1>3, <1>6, <1>11, <1>18 DEF SameQueues, SameLink, SameStore
<1> QED BY <1>14, <1>18, <1>19, <1>20, <1>21

-----------------------------------------------------------------------------
(***************************************************************************)
(* The ids of batches.                                                     *)
(***************************************************************************)
LEMMA SetMaxProperties ==
  ASSUME NEW S \in SUBSET Nat, 0 \in S, NEW n \in Nat, \A x \in S : x <= n
  PROVE  SetMax(S) \in S /\ \A y \in S : y <= SetMax(S)
<1> DEFINE c == Cardinality(S)
           top == Nth(S, c)
<1>1. IsFiniteSet(S)
  <2>1. S \subseteq 0..n
    OBVIOUS
  <2>2. IsFiniteSet(0..n)
    BY FS_Interval
  <2> QED BY <2>1, <2>2, FS_Subset
<1>2. /\ c \in Nat
      /\ \A k \in 1..c : Nth(S, k) \in S
      /\ \A x \in S : \E k \in 1..c : Nth(S, k) = x
      /\ \A k, l \in 1..c : k < l => Nth(S, k) < Nth(S, l)
  BY <1>1, NthOf
<1> HIDE DEF c
<1>3. c \in 1..c
  <2>1. PICK k \in 1..c : Nth(S, k) = 0
    BY <1>2
  <2> QED BY <1>2, <2>1
<1>4. top \in S
  BY <1>2, <1>3
<1>5. \A y \in S : y <= top
  <2> SUFFICES ASSUME NEW y \in S
               PROVE  y <= top
    OBVIOUS
  <2>1. PICK k \in 1..c : Nth(S, k) = y
    BY <1>2
  <2>2. k = c \/ k < c
    BY <1>2
  <2>3. k < c => y < top
    BY <1>2, <1>3, <2>1
  <2>4. y \in Nat /\ top \in Nat
    BY <1>4
  <2> HIDE DEF top
  <2> QED BY <2>1, <2>2, <2>3, <2>4 DEF top
<1> HIDE DEF top
<1>6. \E x \in S : \A y \in S : y <= x
  BY <1>4, <1>5
<1> QED BY <1>6 DEF SetMax

(* The next id is above all that are in use.                               *)
LEMMA NextIdProperties ==
  ASSUME NEW Q \in [Accounts -> Seq(Batches)], NEW next \in Nat, QueuesOK(Q, next)
  PROVE  LoadNextBatchId(Q) \in Nat /\ QueuesOK(Q, LoadNextBatchId(Q))
<1> DEFINE S == {0} \cup UNION {Ids(Q[a]) : a \in Accounts}
<1>1. ASSUME NEW a \in Accounts, NEW i \in 1..Len(Q[a])
      PROVE  Q[a][i].id \in Nat /\ Q[a][i].id < next
  <2>1. Q[a] \in Seq(Batches)
    OBVIOUS
  <2>2. Q[a][i] \in Batches
    BY <2>1
  <2> QED BY <2>2 DEF Batches, QueuesOK
<1>2. \A x \in S : x = 0 \/ \E a \in Accounts : \E i \in 1..Len(Q[a]) : x = Q[a][i].id
  BY DEF Ids
<1>3. \A a \in Accounts : \A i \in 1..Len(Q[a]) : Q[a][i].id \in S
  <2> SUFFICES ASSUME NEW a \in Accounts, NEW i \in 1..Len(Q[a])
               PROVE  Q[a][i].id \in Ids(Q[a])
    OBVIOUS
  <2>1. DOMAIN Q[a] = 1..Len(Q[a])
    OBVIOUS
  <2> QED BY <2>1 DEF Ids
<1>4. 0 \in S
  OBVIOUS
<1>5. LoadNextBatchId(Q) = 1 + SetMax(S)
  BY DEF LoadNextBatchId
<1> HIDE DEF S
<1>6. S \in SUBSET Nat /\ \A x \in S : x <= next
  <2> SUFFICES ASSUME NEW x \in S
               PROVE  x \in Nat /\ x <= next
    OBVIOUS
  <2>1. CASE x = 0
    BY <2>1
  <2>2. CASE \E a \in Accounts : \E i \in 1..Len(Q[a]) : x = Q[a][i].id
    BY <1>1, <2>2
  <2> QED BY <1>2, <2>1, <2>2
<1>7. SetMax(S) \in S /\ \A y \in S : y <= SetMax(S)
  BY <1>4, <1>6, SetMaxProperties
<1>8. SetMax(S) \in Nat /\ LoadNextBatchId(Q) \in Nat /\ LoadNextBatchId(Q) # 0
  <2> DEFINE top == SetMax(S)
             id == LoadNextBatchId(Q)
  <2>1. top \in S /\ id = 1 + top
    BY <1>5, <1>7
  <2> HIDE DEF top, id
  <2>2. top \in Nat
    BY <1>6, <2>1
  <2>3. id \in Nat /\ id # 0
    BY <2>1, <2>2
  <2> QED BY <2>2, <2>3 DEF top, id
<1>9. \A a \in Accounts : \A i \in 1..Len(Q[a]) : Q[a][i].id < LoadNextBatchId(Q)
  BY <1>1, <1>3, <1>5, <1>7, <1>8
<1> QED BY <1>8, <1>9 DEF QueuesOK

LEMMA UserChangeCore ==
  ASSUME NEW s, NEW done, NEW m, s \in Sdk, s.sound,
         QueuesOK(s.queue, s.nextId), ClosuresOK(s.queue, s.callbacks),
         NEW u \in Accounts, StampsOK(s.blocks, u, s.notified, s.asked),
         AheadOK(s.blocks, s.queue, done, m), ToldOK(s.told, done),
         CommitsOK(s.queue, done)
  PROVE  LET t == HandleUserChange(s, u)
         IN  /\ Core(t, done, m)
             /\ t.state = s.state /\ t.handshake = s.handshake /\ t.idle = s.idle
             /\ t.call = s.call /\ t.reading = s.reading /\ t.buffer = s.buffer
             /\ t.asked = s.asked /\ t.blocks = s.blocks
<1> DEFINE n == LoadNextBatchId(s.queue)
           t == [s EXCEPT !.user = u, !.nextId = n]
<1>1. n \in Nat /\ QueuesOK(s.queue, n)
  <2>1. s.queue \in [Accounts -> Seq(Batches)] /\ s.nextId \in Nat
    BY DEF Sdk
  <2> QED BY <2>1, NextIdProperties
<1>2. HandleUserChange(s, u) = t
  BY DEF HandleUserChange
<1> HIDE DEF n
<1>3. t \in Sdk /\ t.sound
  BY <1>1 DEF Sdk
<1>4. /\ t.notified = s.notified /\ t.user = u /\ t.queue = s.queue
      /\ t.nextId = n /\ t.callbacks = s.callbacks /\ t.told = s.told
  BY DEF Sdk
<1>5. /\ t.state = s.state /\ t.handshake = s.handshake /\ t.idle = s.idle
      /\ t.call = s.call /\ t.reading = s.reading /\ t.buffer = s.buffer
      /\ t.asked = s.asked /\ t.blocks = s.blocks
  BY DEF Sdk
<1> HIDE DEF t
<1>6. Core(t, done, m)
  BY <1>1, <1>3, <1>4, <1>5 DEF Core
<1> QED BY <1>2, <1>5, <1>6

-----------------------------------------------------------------------------
(***************************************************************************)
(* The blocks of the worker queue run.                                     *)
(***************************************************************************)
SameButBlocks(s, t) ==
    /\ SameStore(s, t)
    /\ t.asked = s.asked /\ t.pipeline = s.pipeline
    /\ t.state = s.state /\ t.handshake = s.handshake /\ t.idle = s.idle
    /\ t.call = s.call /\ t.tokenOf = s.tokenOf /\ t.reading = s.reading
    /\ t.buffer = s.buffer

LEMMA BlocksFields ==
  ASSUME NEW s \in Sdk, NEW b \in Seq(Blocks)
  PROVE  LET t == [s EXCEPT !.blocks = b]
         IN  t \in Sdk /\ SameButBlocks(s, t) /\ t.blocks = b
<1> DEFINE t == [s EXCEPT !.blocks = b]
<1>1. t \in Sdk /\ t.blocks = b
  BY DEF Sdk
<1>2. SameStore(s, t)
  BY DEF SameStore, Sdk
<1>3. /\ t.asked = s.asked /\ t.pipeline = s.pipeline
      /\ t.state = s.state /\ t.handshake = s.handshake /\ t.idle = s.idle
      /\ t.call = s.call /\ t.tokenOf = s.tokenOf /\ t.reading = s.reading
      /\ t.buffer = s.buffer
  BY DEF Sdk
<1> HIDE DEF t
<1> QED BY <1>1, <1>2, <1>3 DEF SameButBlocks, t

LEMMA InvParts ==
  ASSUME IInv
  PROVE  /\ server \in Servers /\ committed \in SUBSET Writes
         /\ sdk \in Sdk /\ sdk.sound /\ sdk.enabled
         /\ sdk.blocks \in Seq(Blocks) /\ sdk.pipeline \in Seq(Batches)
         /\ sdk.queue \in [Accounts -> Seq(Batches)] /\ sdk.user \in Accounts
         /\ sdk.notified \in Accounts
         /\ sdk.queue[sdk.user] \in Seq(Batches)
         /\ sdk.asked \in SUBSET Requesting
         /\ sdk.buffer \in Seq(Requests)
         /\ Core(sdk, committed, made) /\ Link(sdk, server, committed)
         /\ Settled(sdk)
BY DEF IInv, Base, Core, Settled, Sdk, Requesting

LEMMA RestFields ==
  ASSUME IInv, sdk.blocks # <<>>
  PROVE  /\ Rest \in Sdk /\ SameButBlocks(sdk, Rest)
         /\ Rest.blocks = Tail(sdk.blocks)
         /\ Tail(sdk.blocks) \in Seq(Blocks) /\ Len(sdk.blocks) \in Nat \ {0}
         /\ Len(Tail(sdk.blocks)) = Len(sdk.blocks) - 1
         /\ 1 \in 1..Len(sdk.blocks) /\ Head(sdk.blocks) = sdk.blocks[1]
         /\ Head(sdk.blocks) \in Blocks
         /\ \A i \in 1..Len(Tail(sdk.blocks)) :
               i + 1 \in 1..Len(sdk.blocks) /\ Tail(sdk.blocks)[i] = sdk.blocks[i + 1]
<1>1. sdk \in Sdk /\ sdk.blocks \in Seq(Blocks)
  BY InvParts
<1> DEFINE b == Tail(sdk.blocks)
<1>2. /\ b \in Seq(Blocks) /\ Len(sdk.blocks) \in Nat \ {0}
      /\ Len(b) = Len(sdk.blocks) - 1
      /\ 1 \in 1..Len(sdk.blocks) /\ Head(sdk.blocks) = sdk.blocks[1]
      /\ Head(sdk.blocks) \in Blocks
      /\ \A i \in 1..Len(b) : i + 1 \in 1..Len(sdk.blocks) /\ b[i] = sdk.blocks[i + 1]
  BY <1>1, TailIndices
<1>3. Rest = [sdk EXCEPT !.blocks = b]
  BY DEF Rest
<1> HIDE DEF b
<1>4. Rest \in Sdk /\ SameButBlocks(sdk, Rest) /\ Rest.blocks = b
  BY <1>1, <1>2, <1>3, BlocksFields
<1> QED BY <1>2, <1>4 DEF b

LEMMA RestCore ==
  ASSUME IInv, sdk.blocks # <<>>
  PROVE  /\ AheadOK(Rest.blocks, sdk.queue, committed, made)
         /\ StampsOK(Rest.blocks,
                     IF Head(sdk.blocks).kind = "credential"
                     THEN Head(sdk.blocks).user ELSE sdk.user,
                     sdk.notified, sdk.asked)
         /\ \A state : TokensOK(sdk.asked, sdk.blocks, state)
                          => TokensOK(sdk.asked, Rest.blocks, state)
         /\ Head(sdk.blocks).kind # "credential" => Core(Rest, committed, made)
         /\ Head(sdk.blocks).kind = "write" => Head(sdk.blocks).write.by = sdk.user
         /\ Head(sdk.blocks).kind = "token" => Head(sdk.blocks).user = sdk.user
<1>1. /\ Rest \in Sdk /\ SameButBlocks(sdk, Rest)
      /\ Rest.blocks = Tail(sdk.blocks) /\ Tail(sdk.blocks) \in Seq(Blocks)
  BY RestFields
<1>2. sdk.blocks \in Seq(Blocks) /\ Core(sdk, committed, made)
  BY InvParts
<1>3. PICK h : Thins(Tail(sdk.blocks), sdk.blocks, h)
  BY <1>2, TailThins
<1>4. AheadOK(Tail(sdk.blocks), sdk.queue, committed, made)
  BY <1>2, <1>3, ThinAhead DEF Core
<1>5. \A state : TokensOK(sdk.asked, sdk.blocks, state)
                    => TokensOK(sdk.asked, Tail(sdk.blocks), state)
  BY <1>1, <1>3, ThinTokens
<1>6. StampsOK(sdk.blocks, sdk.user, sdk.notified, sdk.asked)
  BY <1>2 DEF Core
<1>7. /\ StampsOK(Tail(sdk.blocks),
                  IF Head(sdk.blocks).kind = "credential"
                  THEN Head(sdk.blocks).user ELSE sdk.user,
                  sdk.notified, sdk.asked)
      /\ Head(sdk.blocks).kind = "write" => Head(sdk.blocks).write.by = sdk.user
      /\ Head(sdk.blocks).kind = "token" => Head(sdk.blocks).user = sdk.user
  BY <1>2, <1>6, TailStamps
<1>8. ASSUME Head(sdk.blocks).kind # "credential"
      PROVE  Core(Rest, committed, made)
  <2>1. StampsOK(Tail(sdk.blocks), sdk.user, sdk.notified, sdk.asked)
    BY <1>7, <1>8
  <2> QED BY <1>1, <1>2, <1>4, <2>1 DEF Core, SameButBlocks, SameStore
<1> QED BY <1>1, <1>4, <1>5, <1>7, <1>8

LEMMA SameReads ==
  ASSUME IInv, sdk.blocks # <<>>, Head(sdk.blocks).kind # "read"
  PROVE  Reads(Rest.blocks) = Reads(sdk.blocks)
<1> DEFINE b == Tail(sdk.blocks)
<1>1. /\ Rest.blocks = b /\ Len(sdk.blocks) \in Nat \ {0}
      /\ Len(b) = Len(sdk.blocks) - 1
      /\ Head(sdk.blocks) = sdk.blocks[1]
      /\ \A i \in 1..Len(b) : i + 1 \in 1..Len(sdk.blocks) /\ b[i] = sdk.blocks[i + 1]
  BY RestFields
<1> HIDE DEF b
<1>2. ASSUME HasRead(sdk.blocks) PROVE HasRead(b)
  <2>1. PICK k \in 1..Len(sdk.blocks) : sdk.blocks[k].kind = "read"
    BY <1>2 DEF HasRead
  <2> DEFINE j == k - 1
  <2>2. j \in 1..Len(b) /\ j + 1 = k
    BY <1>1, <2>1
  <2> HIDE DEF j
  <2>3. b[j].kind = "read"
    BY <1>1, <2>1, <2>2
  <2> QED BY <2>2, <2>3 DEF HasRead
<1>3. HasRead(b) => HasRead(sdk.blocks)
  BY <1>1 DEF HasRead
<1> QED BY <1>1, <1>2, <1>3 DEF Reads

(* Without its first block, which is no read, the queue is as it was.      *)
LEMMA RestBase ==
  ASSUME IInv, sdk.blocks # <<>>, Head(sdk.blocks).kind \notin {"credential", "read"}
  PROVE  Base(Rest, server, committed, made) /\ Settled(Rest)
<1> DEFINE b == Tail(sdk.blocks)
<1>1. /\ Rest \in Sdk /\ SameButBlocks(sdk, Rest) /\ Rest.blocks = b
      /\ b \in Seq(Blocks) /\ Len(sdk.blocks) \in Nat \ {0}
      /\ Len(b) = Len(sdk.blocks) - 1
      /\ 1 \in 1..Len(sdk.blocks) /\ Head(sdk.blocks) = sdk.blocks[1]
      /\ \A i \in 1..Len(b) : i + 1 \in 1..Len(sdk.blocks) /\ b[i] = sdk.blocks[i + 1]
  BY RestFields
<1>2. Core(Rest, committed, made)
  BY RestCore
<1>3. TokensOK(Rest.asked, Rest.blocks, Rest.state)
  BY <1>1, RestCore, InvParts DEF SameButBlocks, Link
<1> HIDE DEF b
<1>4. CallOK(Rest.call, Rest.reading, Rest.blocks, Rest.buffer, server)
  <2>1. CallOK(sdk.call, sdk.reading, sdk.blocks, sdk.buffer, server)
    BY InvParts DEF Link
  <2>2. sdk.call = "none" => Quiet(b)
    BY <1>1, <2>1 DEF CallOK, Quiet
  <2>3. \A i \in 1..Len(b) :
          /\ b[i].kind = "read" => sdk.call = "open" /\ ~sdk.reading
          /\ b[i].kind = "failed" => sdk.call = "open" /\ server.status # "open"
          /\ b[i].kind = "finished" => sdk.call = "finishing"
    BY <1>1, <2>1 DEF CallOK
  <2>4. \A i, j \in 1..Len(b) : b[i].kind = "read" /\ b[j].kind = "read" => i = j
    <3> SUFFICES ASSUME NEW i \in 1..Len(b), NEW j \in 1..Len(b),
                        b[i].kind = "read", b[j].kind = "read"
                 PROVE  i = j
      OBVIOUS
    <3>1. i + 1 = j + 1
      BY <1>1, <2>1 DEF CallOK
    <3> QED BY <1>1, <3>1
  <2> QED BY <1>1, <2>1, <2>2, <2>3, <2>4 DEF CallOK, SameButBlocks
<1>5. Reads(b) = Reads(sdk.blocks)
  <2>1. HasRead(sdk.blocks) <=> HasRead(b)
    <3>1. HasRead(b) => HasRead(sdk.blocks)
      BY <1>1 DEF HasRead
    <3>2. ASSUME NEW i \in 1..Len(sdk.blocks), sdk.blocks[i].kind = "read"
          PROVE  HasRead(b)
      <4>1. i # 1
        BY <1>1, <3>2
      <4>2. i - 1 \in 1..Len(b) /\ (i - 1) + 1 = i
        BY <1>1, <4>1
      <4>3. b[i - 1] = sdk.blocks[i]
        BY <1>1, <4>2
      <4> QED BY <3>2, <4>2, <4>3 DEF HasRead
    <3> QED BY <3>1, <3>2 DEF HasRead
  <2> QED BY <2>1 DEF Reads
<1>6. ASSUME Rest.call = "open"
      PROVE  LineOK(Rest.blocks, Rest.buffer, server, Expected(Rest.handshake, Rest.pipeline))
  <2> DEFINE e == Expected(sdk.handshake, sdk.pipeline)
  <2>1. LineOK(sdk.blocks, sdk.buffer, server, e)
    BY <1>1, <1>6, InvParts DEF Link, SameButBlocks
  <2>2. Expected(Rest.handshake, Rest.pipeline) = e
    BY <1>1 DEF SameButBlocks
  <2> HIDE DEF e
  <2>3. LineOK(b, sdk.buffer, server, e)
    BY <1>1, <1>5, <2>1 DEF LineOK
  <2> QED BY <1>1, <2>2, <2>3 DEF SameButBlocks
<1>7. AnswersOK(Rest.blocks, server, committed)
  BY <1>1, InvParts DEF Link, AnswersOK
<1>8. Link(Rest, server, committed)
  BY <1>1, <1>3, <1>4, <1>6, <1>7, InvParts DEF Link, SameButBlocks, SameStore
<1>9. Settled(Rest)
  BY <1>1, InvParts DEF Settled, SameButBlocks, SameStore, IsStarted
<1> QED BY <1>2, <1>8, <1>9 DEF Base

(* What a step of the SDK's own needs.                                     *)
LEMMA StepInv ==
  ASSUME IInv, NEW t, Settled(t),
         Base(t, server, committed, made)
            \/ (Base(t, NoCall, committed, made) /\ t.call = "none"),
         sdk' = t, server' = IF t.call = "none" THEN NoCall ELSE server,
         committed' = committed, refused' = refused, made' = made,
         faults' \in 0..MaxFaults
  PROVE  IInv'
<1>1. Base(t, server', committed, made)
  <2>1. CASE t.call = "none"
    <3>1. Base(t, server, committed, made) => server = NoCall
      BY <2>1 DEF Base, Link, CallOK
    <3> QED BY <2>1, <3>1
  <2>2. CASE t.call # "none"
    BY <2>2
  <2> QED BY <2>1, <2>2
<1>2. server' \in Servers
  BY InvParts, NoCallType
<1> QED BY <1>1, <1>2 DEF IInv

LEMMA BecomeInv ==
  ASSUME IInv, NEW t, Become(t), Settled(t),
         Base(t, server, committed, made)
            \/ (Base(t, NoCall, committed, made) /\ t.call = "none")
  PROVE  IInv'
<1>1. /\ sdk' = t /\ committed' = committed /\ refused' = refused
      /\ made' = made /\ faults' = faults
      /\ server' = IF t.call = "none" THEN NoCall ELSE server
  BY DEF Become
<1>2. faults \in 0..MaxFaults
  BY DEF IInv
<1> QED BY <1>1, <1>2, StepInv

LEMMA ShutdownCore ==
  ASSUME NEW s, NEW done, NEW m, Core(s, done, m)
  PROVE  Core(Shutdown(s), done, m)
<1> DEFINE t == Shutdown(s)
<1>1. s \in Sdk /\ s.blocks \in Seq(Blocks)
  BY DEF Core, Sdk
<1>2. /\ t \in Sdk /\ SameStore(s, t) /\ t.asked = s.asked
      /\ t.blocks = Cancelled(s.blocks)
  BY <1>1, ShutdownFields
<1> HIDE DEF t
<1>3. StampsOK(t.blocks, s.user, s.notified, s.asked)
  BY <1>1, <1>2, CancelStamps DEF Core
<1>4. AheadOK(t.blocks, s.queue, done, m)
  <2>1. \E h : Thins(Cancelled(s.blocks), s.blocks, h)
    BY <1>1, CancelThins
  <2> QED BY <1>2, <2>1, ThinAhead DEF Core
<1>5. Core(t, done, m)
  BY <1>2, <1>3, <1>4 DEF Core, SameStore
<1> QED BY <1>5 DEF t

(* GrpcStream reports the end of its call, or is torn down.                *)
LEMMA EndCallBase ==
  ASSUME NEW s, NEW sv, NEW done \in SUBSET Writes, NEW m,
         Base(s, sv, done, m), s.enabled, s.call # "none",
         NEW status \in Statuses, status = "ok" => s.pipeline = <<>>
  PROVE  LET t == Close(Shutdown(s), status)
         IN  /\ Base(t, NoCall, done, m) /\ Settled(t) /\ t.call = "none"
             /\ SameQueues(s, t) \/ (status = "permanent" /\ FirstLeft(s, t))
<1> DEFINE d == Shutdown(s)
<1>1. s \in Sdk /\ Core(s, done, m)
  BY DEF Base, Core
<1>2. /\ SameStore(s, d) /\ d.pipeline = s.pipeline /\ d.state = s.state
  BY <1>1, ShutdownFields
<1>3. Core(d, done, m)
  BY <1>1, ShutdownCore
<1> HIDE DEF d
<1>4. IsStarted(d) /\ d.enabled /\ PipeOK(d.pipeline, d.queue[d.user])
  BY <1>2 DEF Base, Link, StreamOK, IsStarted, SameStore
<1>5. LET t == Close(d, status)
      IN  /\ Base(t, NoCall, done, m) /\ Settled(t) /\ t.call = "none"
          /\ SameQueues(d, t) \/ (status = "permanent" /\ FirstLeft(d, t))
  BY <1>2, <1>3, <1>4, CloseBase
<1>6. LET t == Close(d, status)
      IN  SameQueues(s, t) \/ (status = "permanent" /\ FirstLeft(s, t))
  BY <1>2, <1>5 DEF SameQueues, FirstLeft, SameStore
<1> QED BY <1>5, <1>6 DEF d

LEMMA HaltedWhenStopped ==
  ASSUME NEW s, NEW sv, NEW done, NEW m, Base(s, sv, done, m), Settled(s), ~IsStarted(s)
  PROVE  Halted(s) /\ ~s.handshake
<1>1. s.state # "starting" /\ s.state # "open"
  BY DEF IsStarted
<1>2. s.call \in {"none", "open", "finishing"}
  BY DEF Base, Core, Sdk
<1>3. s.call = "none" /\ ~s.idle /\ ~s.handshake
  BY <1>1, <1>2 DEF Base, Link, StreamOK, Settled
<1>4. ~s.reading /\ s.buffer = <<>> /\ Quiet(s.blocks)
  BY <1>3 DEF Base, Link, CallOK
<1>5. \A state : TokensOK(s.asked, s.blocks, state)
  BY <1>1 DEF Base, Link, TokensOK
<1> QED BY <1>3, <1>4, <1>5 DEF Halted

(* The block that ends a call, unless it aborts the process.               *)
LEMMA CallEndedInv ==
  ASSUME IInv, Next1("finished"), ~StoppedWhileNeeded(Head(sdk.blocks).status),
         Become(Close(Shutdown(Rest), Head(sdk.blocks).status))
  PROVE  /\ IInv' /\ sdk.call = "finishing" /\ sdk'.call = "none"
         /\ SameQueues(sdk, sdk') \/ FirstLeft(sdk, sdk')
<1> DEFINE b == Head(sdk.blocks)
           t == Close(Shutdown(Rest), b.status)
<1>1. sdk.blocks # <<>> /\ b.kind = "finished" /\ Become(t)
  BY DEF Next1
<1>9. b.status = "ok" => Rest.pipeline = <<>>
  <2> DEFINE stopped == [sdk EXCEPT !.state = "initial"]
  <2>1. sdk \in Sdk /\ sdk.enabled
    BY InvParts DEF Settled
  <2>2. /\ stopped.state = "initial" /\ stopped.enabled = sdk.enabled
        /\ stopped.pipeline = sdk.pipeline
    BY <2>1 DEF Sdk
  <2>3. b.status = "ok" => ~ShouldStartWriteStream(stopped)
    BY DEF StoppedWhileNeeded
  <2> HIDE DEF stopped, b
  <2>4. b.status = "ok" => sdk.pipeline = <<>>
    BY <2>1, <2>2, <2>3 DEF ShouldStartWriteStream, IsStarted
  <2>5. Rest.pipeline = sdk.pipeline
    BY <2>1 DEF Rest, Sdk
  <2> QED BY <2>4, <2>5
<1>2. /\ Base(Rest, server, committed, made) /\ Settled(Rest)
      /\ SameButBlocks(sdk, Rest) /\ b \in Blocks /\ b = sdk.blocks[1]
      /\ 1 \in 1..Len(sdk.blocks)
  BY <1>1, RestBase, RestFields
<1> HIDE DEF b
<1>3. b.status \in Statuses
  BY <1>1, <1>2 DEF Blocks, Failed
<1>4. sdk.call = "finishing"
  BY <1>1, <1>2, InvParts DEF Link, CallOK
<1>5. Rest.call # "none" /\ Rest.enabled
  BY <1>2, <1>4 DEF SameButBlocks, Settled
<1> HIDE DEF t
<1>6. /\ Base(t, NoCall, committed, made) /\ Settled(t) /\ t.call = "none"
      /\ SameQueues(Rest, t) \/ FirstLeft(Rest, t)
  <2>1. LET e == Close(Shutdown(Rest), b.status)
        IN  /\ Base(e, NoCall, committed, made) /\ Settled(e) /\ e.call = "none"
            /\ SameQueues(Rest, e) \/ (b.status = "permanent" /\ FirstLeft(Rest, e))
    BY <1>2, <1>3, <1>5, <1>9, InvParts, EndCallBase
  <2> QED BY <2>1 DEF t
<1>7. SameQueues(sdk, t) \/ FirstLeft(sdk, t)
  BY <1>2, <1>6 DEF SameQueues, FirstLeft, SameButBlocks, SameStore
<1>8. sdk' = t
  BY <1>1 DEF Become
<1> QED BY <1>1, <1>4, <1>6, <1>7, <1>8, BecomeInv

LEMMA IdleTimeoutInv ==
  ASSUME IInv, IdleTimeout
  PROVE  IInv' /\ SameQueues(sdk, sdk') /\ sdk'.call = "none"
<1> DEFINE t == Close(sdk, "ok")
<1>1. sdk.idle /\ Become(t)
  BY DEF IdleTimeout
<1>2. sdk.state = "open" /\ sdk.pipeline = <<>>
  BY <1>1, InvParts DEF Link, StreamOK
<1>3. /\ Core(sdk, committed, made) /\ PipeOK(sdk.pipeline, sdk.queue[sdk.user])
      /\ IsStarted(sdk) /\ sdk.enabled /\ "ok" \in Statuses
  BY <1>2, InvParts DEF Link, IsStarted, Statuses
<1>4. /\ Base(t, NoCall, committed, made) /\ Settled(t) /\ t.call = "none"
      /\ SameQueues(sdk, t)
  <2>1. LET e == Close(sdk, "ok")
        IN  /\ Base(e, NoCall, committed, made) /\ Settled(e) /\ e.call = "none"
            /\ SameQueues(sdk, e) \/ ("ok" = "permanent" /\ FirstLeft(sdk, e))
    BY <1>2, <1>3, InvParts, CloseBase
  <2> QED BY <2>1
<1>5. sdk' = t
  BY <1>1 DEF Become
<1> QED BY <1>1, <1>4, <1>5, BecomeInv

LEMMA NetworkChangeInv ==
  ASSUME IInv, NEW available, NetworkChange(available)
  PROVE  IInv' /\ SameQueues(sdk, sdk') /\ sdk'.call = "none"
<1> DEFINE ended == IF sdk.call = "none" THEN sdk
                    ELSE Close(Shutdown(sdk), "transient")
           t == IF available THEN RestartNetwork(ended) ELSE ended
<1>1. /\ sdk' = t /\ server' = IF t.call = "none" THEN NoCall ELSE server
      /\ committed' = committed /\ refused' = refused /\ made' = made
      /\ faults < MaxFaults /\ faults' = faults + 1
  BY DEF NetworkChange, Fault
<1>2. faults' \in 0..MaxFaults
  <2>1. faults \in 0..MaxFaults /\ MaxFaults \in Nat
    BY BoundsAssumption DEF IInv
  <2> QED BY <1>1, <2>1
<1>3. Base(sdk, server, committed, made) /\ Settled(sdk)
  BY DEF IInv
<1>4. /\ Settled(ended) /\ SameQueues(sdk, ended) /\ ended.call = "none"
      /\ Base(ended, server, committed, made) \/ Base(ended, NoCall, committed, made)
  <2>1. CASE sdk.call = "none"
    BY <1>3, <2>1 DEF SameQueues
  <2>2. CASE sdk.call # "none"
    <3>1. "transient" \in Statuses /\ "transient" # "ok"
      BY DEF Statuses
    <3>2. LET e == Close(Shutdown(sdk), "transient")
          IN  /\ Base(e, NoCall, committed, made) /\ Settled(e) /\ e.call = "none"
              /\ SameQueues(sdk, e)
                    \/ ("transient" = "permanent" /\ FirstLeft(sdk, e))
      BY <1>3, <2>2, <3>1, InvParts, EndCallBase
    <3> QED BY <2>2, <3>2
  <2> QED BY <2>1, <2>2
<1> HIDE DEF ended
<1>5. /\ Settled(t) /\ SameQueues(ended, t) /\ t.call = "none"
      /\ Base(t, server, committed, made) \/ Base(t, NoCall, committed, made)
  <2>1. CASE ~available
    BY <1>4, <2>1 DEF SameQueues
  <2>2. CASE available
    <3>1. Core(ended, committed, made)
      BY <1>4 DEF Base
    <3>2. ~IsStarted(ended) => Halted(ended) /\ ~ended.handshake
      BY <1>4, HaltedWhenStopped
    <3>3. LET e == RestartNetwork(ended)
          IN  /\ Base(e, NoCall, committed, made) /\ Settled(e) /\ e.call = "none"
              /\ SameQueues(ended, e)
      BY <3>1, <3>2, InvParts, RestartBase
    <3> QED BY <2>2, <3>3
  <2> QED BY <2>1, <2>2
<1> HIDE DEF t
<1>6. SameQueues(sdk, t)
  BY <1>4, <1>5 DEF SameQueues
<1> QED BY <1>1, <1>2, <1>5, <1>6, StepInv

LEMMA RunCredentialChangeInv ==
  ASSUME IInv, RunCredentialChange
  PROVE  IInv' /\ sdk'.queue = sdk.queue /\ sdk'.call = "none"
<1> DEFINE u == Head(sdk.blocks).user
           v == IF u = Rest.user THEN Rest ELSE HandleUserChange(Rest, u)
           t == RestartNetwork(v)
<1>1. sdk.blocks # <<>> /\ Head(sdk.blocks).kind = "credential" /\ Become(t)
  BY DEF RunCredentialChange, Next1, HandleCredentialChange
<1>2. /\ Rest \in Sdk /\ SameButBlocks(sdk, Rest) /\ Head(sdk.blocks) \in Blocks
      /\ Len(sdk.blocks) \in Nat \ {0}
      /\ Len(Rest.blocks) = Len(sdk.blocks) - 1
      /\ \A i \in 1..Len(Rest.blocks) :
            i + 1 \in 1..Len(sdk.blocks) /\ Rest.blocks[i] = sdk.blocks[i + 1]
  BY <1>1, RestFields
<1>3. u \in Accounts
  BY <1>1, <1>2 DEF Blocks, Failed
<1>4. /\ AheadOK(Rest.blocks, sdk.queue, committed, made)
      /\ StampsOK(Rest.blocks, u, sdk.notified, sdk.asked)
      /\ \A state : TokensOK(sdk.asked, sdk.blocks, state)
                       => TokensOK(sdk.asked, Rest.blocks, state)
  BY <1>1, RestCore
<1> HIDE DEF u
<1>5. /\ Rest.sound /\ QueuesOK(Rest.queue, Rest.nextId)
      /\ ClosuresOK(Rest.queue, Rest.callbacks)
      /\ StampsOK(Rest.blocks, u, Rest.notified, Rest.asked)
      /\ AheadOK(Rest.blocks, Rest.queue, committed, made)
      /\ ToldOK(Rest.told, committed) /\ CommitsOK(Rest.queue, committed)
  BY <1>2, <1>4, InvParts DEF Core, SameButBlocks, SameStore
<1>6. /\ Core(v, committed, made)
      /\ v.state = Rest.state /\ v.handshake = Rest.handshake /\ v.idle = Rest.idle
      /\ v.call = Rest.call /\ v.reading = Rest.reading /\ v.buffer = Rest.buffer
      /\ v.asked = Rest.asked /\ v.blocks = Rest.blocks /\ v.queue = Rest.queue
  <2>1. CASE u = Rest.user
    BY <1>2, <1>5, <2>1 DEF Core
  <2>2. CASE u # Rest.user
    <3>1. HandleUserChange(Rest, u).queue = Rest.queue
      BY <1>2 DEF HandleUserChange, Sdk
    <3> QED BY <1>2, <1>3, <1>5, <2>2, <3>1, UserChangeCore
  <2> QED BY <2>1, <2>2
<1> HIDE DEF v
<1>7. ~IsStarted(v) => Halted(v) /\ ~v.handshake
  <2> SUFFICES ASSUME ~IsStarted(v)
               PROVE  Halted(v) /\ ~v.handshake
    OBVIOUS
  <2>1. ~IsStarted(sdk)
    BY <1>2, <1>6 DEF IsStarted, SameButBlocks
  <2>2. Halted(sdk) /\ ~sdk.handshake
    BY <2>1, InvParts, HaltedWhenStopped DEF Base
  <2>3. Quiet(Rest.blocks)
    BY <1>2, <2>2 DEF Halted, Quiet
  <2>4. \A state : TokensOK(sdk.asked, Rest.blocks, state)
    BY <1>4, <2>2 DEF Halted
  <2> QED BY <1>2, <1>6, <2>2, <2>3, <2>4 DEF Halted, SameButBlocks
<1>8. /\ Base(t, NoCall, committed, made) /\ Settled(t) /\ t.call = "none"
      /\ SameQueues(v, t)
  BY <1>6, <1>7, InvParts, RestartBase
<1>9. t.queue = sdk.queue
  BY <1>2, <1>6, <1>8 DEF SameQueues, SameButBlocks, SameStore
<1> HIDE DEF t
<1>10. sdk' = t
  BY <1>1 DEF Become
<1> QED BY <1>1, <1>8, <1>9, <1>10, BecomeInv

LEMMA BackoffElapsedInv ==
  ASSUME IInv, BackoffElapsed
  PROVE  IInv' /\ SameQueues(sdk, sdk') /\ sdk'.call = "none"
<1> DEFINE s == [sdk EXCEPT !.state = "initial"]
           t == Start(s)
<1>1. sdk.state = "backoff" /\ Become(t)
  BY DEF BackoffElapsed
<1>2. s \in Sdk
  BY InvParts DEF Sdk, States
<1>3. SameStore(sdk, s)
  BY InvParts DEF SameStore, Sdk
<1>4. /\ s.asked = sdk.asked /\ s.pipeline = sdk.pipeline
      /\ s.state = "initial" /\ s.handshake = sdk.handshake /\ s.idle = sdk.idle
  BY InvParts DEF Sdk
<1>5. /\ s.call = sdk.call /\ s.reading = sdk.reading /\ s.buffer = sdk.buffer
      /\ s.tokenOf = sdk.tokenOf /\ s.blocks = sdk.blocks
  BY InvParts DEF Sdk
<1> HIDE DEF s
<1>6. Core(s, committed, made)
  BY <1>2, <1>3, <1>4, <1>5, InvParts DEF Core, SameStore
<1>7. StreamOK(sdk.state, sdk.handshake, sdk.idle, sdk.call, sdk.pipeline)
  BY InvParts DEF Link
<1>8. StreamOK(s.state, s.handshake, s.idle, s.call, s.pipeline) /\ s.pipeline # <<>>
  BY <1>1, <1>4, <1>5, <1>7 DEF StreamOK
<1>9. TokensOK(s.asked, s.blocks, s.state)
  BY <1>1, <1>4, <1>5, InvParts DEF Link, TokensOK
<1>10. Link(s, server, committed)
  BY <1>3, <1>4, <1>5, <1>8, <1>9, InvParts DEF Link, SameStore
<1>11. /\ Base(t, server, committed, made) /\ SameStore(s, t)
       /\ t.handshake = s.handshake /\ t.state \in {"starting", "backoff"}
       /\ t.call = s.call
  BY <1>4, <1>6, <1>8, <1>10, StartBase DEF Base
<1> HIDE DEF t
<1>12. Settled(t)
  BY <1>1, <1>3, <1>4, <1>11, InvParts DEF Settled, SameStore, IsStarted
<1>13. SameQueues(sdk, t) /\ t.call = "none"
  BY <1>1, <1>3, <1>5, <1>7, <1>11 DEF SameQueues, SameStore, StreamOK
<1>14. sdk' = t
  BY <1>1 DEF Become
<1> QED BY <1>1, <1>11, <1>12, <1>13, <1>14, BecomeInv

(* A token opens a call, and the handshake is the first thing to send.     *)
LEMMA RunTokenInv ==
  ASSUME IInv, RunToken
  PROVE  /\ IInv' /\ SameQueues(sdk, sdk')
         /\ Left(sdk', server') \in {0, Left(sdk, server)}
<1> DEFINE b == Head(sdk.blocks)
<1>1. /\ sdk.blocks # <<>> /\ b.kind = "token"
      /\ Become(IF b.live THEN ResumeStartWithCredentials(Rest, b) ELSE Rest)
  BY DEF RunToken, Next1
<1>2. /\ Base(Rest, server, committed, made) /\ Settled(Rest)
      /\ Rest \in Sdk /\ SameButBlocks(sdk, Rest)
      /\ b \in Blocks /\ b = sdk.blocks[1]
      /\ 1 \in 1..Len(sdk.blocks) /\ Len(sdk.blocks) \in Nat
      /\ Len(Rest.blocks) = Len(sdk.blocks) - 1
      /\ \A i \in 1..Len(Rest.blocks) :
            i + 1 \in 1..Len(sdk.blocks) /\ Rest.blocks[i] = sdk.blocks[i + 1]
  BY <1>1, RestBase, RestFields
<1>3. b.user = sdk.user /\ Rest.user = sdk.user
  BY <1>1, <1>2, RestCore DEF SameButBlocks, SameStore
<1> HIDE DEF b
<1>4. CASE ~b.live
  <2>1. Become(Rest)
    BY <1>1, <1>4
  <2>2. SameQueues(sdk, Rest)
    BY <1>2 DEF SameQueues, SameButBlocks, SameStore
  <2>3. Reads(Rest.blocks) = Reads(sdk.blocks)
    BY <1>1, SameReads DEF b
  <2>4. Left(sdk', server') = Left(sdk, server)
    BY <1>2, <2>1, <2>3 DEF Become, Left, SameButBlocks
  <2> QED BY <1>2, <2>1, <2>2, <2>4, BecomeInv DEF Become
<1>5. CASE b.live
  <2> DEFINE r == Rest
  <2>1. r \in Sdk /\ r.sound /\ Core(r, committed, made)
    BY <1>2 DEF Base, Core
  <2>2. r.state = "starting" /\ IsStarted(r)
    <3>1. LiveToken(sdk.blocks[1])
      BY <1>1, <1>2, <1>5 DEF LiveToken
    <3>2. sdk.state = "starting"
      BY <1>2, <3>1, InvParts DEF Link, TokensOK
    <3> QED BY <1>2, <3>2 DEF SameButBlocks, IsStarted
  <2>3. HardAssert(r, r.state = "starting") = r
    BY <2>1, <2>2, HardAssertHolds
  <2>4. CASE ~b.ok
    <3>1. Become(Close(r, "transient"))
      BY <1>1, <1>5, <2>3, <2>4 DEF ResumeStartWithCredentials
    <3>2. /\ PipeOK(r.pipeline, r.queue[r.user]) /\ r.enabled
          /\ "transient" \in Statuses
      BY <1>2 DEF Base, Link, Settled, Statuses
    <3> DEFINE c == Close(r, "transient")
    <3>3. /\ Base(c, NoCall, committed, made) /\ Settled(c) /\ c.call = "none"
          /\ SameQueues(r, c)
      <4>1. LET t == Close(r, "transient")
            IN  /\ Base(t, NoCall, committed, made) /\ Settled(t) /\ t.call = "none"
                /\ SameQueues(r, t) \/ ("transient" = "permanent" /\ FirstLeft(r, t))
        BY <2>1, <2>2, <3>2, InvParts, CloseBase
      <4> QED BY <4>1
    <3>4. SameQueues(sdk, c)
      BY <1>2, <3>3 DEF SameQueues, SameButBlocks, SameStore
    <3> HIDE DEF c
    <3>5. Left(sdk', server') = 0
      BY <3>1, <3>3 DEF Left, Become, c
    <3> QED BY <3>1, <3>3, <3>4, <3>5, BecomeInv DEF Become, c
  <2>5. CASE b.ok
    <3> DEFINE o == [r EXCEPT !.state = "open", !.call = "open",
                              !.tokenOf = b.user, !.reading = TRUE]
               t == [o EXCEPT !.idle = FALSE, !.buffer = <<Handshake>>]
    <3>1. r.call = "none" /\ ~r.reading /\ r.buffer = <<>> /\ Quiet(r.blocks)
          /\ server = NoCall /\ r.pipeline # <<>> /\ ~r.handshake
      <4>1. StreamOK(r.state, r.handshake, r.idle, r.call, r.pipeline)
        BY <1>2 DEF Base, Link
      <4>2. r.call = "none" /\ r.pipeline # <<>>
        BY <2>1, <2>2, <4>1 DEF StreamOK, Sdk
      <4> QED BY <1>2, <2>2, <4>2 DEF Base, Link, CallOK, Settled
    <3>2. Write(o, <<Handshake>>) = t
      <4>1. o \in Sdk /\ o.sound /\ o.state = "open" /\ o.call = "open"
            /\ o.buffer = <<>>
        BY <1>3, <2>1, <3>1, InvParts DEF Sdk, States
      <4>2. HardAssert(o, o.state = "open") = o
        BY <4>1, HardAssertHolds
      <4>3. <<Handshake>> # <<>> /\ <<>> \o <<Handshake>> = <<Handshake>>
        OBVIOUS
      <4> HIDE DEF o
      <4>4. Write(o, <<Handshake>>) = [o EXCEPT !.idle = FALSE,
               !.buffer = IF o.call = "open" THEN @ \o <<Handshake>> ELSE @]
        BY <4>2, <4>3 DEF Write
      <4> QED BY <4>1, <4>3, <4>4
    <3>3. Become(t)
      <4>1. ResumeStartWithCredentials(r, b) = Write(o, <<Handshake>>)
        BY <2>3, <2>5 DEF ResumeStartWithCredentials
      <4> HIDE DEF t
      <4> QED BY <1>1, <1>5, <3>2, <4>1
    <3>4. <<Handshake>> \in Seq(Requests) /\ b.user \in Accounts
      BY <1>3, InvParts DEF Requests
    <3> HIDE DEF r
    <3>5. t \in Sdk
      BY <2>1, <3>4 DEF Sdk, States
    <3>6. SameStore(r, t)
      BY <2>1 DEF SameStore, Sdk
    <3>7. /\ t.asked = r.asked /\ t.pipeline = r.pipeline
          /\ t.state = "open" /\ t.handshake = r.handshake /\ ~t.idle
      BY <2>1 DEF Sdk
    <3>8. /\ t.call = "open" /\ t.reading /\ t.buffer = <<Handshake>>
          /\ t.tokenOf = b.user /\ t.blocks = r.blocks
      BY <2>1 DEF Sdk
    <3> HIDE DEF t, o
    <3>9. Core(t, committed, made)
      BY <2>1, <3>5, <3>6, <3>7, <3>8 DEF Core, SameStore
    <3>10. TokensOK(t.asked, t.blocks, t.state)
      <4>1. TokensOK(sdk.asked, sdk.blocks, sdk.state)
        BY InvParts DEF Link
      <4>2. LiveToken(sdk.blocks[1])
        BY <1>1, <1>2, <1>5 DEF LiveToken
      <4>3. \A q \in sdk.asked : ~q.live
        BY <1>2, <4>1, <4>2 DEF TokensOK
      <4>4. \A i \in 1..Len(r.blocks) : ~LiveToken(r.blocks[i])
        <5> SUFFICES ASSUME NEW i \in 1..Len(r.blocks), LiveToken(r.blocks[i])
                     PROVE  FALSE
          OBVIOUS
        <5>1. i + 1 \in 1..Len(sdk.blocks) /\ LiveToken(sdk.blocks[i + 1])
          BY <1>2 DEF r
        <5>2. i + 1 = 1
          BY <1>2, <4>1, <4>2, <5>1 DEF TokensOK
        <5>3. i \in Nat /\ i >= 1
          BY <1>2 DEF r
        <5> QED BY <5>2, <5>3
      <4>5. t.asked = sdk.asked
        BY <1>2, <3>7 DEF SameButBlocks, r
      <4> QED BY <3>8, <4>3, <4>4, <4>5 DEF TokensOK
    <3>11. StreamOK(t.state, t.handshake, t.idle, t.call, t.pipeline)
      BY <3>1, <3>7, <3>8 DEF StreamOK
    <3>12. CallOK(t.call, t.reading, t.blocks, t.buffer, server)
      BY <3>1, <3>8 DEF CallOK, Quiet, OfCall, NoCall
    <3>13. LineOK(t.blocks, t.buffer, server, Expected(t.handshake, t.pipeline))
      <4>1. Expected(t.handshake, t.pipeline) = <<Handshake>>
        BY <3>1, <3>7 DEF Expected
      <4>2. \A i \in 1..Len(t.blocks) : t.blocks[i].kind # "read"
        BY <3>1, <3>8 DEF Quiet, OfCall
      <4>3. Reads(t.blocks) = 0
        BY <4>2 DEF Reads, HasRead
      <4>4. /\ server.answers = <<>> /\ server.wire = <<>>
            /\ Len(server.answers) = 0 /\ Len(server.wire) = 0
        BY <3>1 DEF NoCall
      <4>5. Within(<<>>, 0, <<Handshake>>) /\ Within(<<Handshake>>, 0, <<Handshake>>)
        BY DEF Within
      <4>6. 0 + 0 = 0 /\ 0 + Len(<<Handshake>>) = Len(<<Handshake>>)
        OBVIOUS
      <4> QED BY <3>8, <4>1, <4>2, <4>3, <4>4, <4>5, <4>6 DEF LineOK
    <3>14. AnswersOK(t.blocks, server, committed)
      BY <1>2, <3>8 DEF Base, Link, r
    <3>15. PipeOK(t.pipeline, t.queue[t.user])
      BY <1>2, <3>6, <3>7 DEF Base, Link, SameStore, r
    <3>16. t.tokenOf = t.user
      BY <1>3, <3>6, <3>8 DEF SameStore, r
    <3>17. Base(t, server, committed, made)
      BY <3>9, <3>10, <3>11, <3>12, <3>13, <3>14, <3>15, <3>16 DEF Base, Link
    <3>18. Settled(t)
      BY <1>2, <3>6, <3>7 DEF Settled, SameStore, IsStarted, r
    <3>19. SameQueues(sdk, t)
      BY <1>2, <3>6 DEF SameQueues, SameButBlocks, SameStore, r
    <3>20. Left(sdk', server') = 0
      BY <3>1, <3>3, <3>7 DEF Left, Become
    <3> QED BY <3>3, <3>17, <3>18, <3>19, <3>20, BecomeInv DEF Become
  <2> QED BY <2>4, <2>5
<1> QED BY <1>4, <1>5

-----------------------------------------------------------------------------
(***************************************************************************)
(* A block joins the worker queue.                                         *)
(***************************************************************************)
LEMMA AppendInCharge ==
  ASSUME NEW blocks \in Seq(Blocks), NEW b \in Blocks, NEW user, NEW u, NEW i \in Nat
  PROVE  LET new == Append(blocks, b)
         IN  /\ i <= Len(blocks) + 1 /\ InCharge(blocks, user, i, u)
                  => InCharge(new, user, i, u)
             /\ b.kind # "credential" /\ InCharge(blocks, user, Len(blocks) + 1, u)
                  => InCharge(new, user, Len(new) + 1, u)
             /\ b.kind = "credential" => InCharge(new, user, Len(new) + 1, b.user)
<1> DEFINE new == Append(blocks, b)
           n == Len(blocks)
<1>1. /\ n \in Nat /\ Len(new) = n + 1
      /\ \A k \in 1..n : new[k] = blocks[k]
      /\ new[n + 1] = b
      /\ \A k \in 1..Len(new) : k \in 1..n \/ k = n + 1
  BY AppendIndices
<1> HIDE DEF new, n
<1>2. ASSUME NEW x \in Nat, NEW y \in Nat,
             InCharge(blocks, user, x, u),
             \A k \in 1..n : k < y <=> k < x,
             ~(n + 1 < y) \/ b.kind # "credential"
      PROVE  InCharge(new, user, y, u)
  <2>1. CASE /\ u = user
             /\ \A j \in 1..n : j < x => blocks[j].kind # "credential"
    <3>1. \A j \in 1..Len(new) : j < y => new[j].kind # "credential"
      BY <1>1, <1>2, <2>1
    <3> QED BY <2>1, <3>1 DEF InCharge
  <2>2. CASE \E j \in 1..n :
                /\ j < x
                /\ blocks[j].kind = "credential"
                /\ blocks[j].user = u
                /\ \A k \in 1..n : j < k /\ k < x => blocks[k].kind # "credential"
    <3>1. PICK j \in 1..n :
                /\ j < x
                /\ blocks[j].kind = "credential"
                /\ blocks[j].user = u
                /\ \A k \in 1..n : j < k /\ k < x => blocks[k].kind # "credential"
      BY <2>2
    <3>2. j \in 1..Len(new) /\ j < y /\ new[j] = blocks[j]
      BY <1>1, <1>2, <3>1
    <3>3. \A k \in 1..Len(new) : j < k /\ k < y => new[k].kind # "credential"
      BY <1>1, <1>2, <3>1
    <3> QED BY <3>1, <3>2, <3>3 DEF InCharge
  <2> QED BY <1>2, <2>1, <2>2 DEF InCharge, n
<1>3. i <= n + 1 /\ InCharge(blocks, user, i, u) => InCharge(new, user, i, u)
  <2> SUFFICES ASSUME i <= n + 1, InCharge(blocks, user, i, u)
               PROVE  InCharge(new, user, i, u)
    OBVIOUS
  <2>1. ~(n + 1 < i)
    BY <1>1
  <2> QED BY <1>2, <2>1
<1>4. b.kind # "credential" /\ InCharge(blocks, user, n + 1, u)
         => InCharge(new, user, Len(new) + 1, u)
  <2> SUFFICES ASSUME b.kind # "credential", InCharge(blocks, user, n + 1, u)
               PROVE  InCharge(new, user, Len(new) + 1, u)
    OBVIOUS
  <2>1. n + 1 \in Nat /\ Len(new) + 1 \in Nat
        /\ \A k \in 1..n : k < Len(new) + 1 <=> k < n + 1
    BY <1>1
  <2> QED BY <1>2, <2>1
<1>5. b.kind = "credential" => InCharge(new, user, Len(new) + 1, b.user)
  <2>1. n + 1 \in 1..Len(new) /\ n + 1 < Len(new) + 1
        /\ \A k \in 1..Len(new) : ~(n + 1 < k)
    BY <1>1
  <2> QED BY <1>1, <2>1 DEF InCharge
<1> QED BY <1>3, <1>4, <1>5 DEF new, n

LEMMA AppendStamps ==
  ASSUME NEW blocks \in Seq(Blocks), NEW b \in Blocks, NEW user,
         NEW notified, NEW asked, StampsOK(blocks, user, notified, asked),
         NEW after, NEW askedAfter,
         b.kind = "write" => b.write.by = notified,
         b.kind = "token" => b.user = notified,
         after = IF b.kind = "credential" THEN b.user ELSE notified,
         \A r \in askedAfter : r.current => r.user = after
  PROVE  StampsOK(Append(blocks, b), user, after, askedAfter)
<1> DEFINE new == Append(blocks, b)
           n == Len(blocks)
<1>1. /\ n \in Nat /\ Len(new) = n + 1
      /\ \A k \in 1..n : new[k] = blocks[k]
      /\ new[n + 1] = b
      /\ \A k \in 1..Len(new) : k \in 1..n \/ k = n + 1
  BY AppendIndices
<1>2. \A i \in Nat : \A u : i <= n + 1 /\ InCharge(blocks, user, i, u)
                           => InCharge(new, user, i, u)
  BY AppendInCharge
<1>3. InCharge(blocks, user, n + 1, notified)
  BY DEF StampsOK
<1>4. InCharge(new, user, Len(new) + 1, after)
  <2>1. CASE b.kind = "credential"
    BY <2>1, <1>1, AppendInCharge
  <2>2. CASE b.kind # "credential"
    BY <2>2, <1>1, <1>3, AppendInCharge
  <2> QED BY <2>1, <2>2
<1> HIDE DEF new, n
<1>5. ASSUME NEW i \in 1..Len(new)
      PROVE  /\ new[i].kind = "write" => InCharge(new, user, i, new[i].write.by)
             /\ new[i].kind = "token" => InCharge(new, user, i, new[i].user)
  <2>1. CASE i \in 1..n
    <3>1. i \in Nat /\ i <= n + 1 /\ new[i] = blocks[i]
      BY <1>1, <2>1
    <3>2. /\ blocks[i].kind = "write" => InCharge(blocks, user, i, blocks[i].write.by)
          /\ blocks[i].kind = "token" => InCharge(blocks, user, i, blocks[i].user)
      BY <2>1 DEF StampsOK, n
    <3> QED BY <1>2, <3>1, <3>2
  <2>2. CASE i = n + 1
    <3>1. i \in Nat /\ i <= n + 1 /\ new[i] = b
      BY <1>1, <2>2
    <3>2. InCharge(new, user, i, notified)
      BY <1>2, <1>3, <2>2, <3>1
    <3> QED BY <3>1, <3>2
  <2> QED BY <1>1, <2>1, <2>2
<1>6. StampsOK(new, user, after, askedAfter)
  BY <1>4, <1>5 DEF StampsOK
<1> QED BY <1>6 DEF new

LEMMA AppendAhead ==
  ASSUME NEW blocks \in Seq(Blocks), NEW b \in Blocks, b.kind # "write",
         NEW Q, NEW done, NEW m, AheadOK(blocks, Q, done, m)
  PROVE  AheadOK(Append(blocks, b), Q, done, m)
<1> DEFINE new == Append(blocks, b)
<1>1. \A k \in 1..Len(new) : new[k].kind = "write" =>
         k \in 1..Len(blocks) /\ new[k] = blocks[k]
  BY AppendIndices
<1> HIDE DEF new
<1>2. AheadOK(new, Q, done, m)
  BY <1>1 DEF AheadOK
<1> QED BY <1>2 DEF new

LEMMA AppendTokens ==
  ASSUME NEW blocks \in Seq(Blocks), NEW b \in Blocks, ~LiveToken(b),
         NEW asked, NEW state, TokensOK(asked, blocks, state)
  PROVE  TokensOK(asked, Append(blocks, b), state)
<1> DEFINE new == Append(blocks, b)
<1>1. \A k \in 1..Len(new) : LiveToken(new[k]) =>
         k \in 1..Len(blocks) /\ new[k] = blocks[k]
  BY AppendIndices
<1> HIDE DEF new
<1>2. TokensOK(asked, new, state)
  BY <1>1 DEF TokensOK
<1> QED BY <1>2 DEF new

(* A block of a call's operations.                                         *)
LEMMA AppendCore ==
  ASSUME NEW s, NEW done, NEW m, Core(s, done, m),
         NEW b \in Blocks, b.kind \in OfCall
  PROVE  Core([s EXCEPT !.blocks = Append(s.blocks, b)], done, m)
<1> DEFINE new == Append(s.blocks, b)
           t == [s EXCEPT !.blocks = new]
<1>1. s \in Sdk /\ s.blocks \in Seq(Blocks)
  BY DEF Core, Sdk
<1>2. new \in Seq(Blocks)
  BY <1>1, AppendIndices
<1>3. b.kind # "write" /\ b.kind # "token" /\ b.kind # "credential"
  BY DEF OfCall
<1>4. /\ StampsOK(s.blocks, s.user, s.notified, s.asked)
      /\ AheadOK(s.blocks, s.queue, done, m)
      /\ \A r \in s.asked : r.current => r.user = s.notified
  BY DEF Core, StampsOK
<1>5. StampsOK(new, s.user, s.notified, s.asked) /\ AheadOK(new, s.queue, done, m)
  BY <1>1, <1>3, <1>4, AppendStamps, AppendAhead
<1> HIDE DEF new
<1>6. t \in Sdk /\ SameButBlocks(s, t) /\ t.blocks = new
  BY <1>1, <1>2, BlocksFields
<1> HIDE DEF t
<1>7. Core(t, done, m)
  BY <1>5, <1>6 DEF Core, SameButBlocks, SameStore
<1> QED BY <1>7 DEF t, new

LEMMA RunFailedInv ==
  ASSUME IInv, RunFailed
  PROVE  IInv' /\ SameQueues(sdk, sdk') /\ Left(sdk', server') = 0
<1> DEFINE r == Rest
           fin == [kind |-> "finished", status |-> server.status]
           c == Cancelled(r.blocks)
           new == Append(c, fin)
           u == [r EXCEPT !.blocks = c]
           v == [u EXCEPT !.blocks = new]
           t == [v EXCEPT !.call = "finishing", !.reading = FALSE]
<1>1. /\ sdk.blocks # <<>> /\ Head(sdk.blocks).kind = "failed"
      /\ Become(OnOperationFailed(r, server.status))
  BY DEF RunFailed, Next1
<1>2. /\ Base(r, server, committed, made) /\ Settled(r)
      /\ r \in Sdk /\ SameButBlocks(sdk, r)
      /\ Head(sdk.blocks) = sdk.blocks[1] /\ 1 \in 1..Len(sdk.blocks)
  BY <1>1, RestBase, RestFields
<1>3. sdk.call = "open" /\ server.status # "open" /\ server.status \in Statuses
  BY <1>1, <1>2, InvParts DEF Link, CallOK, Servers
<1>4. fin \in Blocks /\ fin.kind = "finished" /\ fin.status = server.status
  BY <1>3 DEF Blocks
<1> HIDE DEF r
<1>5. r.blocks \in Seq(Blocks) /\ r.call = "open" /\ r.state = "open"
  BY <1>2, <1>3 DEF Sdk, SameButBlocks, Base, Link, StreamOK
<1>6. c \in Seq(Blocks) /\ Quiet(c) /\ \E h : Thins(c, r.blocks, h)
  BY <1>5, CancelThins
<1>7. StampsOK(c, r.user, r.notified, r.asked)
  BY <1>2, <1>5, CancelStamps DEF Base, Core
<1>8. AheadOK(c, r.queue, committed, made) /\ TokensOK(r.asked, c, r.state)
  BY <1>2, <1>6, ThinAhead, ThinTokens DEF Base, Core, Link
<1>9. Cancel(r) = u
  BY DEF Cancel, Cancelled
<1> HIDE DEF c, fin
<1>10. u \in Sdk /\ SameButBlocks(r, u) /\ u.blocks = c
  BY <1>2, <1>6, BlocksFields
<1> HIDE DEF u
<1>11. Core(u, committed, made)
  BY <1>2, <1>7, <1>8, <1>10 DEF Base, Core, SameButBlocks, SameStore
<1>12. Core(v, committed, made) /\ TokensOK(r.asked, new, r.state)
  <2>1. fin.kind \in OfCall /\ ~LiveToken(fin)
    BY <1>4 DEF OfCall, LiveToken
  <2>2. Core([u EXCEPT !.blocks = Append(u.blocks, fin)], committed, made)
    BY <1>4, <1>11, <2>1, AppendCore
  <2>3. TokensOK(r.asked, Append(c, fin), r.state)
    BY <1>4, <1>6, <1>8, <2>1, AppendTokens
  <2> QED BY <1>10, <2>2, <2>3
<1>13. /\ new \in Seq(Blocks) /\ Len(c) \in Nat
       /\ \A i \in 1..Len(new) : (i \in 1..Len(c) /\ new[i] = c[i]) \/ new[i] = fin
       /\ \A i, j \in 1..Len(new) : i \in 1..Len(c) \/ j \in 1..Len(c) \/ i = j
  BY <1>4, <1>6, AppendIndices
<1> HIDE DEF new
<1>14. v \in Sdk /\ SameButBlocks(u, v) /\ v.blocks = new
  BY <1>10, <1>13, BlocksFields
<1>15. OnOperationFailed(r, server.status) = t
  <2>1. OnOperationFailed(r, server.status)
           = [[u EXCEPT !.call = "finishing", !.reading = FALSE]
                EXCEPT !.blocks = Append(@, fin)]
    BY <1>5, <1>9 DEF OnOperationFailed, fin
  <2>2. [u EXCEPT !.call = "finishing", !.reading = FALSE].blocks = c
    BY <1>10 DEF Sdk
  <2> DEFINE w == [u EXCEPT !.call = "finishing", !.reading = FALSE]
  <2>3. OnOperationFailed(r, server.status) = [w EXCEPT !.blocks = new]
    <3> HIDE DEF w
    <3>1. OnOperationFailed(r, server.status) = [w EXCEPT !.blocks = Append(@, fin)]
      BY <2>1 DEF w
    <3>2. w.blocks = c
      BY <2>2 DEF w
    <3> QED BY <3>1, <3>2 DEF new
  <2>4. [w EXCEPT !.blocks = new] = t
    BY <1>10 DEF Sdk
  <2> QED BY <2>3, <2>4
<1> HIDE DEF v
<1>16. t \in Sdk
  BY <1>14 DEF Sdk
<1>17. SameStore(v, t)
  BY <1>14 DEF SameStore, Sdk
<1>18. /\ t.asked = v.asked /\ t.pipeline = v.pipeline
       /\ t.state = v.state /\ t.handshake = v.handshake /\ t.idle = v.idle
  BY <1>14 DEF Sdk
<1>19. /\ t.call = "finishing" /\ ~t.reading /\ t.buffer = v.buffer
       /\ t.tokenOf = v.tokenOf /\ t.blocks = v.blocks
  BY <1>14 DEF Sdk
<1> HIDE DEF t
<1>20. SameStore(r, t)
  BY <1>10, <1>14, <1>17 DEF SameStore, SameButBlocks
<1>21. /\ t.asked = r.asked /\ t.pipeline = r.pipeline
       /\ t.state = r.state /\ t.handshake = r.handshake /\ t.idle = r.idle
       /\ t.tokenOf = r.tokenOf /\ t.buffer = r.buffer /\ t.blocks = new
  BY <1>10, <1>14, <1>18, <1>19 DEF SameButBlocks
<1>22. Core(t, committed, made)
  BY <1>12, <1>16, <1>17, <1>18, <1>19 DEF Core, SameStore
<1>23. StreamOK(t.state, t.handshake, t.idle, t.call, t.pipeline)
  BY <1>2, <1>5, <1>19, <1>21 DEF Base, Link, StreamOK
<1>24. \A i \in 1..Len(new) :
          new[i].kind # "read" /\ new[i].kind # "failed"
  BY <1>4, <1>6, <1>13 DEF Quiet, OfCall
<1>25. CallOK(t.call, t.reading, t.blocks, t.buffer, server)
  <2>1. server.status # "open" => server.wire = <<>>
    BY InvParts DEF Link, CallOK
  <2> QED BY <1>3, <1>19, <1>21, <1>24, <2>1 DEF CallOK
<1>26. AnswersOK(t.blocks, server, committed)
  BY <1>21, <1>24, InvParts DEF Link, AnswersOK
<1>27. Link(t, server, committed)
  BY <1>2, <1>5, <1>12, <1>19, <1>20, <1>21, <1>23, <1>25, <1>26
     DEF Base, Link, SameStore
<1>28. Settled(t)
  BY <1>2, <1>20, <1>21 DEF Settled, SameStore, IsStarted
<1>29. Become(t)
  BY <1>1, <1>15
<1>30. SameQueues(sdk, t)
  BY <1>2, <1>20 DEF SameQueues, SameButBlocks, SameStore
<1>31. Left(sdk', server') = 0
  BY <1>19, <1>29 DEF Left, Become
<1>32. IInv'
  BY <1>22, <1>27, <1>28, <1>29, BecomeInv DEF Base
<1> QED BY <1>29, <1>30, <1>31, <1>32 DEF Become

-----------------------------------------------------------------------------
(***************************************************************************)
(* A write of the app is queued.                                           *)
(***************************************************************************)
Queued(s, t, b) ==
    /\ t.queue = [s.queue EXCEPT ![s.user] = Append(s.queue[s.user], b)]
    /\ t.nextId = s.nextId + 1
    /\ t.callbacks = s.callbacks
          \cup {[user |-> s.user, id |-> s.nextId, write |-> b.write]}
    /\ t.user = s.user /\ t.notified = s.notified
    /\ t.told = s.told /\ t.sound = s.sound
    /\ t.asked = s.asked /\ t.enabled = s.enabled
    /\ t.pipeline = s.pipeline
    /\ t.state = s.state /\ t.handshake = s.handshake /\ t.idle = s.idle
    /\ t.call = s.call /\ t.tokenOf = s.tokenOf /\ t.reading = s.reading
    /\ t.buffer = s.buffer /\ t.blocks = s.blocks

LEMMA QueuedFields ==
  ASSUME NEW s \in Sdk, s.nextId # 0, NEW w \in Writes
  PROVE  LET t == WriteLocally(s, w)
             b == [id |-> s.nextId, write |-> w]
         IN  t \in Sdk /\ b \in Batches /\ Queued(s, t, b)
<1> DEFINE b == [id |-> s.nextId, write |-> w]
           q == s.queue[s.user]
           x == [s.queue EXCEPT ![s.user] = Append(q, b)]
           c == s.callbacks \cup {[user |-> s.user, id |-> s.nextId, write |-> w]}
           n == s.nextId + 1
           t == [s EXCEPT !.queue = x, !.nextId = n, !.callbacks = c]
<1>1. WriteLocally(s, w) = t
  BY DEF WriteLocally, Sdk
<1>2. s.nextId \in Nat /\ s.user \in Accounts /\ q \in Seq(Batches)
      /\ s.queue \in [Accounts -> Seq(Batches)]
  BY DEF Sdk
<1>3. b \in Batches /\ b.write = w
  BY <1>2 DEF Batches
<1> HIDE DEF b
<1>4. Append(q, b) \in Seq(Batches)
  BY <1>2, <1>3, AppendIndices
<1> HIDE DEF q
<1>5. x \in [Accounts -> Seq(Batches)]
  BY <1>2, <1>4
<1>6. c \in SUBSET [user : Accounts, id : Nat, write : Writes]
  BY <1>2 DEF Sdk
<1>7. n \in Nat
  BY <1>2
<1> HIDE DEF x, c, n
<1>8. t \in Sdk
  BY <1>5, <1>6, <1>7 DEF Sdk
<1>9. /\ t.queue = x /\ t.nextId = n /\ t.callbacks = c
      /\ t.told = s.told /\ t.sound = s.sound
  BY DEF Sdk
<1>10. /\ t.user = s.user /\ t.notified = s.notified
       /\ t.asked = s.asked /\ t.enabled = s.enabled
       /\ t.pipeline = s.pipeline
  BY DEF Sdk
<1>11. /\ t.state = s.state /\ t.handshake = s.handshake /\ t.idle = s.idle
       /\ t.call = s.call /\ t.tokenOf = s.tokenOf /\ t.reading = s.reading
       /\ t.buffer = s.buffer /\ t.blocks = s.blocks
  BY DEF Sdk
<1> HIDE DEF t
<1>12. Queued(s, t, b)
  BY <1>3, <1>9, <1>10, <1>11 DEF Queued, q, x, c, n
<1> QED BY <1>1, <1>3, <1>8, <1>12 DEF b

(* The write goes behind all others: it is the newest, its id is new.      *)
LEMMA QueuedCore ==
  ASSUME NEW s, NEW done \in SUBSET Writes, NEW m, Core(s, done, m),
         NEW w \in Writes, w.by = s.user, w.n <= m,
         \A a \in Accounts : \A j \in 1..Len(s.queue[a]) : s.queue[a][j].write.n < w.n,
         \A d \in done : d.n < w.n,
         \A i \in 1..Len(s.blocks) : s.blocks[i].kind = "write" => w.n < s.blocks[i].write.n
  PROVE  LET t == WriteLocally(s, w)
             b == [id |-> s.nextId, write |-> w]
         IN  /\ Core(t, done, m) /\ Queued(s, t, b)
             /\ t.queue[t.user] = Append(s.queue[s.user], b)
             /\ s.queue[s.user] \in Seq(Batches) /\ b \in Batches
<1> DEFINE t == WriteLocally(s, w)
           b == [id |-> s.nextId, write |-> w]
<1>1. /\ s \in Sdk /\ s.sound /\ s.user \in Accounts /\ s.nextId \in Nat
      /\ s.queue \in [Accounts -> Seq(Batches)] /\ s.queue[s.user] \in Seq(Batches)
      /\ s.nextId # 0
  BY DEF Core, Sdk, QueuesOK
<1>2. t \in Sdk /\ b \in Batches /\ Queued(s, t, b)
  BY <1>1, QueuedFields
<1>3. b.id = s.nextId /\ b.write = w
  OBVIOUS
<1> HIDE DEF t, b
<1>4. /\ t.queue = [s.queue EXCEPT ![s.user] = Append(s.queue[s.user], b)]
      /\ t.nextId = s.nextId + 1
      /\ t.callbacks = s.callbacks
            \cup {[user |-> s.user, id |-> s.nextId, write |-> w]}
      /\ t.user = s.user /\ t.notified = s.notified
      /\ t.told = s.told /\ t.sound = s.sound
      /\ t.asked = s.asked /\ t.blocks = s.blocks
  BY <1>2, <1>3 DEF Queued
<1>5. /\ t.queue[s.user] = Append(s.queue[s.user], b)
      /\ \A a \in Accounts : a # s.user => t.queue[a] = s.queue[a]
  BY <1>1, <1>4
<1>6. /\ Len(s.queue[s.user]) \in Nat
      /\ Len(t.queue[s.user]) = Len(s.queue[s.user]) + 1
      /\ \A i \in 1..Len(s.queue[s.user]) : t.queue[s.user][i] = s.queue[s.user][i]
      /\ t.queue[s.user][Len(s.queue[s.user]) + 1] = b
      /\ \A i \in 1..Len(t.queue[s.user]) :
            i \in 1..Len(s.queue[s.user]) \/ i = Len(s.queue[s.user]) + 1
  BY <1>1, <1>2, <1>5, AppendIndices
<1>7. \A a \in Accounts : \A i \in 1..Len(t.queue[a]) :
         \/ i \in 1..Len(s.queue[a]) /\ t.queue[a][i] = s.queue[a][i]
         \/ a = s.user /\ i = Len(s.queue[a]) + 1 /\ t.queue[a][i] = b
  BY <1>5, <1>6
<1>8. \A a \in Accounts : \A i \in 1..Len(s.queue[a]) :
         i \in 1..Len(t.queue[a]) /\ t.queue[a][i] = s.queue[a][i]
  <2> SUFFICES ASSUME NEW a \in Accounts, NEW i \in 1..Len(s.queue[a])
               PROVE  i \in 1..Len(t.queue[a]) /\ t.queue[a][i] = s.queue[a][i]
    OBVIOUS
  <2>1. CASE a = s.user
    <3>1. \A n \in Nat : \A k \in 1..n : k \in 1..n + 1
      OBVIOUS
    <3> QED BY <1>6, <2>1, <3>1
  <2>2. CASE a # s.user
    BY <1>5, <2>2
  <2> QED BY <2>1, <2>2
<1>9. /\ \A a \in Accounts : \A i \in 1..Len(s.queue[a]) :
            /\ s.queue[a][i] \in Batches
            /\ s.queue[a][i].id \in Nat /\ s.queue[a][i].write.n \in Nat
            /\ s.queue[a][i].write \in Writes
      /\ b.id \in Nat /\ b.write.n \in Nat
      /\ \A i \in 1..Len(s.queue[s.user]) : i < Len(s.queue[s.user]) + 1
  <2>1. ASSUME NEW c \in Batches PROVE c.id \in Nat /\ c.write.n \in Nat /\ c.write \in Writes
    BY DEF Batches, Writes
  <2>2. \A a \in Accounts : \A i \in 1..Len(s.queue[a]) : s.queue[a][i] \in Batches
    BY <1>1
  <2> QED BY <1>2, <1>6, <2>1, <2>2
<1>10. /\ \A a \in Accounts : \A i \in 1..Len(s.queue[a]) :
             s.queue[a][i].write.by = a /\ s.queue[a][i].id < s.nextId
       /\ \A a1, a2 \in Accounts : \A i \in 1..Len(s.queue[a1]), j \in 1..Len(s.queue[a2]) :
             s.queue[a1][i].id = s.queue[a2][j].id => a1 = a2 /\ i = j
       /\ \A a \in Accounts : \A i, j \in 1..Len(s.queue[a]) :
             i < j => /\ s.queue[a][i].id < s.queue[a][j].id
                      /\ s.queue[a][i].write.n < s.queue[a][j].write.n
  BY DEF Core, QueuesOK
<1>11. QueuesOK(t.queue, t.nextId)
  <2>1. \A a \in Accounts : \A i \in 1..Len(t.queue[a]) :
            t.queue[a][i].write.by = a /\ t.queue[a][i].id < s.nextId + 1
    <3> SUFFICES ASSUME NEW a \in Accounts, NEW i \in 1..Len(t.queue[a])
                 PROVE  t.queue[a][i].write.by = a /\ t.queue[a][i].id < s.nextId + 1
      OBVIOUS
    <3>1. CASE i \in 1..Len(s.queue[a]) /\ t.queue[a][i] = s.queue[a][i]
      <4>1. /\ s.queue[a][i].write.by = a /\ s.queue[a][i].id < s.nextId
            /\ s.queue[a][i].id \in Nat
        BY <1>9, <1>10, <3>1
      <4> QED BY <1>1, <3>1, <4>1
    <3>2. CASE a = s.user /\ t.queue[a][i] = b
      BY <1>1, <1>3, <3>2
    <3> QED BY <1>7, <3>1, <3>2
  <2>2. ASSUME NEW a1 \in Accounts, NEW a2 \in Accounts,
               NEW i \in 1..Len(t.queue[a1]), NEW j \in 1..Len(t.queue[a2]),
               t.queue[a1][i].id = t.queue[a2][j].id
        PROVE  a1 = a2 /\ i = j
    <3>1. CASE i \in 1..Len(s.queue[a1]) /\ j \in 1..Len(s.queue[a2])
      <4>1. s.queue[a1][i].id = s.queue[a2][j].id
        BY <1>8, <2>2, <3>1
      <4> QED BY <1>10, <3>1, <4>1
    <3>2. CASE i \notin 1..Len(s.queue[a1]) /\ j \notin 1..Len(s.queue[a2])
      BY <1>7, <3>2
    <3>3. CASE i \in 1..Len(s.queue[a1]) /\ j \notin 1..Len(s.queue[a2])
      <4>1. t.queue[a1][i] = s.queue[a1][i] /\ t.queue[a2][j] = b
        BY <1>7, <1>8, <3>3
      <4>2. s.queue[a1][i].id < s.nextId
        BY <1>10, <3>3
      <4> QED BY <1>1, <1>3, <2>2, <4>1, <4>2
    <3>4. CASE i \notin 1..Len(s.queue[a1]) /\ j \in 1..Len(s.queue[a2])
      <4>1. t.queue[a2][j] = s.queue[a2][j] /\ t.queue[a1][i] = b
        BY <1>7, <1>8, <3>4
      <4>2. s.queue[a2][j].id < s.nextId
        BY <1>10, <3>4
      <4> QED BY <1>1, <1>3, <2>2, <4>1, <4>2
    <3> QED BY <3>1, <3>2, <3>3, <3>4
  <2>3. ASSUME NEW a \in Accounts, NEW i \in 1..Len(t.queue[a]),
               NEW j \in 1..Len(t.queue[a]), i < j
        PROVE  /\ t.queue[a][i].id < t.queue[a][j].id
               /\ t.queue[a][i].write.n < t.queue[a][j].write.n
    <3>0. i \in Int /\ j \in Int /\ Len(s.queue[a]) \in Nat
      BY <1>1
    <3>1. CASE j \in 1..Len(s.queue[a])
      <4>1. i \in 1..Len(s.queue[a])
        BY <2>3, <3>0, <3>1
      <4> QED BY <1>8, <1>10, <2>3, <3>1, <4>1
    <3>2. CASE j \notin 1..Len(s.queue[a])
      <4>1. j = Len(s.queue[a]) + 1 /\ t.queue[a][j] = b
        BY <1>7, <3>2
      <4>2. i \in 1..Len(s.queue[a]) /\ t.queue[a][i] = s.queue[a][i]
        BY <1>7, <2>3, <3>0, <4>1
      <4>3. s.queue[a][i].write.n < w.n /\ s.queue[a][i].id < s.nextId
        BY <1>10, <4>2
      <4> QED BY <1>3, <4>1, <4>2, <4>3
    <3> QED BY <3>1, <3>2
  <2> DEFINE n == s.nextId + 1
  <2>4. n # 0 /\ t.nextId = n
    BY <1>1, <1>4
  <2>5. \A a \in Accounts : \A i \in 1..Len(t.queue[a]) :
            t.queue[a][i].write.by = a /\ t.queue[a][i].id < n
    BY <2>1
  <2> HIDE DEF n
  <2>6. QueuesOK(t.queue, n)
    BY <2>2, <2>3, <2>4, <2>5 DEF QueuesOK
  <2> QED BY <2>4, <2>6
<1>12. ClosuresOK(t.queue, t.callbacks)
  <2> SUFFICES ASSUME NEW c \in t.callbacks
               PROVE  \E i \in 1..Len(t.queue[c.user]) :
                         t.queue[c.user][i] = [id |-> c.id, write |-> c.write]
    BY DEF ClosuresOK
  <2>1. CASE c \in s.callbacks
    <3>1. c.user \in Accounts
      BY <1>1, <2>1 DEF Sdk
    <3>2. PICK i \in 1..Len(s.queue[c.user]) :
             s.queue[c.user][i] = [id |-> c.id, write |-> c.write]
      BY <2>1 DEF Core, ClosuresOK
    <3> QED BY <1>8, <3>1, <3>2
  <2>2. CASE c = [user |-> s.user, id |-> s.nextId, write |-> w]
    <3>1. c.user = s.user /\ [id |-> c.id, write |-> c.write] = b
      BY <2>2 DEF b
    <3>2. Len(s.queue[s.user]) + 1 \in 1..Len(t.queue[s.user])
      BY <1>6
    <3> QED BY <1>6, <3>1, <3>2
  <2> QED BY <1>4, <2>1, <2>2
<1>13. AheadOK(t.blocks, t.queue, done, m)
  <2>1. /\ \A a \in Accounts : \A j \in 1..Len(s.queue[a]) : s.queue[a][j].write.n <= m
        /\ \A i \in 1..Len(s.blocks) : s.blocks[i].kind = "write" =>
              \A a \in Accounts : \A j \in 1..Len(s.queue[a]) :
                 s.queue[a][j].write.n < s.blocks[i].write.n
    BY DEF Core, AheadOK
  <2>2. \A a \in Accounts : \A j \in 1..Len(t.queue[a]) : t.queue[a][j].write.n <= m
    BY <1>3, <1>7, <2>1
  <2>3. \A i \in 1..Len(s.blocks) : s.blocks[i].kind = "write" =>
              \A a \in Accounts : \A j \in 1..Len(t.queue[a]) :
                 t.queue[a][j].write.n < s.blocks[i].write.n
    BY <1>3, <1>7, <2>1
  <2>4. \A i \in 1..Len(s.blocks) : s.blocks[i].kind = "write" =>
          /\ s.blocks[i].write.n <= m
          /\ \A d \in done : d.n < s.blocks[i].write.n
          /\ \A j \in 1..Len(s.blocks) : i < j /\ s.blocks[j].kind = "write" =>
                s.blocks[i].write.n < s.blocks[j].write.n
    BY DEF Core, AheadOK
  <2>5. \A d \in done : d.n <= m
    BY DEF Core, AheadOK
  <2>6. AheadOK(s.blocks, t.queue, done, m)
    BY <2>2, <2>3, <2>4, <2>5 DEF AheadOK
  <2> QED BY <1>4, <2>6
<1>14. CommitsOK(t.queue, done)
  <2> SUFFICES ASSUME NEW d \in done, NEW i \in 1..Len(t.queue[d.by]),
                      t.queue[d.by][i].write.n < d.n
               PROVE  t.queue[d.by][i].write \in done
    BY DEF CommitsOK
  <2>1. d.by \in Accounts /\ d.n \in Nat
    BY DEF Writes
  <2>2. t.queue[d.by][i] # b
    BY <1>3, <1>9, <2>1
  <2>3. i \in 1..Len(s.queue[d.by]) /\ t.queue[d.by][i] = s.queue[d.by][i]
    BY <1>7, <2>1, <2>2
  <2> QED BY <2>3 DEF Core, CommitsOK
<1>15. Core(t, done, m)
  BY <1>2, <1>4, <1>11, <1>12, <1>13, <1>14 DEF Core
<1> QED BY <1>1, <1>2, <1>4, <1>5, <1>15 DEF t, b

LEMMA PipeGrows ==
  ASSUME NEW p \in Seq(Batches), NEW q \in Seq(Batches), NEW b \in Batches, PipeOK(p, q)
  PROVE  PipeOK(p, Append(q, b))
<1>1. /\ Len(q) \in Nat /\ Len(p) \in Nat /\ Len(Append(q, b)) = Len(q) + 1
      /\ \A i \in 1..Len(q) : Append(q, b)[i] = q[i]
  BY AppendIndices, LenProperties
<1>2. Len(p) <= Len(q) /\ \A i \in 1..Len(p) : i \in 1..Len(q)
  BY <1>1 DEF PipeOK
<1>3. Len(p) <= Len(Append(q, b))
  BY <1>1, <1>2
<1> QED BY <1>1, <1>2, <1>3 DEF PipeOK

(* SyncEngine::WriteMutations: the write that was made first is queued     *)
(* first, for the user who made it.                                        *)
LEMMA RunWriteInv ==
  ASSUME IInv, RunWrite
  PROVE  /\ IInv' /\ sdk'.user = sdk.user
         /\ \E batch \in Batches :
               sdk'.queue = [sdk.queue EXCEPT ![sdk.user] =
                                Append(sdk.queue[sdk.user], batch)]
         /\ Left(sdk', server') = Left(sdk, server)
<1> DEFINE b == Head(sdk.blocks)
           w == b.write
           r == Rest
           u == WriteLocally(r, w)
           batch == [id |-> r.nextId, write |-> w]
           t == FillWritePipeline(u)
<1>1. sdk.blocks # <<>> /\ b.kind = "write" /\ Become(t)
  BY DEF RunWrite, Next1
<1>2. /\ Base(r, server, committed, made) /\ Settled(r)
      /\ r \in Sdk /\ SameButBlocks(sdk, r)
      /\ b \in Blocks /\ b = sdk.blocks[1]
      /\ 1 \in 1..Len(sdk.blocks) /\ Len(sdk.blocks) \in Nat
      /\ Len(r.blocks) = Len(sdk.blocks) - 1
      /\ \A i \in 1..Len(r.blocks) :
            i + 1 \in 1..Len(sdk.blocks) /\ r.blocks[i] = sdk.blocks[i + 1]
  BY <1>1, RestBase, RestFields
<1>3. b.write.by = sdk.user
  BY <1>1, RestCore
<1>4. b.write \in Writes
  BY <1>1, <1>2 DEF Blocks, Failed
<1> HIDE DEF r, b
<1>5. /\ w.n <= made
      /\ \A a \in Accounts : \A j \in 1..Len(sdk.queue[a]) : sdk.queue[a][j].write.n < w.n
      /\ \A d \in committed : d.n < w.n
      /\ \A i \in 1..Len(sdk.blocks) : 1 < i /\ sdk.blocks[i].kind = "write" =>
            w.n < sdk.blocks[i].write.n
  <2>1. AheadOK(sdk.blocks, sdk.queue, committed, made)
    BY InvParts DEF Core
  <2> QED BY <1>1, <1>2, <2>1 DEF AheadOK
<1>6. \A i \in 1..Len(r.blocks) : r.blocks[i].kind = "write" => w.n < r.blocks[i].write.n
  <2> SUFFICES ASSUME NEW i \in 1..Len(r.blocks), r.blocks[i].kind = "write"
               PROVE  w.n < r.blocks[i].write.n
    OBVIOUS
  <2>1. i + 1 \in 1..Len(sdk.blocks) /\ r.blocks[i] = sdk.blocks[i + 1] /\ 1 < i + 1
    BY <1>2
  <2> QED BY <1>5, <2>1
<1>7. Core(r, committed, made) /\ w \in Writes /\ w.by = r.user
      /\ r.queue = sdk.queue /\ r.enabled
  BY <1>2, <1>3, <1>4 DEF Base, Settled, SameButBlocks, SameStore
<1> HIDE DEF w
<1>8. /\ Core(u, committed, made) /\ Queued(r, u, batch)
      /\ u.queue[u.user] = Append(r.queue[r.user], batch)
      /\ r.queue[r.user] \in Seq(Batches) /\ batch \in Batches
  BY <1>5, <1>6, <1>7, InvParts, QueuedCore
<1> HIDE DEF u, batch
<1>9. PipeOK(u.pipeline, u.queue[u.user])
  <2>1. PipeOK(r.pipeline, r.queue[r.user]) /\ r.pipeline \in Seq(Batches)
    BY <1>2 DEF Base, Link, Sdk
  <2>2. PipeOK(r.pipeline, Append(r.queue[r.user], batch))
    BY <1>8, <2>1, PipeGrows
  <2> QED BY <1>8, <2>2 DEF Queued
<1>10. Link(u, server, committed)
  BY <1>2, <1>8, <1>9 DEF Base, Link, Queued
<1>11. u.enabled /\ (u.pipeline # <<>> => IsStarted(u)) /\ (u.handshake => u.state = "open")
  BY <1>2, <1>8 DEF Settled, Queued, IsStarted
<1>12. /\ Base(t, server, committed, made) /\ SameLink(u, t)
       /\ t.pipeline # <<>> => IsStarted(t)
  BY <1>8, <1>10, <1>11, InvParts, FillBase DEF Base
<1> HIDE DEF t
<1>13. Settled(t)
  <2>1. t.handshake => t.state = "open"
    <3> QED BY <1>11, <1>12 DEF SameLink, SameStore, Settled, Base, Link, StreamOK
  <2> QED BY <1>11, <1>12, <2>1 DEF Settled, SameLink, SameStore
<1>14. IInv' /\ sdk' = t
  BY <1>1, <1>12, <1>13, BecomeInv DEF Become
<1>15. /\ t.user = sdk.user
       /\ t.queue = [sdk.queue EXCEPT ![sdk.user] = Append(sdk.queue[sdk.user], batch)]
       /\ t.call = sdk.call /\ t.handshake = sdk.handshake
  BY <1>2, <1>7, <1>8, <1>12 DEF Queued, SameLink, SameStore, SameButBlocks
<1>16. Left(t, server) = Left(sdk, server)
  <2>1. Reads(r.blocks) = Reads(sdk.blocks)
    BY <1>1, SameReads DEF b, r
  <2>2. t.blocks = r.blocks
    BY <1>8, <1>12 DEF Queued, SameLink
  <2> QED BY <1>15, <2>1, <2>2 DEF Left
<1>17. Left(t, server') = Left(t, server)
  BY <1>1 DEF Left, Become
<1> QED BY <1>8, <1>14, <1>15, <1>16, <1>17

-----------------------------------------------------------------------------
(***************************************************************************)
(* An answer is taken for the first thing that was to be answered.         *)
(***************************************************************************)
LEMMA HandshakeIsNoWrite == Handshake \notin Writes
<1>1. SUFFICES ASSUME Handshake \in Writes PROVE FALSE
  OBVIOUS
<1>2. DOMAIN Handshake = {"by", "n"}
  BY <1>1 DEF Writes
<1>3. DOMAIN Handshake = {"kind"}
  BY DEF Handshake
<1> QED BY <1>2, <1>3

LEMMA WithinTail ==
  ASSUME NEW e \in Seq(Requests), e # <<>>, NEW k \in Nat, NEW x \in Seq(Requests),
         Within(x, k + 1, e)
  PROVE  Within(x, k, Tail(e))
<1>1. /\ Len(e) \in Nat \ {0} /\ Len(Tail(e)) = Len(e) - 1
      /\ \A i \in 1..Len(Tail(e)) : i + 1 \in 1..Len(e) /\ Tail(e)[i] = e[i + 1]
  BY TailIndices
<1>2. /\ Len(x) \in Nat /\ (k + 1) + Len(x) <= Len(e)
      /\ \A i \in 1..Len(x) : x[i] = e[(k + 1) + i]
  BY LenProperties DEF Within
<1>3. k + Len(x) <= Len(Tail(e))
  BY <1>1, <1>2
<1>4. ASSUME NEW i \in 1..Len(x)
      PROVE  x[i] = Tail(e)[k + i]
  <2>1. /\ k + i \in 1..Len(Tail(e)) /\ (k + i) + 1 = (k + 1) + i
    BY <1>1, <1>2
  <2>2. Tail(e)[k + i] = e[(k + i) + 1]
    BY <1>1, <2>1
  <2> QED BY <1>2, <2>1, <2>2
<1> QED BY <1>3, <1>4 DEF Within

LEMMA LineShift ==
  ASSUME NEW old, NEW new, HasRead(old), ~HasRead(new),
         NEW buffer \in Seq(Requests), NEW sv \in Servers,
         NEW e \in Seq(Requests), e # <<>>, LineOK(old, buffer, sv, e)
  PROVE  LineOK(new, buffer, sv, Tail(e))
<1> DEFINE x == Len(sv.answers)
           y == Len(sv.wire)
           z == Len(buffer)
           l == Len(Tail(e))
<1>1. /\ sv.answers \in Seq(Requests) /\ sv.wire \in Seq(Requests)
      /\ x \in Nat /\ y \in Nat /\ z \in Nat
      /\ Len(e) \in Nat \ {0} /\ l = Len(e) - 1
  BY TailIndices, LenProperties DEF Servers
<1>2. Reads(old) = 1 /\ Reads(new) = 0
  BY DEF Reads
<1>3. /\ Within(sv.answers, 1, e)
      /\ sv.status = "open" => /\ Within(sv.wire, 1 + x, e)
                             /\ Within(buffer, 1 + x + y, e)
                             /\ 1 + x + y + z = Len(e)
  BY <1>2 DEF LineOK
<1> HIDE DEF x, y, z, l
<1>4. Within(sv.answers, 0, Tail(e))
  <2>1. 0 + 1 = 1 /\ 0 \in Nat
    OBVIOUS
  <2>2. Within(sv.answers, 0 + 1, e)
    BY <1>3, <2>1
  <2> QED BY <1>1, <2>1, <2>2, WithinTail
<1>5. ASSUME sv.status = "open"
      PROVE  /\ Within(sv.wire, 0 + x, Tail(e))
             /\ Within(buffer, 0 + x + y, Tail(e))
             /\ 0 + x + y + z = l
  <2>1. /\ 0 + x \in Nat /\ 0 + x + y \in Nat
        /\ (0 + x) + 1 = 1 + x /\ (0 + x + y) + 1 = 1 + x + y
    BY <1>1
  <2>2. Within(sv.wire, (0 + x) + 1, e) /\ Within(buffer, (0 + x + y) + 1, e)
    BY <1>3, <1>5, <2>1
  <2>3. Within(sv.wire, 0 + x, Tail(e))
    BY <1>1, <2>1, <2>2, WithinTail
  <2>4. Within(buffer, 0 + x + y, Tail(e))
    BY <1>1, <2>1, <2>2, WithinTail
  <2>5. 1 + x + y + z = Len(e)
    BY <1>3, <1>5
  <2>6. \A a, b, c \in Nat, k \in Nat : 1 + a + b + c = k => 0 + a + b + c = k - 1
    OBVIOUS
  <2>7. 0 + x + y + z = l
    BY <1>1, <2>5, <2>6
  <2> QED BY <2>3, <2>4, <2>7
<1>6. \A i \in 1..Len(new) : new[i].kind # "read"
  BY DEF HasRead
<1> QED BY <1>2, <1>4, <1>5, <1>6 DEF LineOK, x, y, z, l

LEMMA WritesOfTail ==
  ASSUME NEW p \in Seq(Batches), p # <<>>
  PROVE  /\ WritesOf(p) # <<>> /\ WritesOf(p)[1] = p[1].write
         /\ Tail(WritesOf(p)) = WritesOf(Tail(p))
<1> DEFINE e == WritesOf(p)
           d == WritesOf(Tail(p))
<1>1. /\ Tail(p) \in Seq(Batches) /\ Len(p) \in Nat \ {0}
      /\ Len(Tail(p)) = Len(p) - 1 /\ 1 \in 1..Len(p)
      /\ \A i \in 1..Len(Tail(p)) : i + 1 \in 1..Len(p) /\ Tail(p)[i] = p[i + 1]
  BY TailIndices
<1>2. /\ e \in Seq(Writes) /\ Len(e) = Len(p) /\ e # <<>>
      /\ \A i \in 1..Len(p) : e[i] = p[i].write
  BY WritesOfProperties
<1>3. /\ d \in Seq(Writes) /\ Len(d) = Len(Tail(p))
      /\ \A i \in 1..Len(Tail(p)) : d[i] = Tail(p)[i].write
  BY <1>1, WritesOfProperties
<1> HIDE DEF e, d
<1>4. /\ Tail(e) \in Seq(Writes) /\ Len(Tail(e)) = Len(e) - 1
      /\ \A i \in 1..Len(Tail(e)) : Tail(e)[i] = e[i + 1]
  BY <1>2, TailIndices
<1>5. Len(Tail(e)) = Len(d) /\ \A i \in 1..Len(Tail(e)) : Tail(e)[i] = d[i]
  BY <1>1, <1>2, <1>3, <1>4
<1>6. Tail(e) = d
  BY <1>3, <1>4, <1>5, SeqEqual
<1> QED BY <1>1, <1>2, <1>6 DEF e, d

(* The state in which an answer is handled.                                *)
Waiting(r) == [r EXCEPT !.reading = TRUE]

SameButReading(r, v) ==
    /\ SameStore(r, v)
    /\ v.asked = r.asked /\ v.pipeline = r.pipeline
    /\ v.state = r.state /\ v.handshake = r.handshake /\ v.idle = r.idle
    /\ v.call = r.call /\ v.tokenOf = r.tokenOf /\ v.buffer = r.buffer
    /\ v.blocks = r.blocks /\ v.reading = TRUE

LEMMA WaitingFields ==
  ASSUME NEW r \in Sdk
  PROVE  Waiting(r) \in Sdk /\ SameButReading(r, Waiting(r))
<1> DEFINE v == Waiting(r)
<1>1. v = [r EXCEPT !.reading = TRUE]
  BY DEF Waiting
<1>2. v \in Sdk
  BY <1>1 DEF Sdk
<1>3. SameStore(r, v)
  BY <1>1 DEF SameStore, Sdk
<1>4. /\ v.asked = r.asked /\ v.pipeline = r.pipeline
      /\ v.state = r.state /\ v.handshake = r.handshake /\ v.idle = r.idle
  BY <1>1 DEF Sdk
<1>5. /\ v.call = r.call /\ v.tokenOf = r.tokenOf /\ v.buffer = r.buffer
      /\ v.blocks = r.blocks /\ v.reading = TRUE
  BY <1>1 DEF Sdk
<1> HIDE DEF v
<1> QED BY <1>2, <1>3, <1>4, <1>5 DEF v, SameButReading

LEMMA ReadFirst ==
  ASSUME IInv, RunRead
  PROVE  LET e == Expected(sdk.handshake, sdk.pipeline)
             v == Waiting(Rest)
         IN  /\ Core(v, committed, made) /\ SameButReading(Rest, v)
             /\ SameButBlocks(sdk, Rest)
             /\ sdk.call = "open" /\ sdk.state = "open" /\ sdk.enabled
             /\ TokensOK(v.asked, v.blocks, v.state)
             /\ CallOK(v.call, v.reading, v.blocks, v.buffer, server)
             /\ AnswersOK(v.blocks, server, committed)
             /\ e \in Seq(Requests) /\ e # <<>>
             /\ e[1] \in committed \cup {Handshake}
             /\ LineOK(v.blocks, v.buffer, server, Tail(e))
             /\ Reads(sdk.blocks) = 1 /\ Reads(v.blocks) = 0
<1> DEFINE e == Expected(sdk.handshake, sdk.pipeline)
           r == Rest
           v == Waiting(r)
<1>1. sdk.blocks # <<>> /\ Head(sdk.blocks).kind = "read"
  BY DEF RunRead, Next1
<1>2. /\ r \in Sdk /\ SameButBlocks(sdk, r)
      /\ Head(sdk.blocks) = sdk.blocks[1] /\ 1 \in 1..Len(sdk.blocks)
      /\ Len(sdk.blocks) \in Nat
      /\ Len(r.blocks) = Len(sdk.blocks) - 1
      /\ \A i \in 1..Len(r.blocks) :
            i + 1 \in 1..Len(sdk.blocks) /\ r.blocks[i] = sdk.blocks[i + 1]
  BY <1>1, RestFields
<1>3. Core(r, committed, made) /\ TokensOK(sdk.asked, r.blocks, sdk.state)
  BY <1>1, RestCore, InvParts DEF Link
<1> HIDE DEF r
<1>4. v \in Sdk /\ SameButReading(r, v)
  BY <1>2, WaitingFields
<1> HIDE DEF v
<1>5. Core(v, committed, made)
  BY <1>3, <1>4 DEF Core, SameButReading, SameStore
<1>6. CallOK(sdk.call, sdk.reading, sdk.blocks, sdk.buffer, server)
  BY InvParts DEF Link
<1>7. sdk.blocks[1].kind = "read"
  BY <1>1, <1>2
<1>8. sdk.call = "open" /\ sdk.state = "open" /\ sdk.enabled
  BY <1>2, <1>6, <1>7, InvParts DEF CallOK, Link, StreamOK
<1>9. \A i \in 1..Len(r.blocks) : r.blocks[i].kind # "read"
  <2> SUFFICES ASSUME NEW i \in 1..Len(r.blocks), r.blocks[i].kind = "read"
               PROVE  FALSE
    OBVIOUS
  <2>1. i + 1 \in 1..Len(sdk.blocks) /\ sdk.blocks[i + 1].kind = "read"
    BY <1>2
  <2>2. i + 1 = 1
    BY <1>2, <1>6, <1>7, <2>1 DEF CallOK
  <2>3. i \in Nat /\ i >= 1
    BY <1>2
  <2> QED BY <2>2, <2>3
<1>10. v.blocks = r.blocks /\ v.buffer = sdk.buffer /\ v.call = "open" /\ v.asked = sdk.asked
       /\ v.state = sdk.state
  BY <1>2, <1>4, <1>8 DEF SameButReading, SameButBlocks
<1>11. CallOK(v.call, v.reading, v.blocks, v.buffer, server)
  <2>1. server.status # "open" => server.wire = <<>>
    BY <1>6 DEF CallOK
  <2>2. \A i \in 1..Len(r.blocks) :
          /\ r.blocks[i].kind # "read"
          /\ r.blocks[i].kind = "failed" => server.status # "open"
          /\ r.blocks[i].kind # "finished"
    BY <1>2, <1>6, <1>8, <1>9 DEF CallOK
  <2> QED BY <1>10, <2>1, <2>2 DEF CallOK
<1>12. AnswersOK(v.blocks, server, committed)
       /\ sdk.blocks[1].answer \in committed \cup {Handshake}
  BY <1>2, <1>7, <1>9, <1>10, InvParts DEF Link, AnswersOK
<1>13. LineOK(sdk.blocks, sdk.buffer, server, e)
  BY <1>8, InvParts DEF Link
<1>14. e \in Seq(Requests)
  <2>1. CASE ~sdk.handshake
    BY <2>1 DEF Expected, Requests
  <2>2. CASE sdk.handshake
    BY <2>2, InvParts, WritesOfProperties
  <2> QED BY <2>1, <2>2
<1> HIDE DEF e
<1>15. Len(e) >= 1 /\ sdk.blocks[1].answer = e[1]
  BY <1>2, <1>7, <1>13 DEF LineOK
<1>16. e # <<>> /\ e[1] \in committed \cup {Handshake}
  BY <1>12, <1>14, <1>15, EmptySeq
<1>17. HasRead(sdk.blocks) /\ ~HasRead(v.blocks)
  BY <1>2, <1>7, <1>9, <1>10 DEF HasRead
<1>18. LineOK(v.blocks, sdk.buffer, server, Tail(e))
  BY <1>13, <1>14, <1>16, <1>17, InvParts, LineShift
<1>19. Reads(sdk.blocks) = 1 /\ Reads(v.blocks) = 0
  BY <1>17 DEF Reads
<1> QED BY <1>2, <1>3, <1>4, <1>5, <1>8, <1>10, <1>11, <1>12, <1>14, <1>16, <1>18, <1>19
        DEF r, v, e

(* The first answer is to the handshake: what waits in the pipeline is     *)
(* sent.                                                                   *)
LEMMA ReadHandshakeInv ==
  ASSUME IInv, RunRead, ~sdk.handshake,
         NEW v, v = Waiting(Rest), Become(OnWriteStreamHandshakeComplete([v EXCEPT !.handshake = TRUE]))
  PROVE  IInv' /\ SameQueues(sdk, sdk') /\ Left(sdk', server') = 0
<1> DEFINE p == sdk.pipeline
           h == [v EXCEPT !.handshake = TRUE]
           b == v.buffer \o WritesOf(p)
           t == [h EXCEPT !.idle = FALSE, !.buffer = b]
           e == Expected(sdk.handshake, p)
<1>1. /\ Core(v, committed, made) /\ SameButReading(Rest, v)
      /\ SameButBlocks(sdk, Rest)
      /\ sdk.call = "open" /\ sdk.state = "open" /\ sdk.enabled
      /\ TokensOK(v.asked, v.blocks, v.state)
      /\ CallOK(v.call, v.reading, v.blocks, v.buffer, server)
      /\ AnswersOK(v.blocks, server, committed)
      /\ LineOK(v.blocks, v.buffer, server, Tail(e))
      /\ Reads(v.blocks) = 0
  BY ReadFirst
<1>2. v \in Sdk /\ v.sound
  BY <1>1 DEF Core
<1>3. /\ v.queue = sdk.queue /\ v.user = sdk.user /\ v.enabled = sdk.enabled
      /\ v.pipeline = p /\ v.state = "open" /\ v.call = "open"
      /\ v.tokenOf = sdk.tokenOf /\ v.handshake = sdk.handshake
  BY <1>1 DEF SameButReading, SameButBlocks, SameStore
<1>4. p \in Seq(Batches) /\ p # <<>> /\ v.buffer \in Seq(Requests)
  <2>1. StreamOK(sdk.state, sdk.handshake, sdk.idle, sdk.call, sdk.pipeline)
    BY InvParts DEF Link
  <2> QED BY <1>1, <1>2, <2>1, InvParts DEF StreamOK, Sdk
<1>5. /\ WritesOf(p) \in Seq(Requests) /\ WritesOf(p) # <<>>
      /\ Expected(TRUE, p) = WritesOf(p)
  BY <1>4, WritesOfProperties
<1>6. b \in Seq(Requests)
  BY <1>4, <1>5
<1> HIDE DEF p, b
<1>7. h \in Sdk /\ h.sound /\ h.handshake = TRUE /\ h.state = "open"
      /\ h.call = "open" /\ h.pipeline = p /\ h.buffer = v.buffer
  BY <1>2, <1>3 DEF Sdk
<1>8. OnWriteStreamHandshakeComplete(h) = t
  <2> HIDE DEF h
  <2>1. HardAssert(h, p = <<>> \/ h.handshake) = h
    BY <1>7, HardAssertHolds
  <2>2. HardAssert(h, h.state = "open") = h
    BY <1>7, HardAssertHolds
  <2>3. OnWriteStreamHandshakeComplete(h) = Write(h, WritesOf(p))
    BY <1>7, <2>1 DEF OnWriteStreamHandshakeComplete, WriteMutations, WritesOf
  <2>4. Write(h, WritesOf(p))
           = [h EXCEPT !.idle = FALSE, !.buffer = h.buffer \o WritesOf(p)]
    BY <1>5, <1>7, <2>2 DEF Write, Sdk
  <2> QED BY <1>7, <2>3, <2>4 DEF b
<1>9. t \in Sdk
  BY <1>6, <1>7 DEF Sdk
<1>10. SameStore(v, t)
  BY <1>2 DEF SameStore, Sdk
<1>11. /\ t.asked = v.asked /\ t.pipeline = p
       /\ t.state = "open" /\ t.handshake = TRUE /\ ~t.idle
  BY <1>2, <1>3 DEF Sdk
<1>12. /\ t.call = "open" /\ t.tokenOf = v.tokenOf /\ t.buffer = b
       /\ t.blocks = v.blocks /\ t.reading = v.reading
  BY <1>2, <1>3 DEF Sdk
<1> HIDE DEF t, h
<1>13. Core(t, committed, made)
  BY <1>1, <1>9, <1>10, <1>11, <1>12 DEF Core, SameStore
<1>14. StreamOK(t.state, t.handshake, t.idle, t.call, t.pipeline)
  BY <1>11, <1>12 DEF StreamOK
<1>15. CallOK(t.call, t.reading, t.blocks, t.buffer, server)
  BY <1>1, <1>3, <1>12 DEF CallOK
<1>16. LineOK(t.blocks, t.buffer, server, Expected(t.handshake, t.pipeline))
  <2>1. Tail(e) = <<>>
    BY DEF Expected
  <2>2. <<>> \in Seq(Requests) /\ <<>> \o WritesOf(p) = WritesOf(p)
    BY <1>5
  <2>3. LineOK(v.blocks, v.buffer, server, <<>>)
    BY <1>1, <2>1
  <2>4. LineOK(v.blocks, v.buffer \o WritesOf(p), server, <<>> \o WritesOf(p))
    BY <1>4, <1>5, <2>2, <2>3, InvParts, LineGrows
  <2> QED BY <1>5, <1>11, <1>12, <2>2, <2>4 DEF b
<1>17. /\ PipeOK(t.pipeline, t.queue[t.user]) /\ t.tokenOf = t.user
       /\ TokensOK(t.asked, t.blocks, t.state)
  BY <1>1, <1>3, <1>10, <1>11, <1>12, InvParts DEF Link, SameStore, p
<1>18. Base(t, server, committed, made)
  BY <1>1, <1>12, <1>13, <1>14, <1>15, <1>16, <1>17 DEF Base, Link
<1>19. Settled(t)
  BY <1>1, <1>3, <1>10, <1>11 DEF Settled, SameStore, IsStarted
<1>20. Become(t)
  BY <1>8 DEF h
<1>21. SameQueues(sdk, t)
  BY <1>3, <1>10 DEF SameQueues, SameStore
<1>22. Left(sdk', server') = 0
  <2>1. Tail(e) = <<>>
    BY DEF Expected
  <2>2. 0 + Len(server.answers) <= Len(<<>>)
    BY <1>1, <2>1 DEF LineOK, Within
  <2>3. Len(server.answers) \in Nat
    BY InvParts, LenProperties DEF Servers
  <2>4. 0 + Len(server.answers) = 0
    BY <2>2, <2>3
  <2>5. t.call # "none"
    BY <1>12
  <2>6. sdk' = t /\ server' = server
    BY <1>20, <2>5 DEF Become
  <2> QED BY <1>1, <1>12, <2>4, <2>6 DEF Left
<1>23. IInv'
  BY <1>18, <1>19, <1>20, BecomeInv
<1> QED BY <1>20, <1>21, <1>22, <1>23 DEF Become

(* Every other answer is to the first write of the pipeline, which the     *)
(* backend has committed.                                                  *)
LEMMA ReadResultInv ==
  ASSUME IInv, RunRead, sdk.handshake,
         NEW v, v = Waiting(Rest), Become(OnWriteStreamMutationResult(v))
  PROVE  /\ IInv' /\ FirstLeft(sdk, sdk')
         /\ Left(sdk, server) = 1 + Left(sdk', server')
<1> DEFINE p == sdk.pipeline
           q == sdk.queue[sdk.user]
           x == [v EXCEPT !.pipeline = Tail(p)]
           y == HandleWriteResult(x, q[1].id, TRUE)
           t == FillWritePipeline(y)
           e == Expected(sdk.handshake, p)
<1>1. /\ Core(v, committed, made) /\ SameButReading(Rest, v)
      /\ SameButBlocks(sdk, Rest)
      /\ sdk.call = "open" /\ sdk.state = "open" /\ sdk.enabled
      /\ TokensOK(v.asked, v.blocks, v.state)
      /\ CallOK(v.call, v.reading, v.blocks, v.buffer, server)
      /\ AnswersOK(v.blocks, server, committed)
      /\ e \in Seq(Requests) /\ e # <<>>
      /\ e[1] \in committed \cup {Handshake}
      /\ LineOK(v.blocks, v.buffer, server, Tail(e))
      /\ Reads(sdk.blocks) = 1 /\ Reads(v.blocks) = 0
  BY ReadFirst
<1>2. v \in Sdk /\ v.sound
  BY <1>1 DEF Core
<1>3. /\ v.queue = sdk.queue /\ v.user = sdk.user /\ v.enabled = sdk.enabled
      /\ v.pipeline = p /\ v.state = "open" /\ v.call = "open"
      /\ v.tokenOf = sdk.tokenOf /\ v.handshake = TRUE /\ v.idle = sdk.idle
  BY <1>1, InvParts DEF SameButReading, SameButBlocks, SameStore, Sdk
<1>4. p \in Seq(Batches) /\ e = WritesOf(p) /\ p # <<>>
  <2>1. sdk.handshake = TRUE /\ p \in Seq(Batches)
    BY InvParts DEF Sdk
  <2>2. e = WritesOf(p)
    BY <2>1, WritesOfProperties
  <2> HIDE DEF e, p
  <2> QED BY <1>1, <2>1, <2>2, WritesOfProperties
<1>5. q \in Seq(Batches) /\ PipeOK(p, q)
  BY InvParts DEF Link
<1>6. /\ q # <<>> /\ Head(p) = q[1] /\ p[1] = q[1]
      /\ Tail(p) \in Seq(Batches) /\ PipeOK(Tail(p), Tail(q))
  <2> HIDE DEF p, q
  <2> QED BY <1>4, <1>5, TailPipe
<1>7. q[1].write \in committed
  <2>1. e[1] = p[1].write
    <3> HIDE DEF p, q, e
    <3> QED BY <1>4, WritesOfTail
  <2>2. p[1].write \in Writes
    <3>1. 1 \in 1..Len(p)
      <4> HIDE DEF p
      <4> QED BY <1>4, TailIndices
    <3>2. p[1] \in Batches
      BY <1>4, <3>1
    <3> QED BY <3>2 DEF Batches
  <2> QED BY <1>1, <1>6, <2>1, <2>2, HandshakeIsNoWrite
<1>8. Become(t)
  <2>1. HandleWriteResult([v EXCEPT !.pipeline = Tail(@)], Head(v.pipeline).id, TRUE) = y
    BY <1>3, <1>6
  <2> QED BY <1>3, <1>4, <2>1 DEF OnWriteStreamMutationResult
<1> HIDE DEF e
<1>9. Tail(e) = Expected(TRUE, Tail(p))
  <2> HIDE DEF p
  <2> QED BY <1>4, <1>6, WritesOfTail, WritesOfProperties
<1>10. x \in Sdk
  BY <1>2, <1>6 DEF Sdk
<1>11. SameStore(v, x)
  BY <1>2 DEF SameStore, Sdk
<1>12. /\ x.asked = v.asked /\ x.pipeline = Tail(p)
       /\ x.state = "open" /\ x.handshake = TRUE /\ x.idle = sdk.idle
  BY <1>2, <1>3 DEF Sdk
<1>13. /\ x.call = "open" /\ x.tokenOf = v.tokenOf /\ x.buffer = v.buffer
       /\ x.blocks = v.blocks /\ x.reading = v.reading
  BY <1>2, <1>3 DEF Sdk
<1> HIDE DEF x
<1>14. Core(x, committed, made)
  BY <1>1, <1>10, <1>11, <1>12, <1>13 DEF Core, SameStore
<1>15. x.queue[x.user] = q /\ x.enabled
  BY <1>1, <1>3, <1>11 DEF SameStore
<1>16. /\ Core(y, committed, made) /\ SameStream(x, y)
       /\ y.queue[y.user] = Tail(q)
       /\ y.queue = [x.queue EXCEPT ![x.user] = Tail(q)]
  <2>1. x.queue[x.user] # <<>> /\ x.queue[x.user][1].write \in committed /\ TRUE \in BOOLEAN
    BY <1>6, <1>7, <1>15
  <2> DEFINE z == HandleWriteResult(x, x.queue[x.user][1].id, TRUE)
  <2>2. /\ Core(z, committed, made) /\ SameStream(x, z)
        /\ z.queue[z.user] = Tail(x.queue[x.user])
        /\ z.queue = [x.queue EXCEPT ![x.user] = Tail(x.queue[x.user])]
    BY <1>14, <2>1, InvParts, ResultCore
  <2>3. z = y
    BY <1>15
  <2> HIDE DEF z, y, q
  <2> QED BY <1>15, <2>2, <2>3
<1> HIDE DEF y
<1>17. StreamOK(y.state, y.handshake, y.idle, y.call, y.pipeline)
  <2>1. StreamOK(sdk.state, sdk.handshake, sdk.idle, sdk.call, sdk.pipeline)
    BY InvParts DEF Link
  <2>2. ~sdk.idle
    BY <1>4, <2>1 DEF StreamOK
  <2> QED BY <1>12, <1>13, <1>16, <2>2 DEF StreamOK, SameStream
<1>18. CallOK(y.call, y.reading, y.blocks, y.buffer, server)
  BY <1>1, <1>3, <1>13, <1>16 DEF SameStream
<1>19. LineOK(y.blocks, y.buffer, server, Expected(y.handshake, y.pipeline))
  <2>1. y.blocks = v.blocks /\ y.buffer = v.buffer
    BY <1>13, <1>16 DEF SameStream
  <2>2. Expected(y.handshake, y.pipeline) = Tail(e)
    BY <1>9, <1>12, <1>16 DEF SameStream
  <2> QED BY <1>1, <2>1, <2>2
<1>20. /\ PipeOK(y.pipeline, y.queue[y.user]) /\ y.tokenOf = y.user
       /\ TokensOK(y.asked, y.blocks, y.state)
       /\ AnswersOK(y.blocks, server, committed)
  <2>1. sdk.tokenOf = sdk.user
    BY <1>1, InvParts DEF Link
  <2> QED BY <1>1, <1>3, <1>6, <1>11, <1>12, <1>13, <1>16, <2>1 DEF SameStream, SameStore
<1>21. Base(y, server, committed, made) /\ y.enabled
  BY <1>15, <1>16, <1>17, <1>18, <1>19, <1>20 DEF Base, Link, SameStream
<1>22. /\ Base(t, server, committed, made) /\ SameLink(y, t)
       /\ t.pipeline # <<>> => IsStarted(t)
  BY <1>21, InvParts, FillBase
<1> HIDE DEF t
<1>23. Settled(t)
  BY <1>12, <1>16, <1>21, <1>22 DEF Settled, SameLink, SameStore, SameStream
<1>24. FirstLeft(sdk, t)
  <2>1. t.user = sdk.user /\ t.queue = [sdk.queue EXCEPT ![sdk.user] = Tail(q)]
    BY <1>3, <1>11, <1>16, <1>22 DEF SameLink, SameStore, SameStream
  <2> QED BY <1>6, <2>1 DEF FirstLeft
<1>25. t.call = "open" /\ t.handshake = TRUE
  BY <1>12, <1>13, <1>16, <1>22 DEF SameLink, SameStream
<1>26. Reads(t.blocks) = 0
  BY <1>1, <1>13, <1>16, <1>22 DEF SameStream, SameLink
<1>27. sdk' = t /\ server' = server
  BY <1>8, <1>25 DEF Become
<1>28. Left(sdk, server) = 1 + Left(sdk', server')
  <2>1. Left(sdk, server) = 1 + Len(server.answers)
    BY <1>1, <1>3, InvParts DEF Left
  <2>2. Left(sdk', server') = 0 + Len(server.answers)
    BY <1>25, <1>26, <1>27 DEF Left
  <2>3. Len(server.answers) \in Nat
    BY InvParts, LenProperties DEF Servers
  <2> QED BY <2>1, <2>2, <2>3
<1>29. IInv'
  BY <1>8, <1>22, <1>23, BecomeInv
<1> QED BY <1>24, <1>27, <1>28, <1>29

LEMMA RunReadInv ==
  ASSUME IInv, RunRead
  PROVE  /\ IInv'
         /\ \/ SameQueues(sdk, sdk') /\ Left(sdk', server') = 0
            \/ FirstLeft(sdk, sdk') /\ Left(sdk, server) = 1 + Left(sdk', server')
<1> DEFINE v == Waiting(Rest)
<1>1. Become(OnStreamRead(Rest))
  BY DEF RunRead
<1>2. /\ Core(v, committed, made) /\ SameButReading(Rest, v)
      /\ SameButBlocks(sdk, Rest) /\ sdk.state = "open"
  BY ReadFirst
<1>3. v \in Sdk /\ v.sound /\ Rest.state = "open" /\ Rest.handshake = sdk.handshake
  BY <1>2 DEF Core, SameButReading, SameButBlocks
<1>4. IsStarted(Rest)
  BY <1>3 DEF IsStarted
<1>5. HardAssert(v, IsStarted(Rest)) = v
  BY <1>3, <1>4, HardAssertHolds
<1>6. HardAssert([Rest EXCEPT !.reading = TRUE], IsStarted(Rest)) = v
  BY <1>5 DEF Waiting
<1>7. OnStreamRead(Rest) = IF ~sdk.handshake
                           THEN OnWriteStreamHandshakeComplete([v EXCEPT !.handshake = TRUE])
                           ELSE OnWriteStreamMutationResult(v)
  BY <1>3, <1>6 DEF OnStreamRead
<1>8. CASE ~sdk.handshake
  BY <1>1, <1>7, <1>8, ReadHandshakeInv
<1>9. CASE sdk.handshake
  BY <1>1, <1>7, <1>9, ReadResultInv
<1> QED BY <1>8, <1>9

-----------------------------------------------------------------------------
(***************************************************************************)
(* Other threads: the app and Auth.                                        *)
(***************************************************************************)
(* What a block that comes from outside the call leaves alone.             *)
SameLine(s, t) ==
    /\ t.queue = s.queue /\ t.user = s.user /\ t.pipeline = s.pipeline
    /\ t.state = s.state /\ t.handshake = s.handshake /\ t.idle = s.idle
    /\ t.call = s.call /\ t.tokenOf = s.tokenOf /\ t.reading = s.reading
    /\ t.buffer = s.buffer /\ t.enabled = s.enabled

LEMMA AppendLink ==
  ASSUME NEW s \in Sdk, NEW sv, NEW done, Link(s, sv, done), NEW b \in Blocks,
         b.kind \notin OfCall, NEW t, SameLine(s, t), t.blocks = Append(s.blocks, b),
         TokensOK(t.asked, t.blocks, t.state)
  PROVE  Link(t, sv, done)
<1>1. s.blocks \in Seq(Blocks)
  BY DEF Sdk
<1>2. /\ Len(s.blocks) \in Nat /\ Len(t.blocks) = Len(s.blocks) + 1
      /\ \A i \in 1..Len(s.blocks) : i \in 1..Len(t.blocks) /\ t.blocks[i] = s.blocks[i]
      /\ \A i \in 1..Len(t.blocks) : t.blocks[i].kind \in OfCall =>
            i \in 1..Len(s.blocks) /\ t.blocks[i] = s.blocks[i]
  <2>1. /\ Len(s.blocks) \in Nat /\ Len(t.blocks) = Len(s.blocks) + 1
        /\ \A i \in 1..Len(s.blocks) : t.blocks[i] = s.blocks[i]
        /\ t.blocks[Len(s.blocks) + 1] = b
        /\ \A i \in 1..Len(t.blocks) : i \in 1..Len(s.blocks) \/ i = Len(s.blocks) + 1
    BY <1>1, AppendIndices
  <2>2. \A i \in 1..Len(s.blocks) : i \in 1..Len(t.blocks)
    BY <2>1
  <2> QED BY <2>1, <2>2
<1>3. /\ "read" \in OfCall /\ "failed" \in OfCall /\ "finished" \in OfCall
  BY DEF OfCall
<1>4. CallOK(t.call, t.reading, t.blocks, t.buffer, sv)
  <2>1. CallOK(s.call, s.reading, s.blocks, s.buffer, sv)
    BY DEF Link
  <2>2. s.call = "none" => Quiet(t.blocks)
    BY <1>2, <2>1 DEF CallOK, Quiet
  <2>3. \A i \in 1..Len(t.blocks) :
          /\ t.blocks[i].kind = "read" => s.call = "open" /\ ~s.reading
          /\ t.blocks[i].kind = "failed" => s.call = "open" /\ sv.status # "open"
          /\ t.blocks[i].kind = "finished" => s.call = "finishing"
    BY <1>2, <1>3, <2>1 DEF CallOK
  <2>4. \A i, j \in 1..Len(t.blocks) :
           t.blocks[i].kind = "read" /\ t.blocks[j].kind = "read" => i = j
    BY <1>2, <1>3, <2>1 DEF CallOK
  <2> QED BY <2>1, <2>2, <2>3, <2>4 DEF CallOK, SameLine
<1>5. Reads(t.blocks) = Reads(s.blocks)
  <2>1. HasRead(t.blocks) <=> HasRead(s.blocks)
    BY <1>2, <1>3 DEF HasRead
  <2> QED BY <2>1 DEF Reads
<1>6. ASSUME t.call = "open"
      PROVE  LineOK(t.blocks, t.buffer, sv, Expected(t.handshake, t.pipeline))
  <2> DEFINE e == Expected(s.handshake, s.pipeline)
  <2>1. LineOK(s.blocks, s.buffer, sv, e) /\ Expected(t.handshake, t.pipeline) = e
    BY <1>6 DEF Link, SameLine
  <2> HIDE DEF e
  <2>2. LineOK(t.blocks, s.buffer, sv, e)
    BY <1>2, <1>3, <1>5, <2>1 DEF LineOK
  <2> QED BY <2>1, <2>2 DEF SameLine
<1>7. AnswersOK(t.blocks, sv, done)
  BY <1>2, <1>3 DEF Link, AnswersOK
<1> QED BY <1>4, <1>6, <1>7 DEF Link, SameLine

LEMMA SettledSame ==
  ASSUME NEW s, NEW t, Settled(s), SameLine(s, t)
  PROVE  Settled(t)
BY DEF Settled, SameLine, IsStarted

(* A new write is the newest one, and for the user who is signed in.       *)
LEMMA MakeWriteInv == ASSUME IInv, MakeWrite PROVE IInv'
<1> DEFINE w == [by |-> sdk.notified, n |-> made + 1]
           b == [kind |-> "write", write |-> w]
           new == Append(sdk.blocks, b)
           t == [sdk EXCEPT !.blocks = new]
<1>1. /\ made < MaxWrites /\ made' = made + 1 /\ sdk' = t
      /\ server' = server /\ committed' = committed /\ refused' = refused
      /\ faults' = faults
  BY DEF MakeWrite, AddBlock
<1>2. made \in 0..MaxWrites /\ MaxWrites \in Nat /\ made + 1 \in 1..MaxWrites
  BY <1>1, BoundsAssumption DEF IInv
<1>3. w \in Writes
  BY <1>2, InvParts DEF Writes
<1>4. w.by = sdk.notified /\ w.n = made + 1
  OBVIOUS
<1> HIDE DEF w
<1>5. b \in Blocks /\ b.kind = "write" /\ b.write = w /\ ~LiveToken(b) /\ b.kind \notin OfCall
  BY <1>3 DEF Blocks, LiveToken, OfCall
<1> HIDE DEF b
<1>6. /\ new \in Seq(Blocks) /\ Len(sdk.blocks) \in Nat
      /\ Len(new) = Len(sdk.blocks) + 1
      /\ \A i \in 1..Len(sdk.blocks) : new[i] = sdk.blocks[i]
      /\ new[Len(sdk.blocks) + 1] = b
      /\ \A i \in 1..Len(new) : i \in 1..Len(sdk.blocks) \/ i = Len(sdk.blocks) + 1
  BY <1>5, InvParts, AppendIndices
<1>7. StampsOK(new, sdk.user, sdk.notified, sdk.asked)
  <2>1. /\ StampsOK(sdk.blocks, sdk.user, sdk.notified, sdk.asked)
        /\ \A r \in sdk.asked : r.current => r.user = sdk.notified
    BY InvParts DEF Core, StampsOK
  <2> QED BY <1>4, <1>5, <2>1, InvParts, AppendStamps
<1>8. TokensOK(sdk.asked, new, sdk.state)
  BY <1>5, InvParts, AppendTokens DEF Link
<1> HIDE DEF new
<1>9. AheadOK(new, sdk.queue, committed, made + 1)
  <2>1. AheadOK(sdk.blocks, sdk.queue, committed, made)
    BY InvParts DEF Core
  <2>2. ASSUME NEW x \in Nat, x <= made PROVE x <= made + 1 /\ x < made + 1
    BY <1>2, <2>2
  <2>3. \A a \in Accounts : \A j \in 1..Len(sdk.queue[a]) : sdk.queue[a][j].write.n \in Nat
    <3> SUFFICES ASSUME NEW a \in Accounts, NEW j \in 1..Len(sdk.queue[a])
                 PROVE  sdk.queue[a][j].write.n \in Nat
      OBVIOUS
    <3>1. sdk.queue[a][j] \in Batches
      BY InvParts
    <3> QED BY <3>1 DEF Batches, Writes
  <2>4. \A d \in committed : d.n \in Nat
    BY InvParts DEF Writes
  <2>5. \A a \in Accounts : \A j \in 1..Len(sdk.queue[a]) :
           sdk.queue[a][j].write.n <= made + 1 /\ sdk.queue[a][j].write.n < made + 1
    BY <2>1, <2>2, <2>3 DEF AheadOK
  <2>6. \A d \in committed : d.n <= made + 1 /\ d.n < made + 1
    BY <2>1, <2>2, <2>4 DEF AheadOK
  <2>7. \A i \in 1..Len(sdk.blocks) : sdk.blocks[i].kind = "write" =>
            sdk.blocks[i].write.n <= made + 1 /\ sdk.blocks[i].write.n < made + 1
    <3> SUFFICES ASSUME NEW i \in 1..Len(sdk.blocks), sdk.blocks[i].kind = "write"
                 PROVE  sdk.blocks[i].write.n <= made + 1 /\ sdk.blocks[i].write.n < made + 1
      OBVIOUS
    <3>1. sdk.blocks[i] \in Blocks
      BY InvParts
    <3>2. sdk.blocks[i].write \in Writes
      BY <3>1 DEF Blocks, Failed
    <3>3. sdk.blocks[i].write.n \in Nat
      BY <3>2 DEF Writes
    <3> QED BY <2>1, <2>2, <3>3 DEF AheadOK
  <2>8. ASSUME NEW i \in 1..Len(new), new[i].kind = "write"
        PROVE  /\ new[i].write.n <= made + 1
               /\ \A a \in Accounts : \A j \in 1..Len(sdk.queue[a]) :
                     sdk.queue[a][j].write.n < new[i].write.n
               /\ \A d \in committed : d.n < new[i].write.n
               /\ \A j \in 1..Len(new) : i < j /\ new[j].kind = "write" =>
                     new[i].write.n < new[j].write.n
    <3>1. CASE i \in 1..Len(sdk.blocks)
      <4>1. new[i] = sdk.blocks[i] /\ sdk.blocks[i].kind = "write"
        BY <1>6, <2>8, <3>1
      <4>2. \A j \in 1..Len(new) : i < j /\ new[j].kind = "write" =>
                     new[i].write.n < new[j].write.n
        <5> SUFFICES ASSUME NEW j \in 1..Len(new), i < j, new[j].kind = "write"
                     PROVE  new[i].write.n < new[j].write.n
          OBVIOUS
        <5>1. CASE j \in 1..Len(sdk.blocks)
          <6>1. new[j] = sdk.blocks[j]
            BY <1>6, <5>1
          <6> QED BY <2>1, <3>1, <4>1, <5>1, <6>1 DEF AheadOK
        <5>2. CASE j = Len(sdk.blocks) + 1
          BY <1>4, <1>5, <1>6, <2>7, <3>1, <4>1, <5>2
        <5> QED BY <1>6, <5>1, <5>2
      <4> QED BY <2>1, <2>7, <3>1, <4>1, <4>2 DEF AheadOK
    <3>2. CASE i = Len(sdk.blocks) + 1
      <4>1. new[i].write.n = made + 1
        BY <1>4, <1>5, <1>6, <3>2
      <4>2. made + 1 <= made + 1
        BY <1>2
      <4>3. \A j \in 1..Len(new) : ~(i < j)
        BY <1>6, <3>2
      <4> QED BY <2>5, <2>6, <4>1, <4>2, <4>3
    <3> QED BY <1>6, <3>1, <3>2
  <2> QED BY <2>5, <2>6, <2>8 DEF AheadOK
<1>10. t \in Sdk /\ SameButBlocks(sdk, t) /\ t.blocks = new
  BY <1>6, InvParts, BlocksFields
<1> HIDE DEF t
<1>11. Core(t, committed, made + 1)
  BY <1>7, <1>9, <1>10, InvParts DEF Core, SameButBlocks, SameStore
<1>12. SameLine(sdk, t)
  BY <1>10 DEF SameLine, SameButBlocks, SameStore
<1>13. Link(t, server, committed)
  <2>1. TokensOK(t.asked, t.blocks, t.state)
    BY <1>8, <1>10 DEF SameButBlocks
  <2>2. t.blocks = Append(sdk.blocks, b)
    BY <1>10 DEF new
  <2> QED BY <1>5, <1>12, <2>1, <2>2, InvParts, AppendLink
<1>14. Settled(t)
  BY <1>12, InvParts, SettledSame
<1>15. made' \in 0..MaxWrites
  BY <1>1, <1>2
<1> QED BY <1>1, <1>11, <1>13, <1>14, <1>15 DEF IInv, Base

(* The two faces of a token: a request under way, a block of the queue.    *)
LEMMA GivenTokens ==
  ASSUME NEW asked \in SUBSET Requesting, NEW blocks \in Seq(Blocks), NEW state,
         TokensOK(asked, blocks, state), NEW r \in asked, NEW b \in Blocks,
         b.kind = "token", b.live = r.live
  PROVE  TokensOK(asked \ {r}, Append(blocks, b), state)
<1> DEFINE new == Append(blocks, b)
           n == Len(blocks)
<1>1. /\ n \in Nat /\ Len(new) = n + 1
      /\ \A i \in 1..Len(new) : \/ i \in 1..n /\ new[i] = blocks[i]
                                \/ i = n + 1 /\ new[i] = b
  BY AppendIndices
<1>2. LiveToken(b) <=> r.live
  BY DEF LiveToken
<1> HIDE DEF new, n
<1>3. /\ \A q \in asked : q.live => state = "starting"
      /\ \A i \in 1..n : LiveToken(blocks[i]) => state = "starting"
      /\ \A q1, q2 \in asked : q1.live /\ q2.live => q1 = q2
      /\ \A i, j \in 1..n : LiveToken(blocks[i]) /\ LiveToken(blocks[j]) => i = j
      /\ \A q \in asked : \A i \in 1..n : ~(q.live /\ LiveToken(blocks[i]))
  BY DEF TokensOK, n
<1>4. \A i \in 1..Len(new) : LiveToken(new[i]) => state = "starting"
  BY <1>1, <1>2, <1>3
<1>5. \A i, j \in 1..Len(new) : LiveToken(new[i]) /\ LiveToken(new[j]) => i = j
  BY <1>1, <1>2, <1>3
<1>6. \A q \in asked \ {r} : \A i \in 1..Len(new) : ~(q.live /\ LiveToken(new[i]))
  BY <1>1, <1>2, <1>3
<1> QED BY <1>3, <1>4, <1>5, <1>6 DEF TokensOK, new

LEMMA AskedAgain ==
  ASSUME NEW asked \in SUBSET Requesting, NEW blocks, NEW state,
         TokensOK(asked, blocks, state), NEW r \in asked, NEW x, x.live = r.live
  PROVE  TokensOK((asked \ {r}) \cup {x}, blocks, state)
BY DEF TokensOK

LEMMA AnswerTokenInv ==
  ASSUME IInv, NEW r \in sdk.asked, NEW ok \in BOOLEAN, AnswerToken(r, ok),
         faults' \in 0..MaxFaults
  PROVE  IInv'
<1> DEFINE b == [kind |-> "token", user |-> r.user, ok |-> ok, live |-> r.live]
           x == [r EXCEPT !.user = sdk.notified, !.current = TRUE]
           less == sdk.asked \ {r}
           asked == IF r.current THEN less ELSE less \cup {x}
           blocks == IF r.current THEN Append(sdk.blocks, b) ELSE sdk.blocks
           t == [sdk EXCEPT !.asked = asked, !.blocks = blocks]
<1>1. /\ server' = server /\ committed' = committed /\ refused' = refused
      /\ made' = made
  BY DEF AnswerToken
<1>2. sdk' = t
  <2>1. sdk' = IF r.current
               THEN [[sdk EXCEPT !.asked = less] EXCEPT !.blocks = Append(sdk.blocks, b)]
               ELSE [[sdk EXCEPT !.asked = less] EXCEPT !.asked = less \cup {x}]
    BY InvParts DEF AnswerToken, Sdk
  <2>2. CASE r.current
    BY <2>1, <2>2, InvParts DEF Sdk
  <2>3. CASE ~r.current
    BY <2>1, <2>3, InvParts DEF Sdk
  <2> QED BY <2>2, <2>3
<1>3. /\ r \in Requesting /\ r.user \in Accounts /\ r.live \in BOOLEAN /\ r.current \in BOOLEAN
  BY InvParts DEF Requesting
<1>4. b \in Blocks /\ b.kind = "token" /\ b.user = r.user /\ b.live = r.live
      /\ b.kind \notin OfCall
  BY <1>3 DEF Blocks, OfCall
<1>5. x \in Requesting /\ x.user = sdk.notified /\ x.live = r.live
  BY <1>3, InvParts DEF Requesting
<1> HIDE DEF x, b
<1>6. asked \in SUBSET Requesting /\ blocks \in Seq(Blocks)
  BY <1>4, <1>5, InvParts, AppendIndices
<1>7. /\ StampsOK(sdk.blocks, sdk.user, sdk.notified, sdk.asked)
      /\ \A q \in sdk.asked : q.current => q.user = sdk.notified
  BY InvParts DEF Core, StampsOK
<1>8. StampsOK(blocks, sdk.user, sdk.notified, asked)
  <2>1. CASE r.current
    <3>1. b.user = sdk.notified
      BY <1>4, <1>7, <2>1
    <3>2. \A q \in less : q.current => q.user = sdk.notified
      BY <1>7
    <3>3. StampsOK(Append(sdk.blocks, b), sdk.user, sdk.notified, less)
      BY <1>4, <1>7, <3>1, <3>2, InvParts, AppendStamps
    <3> QED BY <2>1, <3>3
  <2>2. CASE ~r.current
    <3>1. \A q \in asked : q.current => q.user = sdk.notified
      BY <1>5, <1>7
    <3> HIDE DEF asked
    <3> QED BY <1>7, <2>2, <3>1 DEF StampsOK
  <2> QED BY <2>1, <2>2
<1>9. TokensOK(asked, blocks, sdk.state)
  <2>1. TokensOK(sdk.asked, sdk.blocks, sdk.state)
    BY InvParts DEF Link
  <2>2. CASE r.current
    BY <1>4, <2>1, <2>2, InvParts, GivenTokens
  <2>3. CASE ~r.current
    BY <1>5, <2>1, <2>3, InvParts, AskedAgain
  <2> QED BY <2>2, <2>3
<1>10. AheadOK(blocks, sdk.queue, committed, made)
  <2>1. AheadOK(sdk.blocks, sdk.queue, committed, made)
    BY InvParts DEF Core
  <2>2. CASE r.current
    BY <1>4, <2>1, <2>2, InvParts, AppendAhead
  <2> QED BY <2>1, <2>2
<1>11. blocks = sdk.blocks \/ blocks = Append(sdk.blocks, b)
  OBVIOUS
<1> HIDE DEF asked, blocks
<1>12. t \in Sdk
  BY <1>6, InvParts DEF Sdk, Requesting
<1>13. SameStore(sdk, t)
  BY InvParts DEF SameStore, Sdk
<1>14. t.asked = asked /\ t.blocks = blocks
  BY InvParts DEF Sdk
<1>15. SameLine(sdk, t)
  <2>1. /\ t.queue = sdk.queue /\ t.user = sdk.user /\ t.pipeline = sdk.pipeline
        /\ t.state = sdk.state /\ t.handshake = sdk.handshake /\ t.idle = sdk.idle
    BY InvParts DEF Sdk
  <2>2. /\ t.call = sdk.call /\ t.tokenOf = sdk.tokenOf /\ t.reading = sdk.reading
        /\ t.buffer = sdk.buffer /\ t.enabled = sdk.enabled
    BY InvParts DEF Sdk
  <2> QED BY <2>1, <2>2 DEF SameLine
<1> HIDE DEF t
<1>16. Core(t, committed, made)
  BY <1>8, <1>10, <1>12, <1>13, <1>14, InvParts DEF Core, SameStore
<1>17. TokensOK(t.asked, t.blocks, t.state)
  BY <1>9, <1>14, <1>15 DEF SameLine
<1>18. Link(t, server, committed)
  <2>1. CASE blocks = sdk.blocks
    BY <1>14, <1>15, <1>17, <2>1, InvParts DEF Link, SameLine
  <2>2. CASE blocks = Append(sdk.blocks, b)
    BY <1>4, <1>14, <1>15, <1>17, <2>2, InvParts, AppendLink
  <2> QED BY <1>11, <2>1, <2>2
<1>19. Settled(t)
  BY <1>15, InvParts, SettledSame
<1> QED BY <1>1, <1>2, <1>16, <1>18, <1>19 DEF IInv, Base

LEMMA GiveTokenInv == ASSUME IInv, GiveToken PROVE IInv'
<1>1. faults' \in 0..MaxFaults
  BY DEF GiveToken, IInv
<1>2. PICK r \in sdk.asked : AnswerToken(r, TRUE)
  BY DEF GiveToken
<1> QED BY <1>1, <1>2, AnswerTokenInv

LEMMA FaultBound == ASSUME IInv, NEW kind, Fault(kind) PROVE faults' \in 0..MaxFaults
<1>1. faults \in 0..MaxFaults /\ MaxFaults \in Nat
  BY BoundsAssumption DEF IInv
<1> QED BY <1>1 DEF Fault

LEMMA FailTokenInv == ASSUME IInv, FailToken PROVE IInv'
<1>1. faults' \in 0..MaxFaults
  BY FaultBound DEF FailToken
<1>2. PICK r \in sdk.asked : AnswerToken(r, FALSE)
  BY DEF FailToken
<1> QED BY <1>1, <1>2, AnswerTokenInv

(* Somebody signs in or out: tokens that were asked for before are asked   *)
(* for again.                                                              *)
LEMMA ChangeUserInv == ASSUME IInv, NEW u \in Accounts, ChangeUser(u) PROVE IInv'
<1> DEFINE b == [kind |-> "credential", user |-> u]
           asked == {[r EXCEPT !.current = FALSE] : r \in sdk.asked}
           blocks == Append(sdk.blocks, b)
           t == [sdk EXCEPT !.notified = u, !.asked = asked, !.blocks = blocks]
<1>1. /\ sdk' = t /\ server' = server /\ committed' = committed
      /\ refused' = refused /\ made' = made /\ faults' \in 0..MaxFaults
  BY FaultBound DEF ChangeUser
<1>2. b \in Blocks /\ b.kind = "credential" /\ b.user = u
      /\ b.kind \notin OfCall /\ ~LiveToken(b)
  BY DEF Blocks, OfCall, LiveToken
<1> HIDE DEF b
<1>3. blocks \in Seq(Blocks)
  BY <1>2, InvParts, AppendIndices
<1>4. /\ asked \in SUBSET Requesting
      /\ \A q \in asked : \E r \in sdk.asked :
            q = [r EXCEPT !.current = FALSE] /\ r \in Requesting
  BY InvParts DEF Requesting
<1>5. \A q \in asked : ~q.current /\ \E r \in sdk.asked :
            q = [r EXCEPT !.current = FALSE] /\ q.live = r.live
  BY <1>4 DEF Requesting
<1>6. StampsOK(blocks, sdk.user, u, asked)
  <2>1. StampsOK(sdk.blocks, sdk.user, sdk.notified, sdk.asked)
    BY InvParts DEF Core
  <2>2. \A q \in asked : q.current => q.user = u
    BY <1>5
  <2> HIDE DEF asked
  <2> QED BY <1>2, <2>1, <2>2, InvParts, AppendStamps
<1>7. TokensOK(asked, blocks, sdk.state)
  <2>1. TokensOK(sdk.asked, blocks, sdk.state)
    BY <1>2, InvParts, AppendTokens DEF Link
  <2> HIDE DEF asked, blocks
  <2>2. /\ \A r \in sdk.asked : r.live => sdk.state = "starting"
        /\ \A r1, r2 \in sdk.asked : r1.live /\ r2.live => r1 = r2
        /\ \A r \in sdk.asked : \A i \in 1..Len(blocks) :
              ~(r.live /\ LiveToken(blocks[i]))
    BY <2>1 DEF TokensOK
  <2>3. \A q \in asked : q.live => sdk.state = "starting"
    BY <1>5, <2>2
  <2>4. ASSUME NEW q1 \in asked, NEW q2 \in asked, q1.live, q2.live
        PROVE  q1 = q2
    <3>1. PICK r1 \in sdk.asked : q1 = [r1 EXCEPT !.current = FALSE] /\ q1.live = r1.live
      BY <1>5
    <3>2. PICK r2 \in sdk.asked : q2 = [r2 EXCEPT !.current = FALSE] /\ q2.live = r2.live
      BY <1>5
    <3>3. r1 = r2
      BY <2>2, <2>4, <3>1, <3>2
    <3> QED BY <3>1, <3>2, <3>3
  <2>5. \A q \in asked : \A i \in 1..Len(blocks) : ~(q.live /\ LiveToken(blocks[i]))
    BY <1>5, <2>2
  <2> QED BY <2>1, <2>3, <2>4, <2>5 DEF TokensOK
<1>8. AheadOK(blocks, sdk.queue, committed, made)
  BY <1>2, InvParts, AppendAhead DEF Core
<1> HIDE DEF asked
<1>9. t \in Sdk /\ t.notified = u /\ t.asked = asked /\ t.blocks = blocks
  <2> HIDE DEF blocks
  <2>1. t \in Sdk
    BY <1>3, <1>4, InvParts DEF Sdk, Requesting
  <2> QED BY <2>1, InvParts DEF Sdk
<1>10. SameLine(sdk, t)
  <2> HIDE DEF blocks
  <2>1. /\ t.queue = sdk.queue /\ t.user = sdk.user /\ t.pipeline = sdk.pipeline
        /\ t.state = sdk.state /\ t.handshake = sdk.handshake /\ t.idle = sdk.idle
    BY InvParts DEF Sdk
  <2>2. /\ t.call = sdk.call /\ t.tokenOf = sdk.tokenOf /\ t.reading = sdk.reading
        /\ t.buffer = sdk.buffer /\ t.enabled = sdk.enabled
    BY InvParts DEF Sdk
  <2> QED BY <2>1, <2>2 DEF SameLine
<1>11. t.sound = sdk.sound /\ t.nextId = sdk.nextId /\ t.callbacks = sdk.callbacks
       /\ t.told = sdk.told
  <2> HIDE DEF blocks
  <2> QED BY InvParts DEF Sdk
<1> HIDE DEF t
<1>12. Core(t, committed, made)
  <2> HIDE DEF blocks
  <2> QED BY <1>6, <1>8, <1>9, <1>10, <1>11, InvParts DEF Core, SameLine
<1>13. TokensOK(t.asked, t.blocks, t.state)
  BY <1>7, <1>9, <1>10 DEF SameLine
<1>14. Link(t, server, committed)
  BY <1>2, <1>9, <1>10, <1>13, InvParts, AppendLink
<1>15. Settled(t)
  BY <1>10, InvParts, SettledSame
<1> QED BY <1>1, <1>12, <1>14, <1>15 DEF IInv, Base

-----------------------------------------------------------------------------
(***************************************************************************)
(* The call and the backend.                                               *)
(***************************************************************************)
LEMMA WithinDrop ==
  ASSUME NEW e \in Seq(Requests), NEW k \in Nat, NEW x \in Seq(Requests), x # <<>>,
         Within(x, k, e)
  PROVE  /\ Within(Tail(x), k + 1, e)
         /\ k + 1 \in 1..Len(e) /\ Head(x) = e[k + 1]
<1>1. /\ Tail(x) \in Seq(Requests) /\ Len(x) \in Nat \ {0} /\ Len(Tail(x)) = Len(x) - 1
      /\ 1 \in 1..Len(x) /\ Head(x) = x[1]
      /\ \A i \in 1..Len(Tail(x)) : i + 1 \in 1..Len(x) /\ Tail(x)[i] = x[i + 1]
  BY TailIndices
<1>2. /\ Len(e) \in Nat /\ k + Len(x) <= Len(e)
      /\ \A i \in 1..Len(x) : x[i] = e[k + i]
  BY LenProperties DEF Within
<1>3. (k + 1) + Len(Tail(x)) <= Len(e)
  BY <1>1, <1>2
<1>4. ASSUME NEW i \in 1..Len(Tail(x))
      PROVE  Tail(x)[i] = e[(k + 1) + i]
  <2>1. k + (i + 1) = (k + 1) + i
    BY <1>1
  <2>2. Tail(x)[i] = e[k + (i + 1)]
    BY <1>1, <1>2
  <2> QED BY <2>1, <2>2
<1>5. k + 1 \in 1..Len(e)
  <2>1. \A p, q, r \in Nat : q # 0 /\ p + q <= r => p + 1 \in 1..r
    OBVIOUS
  <2> QED BY <1>1, <1>2, <2>1
<1>6. Head(x) = e[k + 1]
  BY <1>1, <1>2
<1> QED BY <1>3, <1>4, <1>5, <1>6 DEF Within

LEMMA WithinAppend ==
  ASSUME NEW e \in Seq(Requests), NEW k \in Nat, NEW x \in Seq(Requests),
         Within(x, k, e), NEW j \in 1..Len(e), j = k + Len(x) + 1
  PROVE  e[j] \in Requests /\ Within(Append(x, e[j]), k, e)
<1>1. e[j] \in Requests /\ Len(e) \in Nat
  BY LenProperties
<1>2. /\ Len(x) \in Nat
      /\ Len(Append(x, e[j])) = Len(x) + 1
      /\ \A i \in 1..Len(x) : Append(x, e[j])[i] = x[i]
      /\ Append(x, e[j])[Len(x) + 1] = e[j]
      /\ \A i \in 1..Len(Append(x, e[j])) : i \in 1..Len(x) \/ i = Len(x) + 1
  BY <1>1, AppendIndices
<1>3. \A i \in 1..Len(x) : x[i] = e[k + i]
  BY DEF Within
<1>4. k + (Len(x) + 1) = j /\ k + Len(Append(x, e[j])) <= Len(e)
  BY <1>1, <1>2
<1>5. \A i \in 1..Len(Append(x, e[j])) : Append(x, e[j])[i] = e[k + i]
  BY <1>2, <1>3, <1>4
<1> QED BY <1>1, <1>4, <1>5 DEF Within

(* Between call and server nothing is lost and nothing overtakes.          *)
LEMMA LineSends ==
  ASSUME NEW blocks, NEW buffer \in Seq(Requests), buffer # <<>>,
         NEW sv \in Servers, sv.status = "open", NEW e \in Seq(Requests),
         LineOK(blocks, buffer, sv, e),
         NEW new \in Servers, new.answers = sv.answers,
         new.wire = Append(sv.wire, Head(buffer))
  PROVE  LineOK(blocks, Tail(buffer), new, e)
<1> DEFINE a == Reads(blocks)
           w == a + Len(sv.answers)
           b == w + Len(sv.wire)
           l == Len(buffer)
           n == Len(Tail(buffer))
           x == Len(e)
           y == Len(new.wire)
<1>1. /\ a \in Nat /\ Len(sv.answers) \in Nat /\ Len(sv.wire) \in Nat
      /\ sv.wire \in Seq(Requests) /\ x \in Nat
  BY LenProperties DEF Servers, Reads
<1>2. /\ Head(buffer) \in Requests /\ l \in Nat \ {0} /\ n = l - 1
  BY TailIndices
<1>3. y = Len(sv.wire) + 1
  <2>1. Len(Append(sv.wire, Head(buffer))) = Len(sv.wire) + 1
    BY <1>1, <1>2, AppendIndices
  <2> QED BY <2>1
<1>4. w \in Nat /\ b \in Nat
  <2>1. \A p, q, r \in Nat : p + q \in Nat /\ p + q + r \in Nat
    OBVIOUS
  <2>2. a \in Nat /\ Len(sv.answers) \in Nat /\ Len(sv.wire) \in Nat
    BY <1>1
  <2> HIDE DEF a
  <2> QED BY <2>1, <2>2
<1>5. Within(sv.wire, w, e) /\ Within(buffer, b, e) /\ b + l = x
  BY DEF LineOK
<1> HIDE DEF a, w, b, l, n, x, y
<1>6. /\ Within(Tail(buffer), b + 1, e)
      /\ b + 1 \in 1..Len(e) /\ Head(buffer) = e[b + 1]
  BY <1>4, <1>5, WithinDrop
<1>7. Within(new.wire, w, e)
  <2>1. b + 1 = w + Len(sv.wire) + 1
    BY <1>1, <1>4 DEF b
  <2>2. Within(Append(sv.wire, e[b + 1]), w, e)
    BY <1>1, <1>4, <1>5, <1>6, <2>1, WithinAppend
  <2> QED BY <1>6, <2>2
<1>8. w + y = b + 1
  BY <1>1, <1>3, <1>4 DEF b
<1>9. (b + 1) + n = x
  BY <1>1, <1>2, <1>4, <1>5
<1>10. w = a + Len(new.answers)
  BY DEF w
<1>11. Within(new.wire, a + Len(new.answers), e)
       /\ Within(Tail(buffer), a + Len(new.answers) + Len(new.wire), e)
       /\ a + Len(new.answers) + Len(new.wire) + Len(Tail(buffer)) = Len(e)
  BY <1>6, <1>7, <1>8, <1>9, <1>10 DEF y, n, x
<1>12. /\ \A i \in 1..Len(blocks) : blocks[i].kind = "read" =>
              Len(e) >= 1 /\ blocks[i].answer = e[1]
       /\ Within(new.answers, a, e)
  BY DEF LineOK, a
<1> QED BY <1>11, <1>12 DEF LineOK, a

LEMMA LineServes ==
  ASSUME NEW blocks, NEW buffer \in Seq(Requests),
         NEW sv \in Servers, sv.status = "open", sv.wire # <<>>, NEW e \in Seq(Requests),
         LineOK(blocks, buffer, sv, e),
         NEW new \in Servers, new.wire = Tail(sv.wire),
         new.answers = Append(sv.answers, Head(sv.wire))
  PROVE  /\ LineOK(blocks, buffer, new, e)
         /\ LET j == Reads(blocks) + Len(sv.answers) + 1
            IN  j \in 1..Len(e) /\ Head(sv.wire) = e[j]
<1> DEFINE a == Reads(blocks)
           k == Len(sv.answers)
           w == a + k
           m == Len(sv.wire)
           b == w + m
           l == Len(buffer)
           x == Len(e)
           k2 == Len(new.answers)
           m2 == Len(new.wire)
<1>1. /\ a \in Nat /\ k \in Nat /\ m \in Nat \ {0}
      /\ sv.wire \in Seq(Requests) /\ x \in Nat /\ sv.answers \in Seq(Requests)
      /\ Head(sv.wire) \in Requests /\ l \in Nat /\ m2 = m - 1
  <2>1. sv.wire \in Seq(Requests) /\ sv.answers \in Seq(Requests)
    BY DEF Servers
  <2>2. m \in Nat \ {0} /\ Head(sv.wire) \in Requests /\ m2 = m - 1
    BY <2>1, TailIndices
  <2> QED BY <2>1, <2>2, LenProperties DEF Reads
<1>2. k2 = k + 1
  BY <1>1, AppendIndices
<1>3. /\ Within(sv.answers, a, e) /\ Within(sv.wire, w, e) /\ Within(buffer, b, e)
      /\ b + l = x
  BY DEF LineOK
<1>4. w \in Nat /\ b \in Nat
  <2>1. \A p, q, r \in Nat : p + q \in Nat /\ p + q + r \in Nat
    OBVIOUS
  <2>2. a \in Nat /\ Len(sv.answers) \in Nat /\ Len(sv.wire) \in Nat
    BY <1>1
  <2> HIDE DEF a
  <2> QED BY <2>1, <2>2
<1>5. /\ Within(Tail(sv.wire), w + 1, e)
      /\ w + 1 \in 1..Len(e) /\ Head(sv.wire) = e[w + 1]
  <2> HIDE DEF a, k, w, m, b, l, x
  <2> QED BY <1>1, <1>3, <1>4, WithinDrop
<1>6. Within(new.answers, a, e)
  <2>1. w + 1 = a + Len(sv.answers) + 1
    OBVIOUS
  <2> HIDE DEF a, w
  <2>2. Within(Append(sv.answers, e[w + 1]), a, e)
    BY <1>1, <1>3, <1>5, <2>1, WithinAppend
  <2> QED BY <1>5, <2>2
<1>7. a + k2 = w + 1 /\ a + k2 + m2 = b /\ a + k2 + m2 + l = x
  <2>1. w = a + k /\ b = w + m
    OBVIOUS
  <2> HIDE DEF a, k, w, m, b, l, x, k2, m2
  <2>2. a + k2 = w + 1
    BY <1>1, <1>2, <2>1
  <2>3. a + k2 + m2 = b
    BY <1>1, <1>2, <1>4, <2>1
  <2> QED BY <1>3, <2>2, <2>3
<1>8. \A i \in 1..Len(blocks) : blocks[i].kind = "read" =>
              Len(e) >= 1 /\ blocks[i].answer = e[1]
  BY DEF LineOK
<1> HIDE DEF w, b
<1>9. LineOK(blocks, buffer, new, e)
  BY <1>3, <1>5, <1>6, <1>7, <1>8 DEF LineOK
<1> QED BY <1>5, <1>9 DEF w

LEMMA ExpectedType == ASSUME IInv PROVE Expected(sdk.handshake, sdk.pipeline) \in Seq(Requests)
<1>1. CASE ~sdk.handshake
  BY <1>1 DEF Expected, Requests
<1>2. CASE sdk.handshake
  BY <1>2, InvParts, WritesOfProperties
<1> QED BY <1>1, <1>2

LEMMA SendRequestInv == ASSUME IInv, SendRequest PROVE IInv'
<1> DEFINE h == Head(sdk.buffer)
           buffer == Tail(sdk.buffer)
           t == [sdk EXCEPT !.buffer = buffer]
           wire == Append(server.wire, h)
           new == [server EXCEPT !.wire = wire]
           e == Expected(sdk.handshake, sdk.pipeline)
<1>1. /\ sdk.call = "open" /\ sdk.buffer # <<>> /\ server.status = "open"
      /\ sdk' = t /\ server' = new
      /\ committed' = committed /\ refused' = refused /\ made' = made /\ faults' = faults
  BY DEF SendRequest
<1>2. h \in Requests /\ buffer \in Seq(Requests)
  BY <1>1, InvParts, TailIndices
<1>3. server.wire \in Seq(Requests) /\ server.answers \in Seq(Requests)
      /\ server.status \in Statuses \cup {"open"}
  BY InvParts DEF Servers
<1>4. wire \in Seq(Requests)
  BY <1>2, <1>3, AppendIndices
<1> HIDE DEF h, wire, buffer
<1>5. new \in Servers /\ new.wire = wire /\ new.answers = server.answers
      /\ new.status = "open"
  BY <1>1, <1>4, InvParts DEF Servers
<1> HIDE DEF new
<1>6. LineOK(sdk.blocks, sdk.buffer, server, e)
  BY <1>1, InvParts DEF Link
<1>7. LineOK(sdk.blocks, buffer, new, e)
  <2>1. e \in Seq(Requests)
    BY ExpectedType
  <2> HIDE DEF e
  <2>2. new.wire = Append(server.wire, Head(sdk.buffer))
    BY <1>5 DEF wire, h
  <2>3. LineOK(sdk.blocks, Tail(sdk.buffer), new, e)
    BY <1>1, <1>5, <1>6, <2>1, <2>2, InvParts, LineSends
  <2> QED BY <2>3 DEF buffer
<1>8. t \in Sdk
  BY <1>2, InvParts DEF Sdk
<1>9. SameStore(sdk, t)
  BY InvParts DEF SameStore, Sdk
<1>10. /\ t.asked = sdk.asked /\ t.pipeline = sdk.pipeline
       /\ t.state = sdk.state /\ t.handshake = sdk.handshake /\ t.idle = sdk.idle
  BY InvParts DEF Sdk
<1>11. /\ t.call = "open" /\ t.tokenOf = sdk.tokenOf /\ t.reading = sdk.reading
       /\ t.blocks = sdk.blocks /\ t.buffer = buffer
  BY <1>1, InvParts DEF Sdk
<1> HIDE DEF t
<1>12. Core(t, committed, made)
  BY <1>8, <1>9, <1>10, <1>11, InvParts DEF Core, SameStore
<1>13. CallOK(t.call, t.reading, t.blocks, t.buffer, new)
  BY <1>1, <1>5, <1>11, InvParts DEF Link, CallOK
<1>14. Link(t, new, committed)
  <2>1. AnswersOK(sdk.blocks, new, committed)
    BY <1>5, InvParts DEF Link, AnswersOK
  <2>2. /\ PipeOK(sdk.pipeline, sdk.queue[sdk.user])
        /\ TokensOK(sdk.asked, sdk.blocks, sdk.state)
        /\ StreamOK(sdk.state, sdk.handshake, sdk.idle, "open", sdk.pipeline)
        /\ sdk.tokenOf = sdk.user
    BY <1>1, InvParts DEF Link
  <2> QED BY <1>7, <1>9, <1>10, <1>11, <1>13, <2>1, <2>2 DEF Link, SameStore
<1>15. Settled(t)
  BY <1>9, <1>10, InvParts DEF Settled, SameStore, IsStarted
<1> QED BY <1>1, <1>5, <1>12, <1>14, <1>15 DEF IInv, Base

(* A completion joins the worker queue.                                    *)
LEMMA CompletionCore ==
  ASSUME IInv, NEW b \in Blocks, b.kind \in OfCall, NEW reading \in BOOLEAN
  PROVE  LET t == [sdk EXCEPT !.reading = reading, !.blocks = Append(sdk.blocks, b)]
         IN  /\ Core(t, committed, made) /\ SameStore(sdk, t)
             /\ t.asked = sdk.asked /\ t.pipeline = sdk.pipeline
             /\ t.state = sdk.state /\ t.handshake = sdk.handshake /\ t.idle = sdk.idle
             /\ t.call = sdk.call /\ t.tokenOf = sdk.tokenOf /\ t.buffer = sdk.buffer
             /\ t.reading = reading /\ t.blocks = Append(sdk.blocks, b)
             /\ TokensOK(t.asked, t.blocks, t.state)
             /\ Settled(t)
<1> DEFINE u == [sdk EXCEPT !.blocks = Append(sdk.blocks, b)]
           new == Append(sdk.blocks, b)
           t == [sdk EXCEPT !.reading = reading, !.blocks = new]
<1>1. Core(u, committed, made) /\ SameStore(sdk, u) /\ u.blocks = new /\ u.asked = sdk.asked
  <2>1. Core(u, committed, made)
    BY InvParts, AppendCore
  <2>2. new \in Seq(Blocks)
    BY InvParts, AppendIndices
  <2> HIDE DEF new
  <2>3. SameButBlocks(sdk, u) /\ u.blocks = new
    BY <2>2, InvParts, BlocksFields DEF new
  <2> QED BY <2>1, <2>3 DEF SameButBlocks
<1> HIDE DEF u
<1>2. new \in Seq(Blocks)
  BY InvParts, AppendIndices
<1>3. ~LiveToken(b)
  BY DEF OfCall, LiveToken
<1>4. TokensOK(sdk.asked, new, sdk.state)
  BY <1>3, InvParts, AppendTokens DEF Link
<1> HIDE DEF new
<1>5. t \in Sdk
  BY <1>2, InvParts DEF Sdk
<1>6. SameStore(sdk, t)
  BY InvParts DEF SameStore, Sdk
<1>7. /\ t.asked = sdk.asked /\ t.pipeline = sdk.pipeline
      /\ t.state = sdk.state /\ t.handshake = sdk.handshake /\ t.idle = sdk.idle
  BY InvParts DEF Sdk
<1>8. /\ t.call = sdk.call /\ t.tokenOf = sdk.tokenOf /\ t.buffer = sdk.buffer
      /\ t.reading = reading /\ t.blocks = new
  BY InvParts DEF Sdk
<1> HIDE DEF t
<1>9. Core(t, committed, made)
  BY <1>1, <1>5, <1>6, <1>7, <1>8 DEF Core, SameStore
<1>10. Settled(t)
  BY <1>6, <1>7, InvParts DEF Settled, SameStore, IsStarted
<1> QED BY <1>4, <1>6, <1>7, <1>8, <1>9, <1>10 DEF t, new

(* The call reports that an operation failed: the far end has ended it.    *)
LEMMA FailedInv ==
  ASSUME IInv, sdk.call = "open", server.status # "open", NEW reading \in BOOLEAN,
         reading => sdk.reading,
         sdk' = [sdk EXCEPT !.reading = reading, !.blocks = Append(sdk.blocks, Failed)],
         server' = server, committed' = committed, refused' = refused,
         made' = made, faults' = faults
  PROVE  IInv'
<1> DEFINE new == Append(sdk.blocks, Failed)
           t == [sdk EXCEPT !.reading = reading, !.blocks = new]
           e == Expected(sdk.handshake, sdk.pipeline)
<1>1. Failed \in Blocks /\ Failed.kind = "failed" /\ Failed.kind \in OfCall
  BY DEF Failed, Blocks, OfCall
<1>2. /\ Core(t, committed, made) /\ SameStore(sdk, t)
      /\ t.asked = sdk.asked /\ t.pipeline = sdk.pipeline
      /\ t.state = sdk.state /\ t.handshake = sdk.handshake /\ t.idle = sdk.idle
      /\ t.call = sdk.call /\ t.tokenOf = sdk.tokenOf /\ t.buffer = sdk.buffer
      /\ t.reading = reading /\ t.blocks = new
      /\ TokensOK(t.asked, t.blocks, t.state)
      /\ Settled(t)
  BY <1>1, CompletionCore
<1>3. /\ Len(sdk.blocks) \in Nat
      /\ Len(new) = Len(sdk.blocks) + 1
      /\ \A i \in 1..Len(sdk.blocks) : i \in 1..Len(new) /\ new[i] = sdk.blocks[i]
      /\ \A i \in 1..Len(new) : \/ i \in 1..Len(sdk.blocks) /\ new[i] = sdk.blocks[i]
                                \/ new[i] = Failed
  <2>1. /\ Len(sdk.blocks) \in Nat
        /\ Len(new) = Len(sdk.blocks) + 1
        /\ \A i \in 1..Len(sdk.blocks) : new[i] = sdk.blocks[i]
        /\ new[Len(sdk.blocks) + 1] = Failed
        /\ \A i \in 1..Len(new) : i \in 1..Len(sdk.blocks) \/ i = Len(sdk.blocks) + 1
    BY <1>1, InvParts, AppendIndices
  <2> HIDE DEF new
  <2> QED BY <2>1
<1> HIDE DEF new, t
<1>4. \A i \in 1..Len(new) : new[i].kind = "read" =>
         i \in 1..Len(sdk.blocks) /\ new[i] = sdk.blocks[i]
  BY <1>1, <1>3
<1>5. Reads(new) = Reads(sdk.blocks)
  <2>1. HasRead(new) <=> HasRead(sdk.blocks)
    BY <1>3, <1>4 DEF HasRead
  <2> QED BY <2>1 DEF Reads
<1>6. CallOK(sdk.call, sdk.reading, sdk.blocks, sdk.buffer, server)
  BY InvParts DEF Link
<1>7. CallOK(t.call, t.reading, t.blocks, t.buffer, server)
  <2>1. \A i \in 1..Len(new) :
          /\ new[i].kind = "read" => ~reading
          /\ new[i].kind # "finished"
    BY <1>1, <1>3, <1>4, <1>6 DEF CallOK
  <2>2. \A i, j \in 1..Len(new) : new[i].kind = "read" /\ new[j].kind = "read" => i = j
    BY <1>4, <1>6 DEF CallOK
  <2>3. server.wire = <<>>
    BY <1>6 DEF CallOK
  <2> QED BY <1>2, <2>1, <2>2, <2>3 DEF CallOK
<1>8. LineOK(new, sdk.buffer, server, e)
  <2>1. LineOK(sdk.blocks, sdk.buffer, server, e)
    BY InvParts DEF Link
  <2> HIDE DEF e
  <2> QED BY <1>4, <1>5, <2>1 DEF LineOK
<1>9. AnswersOK(new, server, committed)
  BY <1>4, InvParts DEF Link, AnswersOK
<1>10. Link(t, server, committed)
  BY <1>2, <1>7, <1>8, <1>9, InvParts DEF Link, SameStore
<1> QED BY <1>2, <1>10 DEF IInv, Base, t, new

LEMMA FailRequestInv == ASSUME IInv, FailRequest PROVE IInv'
<1> DEFINE new == Append(sdk.blocks, Failed)
<1>1. /\ sdk.call = "open" /\ server.status # "open"
      /\ sdk' = [sdk EXCEPT !.blocks = new]
      /\ server' = server /\ committed' = committed /\ refused' = refused
      /\ made' = made /\ faults' = faults
  BY DEF FailRequest, AddBlock
<1>2. sdk.reading \in BOOLEAN
  BY InvParts DEF Sdk
<1> HIDE DEF new
<1>3. [sdk EXCEPT !.blocks = new] = [sdk EXCEPT !.reading = sdk.reading, !.blocks = new]
  BY InvParts DEF Sdk
<1> QED BY <1>1, <1>2, <1>3, FailedInv DEF new

LEMMA ReceiveEndInv == ASSUME IInv, ReceiveEnd PROVE IInv'
<1>1. /\ sdk.reading /\ server.status # "open"
      /\ sdk' = [sdk EXCEPT !.reading = FALSE, !.blocks = Append(sdk.blocks, Failed)]
      /\ server' = server /\ committed' = committed /\ refused' = refused
      /\ made' = made /\ faults' = faults
  BY DEF ReceiveEnd
<1>2. sdk.call = "open"
  <2>1. sdk.call \in {"none", "open", "finishing"}
    BY InvParts DEF Sdk
  <2> QED BY <1>1, <2>1, InvParts DEF Link, CallOK
<1> QED BY <1>1, <1>2, FailedInv

LEMMA ReceiveAnswerInv == ASSUME IInv, ReceiveAnswer PROVE IInv'
<1> DEFINE h == Head(server.answers)
           b == [kind |-> "read", answer |-> h]
           new == Append(sdk.blocks, b)
           t == [sdk EXCEPT !.reading = FALSE, !.blocks = new]
           answers == Tail(server.answers)
           sv == [server EXCEPT !.answers = answers]
           e == Expected(sdk.handshake, sdk.pipeline)
<1>1. /\ sdk.reading /\ server.answers # <<>> /\ sdk' = t /\ server' = sv
      /\ committed' = committed /\ refused' = refused
      /\ made' = made /\ faults' = faults
  BY DEF ReceiveAnswer
<1>2. server.answers \in Seq(Requests)
  BY InvParts DEF Servers
<1>3. /\ h \in Requests /\ answers \in Seq(Requests) /\ h = server.answers[1]
      /\ 1 \in 1..Len(server.answers) /\ Len(server.answers) \in Nat \ {0}
      /\ Len(answers) = Len(server.answers) - 1
      /\ \A i \in 1..Len(answers) : i + 1 \in 1..Len(server.answers)
                                    /\ answers[i] = server.answers[i + 1]
  BY <1>1, <1>2, TailIndices
<1> HIDE DEF h, answers
<1>4. b \in Blocks /\ b.kind = "read" /\ b.answer = h /\ b.kind \in OfCall
  BY <1>3 DEF Blocks, OfCall
<1> HIDE DEF b
<1>5. /\ Core(t, committed, made) /\ SameStore(sdk, t)
      /\ t.asked = sdk.asked /\ t.pipeline = sdk.pipeline
      /\ t.state = sdk.state /\ t.handshake = sdk.handshake /\ t.idle = sdk.idle
      /\ t.call = sdk.call /\ t.tokenOf = sdk.tokenOf /\ t.buffer = sdk.buffer
      /\ t.reading = FALSE /\ t.blocks = new
      /\ TokensOK(t.asked, t.blocks, t.state)
      /\ Settled(t)
  BY <1>4, CompletionCore
<1>6. /\ Len(sdk.blocks) \in Nat
      /\ Len(new) = Len(sdk.blocks) + 1
      /\ \A i \in 1..Len(sdk.blocks) : new[i] = sdk.blocks[i]
      /\ new[Len(sdk.blocks) + 1] = b
      /\ \A i \in 1..Len(new) : i \in 1..Len(sdk.blocks) \/ i = Len(sdk.blocks) + 1
  BY <1>4, InvParts, AppendIndices
<1> HIDE DEF new, t
<1>7. /\ sv \in Servers /\ sv.answers = answers /\ sv.wire = server.wire
      /\ sv.status = server.status
  BY <1>3, InvParts DEF Servers
<1> HIDE DEF sv
<1>8. CallOK(sdk.call, sdk.reading, sdk.blocks, sdk.buffer, server)
  BY InvParts DEF Link
<1>9. sdk.call = "open"
  <2>1. sdk.call \in {"none", "open", "finishing"}
    BY InvParts DEF Sdk
  <2> QED BY <1>1, <1>8, <2>1 DEF CallOK
<1>10. \A i \in 1..Len(sdk.blocks) : sdk.blocks[i].kind # "read"
  BY <1>1, <1>8 DEF CallOK
<1>11. \A i \in 1..Len(new) : new[i].kind = "read" =>
          i = Len(sdk.blocks) + 1 /\ new[i] = b
  BY <1>6, <1>10
<1>12. HasRead(new) /\ ~HasRead(sdk.blocks)
  <2>1. Len(sdk.blocks) + 1 \in 1..Len(new)
    BY <1>6
  <2> QED BY <1>4, <1>6, <1>10, <2>1 DEF HasRead
<1>13. CallOK(t.call, t.reading, t.blocks, t.buffer, sv)
  <2>1. server.status # "open" => server.wire = <<>>
    BY <1>8 DEF CallOK
  <2>2. \A i \in 1..Len(new) :
          /\ new[i].kind = "failed" => server.status # "open"
          /\ new[i].kind # "finished"
    BY <1>4, <1>6, <1>8, <1>9 DEF CallOK
  <2>3. \A i, j \in 1..Len(new) : new[i].kind = "read" /\ new[j].kind = "read" => i = j
    BY <1>11
  <2> QED BY <1>5, <1>7, <1>9, <2>1, <2>2, <2>3 DEF CallOK
<1>14. e \in Seq(Requests)
  BY ExpectedType
<1>15. LineOK(sdk.blocks, sdk.buffer, server, e)
  BY <1>9, InvParts DEF Link
<1> HIDE DEF e
<1>16. Reads(new) = 1 /\ Reads(sdk.blocks) = 0
  BY <1>12 DEF Reads
<1>17. Within(server.answers, 0, e)
  BY <1>15, <1>16 DEF LineOK
<1>18. Within(answers, 1, e) /\ 1 \in 1..Len(e) /\ h = e[1]
  <2>1. Within(Tail(server.answers), 0 + 1, e) /\ 0 + 1 \in 1..Len(e)
        /\ Head(server.answers) = e[0 + 1]
    <3>1. 0 \in Nat
      OBVIOUS
    <3> QED BY <1>1, <1>2, <1>14, <1>17, <3>1, WithinDrop
  <2>2. 0 + 1 = 1
    OBVIOUS
  <2> QED BY <2>1, <2>2 DEF answers, h
<1>19. LineOK(new, sdk.buffer, sv, e)
  <2>1. 1 + Len(answers) = 0 + Len(server.answers)
    BY <1>3
  <2>2. server.status = "open" =>
           /\ Within(server.wire, 1 + Len(answers), e)
           /\ Within(sdk.buffer, 1 + Len(answers) + Len(server.wire), e)
           /\ 1 + Len(answers) + Len(server.wire) + Len(sdk.buffer) = Len(e)
    BY <1>15, <1>16, <2>1 DEF LineOK
  <2>3. \A i \in 1..Len(new) : new[i].kind = "read" => Len(e) >= 1 /\ new[i].answer = e[1]
    <3>1. Len(e) >= 1
      BY <1>18
    <3> QED BY <1>4, <1>11, <1>18, <3>1
  <2> QED BY <1>7, <1>16, <1>18, <2>2, <2>3 DEF LineOK
<1>20. AnswersOK(new, sv, committed)
  <2>1. AnswersOK(sdk.blocks, server, committed)
    BY InvParts DEF Link
  <2>2. h \in committed \cup {Handshake}
    BY <1>3, <2>1 DEF AnswersOK
  <2>3. \A i \in 1..Len(answers) : answers[i] \in committed \cup {Handshake}
    BY <1>3, <2>1 DEF AnswersOK
  <2> QED BY <1>4, <1>7, <1>11, <2>2, <2>3 DEF AnswersOK
<1>21. Link(t, sv, committed)
  <2>1. LineOK(t.blocks, t.buffer, sv, Expected(t.handshake, t.pipeline))
    BY <1>5, <1>19 DEF e
  <2> QED BY <1>5, <1>13, <1>20, <2>1, InvParts DEF Link, SameStore
<1> QED BY <1>1, <1>5, <1>7, <1>21 DEF IInv, Base

(* The call ends at the far end: what was answered before may still be     *)
(* read.                                                                   *)
LEMMA EndedInv ==
  ASSUME IInv, sdk.call # "none", server.status = "open", NEW sv \in Servers,
         sv.status # "open", sv.wire = <<>>, Len(sv.answers) <= Len(server.answers),
         \A i \in 1..Len(sv.answers) : sv.answers[i] = server.answers[i],
         sdk' = sdk, server' = sv, committed' = committed, refused' \subseteq Writes,
         made' = made, faults' \in 0..MaxFaults
  PROVE  IInv'
<1>1. CallOK(sdk.call, sdk.reading, sdk.blocks, sdk.buffer, server)
  BY InvParts DEF Link
<1>2. /\ Len(sv.answers) \in Nat /\ Len(server.answers) \in Nat
      /\ \A i \in 1..Len(sv.answers) : i \in 1..Len(server.answers)
  <2>1. sv.answers \in Seq(Requests) /\ server.answers \in Seq(Requests)
    BY InvParts DEF Servers
  <2>2. Len(sv.answers) \in Nat /\ Len(server.answers) \in Nat
    BY <2>1, LenProperties
  <2> QED BY <2>2
<1>3. CallOK(sdk.call, sdk.reading, sdk.blocks, sdk.buffer, sv)
  <2>1. sdk.call # "finishing"
    BY <1>1 DEF CallOK
  <2> QED BY <1>1, <2>1 DEF CallOK
<1>4. ASSUME sdk.call = "open"
      PROVE  LineOK(sdk.blocks, sdk.buffer, sv, Expected(sdk.handshake, sdk.pipeline))
  <2> DEFINE e == Expected(sdk.handshake, sdk.pipeline)
             a == Reads(sdk.blocks)
  <2>1. LineOK(sdk.blocks, sdk.buffer, server, e)
    BY <1>4, InvParts DEF Link
  <2>2. e \in Seq(Requests)
    BY ExpectedType
  <2>3. a \in Nat /\ Len(e) \in Nat
    BY <2>2, LenProperties DEF Reads
  <2> HIDE DEF e
  <2>4. Within(server.answers, a, e)
    BY <2>1 DEF LineOK
  <2> HIDE DEF a
  <2>5. Within(sv.answers, a, e)
    <3>1. \A k, l, m, n \in Nat : k + l <= m /\ n <= l => k + n <= m
      OBVIOUS
    <3>2. a + Len(sv.answers) <= Len(e)
      BY <1>2, <2>3, <2>4, <3>1 DEF Within
    <3> QED BY <1>2, <2>4, <3>2 DEF Within
  <2>6. LineOK(sdk.blocks, sdk.buffer, sv, e)
    BY <2>1, <2>5 DEF LineOK, a
  <2> QED BY <2>6 DEF e
<1>5. AnswersOK(sdk.blocks, sv, committed)
  BY <1>2, InvParts DEF Link, AnswersOK
<1>6. Link(sdk, sv, committed)
  BY <1>3, <1>4, <1>5, InvParts DEF Link
<1> QED BY <1>6, InvParts DEF IInv, Base

LEMMA RefuseInv == ASSUME IInv, Refuse PROVE IInv'
<1> DEFINE sv == [server EXCEPT !.wire = <<>>, !.status = "permanent"]
<1>1. /\ server.wire # <<>> /\ server.status = "open" /\ Head(server.wire) # Handshake
      /\ refused' = refused \cup {Head(server.wire)} /\ server' = sv
      /\ sdk' = sdk /\ committed' = committed /\ made' = made
      /\ faults' \in 0..MaxFaults
  BY FaultBound DEF Refuse
<1>2. server.wire \in Seq(Requests) /\ server.answers \in Seq(Requests)
  BY InvParts DEF Servers
<1>3. Head(server.wire) \in Writes
  BY <1>1, <1>2, TailIndices DEF Requests
<1>4. /\ sv \in Servers /\ sv.status # "open" /\ sv.wire = <<>>
      /\ sv.answers = server.answers
  <2>1. <<>> \in Seq(Requests) /\ "permanent" \in Statuses
    BY DEF Statuses
  <2> QED BY <2>1, InvParts DEF Servers
<1>5. sdk.call # "none"
  BY <1>1, InvParts DEF Link, CallOK, NoCall
<1>6. Len(server.answers) <= Len(server.answers)
  BY <1>2, LenProperties
<1>7. refused' \subseteq Writes
  BY <1>1, <1>3 DEF IInv
<1> HIDE DEF sv
<1> QED BY <1>1, <1>4, <1>5, <1>6, <1>7, EndedInv

LEMMA EndStreamInv == ASSUME IInv, EndStream PROVE IInv'
<1> DEFINE sv == [server EXCEPT !.wire = <<>>, !.status = "ok"]
<1>1. /\ sdk.call # "none" /\ server.status = "open" /\ server' = sv
      /\ sdk' = sdk /\ committed' = committed /\ refused' = refused /\ made' = made
      /\ faults' \in 0..MaxFaults
  BY FaultBound DEF EndStream
<1>2. server.answers \in Seq(Requests)
  BY InvParts DEF Servers
<1>3. /\ sv \in Servers /\ sv.status # "open" /\ sv.wire = <<>>
      /\ sv.answers = server.answers
  <2>1. <<>> \in Seq(Requests) /\ "ok" \in Statuses
    BY DEF Statuses
  <2> QED BY <2>1, InvParts DEF Servers
<1>4. Len(server.answers) <= Len(server.answers)
  BY <1>2, LenProperties
<1>5. refused' \subseteq Writes
  BY <1>1 DEF IInv
<1> HIDE DEF sv
<1> QED BY <1>1, <1>3, <1>4, <1>5, EndedInv

LEMMA BreakInv == ASSUME IInv, Break PROVE IInv'
<1>1. /\ sdk.call # "none" /\ server.status = "open"
      /\ sdk' = sdk /\ committed' = committed /\ refused' = refused /\ made' = made
      /\ faults' \in 0..MaxFaults
  BY FaultBound DEF Break
<1>2. PICK k \in 0..Len(server.answers) :
         server' = [wire |-> <<>>, status |-> "transient",
                    answers |-> SubSeq(server.answers, 1, k)]
  BY DEF Break
<1> DEFINE x == SubSeq(server.answers, 1, k)
           sv == [wire |-> <<>>, status |-> "transient", answers |-> x]
<1>3. server.answers \in Seq(Requests) /\ Len(server.answers) \in Nat /\ k \in Nat
      /\ k <= Len(server.answers)
  BY InvParts, LenProperties DEF Servers
<1>4. /\ x \in Seq(Requests) /\ Len(x) = k
      /\ \A i \in 1..k : x[i] = server.answers[i]
  <2>1. \A i \in 1..k : server.answers[i] \in Requests
    BY <1>3
  <2>2. x = [i \in 1..k |-> server.answers[i]]
    BY <1>3
  <2> QED BY <1>3, <2>1, <2>2
<1> HIDE DEF x
<1>5. sv \in Servers /\ sv.status # "open" /\ sv.wire = <<>> /\ sv.answers = x
  <2>1. <<>> \in Seq(Requests)
    OBVIOUS
  <2> QED BY <1>4, <2>1 DEF Servers, Statuses
<1>6. server' = sv
  BY <1>2 DEF x
<1>7. refused' \subseteq Writes
  BY <1>1 DEF IInv
<1> HIDE DEF sv
<1> QED BY <1>1, <1>3, <1>4, <1>5, <1>6, <1>7, EndedInv

(* Writes are committed in the order of the queue.                         *)
LEMMA CommitCore ==
  ASSUME NEW s, NEW done \in SUBSET Writes, NEW m, Core(s, done, m),
         NEW j \in 1..Len(s.queue[s.user]), NEW r, r = s.queue[s.user][j].write,
         \A i \in 1..Len(s.queue[s.user]) : i < j => s.queue[s.user][i].write \in done
  PROVE  r \in Writes /\ Core(s, done \cup {r}, m)
<1> DEFINE q == s.queue[s.user]
<1>1. /\ s.user \in Accounts /\ s.queue \in [Accounts -> Seq(Batches)]
      /\ q \in Seq(Batches)
  BY DEF Core, Sdk
<1>2. QueuesOK(s.queue, s.nextId) /\ AheadOK(s.blocks, s.queue, done, m)
      /\ ToldOK(s.told, done) /\ CommitsOK(s.queue, done)
  BY DEF Core
<1>3. \A i \in 1..Len(q) : q[i].write \in Writes /\ q[i].write.n \in Nat
  <2> SUFFICES ASSUME NEW i \in 1..Len(q) PROVE q[i].write \in Writes /\ q[i].write.n \in Nat
    OBVIOUS
  <2>1. q[i] \in Batches
    BY <1>1
  <2> QED BY <2>1 DEF Batches, Writes
<1>4. r \in Writes /\ r.n \in Nat /\ r.by = s.user
  BY <1>1, <1>2, <1>3 DEF QueuesOK
<1>5. ToldOK(s.told, done \cup {r})
  BY <1>2 DEF ToldOK
<1>6. AheadOK(s.blocks, s.queue, done \cup {r}, m)
  <2>1. r.n <= m
    BY <1>1, <1>2 DEF AheadOK
  <2>2. \A i \in 1..Len(s.blocks) : s.blocks[i].kind = "write" => r.n < s.blocks[i].write.n
    BY <1>1, <1>2 DEF AheadOK
  <2> QED BY <1>2, <2>1, <2>2 DEF AheadOK
<1>7. CommitsOK(s.queue, done \cup {r})
  <2> SUFFICES ASSUME NEW w \in done \cup {r}, NEW i \in 1..Len(s.queue[w.by]),
                      s.queue[w.by][i].write.n < w.n
               PROVE  s.queue[w.by][i].write \in done \cup {r}
    BY DEF CommitsOK
  <2>1. CASE w \in done
    BY <1>2, <2>1 DEF CommitsOK
  <2>2. CASE w = r
    <3>1. i \in 1..Len(q) /\ q[i].write.n < r.n /\ q[i].write = s.queue[w.by][i].write
      BY <1>4, <2>2
    <3>2. ~(j < i)
      <4>1. j < i => r.n < q[i].write.n
        <5>1. \A x, y \in 1..Len(q) : x < y => q[x].write.n < q[y].write.n
          BY <1>1, <1>2 DEF QueuesOK
        <5> QED BY <3>1, <5>1
      <4>2. q[i].write.n \in Nat
        BY <1>3, <3>1
      <4> HIDE DEF q
      <4> QED BY <1>4, <3>1, <4>1, <4>2
    <3>3. i # j
      <4>1. q[j].write.n = r.n
        OBVIOUS
      <4> HIDE DEF q
      <4> QED BY <1>4, <3>1, <4>1
    <3>4. i < j
      BY <3>1, <3>2, <3>3
    <3> QED BY <3>1, <3>4
  <2> QED BY <2>1, <2>2
<1> QED BY <1>4, <1>5, <1>6, <1>7 DEF Core

LEMMA ServeInv == ASSUME IInv, Serve PROVE IInv'
<1> DEFINE r == Head(server.wire)
           wire == Tail(server.wire)
           answers == Append(server.answers, r)
           sv == [server EXCEPT !.wire = wire, !.answers = answers]
           e == Expected(sdk.handshake, sdk.pipeline)
           q == sdk.queue[sdk.user]
           j == Reads(sdk.blocks) + Len(server.answers) + 1
<1>1. /\ server.wire # <<>> /\ server.status = "open" /\ server' = sv
      /\ committed' = IF r = Handshake THEN committed ELSE committed \cup {r}
      /\ sdk' = sdk /\ refused' = refused /\ made' = made /\ faults' = faults
  BY DEF Serve
<1>2. server.wire \in Seq(Requests) /\ server.answers \in Seq(Requests)
      /\ Len(server.answers) \in Nat
  BY InvParts, LenProperties DEF Servers
<1>3. r \in Requests /\ wire \in Seq(Requests)
  BY <1>1, <1>2, TailIndices
<1>4. /\ answers \in Seq(Requests) /\ Len(answers) = Len(server.answers) + 1
      /\ \A i \in 1..Len(answers) : \/ i \in 1..Len(server.answers) /\ answers[i] = server.answers[i]
                                    \/ answers[i] = r
  <2> HIDE DEF r
  <2> QED BY <1>2, <1>3, AppendIndices
<1> HIDE DEF r, wire, answers
<1>5. /\ sv \in Servers /\ sv.wire = wire /\ sv.answers = answers /\ sv.status = "open"
  BY <1>1, <1>3, <1>4, InvParts DEF Servers
<1> HIDE DEF sv
<1>6. CallOK(sdk.call, sdk.reading, sdk.blocks, sdk.buffer, server)
  BY InvParts DEF Link
<1>7. sdk.call = "open"
  <2>1. sdk.call \in {"none", "open", "finishing"}
    BY InvParts DEF Sdk
  <2>2. sdk.call # "none"
    BY <1>1, <1>6 DEF CallOK, NoCall
  <2> QED BY <1>1, <1>6, <2>1, <2>2 DEF CallOK
<1>8. CallOK(sdk.call, sdk.reading, sdk.blocks, sdk.buffer, sv)
  BY <1>1, <1>5, <1>6, <1>7 DEF CallOK
<1>9. LineOK(sdk.blocks, sdk.buffer, server, e) /\ e \in Seq(Requests)
  BY <1>7, ExpectedType, InvParts DEF Link
<1>10. LineOK(sdk.blocks, sdk.buffer, sv, e) /\ j \in 1..Len(e) /\ r = e[j]
  <2> HIDE DEF e
  <2>1. sv.wire = Tail(server.wire) /\ sv.answers = Append(server.answers, Head(server.wire))
    BY <1>5 DEF wire, answers, r
  <2> QED BY <1>1, <1>5, <1>9, <2>1, InvParts, LineServes DEF r
<1>11. AnswersOK(sdk.blocks, sv, committed')
  <2>1. AnswersOK(sdk.blocks, server, committed)
    BY InvParts DEF Link
  <2>2. \A i \in 1..Len(answers) : answers[i] \in committed' \cup {Handshake}
    BY <1>1, <1>4, <2>1 DEF AnswersOK
  <2> QED BY <1>1, <1>5, <2>1, <2>2 DEF AnswersOK
<1>12. Core(sdk, committed', made) /\ committed' \subseteq Writes
  <2>1. CASE r = Handshake
    BY <1>1, <2>1, InvParts
  <2>2. CASE r # Handshake
    <3>1. sdk.handshake = TRUE
      <4> SUFFICES ASSUME ~sdk.handshake PROVE FALSE
        BY InvParts DEF Sdk
      <4>1. e = <<Handshake>>
        BY DEF Expected
      <4> HIDE DEF e, j
      <4>2. e[j] = Handshake
        BY <1>10, <4>1
      <4> QED BY <1>10, <2>2, <4>2
    <3>2. /\ e = WritesOf(sdk.pipeline) /\ Len(e) = Len(sdk.pipeline)
          /\ \A i \in 1..Len(sdk.pipeline) : e[i] = sdk.pipeline[i].write
      BY <3>1, InvParts, WritesOfProperties
    <3>3. /\ PipeOK(sdk.pipeline, q) /\ Len(q) \in Nat /\ Len(sdk.pipeline) \in Nat
      BY InvParts, LenProperties DEF Link
    <3> HIDE DEF e, q
    <3>4. \A i \in 1..Len(e) : i \in 1..Len(q) /\ e[i] = q[i].write
      BY <3>2, <3>3 DEF PipeOK
    <3>5. ASSUME NEW i \in 1..Len(e), i < j
          PROVE  e[i] \in committed
      <4> DEFINE a == Reads(sdk.blocks)
                 k == Len(server.answers)
      <4>1. a \in {0, 1} /\ j = a + k + 1 /\ k \in Nat
        BY <1>2 DEF Reads
      <4>2. /\ Within(server.answers, a, e)
            /\ \A o \in 1..Len(sdk.blocks) : sdk.blocks[o].kind = "read" =>
                  sdk.blocks[o].answer = e[1]
        BY <1>9 DEF LineOK
      <4>3. /\ \A o \in 1..Len(sdk.blocks) : sdk.blocks[o].kind = "read" =>
                  sdk.blocks[o].answer \in committed \cup {Handshake}
            /\ \A o \in 1..k : server.answers[o] \in committed \cup {Handshake}
        BY InvParts DEF Link, AnswersOK
      <4>4. e[i] \in committed \cup {Handshake}
        <5>1. CASE a = 1 /\ i = 1
          <6>1. HasRead(sdk.blocks)
            BY <5>1 DEF Reads
          <6> QED BY <4>2, <4>3, <5>1, <6>1 DEF HasRead
        <5>2. CASE ~(a = 1 /\ i = 1)
          <6> DEFINE o == i - a
          <6> HIDE DEF a, k, j
          <6>1. o \in 1..k /\ a + o = i
            BY <3>5, <4>1, <5>2
          <6> HIDE DEF o
          <6>2. server.answers[o] = e[a + o]
            BY <4>2, <6>1 DEF Within, k
          <6> QED BY <4>3, <6>1, <6>2
        <5> QED BY <5>1, <5>2
      <4>5. e[i] \in Writes
        <5>1. q \in Seq(Batches) /\ i \in 1..Len(q)
          BY <3>4, InvParts DEF q
        <5>2. q[i] \in Batches
          BY <5>1
        <5> QED BY <3>4, <5>2 DEF Batches
      <4> QED BY <4>4, <4>5, HandshakeIsNoWrite
    <3>6. j \in 1..Len(q) /\ r = q[j].write
      BY <1>10, <3>4
    <3>7. \A i \in 1..Len(q) : i < j => q[i].write \in committed
      <4> SUFFICES ASSUME NEW i \in 1..Len(q), i < j PROVE q[i].write \in committed
        OBVIOUS
      <4>1. i \in 1..Len(e)
        <5> HIDE DEF j
        <5>1. Len(e) \in Nat
          BY <1>9, LenProperties
        <5> QED BY <1>10, <3>3, <5>1
      <4> QED BY <3>4, <3>5, <4>1
    <3> HIDE DEF j
    <3>8. r \in Writes /\ Core(sdk, committed \cup {r}, made)
      BY <3>6, <3>7, InvParts, CommitCore DEF q
    <3> QED BY <1>1, <2>2, <3>8, InvParts
  <2> QED BY <2>1, <2>2
<1>13. Link(sdk, sv, committed')
  BY <1>8, <1>10, <1>11, InvParts DEF Link
<1> QED BY <1>1, <1>5, <1>12, <1>13, InvParts DEF IInv, Base

-----------------------------------------------------------------------------
(***************************************************************************)
(* A new process: of the SDK only the queues are left.                     *)
(***************************************************************************)
Fresh(user, queue, told) ==
    [notified |-> user, asked |-> {},
     user |-> user, queue |-> queue, nextId |-> LoadNextBatchId(queue),
     callbacks |-> {}, told |-> told,
     enabled |-> TRUE, pipeline |-> <<>>,
     state |-> "initial", handshake |-> FALSE, idle |-> FALSE,
     call |-> "none", tokenOf |-> user, reading |-> FALSE, buffer |-> <<>>,
     blocks |-> <<>>, sound |-> TRUE]

LEMMA LaunchedBase ==
  ASSUME NEW u \in Accounts, NEW Q \in Batched, NEW next \in Nat, QueuesOK(Q, next),
         NEW told \in SUBSET [write : Writes, ok : BOOLEAN],
         NEW done, NEW m, ToldOK(told, done), CommitsOK(Q, done),
         AheadOK(<<>>, Q, done, m)
  PROVE  LET t == Launched(u, Q, told)
         IN  /\ Base(t, NoCall, done, m) /\ Settled(t) /\ t.call = "none"
             /\ t.sound /\ t \in Sdk /\ t.queue = Q
<1> DEFINE s == Fresh(u, Q, told)
           t == Launched(u, Q, told)
           id == LoadNextBatchId(Q)
<1>1. Q \in [Accounts -> Seq(Batches)] /\ id \in Nat /\ QueuesOK(Q, id)
  BY NextIdProperties DEF Batched
<1>2. t = FillWritePipeline(s)
  BY DEF Launched, Fresh
<1>3. /\ s.notified = u /\ s.asked = {} /\ s.user = u /\ s.queue = Q /\ s.nextId = id
      /\ s.callbacks = {} /\ s.told = told /\ s.enabled = TRUE /\ s.pipeline = <<>>
  BY DEF Fresh
<1>4. /\ s.state = "initial" /\ s.handshake = FALSE /\ s.idle = FALSE /\ s.call = "none"
      /\ s.tokenOf = u /\ s.reading = FALSE /\ s.buffer = <<>> /\ s.blocks = <<>>
      /\ s.sound = TRUE
  BY DEF Fresh
<1>5. s \in Sdk
  <2>1. <<>> \in Seq(Batches) /\ <<>> \in Seq(Requests) /\ <<>> \in Seq(Blocks)
    OBVIOUS
  <2>2. {} \in SUBSET [user : Accounts, current : BOOLEAN, live : BOOLEAN]
        /\ {} \in SUBSET [user : Accounts, id : Nat, write : Writes]
    OBVIOUS
  <2> HIDE DEF id
  <2> QED BY <1>1, <2>1, <2>2 DEF Fresh, Sdk, States, id
<1> HIDE DEF s, t, id
<1>6. StampsOK(s.blocks, s.user, s.notified, s.asked)
  BY <1>3, <1>4 DEF StampsOK, InCharge
<1>7. ClosuresOK(s.queue, s.callbacks)
  BY <1>3 DEF ClosuresOK
<1>8. Core(s, done, m)
  BY <1>1, <1>3, <1>4, <1>5, <1>6, <1>7 DEF Core
<1>9. TokensOK(s.asked, s.blocks, s.state) /\ Quiet(s.blocks)
  BY <1>3, <1>4 DEF TokensOK, Quiet
<1>10. PipeOK(s.pipeline, s.queue[s.user])
  <2>1. Len(Q[u]) \in Nat /\ MaxPendingWrites \in Nat /\ Len(<<>>) = 0
    BY <1>1, LenProperties, BoundsAssumption
  <2>2. PipeOK(<<>>, Q[u])
    BY <2>1 DEF PipeOK
  <2> QED BY <1>3, <2>2
<1>11. Link(s, NoCall, done)
  BY <1>3, <1>4, <1>9, <1>10, QuietLink
<1>12. /\ Base(t, NoCall, done, m) /\ SameLink(s, t)
       /\ t.pipeline # <<>> => IsStarted(t)
  BY <1>2, <1>3, <1>8, <1>11, NoCallType, FillBase DEF Base
<1>13. t.call = "none" /\ t.enabled /\ ~t.handshake /\ t.queue = Q
  BY <1>3, <1>4, <1>12 DEF SameLink, SameStore
<1> QED BY <1>12, <1>13 DEF Settled, Base, Core, t

LEMMA RelaunchInv ==
  ASSUME IInv, Relaunch, faults' \in 0..MaxFaults
  PROVE  IInv' /\ sdk'.queue = sdk.queue /\ sdk'.call = "none"
<1> DEFINE l == Launched(sdk.notified, sdk.queue, sdk.told)
           t == [l EXCEPT !.sound = sdk.sound]
<1>1. /\ sdk' = t /\ server' = NoCall /\ committed' = committed
      /\ refused' = refused /\ made' = made /\ faults' \in 0..MaxFaults
  BY DEF Relaunch
<1>2. /\ Base(l, NoCall, committed, made) /\ Settled(l) /\ l.call = "none"
      /\ l.sound /\ l \in Sdk /\ l.queue = sdk.queue
  <2>1. /\ QueuesOK(sdk.queue, sdk.nextId) /\ ToldOK(sdk.told, committed)
        /\ CommitsOK(sdk.queue, committed)
        /\ AheadOK(sdk.blocks, sdk.queue, committed, made)
    BY InvParts DEF Core
  <2>2. AheadOK(<<>>, sdk.queue, committed, made)
    BY <2>1 DEF AheadOK
  <2>3. sdk.nextId \in Nat /\ sdk.told \in SUBSET [write : Writes, ok : BOOLEAN]
        /\ sdk.queue \in Batched /\ sdk.notified \in Accounts
    BY InvParts DEF Sdk, Batched
  <2> HIDE DEF l
  <2>4. LET k == Launched(sdk.notified, sdk.queue, sdk.told)
        IN  /\ Base(k, NoCall, committed, made) /\ Settled(k) /\ k.call = "none"
            /\ k.sound /\ k \in Sdk /\ k.queue = sdk.queue
    BY <2>1, <2>2, <2>3, LaunchedBase
  <2> QED BY <2>4 DEF l
<1>3. t = l
  <2>1. sdk.sound = TRUE /\ l.sound = TRUE
    BY <1>2, InvParts DEF Sdk
  <2> HIDE DEF l
  <2> QED BY <1>2, <2>1 DEF Sdk
<1> HIDE DEF l, t
<1>4. Base(sdk', server', committed', made') /\ Settled(sdk') /\ server' \in Servers
  BY <1>1, <1>2, <1>3, NoCallType
<1>5. sdk'.queue = sdk.queue /\ sdk'.call = "none"
  BY <1>1, <1>2, <1>3
<1> QED BY <1>1, <1>4, <1>5 DEF IInv

LEMMA KillInv ==
  ASSUME IInv, Kill
  PROVE  IInv' /\ sdk'.queue = sdk.queue /\ sdk'.call = "none"
<1>1. Relaunch /\ faults' \in 0..MaxFaults
  BY FaultBound DEF Kill
<1> QED BY <1>1, RelaunchInv

(* The backend has ended a stream, with OK or not: either way it starts    *)
(* again, if need be in a new process.                                     *)
LEMMA RunFinishedInv ==
  ASSUME IInv, RunFinished
  PROVE  /\ IInv' /\ sdk.call = "finishing" /\ sdk'.call = "none"
         /\ sdk'.queue = sdk.queue \/ FirstLeft(sdk, sdk')
<1> DEFINE status == Head(sdk.blocks).status
<1>1. CASE StoppedWhileNeeded(status)
  <2>1. Next1("finished") /\ Relaunch /\ faults' = faults
    BY <1>1 DEF RunFinished
  <2>2. faults' \in 0..MaxFaults
    BY <2>1 DEF IInv
  <2>3. sdk.call = "finishing"
    <3>1. sdk.blocks # <<>> /\ Head(sdk.blocks).kind = "finished"
      BY <2>1 DEF Next1
    <3>2. /\ Head(sdk.blocks) = sdk.blocks[1] /\ 1 \in 1..Len(sdk.blocks)
      BY <3>1, RestFields
    <3> QED BY <3>1, <3>2, InvParts DEF Link, CallOK
  <2> QED BY <2>1, <2>2, <2>3, RelaunchInv
<1>2. CASE ~StoppedWhileNeeded(status)
  <2>1. Next1("finished") /\ Become(Close(Shutdown(Rest), status))
    BY <1>2 DEF RunFinished
  <2> QED BY <1>2, <2>1, CallEndedInv DEF SameQueues
<1> QED BY <1>1, <1>2

LEMMA InitInv ==
  ASSUME Init
  PROVE  IInv /\ sdk.queue = [a \in Accounts |-> <<>>] /\ sdk.call = "none"
<1> DEFINE Q == [a \in Accounts |-> <<>>]
           t == Launched(FirstUser, Q, {})
<1>1. /\ sdk = t /\ server = NoCall /\ committed = {} /\ refused = {}
      /\ made = 0 /\ faults = 0
  BY DEF Init
<1>2. FirstUser \in Accounts /\ MaxWrites \in Nat /\ MaxFaults \in Nat
  BY FirstUserAssumption, BoundsAssumption
<1>3. Q \in Batched /\ \A a \in Accounts : Len(Q[a]) = 0 /\ 1..Len(Q[a]) = {}
  BY DEF Batched
<1> HIDE DEF Q
<1>4. QueuesOK(Q, 1) /\ CommitsOK(Q, {}) /\ AheadOK(<<>>, Q, {}, 0) /\ ToldOK({}, {})
  BY <1>3 DEF QueuesOK, CommitsOK, AheadOK, ToldOK
<1>5. {} \in SUBSET [write : Writes, ok : BOOLEAN] /\ 1 \in Nat
  OBVIOUS
<1>6. Base(t, NoCall, {}, 0) /\ Settled(t) /\ t.queue = Q /\ t.call = "none"
  BY <1>2, <1>3, <1>4, <1>5, LaunchedBase
<1> HIDE DEF t
<1>7. IInv
  BY <1>1, <1>2, <1>6, NoCallType DEF IInv
<1> QED BY <1>1, <1>6, <1>7 DEF Q

LEMMA StepKeepsInv == ASSUME IInv, [Next]_vars PROVE IInv'
<1>1. CASE RunBlock
  <2>1. RunWrite => IInv'
    BY RunWriteInv
  <2>2. RunCredentialChange => IInv'
    BY RunCredentialChangeInv
  <2>3. RunToken => IInv'
    BY RunTokenInv
  <2>4. RunRead => IInv'
    BY RunReadInv
  <2>5. RunFailed => IInv'
    BY RunFailedInv
  <2>6. RunFinished => IInv'
    BY RunFinishedInv
  <2> QED BY <1>1, <2>1, <2>2, <2>3, <2>4, <2>5, <2>6 DEF RunBlock
<1>2. CASE BackoffElapsed
  BY <1>2, BackoffElapsedInv
<1>3. CASE OtherThreads
  BY <1>3, GiveTokenInv, SendRequestInv, FailRequestInv, ReceiveAnswerInv,
     ReceiveEndInv DEF OtherThreads
<1>4. CASE Serve
  BY <1>4, ServeInv
<1>5. CASE Environment
  <2>1. CASE MakeWrite \/ IdleTimeout \/ Refuse \/ Break \/ EndStream \/ FailToken \/ Kill
    BY <2>1, MakeWriteInv, IdleTimeoutInv, RefuseInv, BreakInv, EndStreamInv,
       FailTokenInv, KillInv
  <2>2. CASE \E available \in BOOLEAN : NetworkChange(available)
    BY <2>2, NetworkChangeInv
  <2>3. CASE \E u \in Accounts : ChangeUser(u)
    BY <2>3, ChangeUserInv
  <2> QED BY <1>5, <2>1, <2>2, <2>3 DEF Environment
<1>6. CASE UNCHANGED vars
  BY <1>6 DEF vars, IInv
<1> QED BY <1>1, <1>2, <1>3, <1>4, <1>5, <1>6 DEF Next

(* The invariant the claims about WritePipeline rest on, in every          *)
(* interleaving of the worker queue, Auth, gRPC, the backend and the       *)
(* faults: each handler of SyncEngine, RemoteStore, WriteStream and        *)
(* GrpcStream that is translated there keeps it.                           *)
THEOREM Invariance == Spec => []IInv
<1>1. Init => IInv
  BY InitInv
<1>2. IInv /\ [Next]_vars => IInv'
  BY StepKeepsInv
<1> QED BY <1>1, <1>2, PTL DEF Spec

(* Every variable keeps to its range; the counters of writes and faults    *)
(* stay within their bounds.                                               *)
THEOREM TypeCorrect == Spec => []TypeOK
<1>1. IInv => TypeOK
  BY InvParts DEF IInv, TypeOK, Servers
<1> QED BY <1>1, Invariance, PTL

(* Of the HARD_ASSERTs of SyncEngine, RemoteStore, Stream and WriteStream  *)
(* on the way of a write none fails, however many accounts, writes and     *)
(* faults there are, but that of OnWriteStreamClose, and that one only     *)
(* where RunFinished says so: the backend ended a call with OK that still  *)
(* had writes in its pipeline.  No other fails after the abort, either.    *)
THEOREM AssertionsHold == Spec => []Sound
<1>1. IInv => Sound
  BY InvParts DEF Sound
<1> QED BY <1>1, Invariance, PTL

(* A token, a queued write, a batch id and a user callback of one account  *)
(* never get to another (OnCredentialChanged, LocalStore::HandleUserChange,*)
(* LoadNextBatchIdAcrossAllUsers, SyncEngine::mutation_callbacks_).        *)
THEOREM AccountsKeptApart == Spec => []OwnAccount
<1>1. IInv => OwnAccount
  <2> SUFFICES ASSUME IInv PROVE OwnAccount
    OBVIOUS
  <2>1. QueuesOK(sdk.queue, sdk.nextId) /\ ClosuresOK(sdk.queue, sdk.callbacks)
    BY InvParts DEF Core
  <2>2. \A a \in Accounts : DOMAIN sdk.queue[a] = 1..Len(sdk.queue[a])
    BY InvParts
  <2>3. \A c \in sdk.callbacks : c.user \in Accounts
    BY InvParts DEF Sdk
  <2>4. sdk.call = "open" => sdk.tokenOf = sdk.user
    BY InvParts DEF Link
  <2>5. \A a \in Accounts : \A i \in DOMAIN sdk.queue[a] :
          sdk.queue[a][i].write.by = a
    BY <2>1, <2>2 DEF QueuesOK
  <2>6. \A a, b \in Accounts :
          \A i \in DOMAIN sdk.queue[a], j \in DOMAIN sdk.queue[b] :
             sdk.queue[a][i].id = sdk.queue[b][j].id => <<a, i>> = <<b, j>>
    <3> SUFFICES ASSUME NEW a \in Accounts, NEW b \in Accounts,
                        NEW i \in DOMAIN sdk.queue[a], NEW j \in DOMAIN sdk.queue[b],
                        sdk.queue[a][i].id = sdk.queue[b][j].id
                 PROVE  a = b /\ i = j
      OBVIOUS
    <3>1. i \in 1..Len(sdk.queue[a]) /\ j \in 1..Len(sdk.queue[b])
      BY <2>2
    <3>2. \A x, y \in Accounts : \A k \in 1..Len(sdk.queue[x]), l \in 1..Len(sdk.queue[y]) :
             sdk.queue[x][k].id = sdk.queue[y][l].id => x = y /\ k = l
      BY <2>1 DEF QueuesOK
    <3> QED BY <3>1, <3>2
  <2>7. \A c \in sdk.callbacks : \E i \in DOMAIN sdk.queue[c.user] :
          sdk.queue[c.user][i] = [id |-> c.id, write |-> c.write]
    BY <2>1, <2>2, <2>3 DEF ClosuresOK
  <2> QED BY <2>4, <2>5, <2>6, <2>7 DEF OwnAccount
<1> QED BY <1>1, Invariance, PTL

(* The completion of a write reports a success only of what the backend    *)
(* committed, and the backend commits the writes of an account in the      *)
(* order of its mutation queue, through breaks, refusals, restarts and     *)
(* changes of user.                                                        *)
THEOREM SuccessIsTrue == Spec => []ToldInOrder
<1>1. IInv => ToldInOrder
  <2> SUFFICES ASSUME IInv PROVE ToldInOrder
    OBVIOUS
  <2>1. ToldOK(sdk.told, committed) /\ CommitsOK(sdk.queue, committed)
    BY InvParts DEF Core
  <2>2. \A w \in committed : DOMAIN sdk.queue[w.by] = 1..Len(sdk.queue[w.by])
    <3> SUFFICES ASSUME NEW w \in committed
                 PROVE  DOMAIN sdk.queue[w.by] = 1..Len(sdk.queue[w.by])
      OBVIOUS
    <3>1. w.by \in Accounts
      BY InvParts DEF Writes
    <3>2. sdk.queue[w.by] \in Seq(Batches)
      BY <3>1, InvParts
    <3> QED BY <3>2
  <2> QED BY <2>1, <2>2 DEF ToldOK, CommitsOK, ToldInOrder
<1> QED BY <1>1, Invariance, PTL

-----------------------------------------------------------------------------
(***************************************************************************)
(* The answers outstanding, as the claims count them.                      *)
(***************************************************************************)
LEMMA ArrivedIs ==
  ASSUME IInv
  PROVE  /\ Arrived \in Seq(Requests) /\ Len(Arrived) = Reads(sdk.blocks)
         /\ \A i \in 1..Len(Arrived) : \E k \in 1..Len(sdk.blocks) :
               /\ sdk.blocks[k].kind = "read"
               /\ Arrived[i] = sdk.blocks[k].answer
<1> DEFINE I == {i \in DOMAIN sdk.blocks : sdk.blocks[i].kind = "read"}
           reads == Select(sdk.blocks, I)
<1>1. DOMAIN sdk.blocks = 1..Len(sdk.blocks) /\ sdk.blocks \in Seq(Blocks)
      /\ Len(sdk.blocks) \in Nat
  BY InvParts, LenProperties
<1>2. I \in SUBSET (1..Len(sdk.blocks))
  BY <1>1
<1>3. reads \in Seq(Blocks) /\ \E h : InPlaces(reads, sdk.blocks, I, h)
  <2> HIDE DEF I
  <2> QED BY <1>1, <1>2, SelectProperties
<1>4. Arrived = [i \in DOMAIN reads |-> reads[i].answer]
  BY DEF Arrived
<1> HIDE DEF reads
<1>5. PICK h : InPlaces(reads, sdk.blocks, I, h)
  BY <1>3
<1>6. \A i \in 1..Len(reads) :
         /\ h[i] \in 1..Len(sdk.blocks) /\ sdk.blocks[h[i]].kind = "read"
         /\ reads[i] = sdk.blocks[h[i]]
  BY <1>1, <1>5 DEF InPlaces
<1>7. DOMAIN reads = 1..Len(reads) /\ Len(reads) \in Nat
  BY <1>3, LenProperties
<1>8. \A i \in 1..Len(reads) : reads[i].answer \in Requests
  <2> SUFFICES ASSUME NEW i \in 1..Len(reads) PROVE reads[i].answer \in Requests
    OBVIOUS
  <2>1. reads[i] \in Blocks /\ reads[i].kind = "read"
    BY <1>3, <1>6
  <2> QED BY <2>1 DEF Blocks, Failed
<1>9. /\ Arrived \in Seq(Requests) /\ Len(Arrived) = Len(reads)
      /\ \A i \in 1..Len(reads) : Arrived[i] = reads[i].answer
  <2>1. Arrived = [i \in 1..Len(reads) |-> reads[i].answer]
    BY <1>4, <1>7
  <2> HIDE DEF I
  <2> QED BY <1>7, <1>8, <2>1
<1>10. Len(reads) = Reads(sdk.blocks)
  <2>1. CASE HasRead(sdk.blocks)
    <3>1. PICK k \in 1..Len(sdk.blocks) : sdk.blocks[k].kind = "read"
      BY <2>1 DEF HasRead
    <3>2. k \in I
      BY <1>1, <3>1
    <3>3. 1 <= Len(reads)
      BY <1>5, <1>7, <3>2 DEF InPlaces
    <3>4. ~(2 <= Len(reads))
      <4> SUFFICES ASSUME 2 <= Len(reads) PROVE FALSE
        OBVIOUS
      <4>1. 1 \in 1..Len(reads) /\ 2 \in 1..Len(reads) /\ 1 < 2
        BY <1>7
      <4>2. h[1] < h[2]
        BY <1>5, <4>1 DEF InPlaces
      <4>3. h[1] = h[2]
        BY <1>6, <4>1, InvParts DEF Link, CallOK
      <4>4. h[1] \in Nat
        BY <1>6, <4>1
      <4> QED BY <4>2, <4>3, <4>4
    <3> QED BY <1>7, <2>1, <3>3, <3>4 DEF Reads
  <2>2. CASE ~HasRead(sdk.blocks)
    <3>1. 1 \notin 1..Len(reads)
      BY <1>6, <2>2 DEF HasRead
    <3> QED BY <1>7, <2>2, <3>1 DEF Reads
  <2> QED BY <2>1, <2>2
<1> QED BY <1>6, <1>9, <1>10

LEMMA SelectNone ==
  ASSUME NEW E, NEW s \in Seq(E)
  PROVE  Select(s, {}) = <<>>
<1>1. {} \in SUBSET (1..Len(s))
  OBVIOUS
<1> DEFINE r == Select(s, {})
<1>2. r \in Seq(E) /\ \E h : InPlaces(r, s, {}, h)
  BY <1>1, SelectProperties
<1> HIDE DEF r
<1>3. 1 \notin 1..Len(r) /\ Len(r) \in Nat
  BY <1>2, LenProperties DEF InPlaces
<1>4. Len(r) = 0
  BY <1>3
<1>5. r = <<>>
  BY <1>2, <1>4, EmptySeq
<1> QED BY <1>5 DEF r

LEMMA SelectAll ==
  ASSUME NEW E, NEW s \in Seq(E)
  PROVE  Select(s, 1..Len(s)) = s
<1> DEFINE r == Select(s, 0 + 1 .. Len(s))
<1>1. Len(s) \in Nat /\ 0 \in Nat /\ 0 <= Len(s) /\ 0 + 1 = 1
  BY LenProperties
<1>2. /\ r \in Seq(E) /\ Len(r) = Len(s) - 0
      /\ \A i \in 1..Len(s) - 0 : r[i] = s[0 + i]
  BY <1>1, SelectSuffix
<1>3. r = Select(s, 1..Len(s))
  BY <1>1
<1> HIDE DEF r
<1>4. Len(r) = Len(s) /\ \A i \in 1..Len(r) : r[i] = s[i]
  BY <1>1, <1>2
<1>5. r = s
  BY <1>2, <1>4, SeqEqual
<1> QED BY <1>3, <1>5

(* While a call is open these are the answers to the first writes of the   *)
(* pipeline, in order.                                                     *)
LEMMA OutstandingIs ==
  ASSUME IInv, sdk.call = "open"
  PROVE  /\ Outstanding \in Seq(Requests) /\ Len(Outstanding) \in Nat
         /\ Len(Outstanding) = IF sdk.handshake
                               THEN Reads(sdk.blocks) + Len(server.answers) ELSE 0
         /\ Len(Outstanding) <= Len(sdk.pipeline)
         /\ \A i \in 1..Len(Outstanding) : Outstanding[i] = sdk.pipeline[i].write
<1> DEFINE e == Expected(sdk.handshake, sdk.pipeline)
           a == Reads(sdk.blocks)
           k == Len(server.answers)
           x == Arrived
           all == x \o server.answers
           I == {i \in DOMAIN all : IsResult(all[i])}
<1>1. /\ e \in Seq(Requests) /\ LineOK(sdk.blocks, sdk.buffer, server, e)
      /\ server.answers \in Seq(Requests)
  BY ExpectedType, InvParts DEF Link, Servers
<1>2. /\ x \in Seq(Requests) /\ Len(x) = a
      /\ \A i \in 1..Len(x) : \E j \in 1..Len(sdk.blocks) :
            sdk.blocks[j].kind = "read" /\ x[i] = sdk.blocks[j].answer
  BY ArrivedIs
<1>3. a \in {0, 1} /\ k \in Nat /\ Len(e) \in Nat
  BY <1>1, LenProperties DEF Reads
<1> HIDE DEF x
<1>4. /\ all \in Seq(Requests) /\ Len(all) = a + k
      /\ \A i \in 1..a : all[i] = x[i]
      /\ \A i \in 1..k : all[a + i] = server.answers[i]
      /\ \A i \in 1..a + k : i \in 1..a \/ (i - a \in 1..k /\ a + (i - a) = i)
  <2>1. x \in Seq(Requests) /\ server.answers \in Seq(Requests)
    BY <1>1, <1>2
  <2>2. /\ all \in Seq(Requests) /\ Len(all) = Len(x) + k
        /\ \A i \in 1..Len(x) : all[i] = x[i]
        /\ \A i \in 1..k : all[Len(x) + i] = server.answers[i]
    BY <2>1
  <2>3. \A m, n \in Nat : \A i \in 1..m + n :
           i \in 1..m \/ (i - m \in 1..n /\ m + (i - m) = i)
    OBVIOUS
  <2>4. Len(x) = a /\ a \in Nat /\ k \in Nat
    BY <1>2, <1>3
  <2> HIDE DEF all, a, k
  <2> QED BY <2>2, <2>3, <2>4
<1>5. Outstanding = Select(all, I)
  BY DEF Outstanding, x
<1> HIDE DEF all, e
<1>6. a + k <= Len(e) /\ \A i \in 1..a + k : all[i] = e[i]
  <2>1. Within(server.answers, a, e)
        /\ \A j \in 1..Len(sdk.blocks) : sdk.blocks[j].kind = "read" =>
              Len(e) >= 1 /\ sdk.blocks[j].answer = e[1]
    BY <1>1 DEF LineOK
  <2>2. a + k <= Len(e)
    BY <2>1 DEF Within
  <2>3. ASSUME NEW i \in 1..a + k PROVE all[i] = e[i]
    <3>1. CASE i \in 1..a
      <4>1. i = 1 /\ i \in 1..Len(x)
        BY <1>2, <1>3, <3>1
      <4> QED BY <1>2, <1>4, <2>1, <3>1, <4>1
    <3>2. CASE i \notin 1..a
      <4> DEFINE o == i - a
      <4>1. o \in 1..k /\ a + o = i
        BY <1>4, <3>2
      <4> HIDE DEF o
      <4>2. server.answers[o] = e[a + o]
        BY <2>1, <4>1 DEF Within
      <4> QED BY <1>4, <4>1, <4>2
    <3> QED BY <3>1, <3>2
  <2> QED BY <2>2, <2>3
<1>7. DOMAIN all = 1..Len(all) /\ Len(all) \in Nat
  BY <1>4, LenProperties
<1>8. CASE ~sdk.handshake
  <2>1. e = <<Handshake>> /\ Len(e) = 1 /\ e[1] = Handshake
    BY <1>8 DEF Expected, e
  <2>2. \A i \in 1..Len(all) : all[i] = Handshake
    <3> SUFFICES ASSUME NEW i \in 1..Len(all) PROVE all[i] = Handshake
      OBVIOUS
    <3>1. i = 1
      BY <1>3, <1>4, <1>6, <2>1
    <3> QED BY <1>4, <1>6, <2>1, <3>1
  <2>3. I = {}
    BY <1>7, <2>2 DEF IsResult
  <2>4. Outstanding = <<>>
    <3> HIDE DEF I
    <3> QED BY <1>4, <1>5, <2>3, SelectNone
  <2>5. Len(<<>>) = 0 /\ <<>> \in Seq(Requests) /\ Len(sdk.pipeline) \in Nat
    BY InvParts, LenProperties
  <2> QED BY <1>8, <2>4, <2>5
<1>9. CASE sdk.handshake
  <2>1. /\ e = WritesOf(sdk.pipeline) /\ Len(e) = Len(sdk.pipeline)
        /\ \A i \in 1..Len(sdk.pipeline) : e[i] = sdk.pipeline[i].write
        /\ e \in Seq(Writes)
    <3>1. sdk.handshake = TRUE
      BY <1>9, InvParts DEF Sdk
    <3> QED BY <3>1, InvParts, WritesOfProperties DEF e
  <2>2. \A i \in 1..Len(all) : i \in 1..Len(e) /\ all[i] = e[i]
    <3>1. \A m, n \in Nat : m <= n => \A i \in 1..m : i \in 1..n
      OBVIOUS
    <3>2. Len(all) <= Len(e)
      BY <1>4, <1>6
    <3> QED BY <1>3, <1>4, <1>6, <1>7, <3>1, <3>2
  <2>3. \A i \in 1..Len(e) : e[i] \in Writes
    BY <2>1
  <2>4. I = 1..Len(all)
    BY <1>7, <2>2, <2>3, HandshakeIsNoWrite DEF IsResult
  <2>5. Outstanding = all
    <3> HIDE DEF I
    <3> QED BY <1>4, <1>5, <2>4, SelectAll
  <2>6. Len(all) <= Len(sdk.pipeline)
    BY <1>4, <1>6, <2>1
  <2>7. \A i \in 1..Len(all) : all[i] = sdk.pipeline[i].write
    BY <2>1, <2>2
  <2> QED BY <1>4, <1>7, <1>9, <2>5, <2>6, <2>7
<1> QED BY <1>8, <1>9

(* RemoteStore::OnWriteStreamMutationResult credits an answer to the front *)
(* of write_pipeline_: it is the right write, and the pipeline is the      *)
(* front of the mutation queue.                                            *)
THEOREM AnswersMeetTheirWrites == Spec => []Correlated
<1>1. IInv => Correlated
  <2> SUFFICES ASSUME IInv PROVE Correlated
    OBVIOUS
  <2> DEFINE p == sdk.pipeline
             q == sdk.queue[sdk.user]
  <2>1. /\ PipeOK(p, q) /\ p \in Seq(Batches) /\ q \in Seq(Batches)
        /\ Len(p) \in Nat /\ Len(q) \in Nat
    BY InvParts, LenProperties DEF Link
  <2>2. p = SubSeq(q, 1, Len(p))
    <3> HIDE DEF p, q
    <3>1. Len(p) <= Len(q) /\ \A i \in 1..Len(p) : p[i] = q[i]
      BY <2>1 DEF PipeOK
    <3>2. \A i \in 1..Len(p) : q[i] \in Batches
      BY <2>1, <3>1
    <3>3. SubSeq(q, 1, Len(p)) = [i \in 1..Len(p) |-> q[i]]
      BY <2>1, <3>1
    <3>4. p = [i \in 1..Len(p) |-> p[i]]
      BY <2>1
    <3> QED BY <3>1, <3>3, <3>4
  <2>3. ASSUME sdk.call = "open"
        PROVE  /\ Len(Outstanding) <= Len(sdk.pipeline)
               /\ \A i \in DOMAIN Outstanding : Outstanding[i] = sdk.pipeline[i].write
    <3>1. Outstanding \in Seq(Requests)
      BY <2>3, OutstandingIs
    <3>2. DOMAIN Outstanding = 1..Len(Outstanding)
      BY <3>1, LenProperties
    <3> QED BY <2>3, <3>2, OutstandingIs
  <2>4. Len(p) <= Len(q)
    BY <2>1 DEF PipeOK
  <2> QED BY <2>2, <2>3, <2>4 DEF Correlated
<1> QED BY <1>1, Invariance, PTL

-----------------------------------------------------------------------------
(***************************************************************************)
(* The refinement of WriteQueue: what each step does to the queues and to  *)
(* the answers that can still be read.                                     *)
(***************************************************************************)
LEMMA UnansweredIsLeft == IInv => Unanswered = Left(sdk, server)
<1> SUFFICES ASSUME IInv PROVE Unanswered = Left(sdk, server)
  OBVIOUS
<1>1. CASE sdk.call = "open"
  BY <1>1, OutstandingIs DEF Unanswered, Left
<1>2. CASE sdk.call # "open"
  BY <1>2 DEF Unanswered, Left
<1> QED BY <1>1, <1>2

LEMMA UnansweredIsLeftNext == IInv' => Unanswered' = Left(sdk', server')
<1>1. (IInv => Unanswered = Left(sdk, server))'
  BY UnansweredIsLeft, PTL
<1> QED BY <1>1

LEMMA LeftType == IInv => Left(sdk, server) \in Nat
<1> SUFFICES ASSUME IInv PROVE Left(sdk, server) \in Nat
  OBVIOUS
<1>1. Len(server.answers) \in Nat
  BY InvParts, LenProperties DEF Servers
<1>2. Reads(sdk.blocks) \in {0, 1}
  BY DEF Reads
<1>3. \A m \in {0, 1}, n \in Nat : m + n \in Nat
  OBVIOUS
<1> QED BY <1>1, <1>2, <1>3 DEF Left

LEMMA LeftTypeNext == IInv' => Left(sdk', server') \in Nat
<1>1. (IInv => Left(sdk, server) \in Nat)'
  BY LeftType, PTL
<1> QED BY <1>1 DEF Left

LEMMA AppendReads ==
  ASSUME IInv, NEW b \in Blocks, b.kind # "read"
  PROVE  Reads(Append(sdk.blocks, b)) = Reads(sdk.blocks)
<1> DEFINE new == Append(sdk.blocks, b)
<1>1. /\ Len(sdk.blocks) \in Nat
      /\ Len(new) = Len(sdk.blocks) + 1
      /\ \A i \in 1..Len(sdk.blocks) : new[i] = sdk.blocks[i]
      /\ new[Len(sdk.blocks) + 1] = b
      /\ \A i \in 1..Len(new) : i \in 1..Len(sdk.blocks) \/ i = Len(sdk.blocks) + 1
  BY InvParts, AppendIndices
<1> HIDE DEF new
<1>2. \A i \in 1..Len(sdk.blocks) : i \in 1..Len(new)
  BY <1>1
<1>3. HasRead(sdk.blocks) => HasRead(new)
  BY <1>1, <1>2 DEF HasRead
<1>4. HasRead(new) => HasRead(sdk.blocks)
  BY <1>1 DEF HasRead
<1> QED BY <1>3, <1>4 DEF Reads, new

(* The answers that can still be read stay, or the latest of them are lost.*)
Keeps == /\ SameQueues(sdk, sdk')
         /\ Left(sdk', server') \in 0..Left(sdk, server)

(* Blocks that are added by other threads.                                 *)
LEMMA AddedKeeps ==
  ASSUME IInv, NEW b \in Blocks, b.kind # "read",
         sdk' \in Sdk,
         sdk'.user = sdk.user, sdk'.queue = sdk.queue, sdk'.call = sdk.call,
         sdk'.handshake = sdk.handshake,
         sdk'.blocks = Append(sdk.blocks, b) \/ sdk'.blocks = sdk.blocks,
         server'.answers = server.answers
  PROVE  Keeps
<1>1. Reads(sdk'.blocks) = Reads(sdk.blocks)
  BY AppendReads
<1>2. Left(sdk', server') = Left(sdk, server)
  BY <1>1 DEF Left
<1>3. \A n \in Nat : n \in 0..n
  OBVIOUS
<1> QED BY <1>2, <1>3, LeftType DEF Keeps, SameQueues

LEMMA MakeWriteKeeps == ASSUME IInv, IInv', MakeWrite PROVE Keeps
<1> DEFINE w == [by |-> sdk.notified, n |-> made + 1]
           b == [kind |-> "write", write |-> w]
<1>1. /\ made < MaxWrites /\ sdk' = [sdk EXCEPT !.blocks = Append(@, b)]
      /\ server' = server
  BY DEF MakeWrite, AddBlock
<1>2. w \in Writes
  <2>1. made \in 0..MaxWrites /\ MaxWrites \in Nat
    BY BoundsAssumption DEF IInv
  <2>2. made + 1 \in 1..MaxWrites
    BY <1>1, <2>1
  <2> QED BY <2>2, InvParts DEF Writes
<1> HIDE DEF w
<1>3. b \in Blocks /\ b.kind = "write"
  BY <1>2 DEF Blocks
<1> HIDE DEF b
<1>4. /\ sdk'.user = sdk.user /\ sdk'.queue = sdk.queue /\ sdk'.call = sdk.call
      /\ sdk'.handshake = sdk.handshake /\ sdk'.blocks = Append(sdk.blocks, b)
  BY <1>1, InvParts DEF Sdk
<1>5. sdk' \in Sdk
  BY DEF IInv, Base, Core
<1> QED BY <1>1, <1>3, <1>4, <1>5, AddedKeeps

LEMMA AnswerTokenKeeps ==
  ASSUME IInv, IInv', NEW r \in sdk.asked, NEW ok \in BOOLEAN, AnswerToken(r, ok)
  PROVE  Keeps
<1> DEFINE b == [kind |-> "token", user |-> r.user, ok |-> ok, live |-> r.live]
<1>1. server' = server /\ sdk' \in Sdk
  BY DEF AnswerToken, IInv, Base, Core
<1>2. b \in Blocks /\ b.kind = "token"
  <2>1. r \in [user : Accounts, current : BOOLEAN, live : BOOLEAN]
    BY InvParts DEF Requesting
  <2> QED BY <2>1 DEF Blocks
<1>3. CASE r.current
  <2>1. sdk' = [[sdk EXCEPT !.asked = @ \ {r}] EXCEPT !.blocks = Append(@, b)]
    BY <1>3 DEF AnswerToken
  <2> HIDE DEF b
  <2>2. /\ sdk'.user = sdk.user /\ sdk'.queue = sdk.queue /\ sdk'.call = sdk.call
        /\ sdk'.handshake = sdk.handshake /\ sdk'.blocks = Append(sdk.blocks, b)
    BY <2>1, InvParts DEF Sdk
  <2> QED BY <1>1, <1>2, <2>2, AddedKeeps
<1>4. CASE ~r.current
  <2> DEFINE x == [r EXCEPT !.user = sdk.notified, !.current = TRUE]
  <2>1. sdk' = [[sdk EXCEPT !.asked = @ \ {r}] EXCEPT !.asked = @ \cup {x}]
    BY <1>4 DEF AnswerToken
  <2> HIDE DEF x
  <2>2. /\ sdk'.user = sdk.user /\ sdk'.queue = sdk.queue /\ sdk'.call = sdk.call
        /\ sdk'.handshake = sdk.handshake /\ sdk'.blocks = sdk.blocks
    BY <2>1, InvParts DEF Sdk
  <2> HIDE DEF b
  <2> QED BY <1>1, <1>2, <2>2, AddedKeeps
<1> QED BY <1>3, <1>4

LEMMA GiveTokenKeeps == ASSUME IInv, IInv', GiveToken PROVE Keeps
BY AnswerTokenKeeps DEF GiveToken

LEMMA FailTokenKeeps == ASSUME IInv, IInv', FailToken PROVE Keeps
BY AnswerTokenKeeps DEF FailToken

LEMMA ChangeUserKeeps ==
  ASSUME IInv, IInv', NEW u \in Accounts, ChangeUser(u) PROVE Keeps
<1> DEFINE b == [kind |-> "credential", user |-> u]
           asked == {[r EXCEPT !.current = FALSE] : r \in sdk.asked}
<1>1. /\ sdk' = [sdk EXCEPT !.notified = u, !.asked = asked,
                            !.blocks = Append(@, b)]
      /\ server' = server /\ sdk' \in Sdk
  BY DEF ChangeUser, IInv, Base, Core
<1>2. b \in Blocks /\ b.kind = "credential"
  BY DEF Blocks
<1> HIDE DEF b, asked
<1>3. /\ sdk'.user = sdk.user /\ sdk'.queue = sdk.queue /\ sdk'.call = sdk.call
      /\ sdk'.handshake = sdk.handshake /\ sdk'.blocks = Append(sdk.blocks, b)
  BY <1>1, InvParts DEF Sdk
<1> QED BY <1>1, <1>2, <1>3, AddedKeeps

LEMMA FailuresKeep ==
  ASSUME IInv, IInv', FailRequest \/ ReceiveEnd PROVE Keeps
<1>1. server' = server /\ sdk' \in Sdk
  BY DEF FailRequest, ReceiveEnd, IInv, Base, Core
<1>2. Failed \in Blocks /\ Failed.kind # "read"
  BY DEF Blocks, Failed
<1>3. \E reading : sdk' = [sdk EXCEPT !.reading = reading,
                                      !.blocks = Append(@, Failed)]
  <2>1. CASE FailRequest
    <3>1. sdk' = [sdk EXCEPT !.blocks = Append(@, Failed)]
      BY <2>1 DEF FailRequest, AddBlock
    <3>2. sdk' = [sdk EXCEPT !.reading = sdk.reading, !.blocks = Append(@, Failed)]
      BY <3>1, InvParts DEF Sdk
    <3> QED BY <3>2
  <2>2. CASE ReceiveEnd
    BY <2>2 DEF ReceiveEnd
  <2> QED BY <2>1, <2>2
<1>4. PICK reading : sdk' = [sdk EXCEPT !.reading = reading,
                                        !.blocks = Append(@, Failed)]
  BY <1>3
<1>5. /\ sdk'.user = sdk.user /\ sdk'.queue = sdk.queue /\ sdk'.call = sdk.call
      /\ sdk'.handshake = sdk.handshake /\ sdk'.blocks = Append(sdk.blocks, Failed)
  BY <1>4, InvParts DEF Sdk
<1> QED BY <1>1, <1>2, <1>5, AddedKeeps

LEMMA SendRequestKeeps == ASSUME IInv, IInv', SendRequest PROVE Keeps
<1>1. /\ sdk' = [sdk EXCEPT !.buffer = Tail(@)]
      /\ server' = [server EXCEPT !.wire = Append(@, Head(sdk.buffer))]
  BY DEF SendRequest
<1>2. sdk' \in Sdk /\ Failed \in Blocks /\ Failed.kind # "read"
  BY DEF IInv, Base, Core, Blocks, Failed
<1>3. /\ sdk'.user = sdk.user /\ sdk'.queue = sdk.queue /\ sdk'.call = sdk.call
      /\ sdk'.handshake = sdk.handshake /\ sdk'.blocks = sdk.blocks
  BY <1>1, InvParts DEF Sdk
<1>4. server'.answers = server.answers
  BY <1>1, InvParts DEF Servers
<1> QED BY <1>2, <1>3, <1>4, AddedKeeps

LEMMA ReceiveAnswerKeeps == ASSUME IInv, IInv', ReceiveAnswer PROVE Keeps
<1> DEFINE h == Head(server.answers)
           b == [kind |-> "read", answer |-> h]
           new == Append(sdk.blocks, b)
           answers == Tail(server.answers)
<1>1. /\ sdk.reading /\ server.answers # <<>>
      /\ sdk' = [sdk EXCEPT !.reading = FALSE, !.blocks = new]
      /\ server' = [server EXCEPT !.answers = answers]
  BY DEF ReceiveAnswer
<1>2. server.answers \in Seq(Requests)
  BY InvParts DEF Servers
<1>3. /\ h \in Requests /\ Len(server.answers) \in Nat \ {0}
      /\ Len(answers) = Len(server.answers) - 1
  BY <1>1, <1>2, TailIndices
<1> HIDE DEF h, answers
<1>4. b \in Blocks /\ b.kind = "read"
  BY <1>3 DEF Blocks
<1> HIDE DEF b
<1>5. /\ Len(sdk.blocks) \in Nat /\ Len(new) = Len(sdk.blocks) + 1
      /\ new[Len(sdk.blocks) + 1] = b
  BY <1>4, InvParts, AppendIndices
<1> HIDE DEF new
<1>6. /\ sdk'.user = sdk.user /\ sdk'.queue = sdk.queue /\ sdk'.call = sdk.call
      /\ sdk'.handshake = sdk.handshake /\ sdk'.blocks = new
  BY <1>1, InvParts DEF Sdk
<1>7. server'.answers = answers
  BY <1>1, InvParts DEF Servers
<1>8. Reads(new) = 1
  <2>1. Len(sdk.blocks) + 1 \in 1..Len(new)
    BY <1>5
  <2> QED BY <1>4, <1>5, <2>1 DEF Reads, HasRead
<1>9. Reads(sdk.blocks) = 0
  <2>1. sdk.call = "open" \/ ~HasRead(sdk.blocks)
    BY InvParts DEF Link, CallOK, HasRead
  <2>2. ~HasRead(sdk.blocks)
    BY <1>1, InvParts DEF Link, CallOK, HasRead
  <2> QED BY <2>2 DEF Reads
<1>10. Left(sdk', server') = Left(sdk, server)
  <2>1. 1 + Len(answers) = 0 + Len(server.answers)
    BY <1>3
  <2> QED BY <1>6, <1>7, <1>8, <1>9, <2>1 DEF Left
<1>11. \A n \in Nat : n \in 0..n
  OBVIOUS
<1> QED BY <1>6, <1>10, <1>11, LeftType DEF Keeps, SameQueues

LEMMA RefuseKeeps == ASSUME IInv, IInv', Refuse PROVE Keeps
<1>1. /\ sdk' = sdk /\ sdk' \in Sdk
      /\ server' = [server EXCEPT !.wire = <<>>, !.status = "permanent"]
  BY InvParts DEF Refuse
<1>2. Failed \in Blocks /\ Failed.kind # "read"
  BY DEF Blocks, Failed
<1>3. server'.answers = server.answers
  BY <1>1, InvParts DEF Servers
<1> QED BY <1>1, <1>2, <1>3, AddedKeeps

LEMMA EndStreamKeeps == ASSUME IInv, IInv', EndStream PROVE Keeps
<1>1. /\ sdk' = sdk /\ sdk' \in Sdk
      /\ server' = [server EXCEPT !.wire = <<>>, !.status = "ok"]
  BY InvParts DEF EndStream
<1>2. Failed \in Blocks /\ Failed.kind # "read"
  BY DEF Blocks, Failed
<1>3. server'.answers = server.answers
  BY <1>1, InvParts DEF Servers
<1> QED BY <1>1, <1>2, <1>3, AddedKeeps

LEMMA BreakKeeps == ASSUME IInv, IInv', Break PROVE Keeps
<1>1. PICK k \in 0..Len(server.answers) :
         /\ sdk' = sdk
         /\ server' = [wire |-> <<>>, status |-> "transient",
                       answers |-> SubSeq(server.answers, 1, k)]
  BY DEF Break
<1>2. server.answers \in Seq(Requests) /\ Len(server.answers) \in Nat
  BY InvParts, LenProperties DEF Servers
<1>3. Len(SubSeq(server.answers, 1, k)) = k /\ k \in Nat
  BY <1>2
<1>4. Len(server'.answers) = k
  BY <1>1, <1>3
<1>5. Reads(sdk.blocks) \in {0, 1}
  BY DEF Reads
<1>6. \A m \in {0, 1}, n \in Nat : \A o \in 0..n : m + o \in 0..m + n
  OBVIOUS
<1>7. Left(sdk', server') \in 0..Left(sdk, server)
  <2>1. CASE sdk.call = "open" /\ sdk.handshake
    BY <1>1, <1>2, <1>4, <1>5, <1>6, <2>1 DEF Left
  <2>2. CASE ~(sdk.call = "open" /\ sdk.handshake)
    BY <1>1, <2>2 DEF Left
  <2> QED BY <2>1, <2>2
<1> QED BY <1>1, <1>7 DEF Keeps, SameQueues

(* The backend answers the next write of those in the pipeline, if it is   *)
(* not the handshake.                                                      *)
Serves == /\ SameQueues(sdk, sdk')
          /\ Left(sdk', server') = Left(sdk, server) + 1
          /\ Left(sdk, server) < Len(sdk.queue[sdk.user])

LEMMA ServeServes == ASSUME IInv, IInv', Serve PROVE Serves \/ Keeps
<1> DEFINE r == Head(server.wire)
           e == Expected(sdk.handshake, sdk.pipeline)
           q == sdk.queue[sdk.user]
           a == Reads(sdk.blocks)
           k == Len(server.answers)
<1>1. /\ server.wire # <<>> /\ server.status = "open" /\ sdk' = sdk
      /\ server' = [server EXCEPT !.wire = Tail(@), !.answers = Append(@, r)]
  BY DEF Serve
<1>2. /\ server.wire \in Seq(Requests) /\ server.answers \in Seq(Requests)
      /\ k \in Nat /\ Len(server.wire) \in Nat \ {0} /\ r \in Requests
  BY <1>1, InvParts, LenProperties, TailIndices DEF Servers
<1>3. Len(Append(server.answers, r)) = k + 1
  <2> HIDE DEF r, k
  <2>1. Len(Append(server.answers, r)) = Len(server.answers) + 1
    BY <1>2, AppendIndices
  <2> QED BY <2>1 DEF k
<1>4. server'.answers = Append(server.answers, r)
  BY <1>1, InvParts DEF Servers
<1> HIDE DEF r
<1>5. CASE ~(sdk.call = "open" /\ sdk.handshake)
  <2>1. Left(sdk, server) = 0 /\ Left(sdk', server') = 0
    BY <1>1, <1>5 DEF Left
  <2> QED BY <1>1, <2>1 DEF Keeps, SameQueues
<1>6. CASE sdk.call = "open" /\ sdk.handshake
  <2>1. LineOK(sdk.blocks, sdk.buffer, server, e) /\ e \in Seq(Requests)
    BY <1>6, InvParts, ExpectedType DEF Link
  <2>2. Len(e) = Len(sdk.pipeline) /\ Len(sdk.pipeline) \in Nat
    <3>1. sdk.handshake = TRUE
      BY <1>6, InvParts DEF Sdk
    <3>2. e = WritesOf(sdk.pipeline) /\ Len(e) = Len(sdk.pipeline)
      BY <3>1, InvParts, WritesOfProperties
    <3> QED BY <3>2, InvParts, LenProperties
  <2> HIDE DEF e
  <2>3. Within(server.wire, a + k, e)
    BY <1>1, <2>1 DEF LineOK
  <2>4. a + k + Len(server.wire) <= Len(e)
    BY <2>3 DEF Within
  <2>5. Len(sdk.pipeline) <= Len(q) /\ Len(q) \in Nat
    BY InvParts, LenProperties DEF Link, PipeOK
  <2>6. a \in {0, 1}
    BY DEF Reads
  <2>7. Left(sdk, server) = a + k
    BY <1>6 DEF Left
  <2>8. Left(sdk', server') = a + (k + 1)
    BY <1>1, <1>3, <1>4, <1>6 DEF Left
  <2> HIDE DEF a, k
  <2>9. Left(sdk', server') = Left(sdk, server) + 1 /\ Left(sdk, server) < Len(q)
    <3>1. \A m \in {0, 1}, n, p, z \in Nat, w \in Nat \ {0} :
             m + n + w <= p /\ p <= z => m + (n + 1) = (m + n) + 1 /\ m + n < z
      OBVIOUS
    <3>2. k \in Nat /\ Len(server.wire) \in Nat \ {0}
      BY <1>2 DEF k
    <3>3. a + k + Len(server.wire) <= Len(sdk.pipeline)
      BY <2>2, <2>4
    <3>4. a + (k + 1) = (a + k) + 1 /\ a + k < Len(q)
      BY <2>2, <2>5, <2>6, <3>1, <3>2, <3>3
    <3> QED BY <2>7, <2>8, <3>4
  <2> QED BY <1>1, <2>9 DEF Serves, SameQueues
<1> QED BY <1>5, <1>6

(* A block of the app puts a write at the end of a queue.                  *)
Queues1 == \E batch \in Batches :
    /\ sdk'.user = sdk.user
    /\ sdk'.queue = [sdk.queue EXCEPT ![sdk.user] =
                        Append(sdk.queue[sdk.user], batch)]
    /\ Left(sdk', server') = Left(sdk, server)

(* The first write leaves its queue: answered, or refused once no answer   *)
(* can be read any more.                                                   *)
Leaves ==
    /\ FirstLeft(sdk, sdk')
    /\ \/ Left(sdk, server) = 1 + Left(sdk', server')
       \/ Left(sdk, server) = 0 /\ Left(sdk', server') = 0

(* The stream starts over.                                                 *)
StartsOver == sdk'.queue = sdk.queue /\ Left(sdk', server') = 0

LEMMA StepOfQueues ==
  ASSUME IInv, IInv', [Next]_vars
  PROVE  Keeps \/ Serves \/ Queues1 \/ Leaves \/ StartsOver
<1>1. CASE RunBlock
  <2>1. CASE RunWrite
    BY <2>1, RunWriteInv DEF Queues1
  <2>2. CASE RunCredentialChange
    <3>1. sdk'.queue = sdk.queue /\ sdk'.call = "none"
      BY <2>2, RunCredentialChangeInv
    <3> QED BY <3>1 DEF StartsOver, Left
  <2>3. CASE RunToken
    <3>1. SameQueues(sdk, sdk') /\ Left(sdk', server') \in {0, Left(sdk, server)}
      BY <2>3, RunTokenInv
    <3>2. \A n \in Nat : 0 \in 0..n /\ n \in 0..n
      OBVIOUS
    <3> QED BY <3>1, <3>2, LeftType DEF Keeps
  <2>4. CASE RunRead
    <3>1. \/ SameQueues(sdk, sdk') /\ Left(sdk', server') = 0
          \/ FirstLeft(sdk, sdk') /\ Left(sdk, server) = 1 + Left(sdk', server')
      BY <2>4, RunReadInv
    <3> QED BY <3>1 DEF StartsOver, Leaves, SameQueues
  <2>5. CASE RunFailed
    <3>1. SameQueues(sdk, sdk') /\ Left(sdk', server') = 0
      BY <2>5, RunFailedInv
    <3> QED BY <3>1 DEF StartsOver, SameQueues
  <2>6. CASE RunFinished
    <3>1. /\ sdk.call = "finishing" /\ sdk'.call = "none"
          /\ sdk'.queue = sdk.queue \/ FirstLeft(sdk, sdk')
      BY <2>6, RunFinishedInv
    <3>2. Left(sdk, server) = 0 /\ Left(sdk', server') = 0
      BY <3>1 DEF Left
    <3> QED BY <3>1, <3>2 DEF StartsOver, Leaves
  <2> QED BY <1>1, <2>1, <2>2, <2>3, <2>4, <2>5, <2>6 DEF RunBlock
<1>2. CASE BackoffElapsed
  <2>1. SameQueues(sdk, sdk') /\ sdk'.call = "none"
    BY <1>2, BackoffElapsedInv
  <2> QED BY <2>1 DEF StartsOver, SameQueues, Left
<1>3. CASE OtherThreads
  BY <1>3, GiveTokenKeeps, SendRequestKeeps, FailuresKeep, ReceiveAnswerKeeps
     DEF OtherThreads
<1>4. CASE Serve
  BY <1>4, ServeServes
<1>5. CASE Environment
  <2>1. CASE MakeWrite \/ Refuse \/ Break \/ EndStream \/ FailToken
    BY <2>1, MakeWriteKeeps, RefuseKeeps, BreakKeeps, EndStreamKeeps, FailTokenKeeps
  <2>2. CASE IdleTimeout
    <3>1. SameQueues(sdk, sdk') /\ sdk'.call = "none"
      BY <2>2, IdleTimeoutInv
    <3> QED BY <3>1 DEF StartsOver, SameQueues, Left
  <2>3. CASE \E available \in BOOLEAN : NetworkChange(available)
    <3>1. SameQueues(sdk, sdk') /\ sdk'.call = "none"
      BY <2>3, NetworkChangeInv
    <3> QED BY <3>1 DEF StartsOver, SameQueues, Left
  <2>4. CASE \E u \in Accounts : ChangeUser(u)
    BY <2>4, ChangeUserKeeps
  <2>5. CASE Kill
    <3>1. sdk'.queue = sdk.queue /\ sdk'.call = "none"
      BY <2>5, KillInv
    <3> QED BY <3>1 DEF StartsOver, Left
  <2> QED BY <1>5, <2>1, <2>2, <2>3, <2>4, <2>5 DEF Environment
<1>6. CASE UNCHANGED vars
  <2>1. Left(sdk', server') = Left(sdk, server) /\ SameQueues(sdk, sdk')
    BY <1>6 DEF vars, SameQueues
  <2>2. \A n \in Nat : n \in 0..n
    OBVIOUS
  <2> QED BY <2>1, <2>2, LeftType DEF Keeps
<1> QED BY <1>1, <1>2, <1>3, <1>4, <1>5, <1>6 DEF Next

(* The queues as the app sees them.                                        *)
View(Q) == [a \in Accounts |-> [i \in DOMAIN Q[a] |-> Q[a][i].write]]

LEMMA ViewProperties ==
  ASSUME NEW Q \in [Accounts -> Seq(Batches)]
  PROVE  /\ View(Q) \in [Accounts -> Seq(Writes)]
         /\ \A a \in Accounts : /\ View(Q)[a] = WritesOf(Q[a])
                                /\ Len(View(Q)[a]) = Len(Q[a])
                                /\ View(Q)[a] = <<>> <=> Q[a] = <<>>
<1>1. \A a \in Accounts : View(Q)[a] = WritesOf(Q[a])
  BY DEF View, WritesOf
<1>2. ASSUME NEW a \in Accounts
      PROVE  /\ WritesOf(Q[a]) \in Seq(Writes)
             /\ Len(WritesOf(Q[a])) = Len(Q[a])
             /\ WritesOf(Q[a]) = <<>> <=> Q[a] = <<>>
  BY WritesOfProperties
<1>3. View(Q) = [a \in Accounts |-> View(Q)[a]]
  BY DEF View
<1> QED BY <1>1, <1>2, <1>3

LEMMA ExtendsSame ==
  ASSUME NEW q \in Seq(Writes)
  PROVE  Queues!Extends(q, q)
<1>1. Len(q) \in Nat /\ q = [i \in 1..Len(q) |-> q[i]]
  BY LenProperties
<1>2. SubSeq(q, 1, Len(q)) = [i \in 1..Len(q) |-> q[i]]
  BY <1>1
<1> QED BY <1>1, <1>2 DEF Queues!Extends

LEMMA ExtendsAppend ==
  ASSUME NEW q \in Seq(Batches), NEW b \in Batches
  PROVE  Queues!Extends(WritesOf(Append(q, b)), WritesOf(q))
<1> DEFINE l == Append(q, b)
           x == WritesOf(l)
           y == WritesOf(q)
<1>1. /\ l \in Seq(Batches) /\ Len(q) \in Nat /\ Len(l) = Len(q) + 1
      /\ \A i \in 1..Len(q) : l[i] = q[i]
  BY AppendIndices
<1> HIDE DEF l
<1>2. /\ x \in Seq(Writes) /\ Len(x) = Len(l)
      /\ \A i \in 1..Len(l) : x[i] = l[i].write
  BY <1>1, WritesOfProperties
<1>3. /\ y \in Seq(Writes) /\ Len(y) = Len(q)
      /\ \A i \in 1..Len(q) : y[i] = q[i].write
  BY WritesOfProperties
<1> HIDE DEF x, y
<1>4. \A i \in 1..Len(q) : i \in 1..Len(l)
  BY <1>1
<1>5. \A i \in 1..Len(y) : x[i] = y[i]
  BY <1>1, <1>2, <1>3, <1>4
<1>6. Len(y) <= Len(x) /\ Len(y) \in Nat
  BY <1>1, <1>2, <1>3
<1>7. SubSeq(x, 1, Len(y)) = y
  <2>1. SubSeq(x, 1, Len(y)) = [i \in 1..Len(y) |-> x[i]]
    BY <1>2, <1>6
  <2>2. y = [i \in 1..Len(y) |-> y[i]]
    BY <1>3
  <2> QED BY <1>5, <2>1, <2>2
<1> QED BY <1>6, <1>7 DEF Queues!Extends, x, y, l

(* The steps, as the abstract queues see them.                             *)
LEMMA MappedStep ==
  ASSUME IInv, IInv', Keeps \/ Serves \/ Queues1 \/ Leaves \/ StartsOver
  PROVE  [Queues!Next]_(Queues!vars)
<1> DEFINE V == View(sdk.queue)
           W == View(sdk'.queue)
<1>1. /\ sdk.queue \in [Accounts -> Seq(Batches)] /\ sdk.user \in Accounts
      /\ sdk'.user \in Accounts
  BY InvParts DEF IInv, Base, Core, Sdk
<1>2. /\ Left(sdk, server) \in Nat /\ Left(sdk', server') \in Nat
      /\ Unanswered = Left(sdk, server) /\ Unanswered' = Left(sdk', server')
  BY LeftType, LeftTypeNext, UnansweredIsLeft, UnansweredIsLeftNext
<1>3. /\ V \in [Accounts -> Seq(Writes)]
      /\ \A a \in Accounts : /\ V[a] = WritesOf(sdk.queue[a])
                             /\ Len(V[a]) = Len(sdk.queue[a])
                             /\ V[a] = <<>> <=> sdk.queue[a] = <<>>
  BY <1>1, ViewProperties
<1>4. CASE Keeps
  <2>1. sdk'.user = sdk.user /\ sdk'.queue = sdk.queue
        /\ Unanswered' \in 0..Unanswered
    BY <1>2, <1>4 DEF Keeps, SameQueues
  <2>2. Queues!LoseAnswers
    BY <2>1 DEF Queues!LoseAnswers
  <2> QED BY <2>2 DEF Queues!Next
<1>5. CASE Serves
  <2>1. sdk'.user = sdk.user /\ sdk'.queue = sdk.queue
        /\ Unanswered' = Unanswered + 1 /\ Unanswered < Len(V[sdk.user])
    BY <1>1, <1>2, <1>3, <1>5 DEF Serves, SameQueues
  <2>2. Queues!Apply
    BY <2>1 DEF Queues!Apply, View
  <2> QED BY <2>2 DEF Queues!Next
<1>6. CASE Queues1
  <2>1. PICK batch \in Batches :
           /\ sdk'.user = sdk.user
           /\ sdk'.queue = [sdk.queue EXCEPT ![sdk.user] =
                               Append(sdk.queue[sdk.user], batch)]
           /\ Unanswered' = Unanswered
    BY <1>2, <1>6 DEF Queues1
  <2>2. Queues!Extends(WritesOf(Append(sdk.queue[sdk.user], batch)),
                       WritesOf(sdk.queue[sdk.user]))
    BY <1>1, ExtendsAppend
  <2>3. \A a \in Accounts : W[a] = WritesOf(sdk'.queue[a])
    BY DEF View, WritesOf
  <2>4. sdk'.queue[sdk.user] = Append(sdk.queue[sdk.user], batch)
        /\ \A a \in Accounts : a # sdk.user => sdk'.queue[a] = sdk.queue[a]
    BY <1>1, <2>1
  <2>5. W[sdk.user] = WritesOf(Append(sdk.queue[sdk.user], batch))
        /\ V[sdk.user] = WritesOf(sdk.queue[sdk.user])
    BY <1>1, <1>3, <2>3, <2>4
  <2>6. \A a \in Accounts : a # sdk.user => W[a] = V[a]
    BY <1>3, <2>3, <2>4
  <2> HIDE DEF V, W
  <2>7. \A a \in Accounts : IF a = sdk.user THEN Queues!Extends(W[a], V[a])
                                            ELSE W[a] = V[a]
    BY <2>2, <2>5, <2>6
  <2> USE DEF V, W
  <2>8. Queues!Grow
    BY <2>7 DEF Queues!Grow, View
  <2>9. Queues!Enqueue
    BY <2>1, <2>8 DEF Queues!Enqueue
  <2> QED BY <2>9 DEF Queues!Next
<1>7. CASE Leaves
  <2> DEFINE q == sdk.queue[sdk.user]
  <2>1. /\ sdk'.user = sdk.user /\ q # <<>>
        /\ sdk'.queue = [sdk.queue EXCEPT ![sdk.user] = Tail(q)]
    BY <1>7 DEF Leaves, FirstLeft
  <2>2. q \in Seq(Batches)
    BY <1>1
  <2>3. Tail(WritesOf(q)) = WritesOf(Tail(q))
    BY <2>1, <2>2, WritesOfTail
  <2>4. \A a \in Accounts : W[a] = WritesOf(sdk'.queue[a])
    BY DEF View, WritesOf
  <2>5. W = [V EXCEPT ![sdk.user] = Tail(V[sdk.user])]
    <3>1. W = [a \in Accounts |-> W[a]] /\ V = [a \in Accounts |-> V[a]]
      BY DEF View
    <3> HIDE DEF V, W
    <3>2. W[sdk.user] = Tail(V[sdk.user])
      BY <1>1, <1>3, <2>1, <2>3, <2>4
    <3>3. \A a \in Accounts : a # sdk.user => W[a] = V[a]
      BY <1>1, <1>3, <2>1, <2>4
    <3> QED BY <1>1, <3>1, <3>2, <3>3
  <2>6. Queues!Leave
    BY <2>5 DEF Queues!Leave, View
  <2>7. CASE Left(sdk, server) = 1 + Left(sdk', server')
    <3>1. Unanswered > 0 /\ Unanswered' = Unanswered - 1
      BY <1>2, <2>7
    <3>2. Queues!Acknowledge
      BY <2>1, <2>6, <3>1 DEF Queues!Acknowledge
    <3> QED BY <3>2 DEF Queues!Next
  <2>8. CASE Left(sdk, server) = 0 /\ Left(sdk', server') = 0
    <3>1. V[sdk.user] # <<>>
      BY <1>1, <1>3, <2>1
    <3>2. Queues!GiveUp
      BY <1>2, <2>1, <2>6, <2>8, <3>1 DEF Queues!GiveUp, View
    <3> QED BY <3>2 DEF Queues!Next
  <2> QED BY <1>7, <2>7, <2>8 DEF Leaves
<1>8. CASE StartsOver
  <2>1. sdk'.queue = sdk.queue /\ Unanswered' = 0 /\ sdk'.user \in Accounts
    BY <1>1, <1>2, <1>8 DEF StartsOver
  <2>2. \A a \in Accounts : Queues!Extends(V[a], V[a]) /\ W[a] = V[a]
    BY <1>3, <2>1, ExtendsSame
  <2>3. Queues!Grow
    BY <2>2 DEF Queues!Grow, View
  <2>4. Queues!StartOver
    BY <2>1, <2>3 DEF Queues!StartOver
  <2> QED BY <2>4 DEF Queues!Next
<1> QED BY <1>4, <1>5, <1>6, <1>7, <1>8

(* Whatever happens to streams, tokens, processes and accounts, the app    *)
(* sees first-in-first-out queues (LocalStore's mutation queue, worked off *)
(* by RemoteStore): a write leaves at the front only, answered after it    *)
(* was applied or given up with no answer outstanding, and only the queue  *)
(* of the user in charge moves.                                            *)
THEOREM QueuesAreKept == Spec => QueuesKept
<1>1. Init => Queues!Init
  <2> SUFFICES ASSUME Init PROVE Queues!Init
    OBVIOUS
  <2>1. IInv /\ sdk.queue = [a \in Accounts |-> <<>>] /\ sdk.call = "none"
    BY InitInv
  <2>2. Unanswered = 0 /\ sdk.user \in Accounts
    BY <2>1, InvParts DEF Unanswered
  <2>3. View(sdk.queue) = [a \in Accounts |-> <<>>]
    <3>1. \A a \in Accounts : [i \in DOMAIN sdk.queue[a] |-> sdk.queue[a][i].write] = <<>>
      BY <2>1
    <3> QED BY <3>1 DEF View
  <2> QED BY <2>2, <2>3 DEF Queues!Init, View
<1>2. IInv /\ IInv' /\ [Next]_vars => [Queues!Next]_(Queues!vars)
  BY StepOfQueues, MappedStep
<1> QED BY <1>1, <1>2, Invariance, PTL DEF Spec, QueuesKept, Queues!Spec
=============================================================================
