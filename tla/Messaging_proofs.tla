------------------------- MODULE Messaging_proofs -------------------------
(***************************************************************************)
(* Proofs about Messaging, for any number of users, devices and sends and  *)
(* any selection of the events of the environment: its invariants, that it *)
(* implements MessageDelivery, and that the lists settle when nothing is   *)
(* killed, refused or signed out.                                          *)
(***************************************************************************)
EXTENDS MessagingProps, SequenceTheorems, FiniteSetTheorems, TLAPS

(* Shapes.                                                                 *)

(* Place names a collection of the server.                                 *)
LEMMA PlaceType ==
  ASSUME NEW op, NEW m \in Messages
  PROVE  Place(op, m) \in Users \X Users
BY DEF Place, Messages

(* An upload is a single own copy.                                         *)
LEMMA UploadType ==
  ASSUME NEW m \in Messages
  PROVE  /\ Upload(m) \in Seq(Entries)
         /\ Len(Upload(m)) = 1
         /\ Upload(m)[1].op = "own"
BY DEF Upload, Entry, Entries, Ops, CopyOps, RecentOps

(* FanOut is the sequence of three batches of the message it is given.     *)
LEMMA FanOutType ==
  ASSUME NEW m \in Messages
  PROVE  /\ FanOut(m) \in Seq(Entries)
         /\ Len(FanOut(m)) = 3
         /\ FanOut(m)[1].msg = m /\ FanOut(m)[2].msg = m /\ FanOut(m)[3].msg = m
         /\ FanOut(m)[1].op = "peer"
         /\ FanOut(m)[2].op = "ownRecent" /\ FanOut(m)[2].cb = FALSE
         /\ FanOut(m)[3].op = "peerRecent" /\ FanOut(m)[3].cb = FALSE
BY DEF FanOut, Entry, Entries, Ops, CopyOps, RecentOps

(* A dying process leaves a prefix of the fan-out.                         *)
LEMMA FanOutPrefix ==
  ASSUME NEW m \in Messages, NEW k \in 1..2
  PROVE  /\ SubSeq(FanOut(m), 1, k) \in Seq(Entries)
         /\ Len(SubSeq(FanOut(m), 1, k)) = k
         /\ \A i \in 1..k : SubSeq(FanOut(m), 1, k)[i] = FanOut(m)[i]
<1>1. \A i \in 1..k : FanOut(m)[i] \in Entries
  <2> TAKE i \in 1..k
  <2>0. Len(FanOut(m)) = 3
    BY FanOutType
  <2>1. i \in 1..Len(FanOut(m))
    BY <2>0
  <2> QED BY <2>1, FanOutType, ElementOfSeq
<1> QED BY <1>1, SubSeqProperties

(* Where the elements of a concatenation come from.                        *)
LEMMA ConcatIndex ==
  ASSUME NEW E, NEW q \in Seq(E), NEW s \in Seq(E)
  PROVE  /\ q \o s \in Seq(E)
         /\ Len(q \o s) = Len(q) + Len(s)
         /\ \A i \in 1..Len(q) : (q \o s)[i] = q[i]
         /\ \A i \in 1..Len(s) : (q \o s)[Len(q) + i] = s[i]
BY ConcatProperties, LenProperties

(* Replacing one queue of one device.                                      *)
LEMMA QueueUpdate ==
  ASSUME NEW q \in [Devices -> [Accounts -> Seq(Entries)]],
         NEW d \in Devices, NEW a \in Accounts, NEW s \in Seq(Entries)
  PROVE  LET r == [q EXCEPT ![d][a] = s]
         IN  /\ r \in [Devices -> [Accounts -> Seq(Entries)]]
             /\ r[d][a] = s
             /\ \A e \in Devices, b \in Accounts :
                   <<e, b>> # <<d, a>> => r[e][b] = q[e][b]
OBVIOUS

(* A completion reports the write it belongs to.                           *)
LEMMA ReportType ==
  ASSUME NEW e \in Entries, NEW ok \in BOOLEAN, e.cb => e.op \in CopyOps
  PROVE  /\ Report(e, ok) \in Seq(MainEvents)
         /\ \/ Report(e, ok) = <<>>
            \/ Report(e, ok) = <<Completion(e.op, e.msg, ok)>>
               /\ e.op \in CopyOps
               /\ Completion(e.op, e.msg, ok) \in Completions
<1>1. CASE e.cb
  <2>1. Completion(e.op, e.msg, ok) \in Completions
    BY <1>1 DEF Completion, Completions, Entries
  <2>2. Report(e, ok) = <<Completion(e.op, e.msg, ok)>>
    BY <1>1 DEF Report
  <2> QED BY <1>1, <2>1, <2>2 DEF MainEvents
<1>2. CASE ~e.cb
  BY <1>2 DEF Report
<1> QED BY <1>1, <1>2

-----------------------------------------------------------------------------
(***************************************************************************)
(* The inductive invariant.  S stands for the copies that are settled, T   *)
(* for those the server has.                                               *)
(***************************************************************************)
Copy(op, m) == [op |-> op, msg |-> m]

(* In a mutation queue, whatever is not an own copy follows a settled own  *)
(* copy, and the partner's recents document follows the partner's copy.    *)
EntryOK(q, i, S) ==
  /\ q[i].cb => q[i].op \in CopyOps
  /\ q[i].op # "own" => Copy("own", q[i].msg) \in S
  /\ q[i].op = "peerRecent" =>
        \/ Copy("peer", q[i].msg) \in S
        \/ \E j \in 1..(i-1) : q[j].op = "peer" /\ q[j].msg = q[i].msg

QueueOK(q, S) == \A i \in 1..Len(q) : EntryOK(q, i, S)

(* What the stream has committed and not yet answered is on the server.    *)
PrefixOK(q, n, T) ==
  \A i \in 1..n : q[i].op \in CopyOps => Copy(q[i].op, q[i].msg) \in T

(* A block that waits on the main queue tells the truth.                   *)
EventOK(e, T, S) ==
  /\ e.kind = "own" => Copy("own", e.msg) \in S
  /\ e.kind = "peer" /\ e.ok => Copy("peer", e.msg) \in T

MainOK(b, T, S) == \A i \in 1..Len(b) : EventOK(b[i], T, S)

StoredCopies == {c \in Copies : c \in chats[Place(c.op, c.msg)]}
SettledCopies == StoredCopies \cup (Copies \cap refused)

QueuesOK == \A d \in Devices, a \in Accounts : QueueOK(queue[d][a], SettledCopies)
PrefixesOK == \A d \in Devices : PrefixOK(Pending(d), applied[d], StoredCopies)
MainsOK == \A d \in Devices : MainOK(main[d], StoredCopies, SettledCopies)

IInv ==
  /\ TypeOK
  /\ QueuesOK
  /\ PrefixesOK
  /\ MainsOK
  /\ OwnSettledFirst
  /\ ClearedMeansDelivered
  /\ RecentsBacked

-----------------------------------------------------------------------------
(* A queue stays in order when more copies get settled.                    *)
LEMMA QueueGrow ==
  ASSUME NEW q, NEW S1, NEW S2, S1 \subseteq S2, QueueOK(q, S1)
  PROVE  QueueOK(q, S2)
BY DEF QueueOK, EntryOK

(* ... when it gets a new own copy ...                                     *)
LEMMA QueueUpload ==
  ASSUME NEW q \in Seq(Entries), NEW m \in Messages, NEW S, QueueOK(q, S)
  PROVE  /\ q \o Upload(m) \in Seq(Entries)
         /\ Len(q \o Upload(m)) = Len(q) + 1
         /\ QueueOK(q \o Upload(m), S)
<1>1. PICK u \in Seq(Entries) : u = Upload(m) /\ Len(u) = 1 /\ u[1].op = "own"
  BY UploadType
<1> DEFINE r == q \o u
<1>2. /\ r \in Seq(Entries)
      /\ Len(r) = Len(q) + 1
      /\ \A i \in 1..Len(q) : r[i] = q[i]
      /\ r[Len(q) + 1] = u[1]
  <2>1. /\ r \in Seq(Entries)
        /\ Len(r) = Len(q) + Len(u)
        /\ \A i \in 1..Len(q) : r[i] = q[i]
        /\ \A i \in 1..Len(u) : r[Len(q) + i] = u[i]
    BY ConcatIndex
  <2> HIDE DEF r
  <2> QED BY <1>1, <2>1
<1> HIDE DEF r
<1>3. ASSUME NEW i \in 1..Len(q)  PROVE EntryOK(r, i, S)
  <2>1. EntryOK(q, i, S)
    BY DEF QueueOK
  <2>2. r[i] = q[i] /\ \A j \in 1..(i-1) : r[j] = q[j]
    BY <1>2
  <2> QED BY <2>1, <2>2 DEF EntryOK
<1>4. EntryOK(r, Len(q) + 1, S)
  <2>1. r[Len(q) + 1].op = "own"
    BY <1>1, <1>2
  <2> QED BY <2>1 DEF EntryOK, CopyOps
<1>5. \A i \in 1..Len(r) : i \in 1..Len(q) \/ i = Len(q) + 1
  BY <1>2, LenProperties
<1>6. QueueOK(r, S)
  BY <1>3, <1>4, <1>5 DEF QueueOK
<1> QED BY <1>1, <1>2, <1>6 DEF r

(* ... when the fan-out of a settled own copy, or a prefix of it, follows. *)
LEMMA QueueFanOut ==
  ASSUME NEW q \in Seq(Entries), NEW m \in Messages, NEW S, QueueOK(q, S),
         Copy("own", m) \in S,
         NEW s \in Seq(Entries), Len(s) <= 3,
         \A i \in 1..Len(s) : s[i] = FanOut(m)[i]
  PROVE  /\ q \o s \in Seq(Entries)
         /\ Len(q \o s) = Len(q) + Len(s)
         /\ QueueOK(q \o s, S)
<1> DEFINE r == q \o s
<1>1. /\ r \in Seq(Entries)
      /\ Len(r) = Len(q) + Len(s)
      /\ \A i \in 1..Len(q) : r[i] = q[i]
      /\ \A i \in 1..Len(s) : r[Len(q) + i] = s[i]
  BY ConcatIndex
<1> HIDE DEF r
<1>0. /\ FanOut(m)[1].op = "peer" /\ FanOut(m)[1].msg = m
      /\ FanOut(m)[2].op = "ownRecent" /\ FanOut(m)[2].msg = m
      /\ FanOut(m)[2].cb = FALSE
      /\ FanOut(m)[3].op = "peerRecent" /\ FanOut(m)[3].msg = m
      /\ FanOut(m)[3].cb = FALSE
  BY FanOutType
<1>2. ASSUME NEW i \in 1..Len(q)  PROVE EntryOK(r, i, S)
  <2>1. EntryOK(q, i, S)
    BY DEF QueueOK
  <2>2. r[i] = q[i] /\ \A j \in 1..(i-1) : r[j] = q[j]
    BY <1>1
  <2> QED BY <2>1, <2>2 DEF EntryOK
<1>3. ASSUME NEW i \in 1..Len(s)  PROVE EntryOK(r, Len(q) + i, S)
  <2>1. r[Len(q) + i] = FanOut(m)[i]
    BY <1>1
  <2>2. CASE i = 1
    <3>1. /\ r[Len(q) + i].op = "peer"
          /\ r[Len(q) + i].msg = m
      BY <1>0, <2>1, <2>2
    <3> QED BY <3>1 DEF EntryOK, CopyOps
  <2>3. CASE i = 2
    <3>1. /\ r[Len(q) + i].op = "ownRecent"
          /\ r[Len(q) + i].msg = m
          /\ r[Len(q) + i].cb = FALSE
      BY <1>0, <2>1, <2>3
    <3> QED BY <3>1 DEF EntryOK
  <2>4. CASE i = 3
    <3>1. r[Len(q) + 1].op = "peer" /\ r[Len(q) + 1].msg = m
      BY <1>0, <1>1, <2>4
    <3>2. /\ r[Len(q) + i].op = "peerRecent"
          /\ r[Len(q) + i].msg = m
          /\ r[Len(q) + i].cb = FALSE
      BY <1>0, <2>1, <2>4
    <3>3. Len(q) + 1 \in 1..(Len(q) + i - 1)
      BY <2>4, LenProperties
    <3> QED BY <3>1, <3>2, <3>3 DEF EntryOK
  <2>5. i = 1 \/ i = 2 \/ i = 3
    BY LenProperties
  <2> QED BY <2>2, <2>3, <2>4, <2>5
<1>4. \A i \in 1..Len(r) : i \in 1..Len(q) \/ \E k \in 1..Len(s) : i = Len(q) + k
  <2> TAKE i \in 1..Len(r)
  <2>1. CASE i > Len(q)
    <3>1. i - Len(q) \in 1..Len(s) /\ i = Len(q) + (i - Len(q))
      BY <1>1, <2>1, LenProperties
    <3> QED BY <3>1
  <2>2. CASE i <= Len(q)
    BY <2>2, LenProperties
  <2> QED BY <2>1, <2>2, LenProperties
<1>5. QueueOK(r, S)
  BY <1>2, <1>3, <1>4 DEF QueueOK
<1> QED BY <1>1, <1>5 DEF r

(* ... when its settled head leaves ...                                    *)
LEMMA QueueTail ==
  ASSUME NEW q \in Seq(Entries), q # <<>>, NEW S, QueueOK(q, S),
         q[1].op \in CopyOps => Copy(q[1].op, q[1].msg) \in S
  PROVE  /\ Tail(q) \in Seq(Entries)
         /\ Len(Tail(q)) = Len(q) - 1
         /\ QueueOK(Tail(q), S)
<1> DEFINE r == Tail(q)
<1>1. /\ r \in Seq(Entries)
      /\ Len(r) = Len(q) - 1
      /\ \A i \in 1..Len(r) : r[i] = q[i + 1]
  BY HeadTailProperties
<1> HIDE DEF r
<1>2. ASSUME NEW i \in 1..Len(r)  PROVE EntryOK(r, i, S)
  <2>1. i + 1 \in 1..Len(q) /\ i \in Nat /\ i >= 1
    BY <1>1, LenProperties
  <2>2. EntryOK(q, i + 1, S)
    BY <2>1 DEF QueueOK
  <2>3. r[i] = q[i + 1]
    BY <1>1
  <2>4. CASE r[i].op = "peerRecent" /\ Copy("peer", r[i].msg) \notin S
    <3>1. PICK j \in 1..i : q[j].op = "peer" /\ q[j].msg = q[i + 1].msg
      BY <2>1, <2>2, <2>3, <2>4 DEF EntryOK
    <3>2. j # 1
      BY <2>3, <2>4, <3>1 DEF CopyOps
    <3>3. j - 1 \in 1..(i - 1) /\ j - 1 \in 1..Len(r) /\ (j - 1) + 1 = j
      BY <1>1, <2>1, <3>1, <3>2, LenProperties
    <3>4. r[j - 1] = q[j]
      BY <1>1, <3>3
    <3> QED BY <2>2, <2>3, <3>1, <3>3, <3>4 DEF EntryOK
  <2>5. CASE ~(r[i].op = "peerRecent" /\ Copy("peer", r[i].msg) \notin S)
    BY <2>2, <2>3, <2>5 DEF EntryOK
  <2> QED BY <2>4, <2>5
<1>3. QueueOK(r, S)
  BY <1>2 DEF QueueOK
<1> QED BY <1>1, <1>3 DEF r

(* ... and when its closures are forgotten.                                *)
LEMMA QueueForgotten ==
  ASSUME NEW q \in Seq(Entries), NEW S, QueueOK(q, S)
  PROVE  /\ Forgotten(q) \in Seq(Entries)
         /\ Len(Forgotten(q)) = Len(q)
         /\ QueueOK(Forgotten(q), S)
<1> DEFINE r == Forgotten(q)
<1>1. \A i \in 1..Len(q) :
        /\ [q[i] EXCEPT !.cb = FALSE] \in Entries
        /\ [q[i] EXCEPT !.cb = FALSE].op = q[i].op
        /\ [q[i] EXCEPT !.cb = FALSE].msg = q[i].msg
        /\ [q[i] EXCEPT !.cb = FALSE].cb = FALSE
  <2> TAKE i \in 1..Len(q)
  <2>1. q[i] \in Entries
    BY ElementOfSeq
  <2> QED BY <2>1 DEF Entries
<1>2. r \in [1..Len(q) -> Entries] /\ Len(q) \in Nat
  BY <1>1, LenProperties DEF Forgotten
<1>3. r \in Seq(Entries) /\ Len(r) = Len(q)
  BY <1>2
<1>4. \A i \in 1..Len(q) : /\ r[i].op = q[i].op
                           /\ r[i].msg = q[i].msg
                           /\ r[i].cb = FALSE
  BY <1>1 DEF Forgotten
<1> HIDE DEF r
<1>5. ASSUME NEW i \in 1..Len(q)  PROVE EntryOK(r, i, S)
  <2>1. EntryOK(q, i, S)
    BY DEF QueueOK
  <2>2. \A j \in 1..(i - 1) : j \in 1..Len(q)
    BY LenProperties
  <2> QED BY <1>4, <2>1, <2>2 DEF EntryOK
<1>6. QueueOK(r, S)
  BY <1>3, <1>5 DEF QueueOK
<1> QED BY <1>3, <1>6 DEF r

(* The committed prefix: growth of the server, an answer, a longer queue.  *)
LEMMA PrefixGrow ==
  ASSUME NEW q, NEW n, NEW T1, NEW T2, T1 \subseteq T2, PrefixOK(q, n, T1)
  PROVE  PrefixOK(q, n, T2)
BY DEF PrefixOK

(* The committed prefix shrinks with its queue.                            *)
LEMMA PrefixTail ==
  ASSUME NEW q \in Seq(Entries), NEW n \in Nat, 0 < n, n <= Len(q),
         NEW T, PrefixOK(q, n, T)
  PROVE  PrefixOK(Tail(q), n - 1, T)
<1>1. q # <<>>
  BY EmptySeq
<1>2. \A i \in 1..Len(Tail(q)) : Tail(q)[i] = q[i + 1]
  BY <1>1, HeadTailProperties
<1>3. Len(Tail(q)) = Len(q) - 1 /\ Len(q) \in Nat
  BY <1>1, HeadTailProperties, LenProperties
<1>4. \A i \in 1..(n - 1) : i \in 1..Len(Tail(q)) /\ i + 1 \in 1..n
  BY <1>3
<1> QED BY <1>2, <1>4 DEF PrefixOK

(* Appending batches leaves the committed prefix alone.                    *)
LEMMA PrefixConcat ==
  ASSUME NEW q \in Seq(Entries), NEW s \in Seq(Entries), NEW n \in Nat,
         n <= Len(q), NEW T, PrefixOK(q, n, T)
  PROVE  PrefixOK(q \o s, n, T)
<1>1. \A i \in 1..n : (q \o s)[i] = q[i]
  BY ConcatIndex, LenProperties
<1> QED BY <1>1 DEF PrefixOK

(* The main queue: growth, a block that ran, blocks that were dispatched.  *)
LEMMA MainGrow ==
  ASSUME NEW b, NEW T1, NEW T2, NEW S1, NEW S2,
         T1 \subseteq T2, S1 \subseteq S2, MainOK(b, T1, S1)
  PROVE  MainOK(b, T2, S2)
BY DEF MainOK, EventOK

(* Running the first block of the main queue leaves good blocks.           *)
LEMMA MainTail ==
  ASSUME NEW b \in Seq(MainEvents), b # <<>>, NEW T, NEW S, MainOK(b, T, S)
  PROVE  Tail(b) \in Seq(MainEvents) /\ MainOK(Tail(b), T, S)
<1>1. /\ Tail(b) \in Seq(MainEvents)
      /\ Len(Tail(b)) = Len(b) - 1
      /\ \A i \in 1..Len(Tail(b)) : Tail(b)[i] = b[i + 1]
  BY HeadTailProperties
<1>2. \A i \in 1..Len(Tail(b)) : i + 1 \in 1..Len(b)
  BY <1>1, LenProperties
<1> QED BY <1>1, <1>2 DEF MainOK

(* A good block may be appended to a main queue of good blocks.            *)
LEMMA MainConcat ==
  ASSUME NEW b \in Seq(MainEvents), NEW c \in Seq(MainEvents), NEW T, NEW S,
         MainOK(b, T, S), MainOK(c, T, S)
  PROVE  b \o c \in Seq(MainEvents) /\ MainOK(b \o c, T, S)
<1> DEFINE r == b \o c
<1>1. /\ r \in Seq(MainEvents)
      /\ Len(r) = Len(b) + Len(c)
      /\ \A i \in 1..Len(b) : r[i] = b[i]
      /\ \A i \in 1..Len(c) : r[Len(b) + i] = c[i]
  BY ConcatIndex
<1> HIDE DEF r
<1>2. ASSUME NEW i \in 1..Len(r)  PROVE EventOK(r[i], T, S)
  <2>1. CASE i <= Len(b)
    <3>1. i \in 1..Len(b)
      BY <2>1, LenProperties
    <3> QED BY <1>1, <3>1 DEF MainOK
  <2>2. CASE i > Len(b)
    <3>1. i - Len(b) \in 1..Len(c) /\ Len(b) + (i - Len(b)) = i
      BY <1>1, <2>2, LenProperties
    <3> QED BY <1>1, <3>1 DEF MainOK
  <2> QED BY <2>1, <2>2, LenProperties
<1>3. MainOK(r, T, S)
  BY <1>2 DEF MainOK
<1> QED BY <1>1, <1>3 DEF r

-----------------------------------------------------------------------------
(***************************************************************************)
(* The invariant holds at first.                                           *)
(***************************************************************************)
LEMMA InitInv ==
  ASSUME Init
  PROVE  IInv
<1>1. TypeOK
  <2>1. queue \in [Devices -> [Accounts -> Seq(Entries)]]
    BY DEF Init
  <2>2. \A d \in Devices : fs[d] \in Accounts /\ Pending(d) = <<>>
    BY StartAssumption DEF Init, Pending
  <2>3. main \in [Devices -> Seq(MainEvents)]
    BY DEF Init
  <2>4. \A d \in Devices : applied[d] <= Len(Pending(d))
    BY <2>2 DEF Init
  <2>5. chats \in [Users \X Users -> SUBSET Copies]
    BY DEF Init
  <2>6. recents \in [Users \X Users -> Messages \cup {NoMessage}]
    BY DEF Init
  <2>7. clock \in [Devices -> 0..MaxSends]
    BY BoundsAssumption DEF Init
  <2> QED BY <2>1, <2>3, <2>4, <2>5, <2>6, <2>7, StartAssumption DEF Init, TypeOK
<1>2. QueuesOK
  BY DEF Init, QueuesOK, QueueOK
<1>3. PrefixesOK
  BY DEF Init, PrefixesOK, PrefixOK
<1>4. MainsOK
  BY DEF Init, MainsOK, MainOK
<1>5. OwnSettledFirst
  BY PlaceType DEF Init, OwnSettledFirst, Stored
<1>6. ClearedMeansDelivered
  BY DEF Init, ClearedMeansDelivered
<1>7. RecentsBacked
  BY DEF Init, RecentsBacked
<1> QED BY <1>1, <1>2, <1>3, <1>4, <1>5, <1>6, <1>7 DEF IInv

-----------------------------------------------------------------------------
(***************************************************************************)
(* How a step changes one part of the state.                               *)
(***************************************************************************)

(* A device's queue in use becomes s.                                      *)
LEMMA QueueStep ==
  ASSUME TypeOK, QueuesOK, NEW d \in Devices, NEW s \in Seq(Entries),
         queue' = [queue EXCEPT ![d][fs[d]] = s], fs' = fs,
         SettledCopies \subseteq SettledCopies', QueueOK(s, SettledCopies')
  PROVE  /\ queue' \in [Devices -> [Accounts -> Seq(Entries)]]
         /\ QueuesOK'
         /\ Pending(d)' = s
         /\ \A e \in Devices \ {d} : Pending(e)' = Pending(e)
<1>1. fs[d] \in Accounts /\ queue \in [Devices -> [Accounts -> Seq(Entries)]]
  BY DEF TypeOK
<1>2. /\ queue' \in [Devices -> [Accounts -> Seq(Entries)]]
      /\ queue'[d][fs[d]] = s
      /\ \A e \in Devices, b \in Accounts :
            <<e, b>> # <<d, fs[d]>> => queue'[e][b] = queue[e][b]
  BY <1>1, QueueUpdate
<1>3. ASSUME NEW e \in Devices, NEW a \in Accounts
      PROVE  QueueOK(queue'[e][a], SettledCopies')
  <2>1. CASE <<e, a>> = <<d, fs[d]>>
    BY <1>2, <2>1
  <2>2. CASE <<e, a>> # <<d, fs[d]>>
    BY <1>2, <2>2, QueueGrow DEF QueuesOK
  <2> QED BY <2>1, <2>2
<1>4. QueuesOK'
  BY <1>3 DEF QueuesOK
<1>5. Pending(d)' = s
  BY <1>2 DEF Pending
<1>6. \A e \in Devices \ {d} : Pending(e)' = Pending(e)
  BY <1>2 DEF Pending, TypeOK
<1> QED BY <1>2, <1>4, <1>5, <1>6

(* No queue changes.                                                       *)
LEMMA QueueSame ==
  ASSUME QueuesOK, queue' = queue, SettledCopies \subseteq SettledCopies'
  PROVE  QueuesOK'
BY QueueGrow DEF QueuesOK

(* The stream of one device has n batches committed now.                   *)
LEMMA AppliedStep ==
  ASSUME TypeOK, PrefixesOK, NEW d \in Devices, NEW n \in Nat,
         applied' = [applied EXCEPT ![d] = n],
         StoredCopies \subseteq StoredCopies',
         n <= Len(Pending(d)'), PrefixOK(Pending(d)', n, StoredCopies'),
         \A e \in Devices \ {d} : Pending(e)' = Pending(e)
  PROVE  /\ applied' \in [Devices -> Nat]
         /\ \A e \in Devices : applied'[e] <= Len(Pending(e)')
         /\ PrefixesOK'
<1>1. /\ applied' \in [Devices -> Nat]
      /\ applied'[d] = n
      /\ \A e \in Devices \ {d} : applied'[e] = applied[e]
  BY DEF TypeOK
<1>2. \A e \in Devices : applied'[e] <= Len(Pending(e)')
  BY <1>1 DEF TypeOK
<1>3. \A e \in Devices \ {d} : PrefixOK(Pending(e), applied[e], StoredCopies')
  BY PrefixGrow DEF PrefixesOK
<1>4. PrefixesOK'
  BY <1>1, <1>3 DEF PrefixesOK
<1> QED BY <1>1, <1>2, <1>4

(* The main queue of one device becomes b.                                 *)
LEMMA MainStep ==
  ASSUME TypeOK, MainsOK, NEW d \in Devices, NEW b \in Seq(MainEvents),
         main' = [main EXCEPT ![d] = b],
         StoredCopies \subseteq StoredCopies',
         SettledCopies \subseteq SettledCopies',
         MainOK(b, StoredCopies', SettledCopies')
  PROVE  main' \in [Devices -> Seq(MainEvents)] /\ MainsOK'
<1>1. /\ main' \in [Devices -> Seq(MainEvents)]
      /\ main'[d] = b
      /\ \A e \in Devices \ {d} : main'[e] = main[e]
  BY DEF TypeOK
<1>2. \A e \in Devices : MainOK(main[e], StoredCopies', SettledCopies')
  BY MainGrow DEF MainsOK
<1>3. MainsOK'
  BY <1>1, <1>2 DEF MainsOK
<1> QED BY <1>1, <1>3

(* No main queue changes.                                                  *)
LEMMA MainSame ==
  ASSUME MainsOK, main' = main, StoredCopies \subseteq StoredCopies',
         SettledCopies \subseteq SettledCopies'
  PROVE  MainsOK'
BY MainGrow DEF MainsOK

(* The server does not change.                                             *)
LEMMA ServerSame ==
  ASSUME UNCHANGED <<chats, recents, refused>>
  PROVE  /\ StoredCopies' = StoredCopies
         /\ SettledCopies' = SettledCopies
         /\ OwnSettledFirst => OwnSettledFirst'
         /\ RecentsBacked => RecentsBacked'
         /\ ClearedMeansDelivered /\ cleared' = cleared => ClearedMeansDelivered'
BY DEF StoredCopies, SettledCopies, OwnSettledFirst, RecentsBacked,
       ClearedMeansDelivered, Stored, Settled, Refused

(* The sets of copies say what Stored and Settled say.                     *)
LEMMA CopySets ==
  ASSUME NEW op \in CopyOps, NEW m \in Messages
  PROVE  /\ Stored(op, m) <=> Copy(op, m) \in StoredCopies
         /\ Settled(op, m) <=> Copy(op, m) \in SettledCopies
<1>1. /\ Copy(op, m) \in Copies
      /\ Copy(op, m).op = op
      /\ Copy(op, m).msg = m
  BY DEF Copy, Copies
<1> QED BY <1>1 DEF Stored, Settled, Refused, StoredCopies, SettledCopies, Copy

(* The same in the next state.                                             *)
LEMMA CopySetsNext ==
  ASSUME NEW op \in CopyOps, NEW m \in Messages
  PROVE  /\ Stored(op, m)' <=> Copy(op, m) \in StoredCopies'
         /\ Settled(op, m)' <=> Copy(op, m) \in SettledCopies'
<1>1. /\ Copy(op, m) \in Copies
      /\ Copy(op, m).op = op
      /\ Copy(op, m).msg = m
  BY DEF Copy, Copies
<1> QED BY <1>1 DEF Stored, Settled, Refused, StoredCopies, SettledCopies, Copy

(* The report of a settled write is true.                                  *)
LEMMA ReportOK ==
  ASSUME NEW e \in Entries, NEW ok \in BOOLEAN, NEW T, NEW S,
         e.cb => e.op \in CopyOps,
         e.op \in CopyOps => Copy(e.op, e.msg) \in S,
         e.op \in CopyOps /\ ok => Copy(e.op, e.msg) \in T
  PROVE  Report(e, ok) \in Seq(MainEvents) /\ MainOK(Report(e, ok), T, S)
<1>1. CASE Report(e, ok) = <<>>
  BY <1>1, ReportType DEF MainOK
<1>2. CASE Report(e, ok) = <<Completion(e.op, e.msg, ok)>> /\ e.op \in CopyOps
  <2>1. EventOK(Completion(e.op, e.msg, ok), T, S)
    BY <1>2 DEF EventOK, Completion
  <2>2. Len(Report(e, ok)) = 1 /\ Report(e, ok)[1] = Completion(e.op, e.msg, ok)
    BY <1>2
  <2> QED BY <2>1, <2>2, ReportType DEF MainOK
<1> QED BY <1>1, <1>2, ReportType

-----------------------------------------------------------------------------
(***************************************************************************)
(* The invariant is preserved, action by action.                           *)
(***************************************************************************)
LEMMA SendInv ==
  ASSUME IInv, NEW d \in Devices, NEW to \in Users, Send(d, to)
  PROVE  IInv'
<1> DEFINE m == [from |-> auth[d], to |-> to, dev |-> d, n |-> clock[d] + 1]
           q == Pending(d)
<1> USE DEF IInv
<1>1. m \in Messages
  BY BoundsAssumption DEF TypeOK, Send, Messages, Accounts
<1>2. q \in Seq(Entries) /\ QueueOK(q, SettledCopies)
  BY DEF TypeOK, QueuesOK, Pending
<1>3. /\ queue' = [queue EXCEPT ![d][fs[d]] = q \o Upload(m)]
      /\ sent' = sent \cup {m}
      /\ clock' = [clock EXCEPT ![d] = clock[d] + 1] /\ clock[d] < MaxSends
      /\ UNCHANGED <<auth, fs, applied, main, refused, cleared, chats, recents>>
  BY DEF Send, Persist, Pending, server
<1> HIDE DEF m, q
<1>4. /\ StoredCopies' = StoredCopies /\ SettledCopies' = SettledCopies
      /\ OwnSettledFirst' /\ RecentsBacked' /\ ClearedMeansDelivered'
  BY <1>3, ServerSame
<1>5. /\ q \o Upload(m) \in Seq(Entries)
      /\ Len(q \o Upload(m)) = Len(q) + 1
      /\ QueueOK(q \o Upload(m), SettledCopies')
  BY <1>1, <1>2, <1>4, QueueUpload
<1>6. /\ queue' \in [Devices -> [Accounts -> Seq(Entries)]]
      /\ QueuesOK'
      /\ Pending(d)' = q \o Upload(m)
      /\ \A e \in Devices \ {d} : Pending(e)' = Pending(e)
  BY <1>3, <1>4, <1>5, QueueStep
<1>7. /\ applied' = [applied EXCEPT ![d] = applied[d]]
      /\ applied[d] \in Nat /\ applied[d] <= Len(q)
      /\ PrefixOK(q, applied[d], StoredCopies)
  BY <1>3 DEF TypeOK, PrefixesOK, q
<1>8. PrefixOK(q \o Upload(m), applied[d], StoredCopies')
  BY <1>1, <1>2, <1>4, <1>7, PrefixConcat, UploadType
<1>9. applied[d] <= Len(Pending(d)')
  BY <1>2, <1>5, <1>6, <1>7, LenProperties
<1>10. /\ applied' \in [Devices -> Nat]
       /\ \A e \in Devices : applied'[e] <= Len(Pending(e)')
       /\ PrefixesOK'
  BY <1>4, <1>6, <1>7, <1>8, <1>9, AppliedStep
<1>11. MainsOK'
  BY <1>3, <1>4, MainSame
<1>12. clock' \in [Devices -> 0..MaxSends] /\ sent' \subseteq Messages
  BY <1>1, <1>3, BoundsAssumption DEF TypeOK
<1>13. TypeOK'
  BY <1>3, <1>6, <1>10, <1>12 DEF TypeOK
<1> QED BY <1>4, <1>6, <1>10, <1>11, <1>13

(* What is known of the block that runs next on the main queue.            *)
LEMMA HeadEvent ==
  ASSUME TypeOK, MainsOK, NEW d \in Devices, main[d] # <<>>
  PROVE  LET e == Head(main[d])
         IN  /\ EventOK(e, StoredCopies, SettledCopies)
             /\ e.kind \in CopyOps => e \in Completions
             /\ e.kind = "credential" => e.user \in Accounts
             /\ Tail(main[d]) \in Seq(MainEvents)
             /\ MainOK(Tail(main[d]), StoredCopies, SettledCopies)
<1> DEFINE e == Head(main[d])
<1>1. main[d] \in Seq(MainEvents)
  BY DEF TypeOK
<1>2. e \in MainEvents /\ e = main[d][1] /\ 1 \in 1..Len(main[d])
  BY <1>1, HeadTailProperties, EmptySeq
<1>3. EventOK(e, StoredCopies, SettledCopies)
  BY <1>2 DEF MainsOK, MainOK
<1>4. e.kind \in CopyOps => e \in Completions
  BY <1>2 DEF MainEvents, CredentialChanges, CopyOps
<1>5. e.kind = "credential" => e.user \in Accounts
  BY <1>2 DEF MainEvents, CredentialChanges, Completions, CopyOps
<1>6. /\ Tail(main[d]) \in Seq(MainEvents)
      /\ MainOK(Tail(main[d]), StoredCopies, SettledCopies)
  BY <1>1, MainTail DEF MainsOK
<1> QED BY <1>3, <1>4, <1>5, <1>6

(* The fan-out: its batches are all backed by the settled own copy.        *)
LEMMA RunOwnCompletionInv ==
  ASSUME IInv, NEW d \in Devices, RunOwnCompletion(d)
  PROVE  IInv'
<1> DEFINE m == Head(main[d]).msg
           q == Pending(d)
<1> USE DEF IInv
<1>1. m \in Messages /\ Copy("own", m) \in SettledCopies
  BY HeadEvent DEF RunOwnCompletion, EventOK, Completions, CopyOps
<1>2. q \in Seq(Entries) /\ QueueOK(q, SettledCopies)
  BY DEF TypeOK, QueuesOK, Pending
<1>3. /\ queue' = [queue EXCEPT ![d][fs[d]] = q \o FanOut(m)]
      /\ main' = [main EXCEPT ![d] = Tail(main[d])] /\ main[d] # <<>>
      /\ UNCHANGED <<auth, fs, applied, clock, sent, refused, cleared,
                     chats, recents>>
  BY DEF RunOwnCompletion, Persist, Pending, server
<1> HIDE DEF m, q
<1>4. /\ StoredCopies' = StoredCopies /\ SettledCopies' = SettledCopies
      /\ OwnSettledFirst' /\ RecentsBacked' /\ ClearedMeansDelivered'
  BY <1>3, ServerSame
<1>5. /\ FanOut(m) \in Seq(Entries) /\ Len(FanOut(m)) = 3
      /\ q \o FanOut(m) \in Seq(Entries)
      /\ Len(q \o FanOut(m)) = Len(q) + 3
      /\ QueueOK(q \o FanOut(m), SettledCopies')
  <2>1. FanOut(m) \in Seq(Entries) /\ Len(FanOut(m)) = 3
    BY <1>1, FanOutType
  <2>2. Len(FanOut(m)) <= 3 /\ QueueOK(q, SettledCopies')
    BY <1>2, <1>4, <2>1
  <2>3. /\ q \o FanOut(m) \in Seq(Entries)
        /\ Len(q \o FanOut(m)) = Len(q) + Len(FanOut(m))
        /\ QueueOK(q \o FanOut(m), SettledCopies')
    BY <1>1, <1>2, <1>4, <2>1, <2>2, QueueFanOut
  <2> QED BY <2>1, <2>3
<1>6. /\ queue' \in [Devices -> [Accounts -> Seq(Entries)]]
      /\ QueuesOK'
      /\ Pending(d)' = q \o FanOut(m)
      /\ \A e \in Devices \ {d} : Pending(e)' = Pending(e)
  BY <1>3, <1>4, <1>5, QueueStep
<1>7. /\ applied' = [applied EXCEPT ![d] = applied[d]]
      /\ applied[d] \in Nat /\ applied[d] <= Len(q)
      /\ PrefixOK(q, applied[d], StoredCopies)
  BY <1>3 DEF TypeOK, PrefixesOK, q
<1>8. PrefixOK(q \o FanOut(m), applied[d], StoredCopies')
  BY <1>2, <1>4, <1>5, <1>7, PrefixConcat
<1>9. applied[d] <= Len(Pending(d)')
  BY <1>2, <1>5, <1>6, <1>7, LenProperties
<1>10. /\ applied' \in [Devices -> Nat]
       /\ \A e \in Devices : applied'[e] <= Len(Pending(e)')
       /\ PrefixesOK'
  BY <1>4, <1>6, <1>7, <1>8, <1>9, AppliedStep
<1>11. main' \in [Devices -> Seq(MainEvents)] /\ MainsOK'
  BY <1>3, <1>4, HeadEvent, MainStep
<1>12. TypeOK'
  BY <1>3, <1>6, <1>10, <1>11 DEF TypeOK
<1> QED BY <1>4, <1>6, <1>10, <1>11, <1>12

(* Emptying the field: a successful peer completion has its copy stored.   *)
LEMMA RunPeerCompletionInv ==
  ASSUME IInv, NEW d \in Devices, RunPeerCompletion(d)
  PROVE  IInv'
<1> DEFINE e == Head(main[d])
<1> USE DEF IInv
<1>1. /\ main' = [main EXCEPT ![d] = Tail(main[d])] /\ main[d] # <<>>
      /\ e.kind = "peer"
      /\ cleared' = IF e.ok THEN cleared \cup {e.msg} ELSE cleared
      /\ UNCHANGED <<auth, fs, queue, applied, clock, sent, refused, chats, recents>>
  BY DEF RunPeerCompletion, server
<1>2. e \in Completions /\ EventOK(e, StoredCopies, SettledCopies)
  BY <1>1, HeadEvent DEF CopyOps
<1>3. /\ StoredCopies' = StoredCopies /\ SettledCopies' = SettledCopies
      /\ OwnSettledFirst' /\ RecentsBacked'
  BY <1>1, ServerSame
<1>4. main' \in [Devices -> Seq(MainEvents)] /\ MainsOK'
  BY <1>1, <1>3, HeadEvent, MainStep
<1> HIDE DEF e
<1>5. cleared' \subseteq Messages
  BY <1>1, <1>2 DEF TypeOK, Completions
<1>6. ClearedMeansDelivered'
  <2>1. e.msg \in Messages /\ (e.ok => Stored("peer", e.msg))
    BY <1>1, <1>2, CopySets DEF EventOK, Completions, CopyOps
  <2>2. \A m \in cleared' : Stored("peer", m)
    BY <1>1, <2>1 DEF ClearedMeansDelivered
  <2> QED BY <1>1, <2>2 DEF ClearedMeansDelivered, Stored
<1>7. Pending(d)' = Pending(d) /\ \A c \in Devices : Pending(c)' = Pending(c)
  BY <1>1 DEF Pending
<1>8. QueuesOK' /\ PrefixesOK'
  BY <1>1, <1>3, <1>7, QueueSame DEF PrefixesOK
<1>9. TypeOK'
  BY <1>1, <1>4, <1>5, <1>7 DEF TypeOK
<1> QED BY <1>3, <1>4, <1>6, <1>8, <1>9

(* Signing in or out only appends a block to the main queue.               *)
LEMMA AuthenticateInv ==
  ASSUME IInv, NEW d \in Devices, NEW user \in Accounts, Authenticate(d, user)
  PROVE  IInv'
<1> DEFINE e == [kind |-> "credential", user |-> user]
<1> USE DEF IInv
<1>1. /\ main' = [main EXCEPT ![d] = Append(main[d], e)]
      /\ auth' = [auth EXCEPT ![d] = user]
      /\ UNCHANGED <<fs, queue, applied, clock, sent, refused, cleared,
                     chats, recents>>
  BY DEF Authenticate, server
<1>2. /\ StoredCopies' = StoredCopies /\ SettledCopies' = SettledCopies
      /\ OwnSettledFirst' /\ RecentsBacked' /\ ClearedMeansDelivered'
  BY <1>1, ServerSame
<1>3. /\ <<e>> \in Seq(MainEvents)
      /\ MainOK(<<e>>, StoredCopies, SettledCopies)
  <2>1. e \in MainEvents /\ EventOK(e, StoredCopies, SettledCopies)
    BY DEF MainEvents, CredentialChanges, EventOK
  <2> HIDE DEF e
  <2> QED BY <2>1 DEF MainOK
<1> HIDE DEF e
<1>4. main[d] \in Seq(MainEvents) /\ MainOK(main[d], StoredCopies, SettledCopies)
  BY DEF TypeOK, MainsOK
<1>5. /\ main[d] \o <<e>> \in Seq(MainEvents)
      /\ MainOK(main[d] \o <<e>>, StoredCopies, SettledCopies)
  BY <1>3, <1>4, MainConcat
<1>6. Append(main[d], e) = main[d] \o <<e>>
  BY <1>3, <1>4, AppendIsConcat
<1>7. main' \in [Devices -> Seq(MainEvents)] /\ MainsOK'
  BY <1>1, <1>2, <1>5, <1>6, MainStep
<1>8. \A c \in Devices : Pending(c)' = Pending(c)
  BY <1>1 DEF Pending
<1>9. QueuesOK' /\ PrefixesOK'
  BY <1>1, <1>2, <1>8, QueueSame DEF PrefixesOK
<1>10. TypeOK'
  BY <1>1, <1>7, <1>8 DEF TypeOK
<1> QED BY <1>2, <1>7, <1>9, <1>10

(* Losing memory forgets closures and blocks, never a batch.               *)
LEMMA LoseMemoryInv ==
  ASSUME IInv, NEW d \in Devices, NEW sv \in [Accounts -> Seq(Entries)],
         \A a \in Accounts : QueueOK(sv[a], SettledCopies),
         LoseMemory(d, sv)
  PROVE  IInv'
<1> DEFINE F == [a \in Accounts |-> Forgotten(sv[a])]
<1> USE DEF IInv
<1>1. /\ queue' = [queue EXCEPT ![d] = F]
      /\ main' = [main EXCEPT ![d] = <<>>]
      /\ applied' = [applied EXCEPT ![d] = 0]
      /\ fs' = [fs EXCEPT ![d] = auth[d]]
      /\ UNCHANGED <<auth, clock, sent, refused, cleared, chats, recents>>
  BY DEF LoseMemory, server
<1>2. /\ StoredCopies' = StoredCopies /\ SettledCopies' = SettledCopies
      /\ OwnSettledFirst' /\ RecentsBacked' /\ ClearedMeansDelivered'
  BY <1>1, ServerSame
<1>3. /\ F \in [Accounts -> Seq(Entries)]
      /\ \A a \in Accounts : QueueOK(F[a], SettledCopies')
  BY <1>2, QueueForgotten
<1> HIDE DEF F
<1>4. /\ queue' \in [Devices -> [Accounts -> Seq(Entries)]]
      /\ queue'[d] = F
      /\ \A e \in Devices \ {d} : queue'[e] = queue[e]
  BY <1>1, <1>3 DEF TypeOK
<1>5. QueuesOK'
  BY <1>2, <1>3, <1>4 DEF QueuesOK
<1>6. /\ fs' \in [Devices -> Accounts]
      /\ \A e \in Devices \ {d} : fs'[e] = fs[e]
  BY <1>1 DEF TypeOK
<1>7. \A e \in Devices \ {d} : Pending(e)' = Pending(e)
  BY <1>4, <1>6 DEF Pending
<1>8. 0 <= Len(Pending(d)') /\ PrefixOK(Pending(d)', 0, StoredCopies')
  <2>1. Pending(d)' \in Seq(Entries)
    BY <1>3, <1>4, <1>6 DEF Pending
  <2> QED BY <2>1, LenProperties DEF PrefixOK
<1>9. /\ applied' \in [Devices -> Nat]
      /\ \A e \in Devices : applied'[e] <= Len(Pending(e)')
      /\ PrefixesOK'
  BY <1>1, <1>2, <1>7, <1>8, AppliedStep
<1>10. main' \in [Devices -> Seq(MainEvents)] /\ MainsOK'
  <2>1. <<>> \in Seq(MainEvents) /\ MainOK(<<>>, StoredCopies', SettledCopies')
    BY DEF MainOK
  <2> QED BY <1>1, <1>2, <2>1, MainStep
<1>11. TypeOK'
  BY <1>1, <1>4, <1>6, <1>9, <1>10 DEF TypeOK
<1> QED BY <1>2, <1>5, <1>9, <1>10, <1>11

(* Both ways to die, before and within a fan-out.                          *)
LEMMA KillInv ==
  ASSUME IInv, NEW d \in Devices, Kill(d) \/ KillInFanOut(d)
  PROVE  IInv'
<1> USE DEF IInv
<1>1. /\ queue[d] \in [Accounts -> Seq(Entries)]
      /\ \A a \in Accounts : QueueOK(queue[d][a], SettledCopies)
      /\ fs[d] \in Accounts
  BY DEF TypeOK, QueuesOK
<1>2. CASE Kill(d)
  BY <1>1, <1>2, LoseMemoryInv DEF Kill
<1>3. CASE KillInFanOut(d)
  <2> DEFINE m == Head(main[d]).msg
             s(k) == SubSeq(FanOut(m), 1, k)
  <2>1. PICK k \in 1..2 :
          LoseMemory(d, [queue[d] EXCEPT ![fs[d]] = queue[d][fs[d]] \o s(k)])
    BY <1>3 DEF KillInFanOut
  <2>2. m \in Messages /\ Copy("own", m) \in SettledCopies
    BY <1>3, HeadEvent DEF KillInFanOut, EventOK, Completions, CopyOps
  <2> HIDE DEF m
  <2>3. /\ s(k) \in Seq(Entries)
        /\ Len(s(k)) <= 3
        /\ \A i \in 1..Len(s(k)) : s(k)[i] = FanOut(m)[i]
    BY <2>2, FanOutPrefix
  <2> HIDE DEF s
  <2>4. /\ queue[d][fs[d]] \o s(k) \in Seq(Entries)
        /\ QueueOK(queue[d][fs[d]] \o s(k), SettledCopies)
    BY <1>1, <2>2, <2>3, QueueFanOut
  <2> DEFINE sv == [queue[d] EXCEPT ![fs[d]] = queue[d][fs[d]] \o s(k)]
  <2>5. /\ sv \in [Accounts -> Seq(Entries)]
        /\ \A a \in Accounts : QueueOK(sv[a], SettledCopies)
    BY <1>1, <2>4
  <2> QED BY <2>1, <2>5, LoseMemoryInv
<1> QED BY <1>2, <1>3

(* A changed user has a stream with nothing acknowledged.                  *)
LEMMA RunCredentialChangeInv ==
  ASSUME IInv, NEW d \in Devices, RunCredentialChange(d)
  PROVE  IInv'
<1> USE DEF IInv
<1>1. /\ main' = [main EXCEPT ![d] = Tail(main[d])] /\ main[d] # <<>>
      /\ applied' = [applied EXCEPT ![d] = 0]
      /\ fs' = [fs EXCEPT ![d] = Head(main[d]).user]
      /\ Head(main[d]).kind = "credential"
      /\ UNCHANGED <<auth, queue, clock, sent, refused, cleared, chats, recents>>
  BY DEF RunCredentialChange, server
<1>2. /\ StoredCopies' = StoredCopies /\ SettledCopies' = SettledCopies
      /\ OwnSettledFirst' /\ RecentsBacked' /\ ClearedMeansDelivered'
  BY <1>1, ServerSame
<1>3. main' \in [Devices -> Seq(MainEvents)] /\ MainsOK'
  BY <1>1, <1>2, HeadEvent, MainStep
<1>4. /\ fs' \in [Devices -> Accounts]
      /\ \A e \in Devices \ {d} : fs'[e] = fs[e]
  BY <1>1, HeadEvent DEF TypeOK
<1>5. \A e \in Devices \ {d} : Pending(e)' = Pending(e)
  BY <1>1, <1>4 DEF Pending
<1>6. 0 <= Len(Pending(d)') /\ PrefixOK(Pending(d)', 0, StoredCopies')
  <2>1. Pending(d)' \in Seq(Entries)
    BY <1>1, <1>4 DEF Pending, TypeOK
  <2> QED BY <2>1, LenProperties DEF PrefixOK
<1>7. /\ applied' \in [Devices -> Nat]
      /\ \A e \in Devices : applied'[e] <= Len(Pending(e)')
      /\ PrefixesOK'
  BY <1>1, <1>2, <1>5, <1>6, AppliedStep
<1>8. QueuesOK'
  BY <1>1, <1>2, QueueSame
<1>9. TypeOK'
  BY <1>1, <1>3, <1>4, <1>7 DEF TypeOK
<1> QED BY <1>2, <1>3, <1>7, <1>8, <1>9

(* A broken stream only forgets what was committed on it.                  *)
LEMMA StreamResetInv ==
  ASSUME IInv, NEW d \in Devices, StreamReset(d)
  PROVE  IInv'
<1> USE DEF IInv
<1>1. /\ applied' = [applied EXCEPT ![d] = 0]
      /\ UNCHANGED <<auth, fs, queue, main, clock, sent, refused, cleared,
                     chats, recents>>
  BY DEF StreamReset, server, local
<1>2. /\ StoredCopies' = StoredCopies /\ SettledCopies' = SettledCopies
      /\ OwnSettledFirst' /\ RecentsBacked' /\ ClearedMeansDelivered'
  BY <1>1, ServerSame
<1>3. \A e \in Devices : Pending(e)' = Pending(e)
  BY <1>1 DEF Pending
<1>4. 0 <= Len(Pending(d)') /\ PrefixOK(Pending(d)', 0, StoredCopies')
  <2>1. Pending(d)' \in Seq(Entries)
    BY <1>3 DEF Pending, TypeOK
  <2> QED BY <2>1, LenProperties DEF PrefixOK
<1>5. /\ applied' \in [Devices -> Nat]
      /\ \A e \in Devices : applied'[e] <= Len(Pending(e)')
      /\ PrefixesOK'
  BY <1>1, <1>2, <1>3, <1>4, AppliedStep
<1>6. QueuesOK' /\ MainsOK'
  BY <1>1, <1>2, QueueSame, MainSame
<1>7. TypeOK'
  BY <1>1, <1>5 DEF TypeOK
<1> QED BY <1>2, <1>5, <1>6, <1>7

(* Growth of what is settled disturbs nothing that was promised.           *)
LEMMA ServerGrows ==
  ASSUME TypeOK,
         StoredCopies \subseteq StoredCopies',
         SettledCopies \subseteq SettledCopies'
  PROVE  /\ OwnSettledFirst /\ StoredCopies' = StoredCopies => OwnSettledFirst'
         /\ ClearedMeansDelivered /\ cleared' = cleared => ClearedMeansDelivered'
         /\ RecentsBacked /\ recents' = recents => RecentsBacked'
<1>1. \A op \in CopyOps, m \in Messages :
        /\ Stored(op, m) => Stored(op, m)'
        /\ Settled(op, m) => Settled(op, m)'
        /\ StoredCopies' = StoredCopies => (Stored(op, m)' => Stored(op, m))
  BY CopySets, CopySetsNext
<1>2. OwnSettledFirst /\ StoredCopies' = StoredCopies => OwnSettledFirst'
  BY <1>1 DEF OwnSettledFirst, CopyOps
<1>3. ClearedMeansDelivered /\ cleared' = cleared => ClearedMeansDelivered'
  BY <1>1 DEF ClearedMeansDelivered, CopyOps, TypeOK
<1>4. RecentsBacked /\ recents' = recents => RecentsBacked'
  <2> SUFFICES ASSUME RecentsBacked, recents' = recents,
                      NEW q \in Users \X Users, recents[q] # NoMessage
               PROVE  \E op \in RecentOps :
                         /\ Place(op, recents[q]) = q
                         /\ Settled(CopyOf(op), recents[q])'
    BY DEF RecentsBacked
  <2>1. PICK op \in RecentOps :
           Place(op, recents[q]) = q /\ Settled(CopyOf(op), recents[q])
    BY DEF RecentsBacked
  <2>2. recents[q] \in Messages /\ CopyOf(op) \in CopyOps
    BY DEF TypeOK, CopyOf, CopyOps
  <2>3. Settled(CopyOf(op), recents[q])'
    BY <1>1, <2>1, <2>2
  <2> QED BY <2>1, <2>3
<1> QED BY <1>2, <1>3, <1>4

(* A commit stores the copy or the recents document of a good batch.       *)
LEMMA ApplyInv ==
  ASSUME IInv, NEW d \in Devices, Apply(d)
  PROVE  IInv'
<1> DEFINE q == Pending(d)
           n == applied[d]
           e == q[n + 1]
<1> USE DEF IInv
<1>1. /\ n < Len(q) /\ n \in Nat
      /\ q \in Seq(Entries)
      /\ applied' = [applied EXCEPT ![d] = n + 1]
      /\ UNCHANGED <<auth, fs, queue, main, clock, sent, refused, cleared>>
      /\ Commit(e)
  BY DEF Apply, local, TypeOK, Pending
<1>2. e \in Entries /\ EntryOK(q, n + 1, SettledCopies)
  <2>1. n + 1 \in 1..Len(q)
    BY <1>1, LenProperties
  <2> QED BY <1>1, <2>1, ElementOfSeq DEF QueuesOK, QueueOK, Pending, TypeOK
<1>3. PrefixOK(q, n, StoredCopies)
  BY DEF PrefixesOK
<1>4. \A c \in Devices : Pending(c)' = Pending(c)
  BY <1>1 DEF Pending
<1> HIDE DEF q, n, e
<1>5. e.op \in Ops /\ e.msg \in Messages
  BY <1>2 DEF Entries
<1> DEFINE Served ==
             /\ chats' \in [Users \X Users -> SUBSET Copies]
             /\ recents' \in [Users \X Users -> Messages \cup {NoMessage}]
             /\ StoredCopies \subseteq StoredCopies'
             /\ SettledCopies \subseteq SettledCopies'
             /\ e.op \in CopyOps => Copy(e.op, e.msg) \in StoredCopies'
             /\ OwnSettledFirst' /\ ClearedMeansDelivered' /\ RecentsBacked'
<1>6. ASSUME e.op \in CopyOps  PROVE Served
  <2>1. /\ chats' = [chats EXCEPT ![Place(e.op, e.msg)] =
                       chats[Place(e.op, e.msg)] \cup {Copy(e.op, e.msg)}]
        /\ recents' = recents
    BY <1>1, <1>6 DEF Commit, Copy, CopyOps, RecentOps
  <2>2. Place(e.op, e.msg) \in Users \X Users /\ Copy(e.op, e.msg) \in Copies
    BY <1>5, <1>6, PlaceType DEF Copy, Copies
  <2>3. chats' \in [Users \X Users -> SUBSET Copies]
    BY <2>1, <2>2 DEF TypeOK
  <2>4. \A r \in Users \X Users :
          /\ chats[r] \subseteq chats'[r]
          /\ chats'[r] \subseteq chats[r] \cup {Copy(e.op, e.msg)}
    BY <2>1, <2>2 DEF TypeOK
  <2>5. /\ StoredCopies \subseteq StoredCopies'
        /\ StoredCopies' \subseteq StoredCopies \cup {Copy(e.op, e.msg)}
    <3>1. \A c \in Copies : Place(c.op, c.msg) \in Users \X Users
      BY PlaceType DEF Copies
    <3> QED BY <2>4, <3>1 DEF StoredCopies
  <2>6. Copy(e.op, e.msg) \in StoredCopies'
    <3>1. Copy(e.op, e.msg) \in chats'[Place(e.op, e.msg)]
      BY <2>1, <2>2 DEF TypeOK
    <3>2. Copy(e.op, e.msg).op = e.op /\ Copy(e.op, e.msg).msg = e.msg
      BY DEF Copy
    <3> QED BY <2>2, <3>1, <3>2 DEF StoredCopies
  <2>7. SettledCopies \subseteq SettledCopies'
    BY <1>1, <2>5 DEF SettledCopies
  <2>8. OwnSettledFirst'
    <3> SUFFICES ASSUME NEW m \in Messages, Stored("peer", m)'
                 PROVE  Settled("own", m)'
      BY DEF OwnSettledFirst
    <3>1. Copy("peer", m) \in StoredCopies'
      BY CopySetsNext DEF CopyOps
    <3>2. CASE Copy("peer", m) \in StoredCopies
      BY <2>7, <3>2, CopySets, CopySetsNext DEF OwnSettledFirst, CopyOps
    <3>3. CASE Copy("peer", m) = Copy(e.op, e.msg)
      <4>1. e.op = "peer" /\ e.msg = m
        BY <3>3 DEF Copy
      <4>2. Copy("own", m) \in SettledCopies
        BY <1>2, <4>1 DEF EntryOK, e
      <4> QED BY <2>7, <4>2, CopySetsNext DEF CopyOps
    <3> QED BY <2>5, <3>1, <3>2, <3>3
  <2>9. ClearedMeansDelivered' /\ RecentsBacked'
    BY <1>1, <2>1, <2>5, <2>7, ServerGrows
  <2>10. recents' \in [Users \X Users -> Messages \cup {NoMessage}]
    BY <2>1 DEF TypeOK
  <2> QED BY <2>3, <2>5, <2>6, <2>7, <2>8, <2>9, <2>10
<1>7. ASSUME e.op \in RecentOps  PROVE Served
  <2>1. /\ recents' = [recents EXCEPT ![Place(e.op, e.msg)] = e.msg]
        /\ chats' = chats
    BY <1>1, <1>7 DEF Commit, CopyOps, RecentOps
  <2>2. StoredCopies' = StoredCopies /\ SettledCopies' = SettledCopies
    BY <1>1, <2>1 DEF StoredCopies, SettledCopies
  <2>3. OwnSettledFirst' /\ ClearedMeansDelivered'
    BY <1>1, <2>2, ServerGrows
  <2>4. Place(e.op, e.msg) \in Users \X Users
    BY <1>5, PlaceType
  <2>5. recents' \in [Users \X Users -> Messages \cup {NoMessage}]
    BY <1>5, <2>1, <2>4 DEF TypeOK
  <2>6. Copy(CopyOf(e.op), e.msg) \in SettledCopies
    <3>1. CASE e.op = "ownRecent"
      BY <1>2, <3>1 DEF EntryOK, CopyOf, e
    <3>2. CASE e.op = "peerRecent" /\ Copy("peer", e.msg) \notin SettledCopies
      <4>1. PICK j \in 1..n : q[j].op = "peer" /\ q[j].msg = e.msg
        BY <1>1, <1>2, <3>2 DEF EntryOK, e
      <4>2. Copy("peer", e.msg) \in StoredCopies
        BY <1>3, <4>1 DEF PrefixOK, CopyOps
      <4> QED BY <3>2, <4>2 DEF SettledCopies
    <3>3. CASE e.op = "peerRecent" /\ Copy("peer", e.msg) \in SettledCopies
      BY <3>3 DEF CopyOf
    <3> QED BY <1>7, <3>1, <3>2, <3>3 DEF RecentOps
  <2>7. RecentsBacked'
    <3> SUFFICES ASSUME NEW r \in Users \X Users, recents'[r] # NoMessage
                 PROVE  \E op \in RecentOps :
                           /\ Place(op, recents'[r]) = r
                           /\ Settled(CopyOf(op), recents[r])'
      BY DEF RecentsBacked
    <3>1. CASE r = Place(e.op, e.msg)
      <4>1. PICK op \in RecentOps, m \in Messages : op = e.op /\ m = e.msg
        BY <1>5, <1>7
      <4>2. recents'[r] = m /\ Place(op, m) = r
        BY <2>1, <2>4, <3>1, <4>1 DEF TypeOK
      <4>3. CopyOf(op) \in CopyOps
        BY DEF CopyOf, CopyOps
      <4>4. Settled(CopyOf(op), m)'
        BY <2>2, <2>6, <4>1, <4>3, CopySetsNext
      <4>5. Settled(CopyOf(op), recents[r])'
        BY <4>2, <4>4 DEF Settled, Stored, Refused
      <4> QED BY <4>2, <4>5
    <3>2. CASE r # Place(e.op, e.msg)
      <4>1. recents'[r] = recents[r] /\ recents[r] \in Messages
        BY <2>1, <3>2 DEF TypeOK
      <4>2. PICK op \in RecentOps :
              Place(op, recents[r]) = r /\ Settled(CopyOf(op), recents[r])
        BY <4>1 DEF RecentsBacked
      <4>3. CopyOf(op) \in CopyOps
        BY DEF CopyOf, CopyOps
      <4>4. Copy(CopyOf(op), recents[r]) \in SettledCopies'
        BY <2>2, <4>1, <4>2, <4>3, CopySets
      <4>5. Settled(CopyOf(op), recents[r])'
        BY <4>1, <4>3, <4>4, CopySetsNext
      <4> QED BY <4>1, <4>2, <4>5
    <3> QED BY <3>1, <3>2
  <2>8. chats' \in [Users \X Users -> SUBSET Copies]
    BY <2>1 DEF TypeOK
  <2>9. e.op \notin CopyOps
    BY <1>7 DEF CopyOps, RecentOps
  <2> QED BY <2>2, <2>3, <2>5, <2>7, <2>8, <2>9
<1>8. Served
  BY <1>5, <1>6, <1>7 DEF Ops
<1>9. PrefixOK(q, n + 1, StoredCopies')
  <2>1. \A i \in 1..(n + 1) : i \in 1..n \/ i = n + 1
    BY <1>1
  <2> QED BY <1>3, <1>8, <2>1 DEF PrefixOK, e
<1>10. n + 1 \in Nat /\ n + 1 <= Len(Pending(d)') /\ PrefixOK(Pending(d)', n + 1, StoredCopies')
  BY <1>1, <1>4, <1>9, LenProperties DEF q
<1>11. /\ applied' \in [Devices -> Nat]
       /\ \A c \in Devices : applied'[c] <= Len(Pending(c)')
       /\ PrefixesOK'
  BY <1>1, <1>4, <1>8, <1>10, AppliedStep
<1>12. QueuesOK' /\ MainsOK'
  BY <1>1, <1>8, QueueSame, MainSame
<1>13. TypeOK'
  BY <1>1, <1>8, <1>11 DEF TypeOK
<1> QED BY <1>8, <1>11, <1>12, <1>13

(* The head of the queue in use leaves it, settled, and reports.           *)
LEMMA DequeueInv ==
  ASSUME IInv, NEW d \in Devices, NEW ok \in BOOLEAN, NEW n \in Nat,
         Pending(d) # <<>>, Dequeue(d),
         main' = [main EXCEPT ![d] = main[d] \o Report(Head(Pending(d)), ok)],
         applied' = [applied EXCEPT ![d] = n],
         \/ n + 1 = applied[d]
         \/ n = 0,
         LET e == Head(Pending(d))
         IN  e.op \in CopyOps =>
               /\ Copy(e.op, e.msg) \in SettledCopies'
               /\ ok => Copy(e.op, e.msg) \in StoredCopies',
         UNCHANGED <<auth, fs, clock, sent, cleared, chats, recents>>,
         refused' \subseteq Writes, refused \subseteq refused'
  PROVE  IInv'
<1> DEFINE q == Pending(d)
           e == Head(q)
           r == Report(e, ok)
<1> USE DEF IInv
<1>1. /\ q \in Seq(Entries)
      /\ queue' = [queue EXCEPT ![d][fs[d]] = Tail(q)]
      /\ applied[d] \in Nat /\ applied[d] <= Len(q)
      /\ PrefixOK(q, applied[d], StoredCopies)
      /\ QueueOK(q, SettledCopies)
  BY DEF TypeOK, Dequeue, Pending, PrefixesOK, QueuesOK
<1>2. e = q[1] /\ e \in Entries /\ EntryOK(q, 1, SettledCopies)
  <2>1. 1 \in 1..Len(q)
    BY <1>1, EmptySeq
  <2> QED BY <1>1, <2>1, ElementOfSeq, HeadTailProperties DEF QueueOK
<1>3. /\ StoredCopies' = StoredCopies
      /\ SettledCopies \subseteq SettledCopies'
  BY DEF StoredCopies, SettledCopies
<1> HIDE DEF q, e, r
<1>4. /\ q # <<>>
      /\ e.op \in CopyOps => /\ Copy(e.op, e.msg) \in SettledCopies'
                             /\ ok => Copy(e.op, e.msg) \in StoredCopies'
  BY DEF q, e
<1>5. /\ Tail(q) \in Seq(Entries)
      /\ Len(Tail(q)) = Len(q) - 1
      /\ QueueOK(Tail(q), SettledCopies')
  <2>1. QueueOK(q, SettledCopies')
    BY <1>1, <1>3, QueueGrow
  <2> QED BY <1>1, <1>2, <1>4, <2>1, QueueTail
<1>6. /\ queue' \in [Devices -> [Accounts -> Seq(Entries)]]
      /\ QueuesOK'
      /\ Pending(d)' = Tail(q)
      /\ \A c \in Devices \ {d} : Pending(c)' = Pending(c)
  BY <1>1, <1>3, <1>5, QueueStep
<1>7. n <= Len(Pending(d)') /\ PrefixOK(Pending(d)', n, StoredCopies')
  <2>1. CASE n + 1 = applied[d]
    <3>1. PrefixOK(Tail(q), applied[d] - 1, StoredCopies)
      BY <1>1, <2>1, PrefixTail
    <3> QED BY <1>1, <1>3, <1>5, <1>6, <2>1, <3>1, LenProperties
  <2>2. CASE n = 0
    BY <1>5, <1>6, <2>2, LenProperties DEF PrefixOK
  <2> QED BY <2>1, <2>2
<1>8. /\ applied' \in [Devices -> Nat]
      /\ \A c \in Devices : applied'[c] <= Len(Pending(c)')
      /\ PrefixesOK'
  BY <1>3, <1>6, <1>7, AppliedStep
<1>9. r \in Seq(MainEvents) /\ MainOK(r, StoredCopies', SettledCopies')
  <2>1. e.cb => e.op \in CopyOps
    BY <1>2 DEF EntryOK
  <2> QED BY <1>2, <1>4, <2>1, ReportOK DEF r
<1>10. /\ main[d] \in Seq(MainEvents)
       /\ MainOK(main[d], StoredCopies', SettledCopies')
  BY <1>3, MainGrow DEF TypeOK, MainsOK
<1>11. /\ main[d] \o r \in Seq(MainEvents)
       /\ MainOK(main[d] \o r, StoredCopies', SettledCopies')
  BY <1>9, <1>10, MainConcat
<1>12. main' = [main EXCEPT ![d] = main[d] \o r]
  BY DEF r, e, q
<1>13. main' \in [Devices -> Seq(MainEvents)] /\ MainsOK'
  BY <1>3, <1>11, <1>12, MainStep
<1>14. OwnSettledFirst' /\ ClearedMeansDelivered' /\ RecentsBacked'
  BY <1>3, ServerGrows
<1>15. TypeOK'
  BY <1>6, <1>8, <1>13 DEF TypeOK
<1> QED BY <1>6, <1>8, <1>13, <1>14, <1>15

(* An acknowledged batch is stored, so what it reports is true.            *)
LEMMA AckInv ==
  ASSUME IInv, NEW d \in Devices, Ack(d)
  PROVE  IInv'
<1> DEFINE q == Pending(d)
           n == applied[d] - 1
<1> USE DEF IInv
<1>1. /\ q \in Seq(Entries) /\ applied[d] \in Nat
      /\ 0 < applied[d] /\ applied[d] <= Len(q)
      /\ PrefixOK(q, applied[d], StoredCopies)
  BY DEF TypeOK, Ack, Pending, PrefixesOK
<1>2. q # <<>> /\ Head(q) = q[1] /\ n \in Nat /\ n + 1 = applied[d]
  BY <1>1, EmptySeq, HeadTailProperties
<1>3. Head(q).op \in CopyOps => Copy(Head(q).op, Head(q).msg) \in StoredCopies
  BY <1>1, <1>2 DEF PrefixOK
<1>4. /\ StoredCopies' = StoredCopies /\ SettledCopies' = SettledCopies
      /\ StoredCopies \subseteq SettledCopies
  BY DEF Ack, server, StoredCopies, SettledCopies
<1>5. /\ main' = [main EXCEPT ![d] = main[d] \o Report(Head(q), TRUE)]
      /\ applied' = [applied EXCEPT ![d] = n]
      /\ Dequeue(d)
      /\ UNCHANGED <<auth, fs, clock, sent, cleared, chats, recents>>
      /\ refused' \subseteq Writes /\ refused \subseteq refused'
  BY DEF Ack, server, TypeOK
<1> HIDE DEF n
<1> QED BY <1>2, <1>3, <1>4, <1>5, DequeueInv

(* A refused batch settles its write by refusal.                           *)
LEMMA RejectInv ==
  ASSUME IInv, NEW d \in Devices, Reject(d)
  PROVE  IInv'
<1> DEFINE q == Pending(d)
           e == Head(q)
<1> USE DEF IInv
<1>1. /\ q \in Seq(Entries) /\ q # <<>> /\ applied[d] = 0
  BY DEF TypeOK, Reject, Pending
<1>2. e \in Entries
  BY <1>1, HeadTailProperties
<1>3. /\ main' = [main EXCEPT ![d] = main[d] \o Report(e, FALSE)]
      /\ refused' = refused \cup {Copy(e.op, e.msg)}
      /\ Dequeue(d)
      /\ UNCHANGED <<auth, fs, applied, clock, sent, cleared, chats, recents>>
  BY DEF Reject, server, Copy
<1>4. Copy(e.op, e.msg) \in Writes
  BY <1>2 DEF Copy, Writes, Entries
<1>5. refused' \subseteq Writes /\ refused \subseteq refused'
  BY <1>3, <1>4 DEF TypeOK
<1>6. e.op \in CopyOps => Copy(e.op, e.msg) \in SettledCopies'
  BY <1>2, <1>3 DEF SettledCopies, Copies, Copy, Entries
<1>7. applied' = [applied EXCEPT ![d] = 0]
  BY <1>1, <1>3 DEF TypeOK
<1>8. PICK ok \in BOOLEAN, n \in Nat : ok = FALSE /\ n = 0
  OBVIOUS
<1>9. e.op \in CopyOps => /\ Copy(e.op, e.msg) \in SettledCopies'
                          /\ ok => Copy(e.op, e.msg) \in StoredCopies'
  BY <1>6, <1>8
<1>10. main' = [main EXCEPT ![d] = main[d] \o Report(e, ok)]
  BY <1>3, <1>8
<1>11. UNCHANGED <<auth, fs, clock, sent, cleared, chats, recents>>
  BY <1>3
<1>12. applied' = [applied EXCEPT ![d] = n]
  BY <1>7, <1>8
<1> QED BY <1>1, <1>3, <1>5, <1>8, <1>9, <1>10, <1>11, <1>12, DequeueInv

-----------------------------------------------------------------------------
(***************************************************************************)
(* The theorems.                                                           *)
(***************************************************************************)
LEMMA StepInv ==
  ASSUME IInv, [Next]_vars
  PROVE  IInv'
<1>1. CASE UNCHANGED vars
  <2>1. UNCHANGED <<chats, recents, refused>> /\ \A d \in Devices : Pending(d)' = Pending(d)
    BY <1>1 DEF vars, Pending
  <2>2. StoredCopies' = StoredCopies /\ SettledCopies' = SettledCopies
    BY <2>1, ServerSame
  <2>3. OwnSettledFirst' /\ RecentsBacked' /\ ClearedMeansDelivered'
    BY <1>1, <2>1, ServerSame DEF IInv, vars
  <2>4. QueuesOK' /\ MainsOK' /\ PrefixesOK'
    BY <1>1, <2>1, <2>2 DEF IInv, vars, QueuesOK, MainsOK, PrefixesOK
  <2>5. TypeOK'
    BY <1>1, <2>1 DEF IInv, vars, TypeOK
  <2> QED BY <2>3, <2>4, <2>5 DEF IInv
<1>2. CASE Next
  <2>1. PICK d \in Devices : Device(d)
    BY <1>2 DEF Next
  <2>2. CASE \E to \in Users : Send(d, to)
    BY <2>2, SendInv
  <2>3. CASE RunOwnCompletion(d)
    BY <2>3, RunOwnCompletionInv
  <2>4. CASE RunPeerCompletion(d)
    BY <2>4, RunPeerCompletionInv
  <2>5. CASE SignOut(d) \/ \E u \in Users : SignIn(d, u)
    BY <2>5, AuthenticateInv DEF SignOut, SignIn, Accounts
  <2>6. CASE Kill(d) \/ KillInFanOut(d)
    BY <2>6, KillInv
  <2>7. CASE RunCredentialChange(d)
    BY <2>7, RunCredentialChangeInv
  <2>8. CASE Apply(d)
    BY <2>8, ApplyInv
  <2>9. CASE Ack(d)
    BY <2>9, AckInv
  <2>10. CASE Reject(d)
    BY <2>10, RejectInv
  <2>11. CASE StreamReset(d)
    BY <2>11, StreamResetInv
  <2> QED BY <2>1, <2>2, <2>3, <2>4, <2>5, <2>6, <2>7, <2>8, <2>9, <2>10,
             <2>11 DEF Device
<1> QED BY <1>1, <1>2

(* The invariant the others rest on holds in every reachable state.        *)
THEOREM Invariance == Spec => []IInv
<1>1. Init => IInv
  BY InitInv
<1>2. IInv /\ [Next]_vars => IInv'
  BY StepInv
<1> QED BY <1>1, <1>2, PTL DEF Spec

(* Every variable keeps to its range; the stream never accounts for more   *)
(* batches than the mutation queue in use holds.                           *)
THEOREM TypeCorrect == Spec => []TypeOK
<1>1. IInv => TypeOK
  BY DEF IInv
<1> QED BY <1>1, Invariance, PTL

(* uploadMessage: no partner has a message before its author's own copy is *)
(* stored or refused.                                                      *)
THEOREM OwnCopyFirst == Spec => []OwnSettledFirst
<1>1. IInv => OwnSettledFirst
  BY DEF IInv
<1> QED BY <1>1, Invariance, PTL

(* ChatController: the input field is emptied only for a message that the  *)
(* partner has.                                                            *)
THEOREM ClearedIsDelivered == Spec => []ClearedMeansDelivered
<1>1. IInv => ClearedMeansDelivered
  BY DEF IInv
<1> QED BY <1>1, Invariance, PTL

(* uploadMessage: a conversation list shows no message that its chat does  *)
(* not have, unless the server refused it.                                 *)
THEOREM RecentsAreBacked == Spec => []RecentsBacked
<1>1. IInv => RecentsBacked
  BY DEF IInv
<1> QED BY <1>1, Invariance, PTL

-----------------------------------------------------------------------------
(***************************************************************************)
(* uploadMessage fans out once: no message has two copies under way,       *)
(* whatever is killed, resent, refused or signed out, for any number of    *)
(* users, devices and sends.                                               *)
(*                                                                         *)
(* What is under way on a device d, Q being its queues, b its main queue   *)
(* and c its clock.                                                        *)
(***************************************************************************)
Queues == [Accounts -> Seq(Entries)]

CopyAt(q, i, m) == q[i].op \in CopyOps /\ q[i].msg = m
OwnAt(b, j, m) == b[j].kind = "own" /\ b[j].msg = m

(* Nothing of m is under way.                                              *)
NoSpot(Q, b, m) ==
  /\ \A a \in Accounts : \A i \in 1..Len(Q[a]) : ~CopyAt(Q[a], i, m)
  /\ \A j \in 1..Len(b) : ~OwnAt(b, j, m)

SentFrom(m, d, c) == m.dev = d /\ m.n <= c

(* Whatever is under way was sent from here, and no two are of one message.*)
OnceOK(d, Q, b, c) ==
  /\ \A a \in Accounts : \A i \in 1..Len(Q[a]) : SentFrom(Q[a][i].msg, d, c)
  /\ \A j \in 1..Len(b) : b[j].kind = "own" => SentFrom(b[j].msg, d, c)
  /\ \A a1, a2 \in Accounts : \A i \in 1..Len(Q[a1]), j \in 1..Len(Q[a2]) :
        Q[a1][i].op \in CopyOps /\ CopyAt(Q[a2], j, Q[a1][i].msg) => a1 = a2 /\ i = j
  /\ \A i, j \in 1..Len(b) : b[i].kind = "own" /\ OwnAt(b, j, b[i].msg) => i = j
  /\ \A a \in Accounts : \A i \in 1..Len(Q[a]), j \in 1..Len(b) :
        b[j].kind = "own" => ~CopyAt(Q[a], i, b[j].msg)

Once == \A d \in Devices : OnceOK(d, queue[d], main[d], clock[d])

-----------------------------------------------------------------------------
(***************************************************************************)
(* What a step does to it.                                                 *)
(***************************************************************************)
LEMMA TailIndex ==
  ASSUME NEW E, NEW q \in Seq(E), q # <<>>
  PROVE  /\ Tail(q) \in Seq(E)
         /\ 1 \in 1..Len(q) /\ Head(q) = q[1] /\ Head(q) \in E
         /\ \A i \in 1..Len(Tail(q)) : /\ i + 1 \in 1..Len(q) /\ i + 1 # 1
                                       /\ Tail(q)[i] = q[i + 1]
         /\ \A i, j \in 1..Len(Tail(q)) : i + 1 = j + 1 => i = j
<1>1. /\ Tail(q) \in Seq(E) /\ Head(q) = q[1] /\ Head(q) \in E
      /\ Len(Tail(q)) = Len(q) - 1
      /\ \A i \in 1..Len(Tail(q)) : Tail(q)[i] = q[i + 1]
  BY HeadTailProperties
<1>2. Len(q) \in Nat /\ Len(q) # 0
  BY EmptySeq, LenProperties
<1> QED BY <1>1, <1>2

(* The first block of the main queue is run.                               *)
LEMMA OnceBlockRun ==
  ASSUME NEW d, NEW Q, NEW b \in Seq(MainEvents), NEW c, b # <<>>, OnceOK(d, Q, b, c)
  PROVE  /\ OnceOK(d, Q, Tail(b), c)
         /\ Head(b).kind = "own" => /\ NoSpot(Q, Tail(b), Head(b).msg)
                                    /\ SentFrom(Head(b).msg, d, c)
<1> DEFINE t == Tail(b)
<1>1. /\ 1 \in 1..Len(b) /\ Head(b) = b[1]
      /\ \A i \in 1..Len(t) : i + 1 \in 1..Len(b) /\ i + 1 # 1 /\ t[i] = b[i + 1]
      /\ \A i, j \in 1..Len(t) : i + 1 = j + 1 => i = j
  BY TailIndex
<1> HIDE DEF t
<1>2. OnceOK(d, Q, t, c)
  <2>1. \A i, j \in 1..Len(t) : t[i].kind = "own" /\ OwnAt(t, j, t[i].msg) => i = j
    BY <1>1 DEF OnceOK, OwnAt
  <2>2. \A j \in 1..Len(t) : t[j].kind = "own" => SentFrom(t[j].msg, d, c)
    BY <1>1 DEF OnceOK
  <2>3. \A a \in Accounts : \A i \in 1..Len(Q[a]), j \in 1..Len(t) :
           t[j].kind = "own" => ~CopyAt(Q[a], i, t[j].msg)
    BY <1>1 DEF OnceOK
  <2> QED BY <2>1, <2>2, <2>3 DEF OnceOK
<1>3. ASSUME Head(b).kind = "own"
      PROVE  NoSpot(Q, t, Head(b).msg) /\ SentFrom(Head(b).msg, d, c)
  <2>1. \A j \in 1..Len(t) : ~OwnAt(t, j, Head(b).msg)
    BY <1>1, <1>3 DEF OnceOK, OwnAt
  <2> QED BY <1>1, <1>3, <2>1 DEF OnceOK, NoSpot
<1> QED BY <1>2, <1>3 DEF t

(* The process dies: no block is left.                                     *)
LEMMA OnceBlocksLost ==
  ASSUME NEW d, NEW Q, NEW b, NEW c, OnceOK(d, Q, b, c)
  PROVE  /\ OnceOK(d, Q, <<>>, c)
         /\ \A m : NoSpot(Q, b, m) => NoSpot(Q, <<>>, m)
<1>1. \A j \in 1..Len(<<>>) : FALSE
  OBVIOUS
<1> QED BY <1>1 DEF OnceOK, NoSpot

(* A message of which nothing is under way gets one copy.                  *)
LEMMA OnceQueued ==
  ASSUME NEW d, NEW Q \in Queues, NEW b, NEW c, OnceOK(d, Q, b, c),
         NEW a \in Accounts, NEW m, NoSpot(Q, b, m), SentFrom(m, d, c),
         NEW s \in Seq(Entries),
         \A i \in 1..Len(s) : s[i].msg = m,
         \A i \in 1..Len(s) : s[i].op \in CopyOps => i = 1
  PROVE  OnceOK(d, [Q EXCEPT ![a] = @ \o s], b, c)
<1> DEFINE n == Len(Q[a])
           r == Q[a] \o s
           R == [Q EXCEPT ![a] = r]
<1>1. /\ n \in Nat /\ Len(s) \in Nat /\ Len(r) = n + Len(s) /\ r \in Seq(Entries)
      /\ \A i \in 1..n : r[i] = Q[a][i]
      /\ \A i \in 1..Len(s) : r[n + i] = s[i]
  <2>1. Q[a] \in Seq(Entries)
    BY DEF Queues
  <2> QED BY <2>1, ConcatIndex, LenProperties
<1>2. R[a] = r /\ \A x \in Accounts : x # a => R[x] = Q[x]
  BY DEF Queues
<1> HIDE DEF r, R
<1>3. ASSUME NEW i \in 1..Len(r)
      PROVE  \/ i \in 1..n /\ r[i] = Q[a][i]
             \/ r[i].msg = m /\ (r[i].op \in CopyOps => i = n + 1)
  <2>1. CASE i \in 1..n
    BY <1>1, <2>1
  <2>2. CASE i \notin 1..n
    <3>1. i - n \in 1..Len(s) /\ n + (i - n) = i
      BY <1>1, <2>2
    <3>2. r[i] = s[i - n]
      BY <1>1, <3>1
    <3>3. i - n = 1 => i = n + 1
      BY <1>1
    <3> QED BY <3>1, <3>2, <3>3
  <2> QED BY <2>1, <2>2
<1> HIDE DEF n
<1>4. ASSUME NEW x \in Accounts, NEW i \in 1..Len(R[x])
      PROVE  \/ i \in 1..Len(Q[x]) /\ R[x][i] = Q[x][i]
             \/ /\ x = a /\ R[x][i].msg = m
                /\ R[x][i].op \in CopyOps => i = n + 1
  BY <1>2, <1>3 DEF n
<1>5. ASSUME NEW x \in Accounts, NEW i \in 1..Len(R[x])
      PROVE  SentFrom(R[x][i].msg, d, c)
  BY <1>4 DEF OnceOK
<1>6. ASSUME NEW x \in Accounts, NEW i \in 1..Len(R[x]), NEW j \in 1..Len(b),
             b[j].kind = "own"
      PROVE  ~CopyAt(R[x], i, b[j].msg)
  BY <1>4, <1>6 DEF OnceOK, NoSpot, CopyAt, OwnAt
<1>7. ASSUME NEW x \in Accounts, NEW y \in Accounts,
             NEW i \in 1..Len(R[x]), NEW j \in 1..Len(R[y]),
             R[x][i].op \in CopyOps, R[y][j].op \in CopyOps, R[y][j].msg = R[x][i].msg
      PROVE  x = y /\ i = j
  <2>1. CASE i \in 1..Len(Q[x]) /\ R[x][i] = Q[x][i]
             /\ j \in 1..Len(Q[y]) /\ R[y][j] = Q[y][j]
    BY <1>7, <2>1 DEF OnceOK, CopyAt
  <2>2. CASE i \in 1..Len(Q[x]) /\ R[x][i] = Q[x][i] /\ R[y][j].msg = m
    BY <1>7, <2>2 DEF NoSpot, CopyAt
  <2>3. CASE j \in 1..Len(Q[y]) /\ R[y][j] = Q[y][j] /\ R[x][i].msg = m
    BY <1>7, <2>3 DEF NoSpot, CopyAt
  <2> QED BY <1>4, <1>7, <2>1, <2>2, <2>3
<1>8. OnceOK(d, R, b, c)
  BY <1>5, <1>6, <1>7 DEF OnceOK, CopyAt
<1> QED BY <1>8 DEF R, r

(* The head of a queue leaves it.                                          *)
LEMMA OnceDequeued ==
  ASSUME NEW d, NEW Q \in Queues, NEW b, NEW c, OnceOK(d, Q, b, c),
         NEW a \in Accounts, Q[a] # <<>>
  PROVE  LET R == [Q EXCEPT ![a] = Tail(@)]
         IN  /\ OnceOK(d, R, b, c)
             /\ SentFrom(Head(Q[a]).msg, d, c)
             /\ Head(Q[a]).op \in CopyOps => NoSpot(R, b, Head(Q[a]).msg)
<1> DEFINE t == Tail(Q[a])
           R == [Q EXCEPT ![a] = t]
           h == Head(Q[a])
<1>1. /\ 1 \in 1..Len(Q[a]) /\ h = Q[a][1]
      /\ \A i \in 1..Len(t) : i + 1 \in 1..Len(Q[a]) /\ i + 1 # 1 /\ t[i] = Q[a][i + 1]
      /\ \A i, j \in 1..Len(t) : i + 1 = j + 1 => i = j
  <2>1. Q[a] \in Seq(Entries)
    BY DEF Queues
  <2> QED BY <2>1, TailIndex
<1>2. R[a] = t /\ \A x \in Accounts : x # a => R[x] = Q[x]
  BY DEF Queues
<1> HIDE DEF t, R, h
<1> DEFINE old(x, i) == IF x = a THEN i + 1 ELSE i
<1>3. ASSUME NEW x \in Accounts, NEW i \in 1..Len(R[x])
      PROVE  /\ old(x, i) \in 1..Len(Q[x]) /\ R[x][i] = Q[x][old(x, i)]
             /\ x = a => old(x, i) # 1
  BY <1>1, <1>2
<1>4. ASSUME NEW x \in Accounts, NEW i \in 1..Len(R[x]), NEW j \in 1..Len(R[x]),
             old(x, i) = old(x, j)
      PROVE  i = j
  BY <1>1, <1>2, <1>4
<1> HIDE DEF old
<1>5. \A x \in Accounts : \A i \in 1..Len(R[x]) : SentFrom(R[x][i].msg, d, c)
  BY <1>3 DEF OnceOK
<1>10. ASSUME NEW x \in Accounts, NEW i \in 1..Len(R[x]), NEW j \in 1..Len(b),
              b[j].kind = "own"
       PROVE  ~CopyAt(R[x], i, b[j].msg)
  <2>1. PICK k \in 1..Len(Q[x]) : R[x][i] = Q[x][k]
    BY <1>3
  <2>2. ~CopyAt(Q[x], k, b[j].msg)
    BY <1>10 DEF OnceOK
  <2> QED BY <2>1, <2>2 DEF CopyAt
<1>6. ASSUME NEW x \in Accounts, NEW y \in Accounts,
             NEW i \in 1..Len(R[x]), NEW j \in 1..Len(R[y]),
             R[x][i].op \in CopyOps, R[y][j].op \in CopyOps, R[y][j].msg = R[x][i].msg
      PROVE  x = y /\ i = j
  <2>1. PICK k \in 1..Len(Q[x]) : k = old(x, i) /\ R[x][i] = Q[x][k]
    BY <1>3
  <2>2. PICK l \in 1..Len(Q[y]) : l = old(y, j) /\ R[y][j] = Q[y][l]
    BY <1>3
  <2>3. x = y /\ k = l
    BY <1>6, <2>1, <2>2 DEF OnceOK, CopyAt
  <2> QED BY <1>4, <2>1, <2>2, <2>3
<1>7. OnceOK(d, R, b, c)
  <2>1. \A x, y \in Accounts : \A i \in 1..Len(R[x]), j \in 1..Len(R[y]) :
           R[x][i].op \in CopyOps /\ CopyAt(R[y], j, R[x][i].msg) => x = y /\ i = j
    BY <1>6 DEF CopyAt
  <2> QED BY <1>5, <1>10, <2>1 DEF OnceOK
<1>8. SentFrom(h.msg, d, c)
  BY <1>1 DEF OnceOK
<1>9. ASSUME h.op \in CopyOps
      PROVE  NoSpot(R, b, h.msg)
  <2>1. ASSUME NEW x \in Accounts, NEW i \in 1..Len(R[x]), CopyAt(R[x], i, h.msg)
        PROVE  FALSE
    <3>1. x = a /\ old(x, i) = 1
      BY <1>1, <1>3, <1>9, <2>1 DEF OnceOK, CopyAt
    <3> QED BY <1>3, <3>1
  <2>2. \A j \in 1..Len(b) : ~OwnAt(b, j, h.msg)
    BY <1>1, <1>9 DEF OnceOK, CopyAt, OwnAt
  <2> QED BY <2>1, <2>2 DEF NoSpot
<1> QED BY <1>7, <1>8, <1>9 DEF R, t, h

(* A block is added to the main queue.                                     *)
LEMMA OnceDispatched ==
  ASSUME NEW d, NEW Q, NEW b \in Seq(MainEvents), NEW c, OnceOK(d, Q, b, c),
         NEW e \in MainEvents,
         e.kind = "own" => NoSpot(Q, b, e.msg) /\ SentFrom(e.msg, d, c)
  PROVE  OnceOK(d, Q, Append(b, e), c)
<1> DEFINE t == Append(b, e)
           n == Len(b)
<1>1. /\ n \in Nat /\ Len(t) = n + 1 /\ t[n + 1] = e
      /\ \A i \in 1..n : t[i] = b[i]
  BY AppendProperties, LenProperties
<1>2. \A i \in 1..Len(t) : i \in 1..n \/ i = n + 1
  BY <1>1
<1> HIDE DEF t
<1>3. \A j \in 1..Len(t) : t[j].kind = "own" => SentFrom(t[j].msg, d, c)
  BY <1>1, <1>2 DEF OnceOK
<1>4. ASSUME NEW i \in 1..Len(t), NEW j \in 1..Len(t),
             t[i].kind = "own", t[j].kind = "own", t[j].msg = t[i].msg
      PROVE  i = j
  BY <1>1, <1>2, <1>4 DEF OnceOK, NoSpot, OwnAt
<1>5. \A a \in Accounts : \A i \in 1..Len(Q[a]), j \in 1..Len(t) :
         t[j].kind = "own" => ~CopyAt(Q[a], i, t[j].msg)
  BY <1>1, <1>2 DEF OnceOK, NoSpot
<1>6. OnceOK(d, Q, t, c)
  BY <1>3, <1>4, <1>5 DEF OnceOK, OwnAt
<1> QED BY <1>6 DEF t

(* Closures are forgotten.                                                 *)
LEMMA OnceForgotten ==
  ASSUME NEW d, NEW Q \in Queues, NEW b, NEW c, OnceOK(d, Q, b, c)
  PROVE  OnceOK(d, [a \in Accounts |-> Forgotten(Q[a])], b, c)
<1> DEFINE R == [a \in Accounts |-> Forgotten(Q[a])]
<1>1. ASSUME NEW a \in Accounts
      PROVE  /\ Len(R[a]) = Len(Q[a])
             /\ \A i \in 1..Len(Q[a]) : R[a][i].op = Q[a][i].op /\ R[a][i].msg = Q[a][i].msg
  <2>1. Q[a] \in Seq(Entries) /\ Len(Q[a]) \in Nat
    BY LenProperties DEF Queues
  <2>2. \A i \in 1..Len(Q[a]) : Q[a][i] \in Entries
    BY <2>1, ElementOfSeq
  <2>3. R[a] = [i \in 1..Len(Q[a]) |-> [Q[a][i] EXCEPT !.cb = FALSE]]
    BY DEF Forgotten
  <2> HIDE DEF R
  <2> QED BY <2>1, <2>2, <2>3 DEF Entries
<1> HIDE DEF R
<1>2. \A a \in Accounts : \A i \in 1..Len(R[a]) : SentFrom(R[a][i].msg, d, c)
  BY <1>1 DEF OnceOK
<1>3. \A a \in Accounts : \A i \in 1..Len(R[a]), j \in 1..Len(b) :
         b[j].kind = "own" => ~CopyAt(R[a], i, b[j].msg)
  BY <1>1 DEF OnceOK, CopyAt
<1>4. ASSUME NEW x \in Accounts, NEW y \in Accounts,
             NEW i \in 1..Len(R[x]), NEW j \in 1..Len(R[y]),
             R[x][i].op \in CopyOps, CopyAt(R[y], j, R[x][i].msg)
      PROVE  x = y /\ i = j
  <2>1. /\ i \in 1..Len(Q[x]) /\ R[x][i].op = Q[x][i].op /\ R[x][i].msg = Q[x][i].msg
        /\ j \in 1..Len(Q[y]) /\ R[y][j].op = Q[y][j].op /\ R[y][j].msg = Q[y][j].msg
    BY <1>1
  <2>2. Q[x][i].op \in CopyOps /\ CopyAt(Q[y], j, Q[x][i].msg)
    BY <1>4, <2>1 DEF CopyAt
  <2> QED BY <2>1, <2>2 DEF OnceOK
<1>5. OnceOK(d, R, b, c)
  BY <1>2, <1>3, <1>4 DEF OnceOK
<1> QED BY <1>5 DEF R

(* The clock goes on.                                                      *)
LEMMA OnceLater ==
  ASSUME NEW d, NEW Q \in Queues, NEW b \in Seq(MainEvents), NEW c \in Nat,
         OnceOK(d, Q, b, c)
  PROVE  /\ OnceOK(d, Q, b, c + 1)
         /\ \A m \in Messages : m.n = c + 1 => NoSpot(Q, b, m)
<1>1. \A m \in Messages : m.n \in Nat
  BY DEF Messages
<1>2. ASSUME NEW a \in Accounts, NEW i \in 1..Len(Q[a])
      PROVE  Q[a][i].msg.n \in Nat /\ Q[a][i].msg.n <= c /\ Q[a][i].msg.dev = d
  <2>1. Q[a] \in Seq(Entries)
    BY DEF Queues
  <2>2. Q[a][i] \in Entries
    BY <2>1, ElementOfSeq
  <2> QED BY <1>1, <2>2 DEF OnceOK, SentFrom, Entries
<1>3. ASSUME NEW j \in 1..Len(b), b[j].kind = "own"
      PROVE  b[j].msg.n \in Nat /\ b[j].msg.n <= c /\ b[j].msg.dev = d
  <2>1. b[j] \in MainEvents
    BY ElementOfSeq
  <2>2. b[j].msg \in Messages
    BY <1>3, <2>1 DEF MainEvents, Completions, CredentialChanges
  <2> QED BY <1>1, <1>3, <2>2 DEF OnceOK, SentFrom
<1>4. \A x \in Nat : x <= c => x <= c + 1 /\ x # c + 1
  OBVIOUS
<1>5. OnceOK(d, Q, b, c + 1)
  BY <1>2, <1>3, <1>4 DEF OnceOK, SentFrom
<1>6. ASSUME NEW m \in Messages, m.n = c + 1
      PROVE  NoSpot(Q, b, m)
  BY <1>2, <1>3, <1>4, <1>6 DEF NoSpot, CopyAt, OwnAt
<1> QED BY <1>5, <1>6

-----------------------------------------------------------------------------
(***************************************************************************)
(* The steps of a device.                                                  *)
(***************************************************************************)

(* What is known of a device.                                              *)
LEMMA OnceHere ==
  ASSUME TypeOK, Once, NEW d \in Devices
  PROVE  /\ queue[d] \in Queues /\ main[d] \in Seq(MainEvents)
         /\ clock[d] \in Nat /\ fs[d] \in Accounts
         /\ OnceOK(d, queue[d], main[d], clock[d])
<1>1. \A c \in 0..MaxSends : c \in Nat
  BY BoundsAssumption
<1> QED BY <1>1 DEF TypeOK, Once, Queues

(* A step of one device leaves the others alone.                           *)
LEMMA OnceElsewhere ==
  ASSUME Once, NEW d \in Devices,
         \A e \in Devices \ {d} : /\ queue'[e] = queue[e]
                                  /\ main'[e] = main[e]
                                  /\ clock'[e] = clock[e],
         OnceOK(d, queue'[d], main'[d], clock'[d])
  PROVE  Once'
<1>1. ASSUME NEW e \in Devices  PROVE OnceOK(e, queue'[e], main'[e], clock'[e])
  <2>1. CASE e = d
    BY <2>1
  <2>2. CASE e # d
    <3>1. queue'[e] = queue[e] /\ main'[e] = main[e] /\ clock'[e] = clock[e]
      BY <2>2
    <3>2. OnceOK(e, queue[e], main[e], clock[e])
      BY DEF Once
    <3> QED BY <3>1, <3>2
  <2> QED BY <2>1, <2>2
<1> QED BY <1>1 DEF Once

(* One queue of one device becomes s.                                      *)
LEMMA QueueOfDevice ==
  ASSUME NEW Q \in [Devices -> Queues], NEW d \in Devices,
         NEW a \in Accounts, NEW s
  PROVE  LET R == [Q EXCEPT ![d][a] = s]
         IN  /\ R[d] = [Q[d] EXCEPT ![a] = s]
             /\ \A e \in Devices \ {d} : R[e] = Q[e]
OBVIOUS

(* Persist and Dequeue touch the queue in use.                             *)
LEMMA QueueInUse ==
  ASSUME TypeOK, NEW d \in Devices, NEW s, queue' = [queue EXCEPT ![d][fs[d]] = s]
  PROVE  /\ queue'[d] = [queue[d] EXCEPT ![fs[d]] = s]
         /\ \A e \in Devices \ {d} : queue'[e] = queue[e]
<1>1. queue \in [Devices -> Queues] /\ fs[d] \in Accounts
  BY DEF TypeOK, Queues
<1> QED BY <1>1, QueueOfDevice

(* Send: the clock is read, so the new message has nothing under way yet.  *)
LEMMA SendOnce ==
  ASSUME TypeOK, Once, NEW d \in Devices, NEW to \in Users, Send(d, to)
  PROVE  Once'
<1> DEFINE m == [from |-> auth[d], to |-> to, dev |-> d, n |-> clock[d] + 1]
           u == Upload(m)
<1>1. /\ queue[d] \in Queues /\ main[d] \in Seq(MainEvents)
      /\ clock[d] \in Nat /\ fs[d] \in Accounts
      /\ OnceOK(d, queue[d], main[d], clock[d])
  BY OnceHere
<1>2. m \in Messages
  BY BoundsAssumption DEF TypeOK, Send, Messages, Accounts
<1>3. m.dev = d /\ m.n = clock[d] + 1
  OBVIOUS
<1>4. /\ queue' = [queue EXCEPT ![d][fs[d]] = queue[d][fs[d]] \o u]
      /\ clock' = [clock EXCEPT ![d] = @ + 1] /\ main' = main
  BY DEF Send, Persist
<1> HIDE DEF m
<1>5. u \in Seq(Entries) /\ Len(u) = 1 /\ u[1].msg = m
  BY <1>2, UploadType DEF Upload, Entry
<1> HIDE DEF u
<1>6. /\ queue'[d] = [queue[d] EXCEPT ![fs[d]] = @ \o u]
      /\ clock'[d] = clock[d] + 1 /\ main'[d] = main[d]
      /\ \A e \in Devices \ {d} : queue'[e] = queue[e] /\ clock'[e] = clock[e]
  <2>1. /\ clock'[d] = clock[d] + 1 /\ main'[d] = main[d]
        /\ \A e \in Devices \ {d} : clock'[e] = clock[e]
    BY <1>4 DEF TypeOK
  <2> QED BY <1>4, <2>1, QueueInUse
<1>7. /\ OnceOK(d, queue[d], main[d], clock[d] + 1)
      /\ NoSpot(queue[d], main[d], m)
  BY <1>1, <1>2, <1>3, OnceLater
<1>8. SentFrom(m, d, clock[d] + 1)
  BY <1>1, <1>3 DEF SentFrom
<1>9. \A i \in 1..Len(u) : u[i].msg = m /\ i = 1
  BY <1>5
<1>10. OnceOK(d, [queue[d] EXCEPT ![fs[d]] = @ \o u], main[d], clock[d] + 1)
  BY <1>1, <1>5, <1>7, <1>8, <1>9, OnceQueued
<1> QED BY <1>4, <1>6, <1>10, OnceElsewhere

(* The completion of the own write gives way to the partner's copy.        *)
LEMMA RunOwnCompletionOnce ==
  ASSUME TypeOK, Once, NEW d \in Devices, RunOwnCompletion(d)
  PROVE  Once'
<1> DEFINE m == Head(main[d]).msg
           f == FanOut(m)
<1>1. /\ queue[d] \in Queues /\ main[d] \in Seq(MainEvents)
      /\ clock[d] \in Nat /\ fs[d] \in Accounts
      /\ OnceOK(d, queue[d], main[d], clock[d])
  BY OnceHere
<1>2. main[d] # <<>> /\ Head(main[d]).kind = "own"
  BY DEF RunOwnCompletion
<1>3. /\ OnceOK(d, queue[d], Tail(main[d]), clock[d])
      /\ NoSpot(queue[d], Tail(main[d]), m) /\ SentFrom(m, d, clock[d])
  BY <1>1, <1>2, OnceBlockRun
<1>4. m \in Messages
  <2>1. Head(main[d]) \in MainEvents
    BY <1>1, <1>2, HeadTailProperties
  <2> QED BY <1>2, <2>1 DEF MainEvents, Completions, CredentialChanges
<1>5. /\ queue' = [queue EXCEPT ![d][fs[d]] = queue[d][fs[d]] \o f]
      /\ main' = [main EXCEPT ![d] = Tail(@)] /\ clock' = clock
  BY DEF RunOwnCompletion, Persist
<1> HIDE DEF m
<1>6. /\ f \in Seq(Entries) /\ Len(f) = 3
      /\ f[1].msg = m /\ f[2].msg = m /\ f[3].msg = m
      /\ f[2].op = "ownRecent" /\ f[3].op = "peerRecent"
  BY <1>4, FanOutType
<1> HIDE DEF f
<1>7. \A i \in 1..Len(f) : f[i].msg = m /\ (f[i].op \in CopyOps => i = 1)
  <2>1. \A i \in 1..Len(f) : i = 1 \/ i = 2 \/ i = 3
    BY <1>6
  <2> QED BY <1>6, <2>1 DEF CopyOps
<1>8. /\ queue'[d] = [queue[d] EXCEPT ![fs[d]] = @ \o f]
      /\ main'[d] = Tail(main[d])
      /\ \A e \in Devices \ {d} : queue'[e] = queue[e] /\ main'[e] = main[e]
  <2>1. /\ main'[d] = Tail(main[d])
        /\ \A e \in Devices \ {d} : main'[e] = main[e]
    BY <1>5 DEF TypeOK
  <2> QED BY <1>5, <2>1, QueueInUse
<1>9. OnceOK(d, [queue[d] EXCEPT ![fs[d]] = @ \o f], Tail(main[d]), clock[d])
  BY <1>1, <1>3, <1>6, <1>7, OnceQueued
<1> QED BY <1>5, <1>8, <1>9, OnceElsewhere

(* Another block runs.                                                     *)
LEMMA RunOtherOnce ==
  ASSUME TypeOK, Once, NEW d \in Devices,
         RunPeerCompletion(d) \/ RunCredentialChange(d)
  PROVE  Once'
<1>1. /\ main[d] \in Seq(MainEvents) /\ OnceOK(d, queue[d], main[d], clock[d])
  BY OnceHere
<1>2. /\ main[d] # <<>> /\ main' = [main EXCEPT ![d] = Tail(@)]
      /\ queue' = queue /\ clock' = clock
  BY DEF RunPeerCompletion, RunCredentialChange
<1>3. OnceOK(d, queue[d], Tail(main[d]), clock[d])
  BY <1>1, <1>2, OnceBlockRun
<1>4. main'[d] = Tail(main[d]) /\ \A e \in Devices \ {d} : main'[e] = main[e]
  BY <1>2 DEF TypeOK
<1> QED BY <1>2, <1>3, <1>4, OnceElsewhere

(* A sign-in or sign-out is posted to the main queue.                      *)
LEMMA AuthenticateOnce ==
  ASSUME TypeOK, Once, NEW d \in Devices, NEW user \in Accounts,
         Authenticate(d, user)
  PROVE  Once'
<1> DEFINE e == [kind |-> "credential", user |-> user]
<1>1. /\ queue[d] \in Queues /\ main[d] \in Seq(MainEvents)
      /\ OnceOK(d, queue[d], main[d], clock[d])
  BY OnceHere
<1>2. e \in MainEvents /\ e.kind # "own"
  BY DEF MainEvents, CredentialChanges
<1>3. /\ main' = [main EXCEPT ![d] = Append(@, e)]
      /\ queue' = queue /\ clock' = clock
  BY DEF Authenticate
<1> HIDE DEF e
<1>4. OnceOK(d, queue[d], Append(main[d], e), clock[d])
  BY <1>1, <1>2, OnceDispatched
<1>5. main'[d] = Append(main[d], e) /\ \A c \in Devices \ {d} : main'[c] = main[c]
  BY <1>3 DEF TypeOK
<1> QED BY <1>3, <1>4, <1>5, OnceElsewhere

(* The process dies with the queues sv on its disk.                        *)
LEMMA LoseMemoryOnce ==
  ASSUME TypeOK, Once, NEW d \in Devices, NEW sv \in Queues,
         OnceOK(d, sv, <<>>, clock[d]), LoseMemory(d, sv)
  PROVE  Once'
<1> DEFINE F == [a \in Accounts |-> Forgotten(sv[a])]
<1>1. OnceOK(d, F, <<>>, clock[d])
  BY OnceForgotten
<1>2. /\ queue' = [queue EXCEPT ![d] = F]
      /\ main' = [main EXCEPT ![d] = <<>>] /\ clock' = clock
  BY DEF LoseMemory
<1> HIDE DEF F
<1>3. /\ queue'[d] = F /\ main'[d] = <<>>
      /\ \A e \in Devices \ {d} : queue'[e] = queue[e] /\ main'[e] = main[e]
  BY <1>2 DEF TypeOK
<1> QED BY <1>1, <1>2, <1>3, OnceElsewhere

(* Death anywhere, within a fan-out too: the block that ran is gone, the   *)
(* copies it had persisted take its place.                                 *)
LEMMA KillOnce ==
  ASSUME TypeOK, Once, NEW d \in Devices, Kill(d) \/ KillInFanOut(d)
  PROVE  Once'
<1>1. /\ queue[d] \in Queues /\ main[d] \in Seq(MainEvents)
      /\ clock[d] \in Nat /\ fs[d] \in Accounts
      /\ OnceOK(d, queue[d], main[d], clock[d])
  BY OnceHere
<1>2. CASE Kill(d)
  <2>1. OnceOK(d, queue[d], <<>>, clock[d])
    BY <1>1, OnceBlocksLost
  <2> QED BY <1>1, <1>2, <2>1, LoseMemoryOnce DEF Kill
<1>3. CASE KillInFanOut(d)
  <2> DEFINE m == Head(main[d]).msg
             s(k) == SubSeq(FanOut(m), 1, k)
             sv(k) == [queue[d] EXCEPT ![fs[d]] = @ \o s(k)]
  <2>1. main[d] # <<>> /\ Head(main[d]).kind = "own"
    BY <1>3 DEF KillInFanOut
  <2>2. PICK k \in 1..2 : LoseMemory(d, sv(k))
    BY <1>3 DEF KillInFanOut
  <2>3. /\ OnceOK(d, queue[d], Tail(main[d]), clock[d])
        /\ NoSpot(queue[d], Tail(main[d]), m) /\ SentFrom(m, d, clock[d])
    BY <1>1, <2>1, OnceBlockRun
  <2>4. /\ OnceOK(d, queue[d], <<>>, clock[d])
        /\ NoSpot(queue[d], <<>>, m)
    BY <2>3, OnceBlocksLost
  <2>5. m \in Messages
    <3>1. Head(main[d]) \in MainEvents
      BY <1>1, <2>1, HeadTailProperties
    <3> QED BY <2>1, <3>1 DEF MainEvents, Completions, CredentialChanges
  <2> HIDE DEF m
  <2>6. /\ s(k) \in Seq(Entries) /\ Len(s(k)) = k
        /\ \A i \in 1..k : s(k)[i] = FanOut(m)[i]
    BY <2>5, FanOutPrefix
  <2>7. \A i \in 1..Len(s(k)) :
           s(k)[i].msg = m /\ (s(k)[i].op \in CopyOps => i = 1)
    <3>1. /\ FanOut(m)[1].msg = m /\ FanOut(m)[2].msg = m
          /\ FanOut(m)[2].op = "ownRecent"
      BY <2>5, FanOutType
    <3>2. \A i \in 1..k : i = 1 \/ i = 2
      OBVIOUS
    <3> HIDE DEF s
    <3> QED BY <2>6, <3>1, <3>2 DEF CopyOps
  <2> HIDE DEF s
  <2>8. OnceOK(d, sv(k), <<>>, clock[d])
    BY <1>1, <2>3, <2>4, <2>6, <2>7, OnceQueued
  <2>9. sv(k) \in Queues
    <3>1. queue[d][fs[d]] \o s(k) \in Seq(Entries)
      BY <1>1, <2>6, ConcatIndex DEF Queues
    <3> QED BY <1>1, <3>1 DEF Queues
  <2> HIDE DEF sv
  <2> QED BY <2>2, <2>8, <2>9, LoseMemoryOnce
<1> QED BY <1>2, <1>3

(* An answer: an own copy leaves the queue for the block that fans it out, *)
(* if the process still holds one.                                         *)
LEMMA AnswerOnce ==
  ASSUME IInv, Once, NEW d \in Devices, NEW ok \in BOOLEAN,
         Pending(d) # <<>>, Dequeue(d), clock' = clock,
         main' = [main EXCEPT ![d] = @ \o Report(Head(Pending(d)), ok)]
  PROVE  Once'
<1> DEFINE q == queue[d][fs[d]]
           e == Head(q)
           r == Report(e, ok)
           Q == [queue[d] EXCEPT ![fs[d]] = Tail(@)]
<1> USE DEF IInv
<1>1. /\ queue[d] \in Queues /\ main[d] \in Seq(MainEvents)
      /\ clock[d] \in Nat /\ fs[d] \in Accounts
      /\ OnceOK(d, queue[d], main[d], clock[d])
  BY OnceHere
<1>2. q \in Seq(Entries) /\ q # <<>> /\ QueueOK(q, SettledCopies)
  BY <1>1 DEF Queues, Pending, QueuesOK
<1>3. /\ OnceOK(d, Q, main[d], clock[d]) /\ SentFrom(e.msg, d, clock[d])
      /\ e.op \in CopyOps => NoSpot(Q, main[d], e.msg)
  BY <1>1, <1>2, OnceDequeued
<1>4. e \in Entries /\ (e.cb => e.op \in CopyOps)
  <2>1. e = q[1] /\ e \in Entries /\ 1 \in 1..Len(q)
    BY <1>2, TailIndex
  <2> QED BY <1>2, <2>1 DEF QueueOK, EntryOK
<1>5. /\ queue' = [queue EXCEPT ![d][fs[d]] = Tail(q)]
      /\ main' = [main EXCEPT ![d] = main[d] \o r]
  BY DEF Dequeue, Pending
<1>6. Q \in Queues
  <2>1. Tail(q) \in Seq(Entries)
    BY <1>2, HeadTailProperties
  <2> QED BY <1>1, <2>1 DEF Queues
<1>7. /\ queue'[d] = Q /\ main'[d] = main[d] \o r
      /\ \A c \in Devices \ {d} : queue'[c] = queue[c] /\ main'[c] = main[c]
  <2>1. /\ queue'[d] = Q
        /\ \A c \in Devices \ {d} : queue'[c] = queue[c]
    BY <1>5, QueueInUse
  <2> HIDE DEF Q, r
  <2>2. /\ main'[d] = main[d] \o r
        /\ \A c \in Devices \ {d} : main'[c] = main[c]
    BY <1>5 DEF TypeOK
  <2> QED BY <2>1, <2>2
<1> HIDE DEF Q
<1> HIDE DEF q, e
<1>8. OnceOK(d, Q, main[d] \o r, clock[d])
  <2>1. CASE r = <<>>
    <3>1. main[d] \o r = main[d]
      BY <1>1, <2>1, ConcatEmptySeq
    <3> QED BY <1>3, <3>1
  <2>2. CASE r = <<Completion(e.op, e.msg, ok)>> /\ e.op \in CopyOps
             /\ Completion(e.op, e.msg, ok) \in Completions
    <3> DEFINE f == Completion(e.op, e.msg, ok)
    <3>1. f \in MainEvents /\ f.msg = e.msg
      BY <2>2 DEF MainEvents, Completion
    <3> HIDE DEF f
    <3>2. main[d] \o <<f>> = Append(main[d], f)
      BY <1>1, <3>1
    <3>3. OnceOK(d, Q, Append(main[d], f), clock[d])
      BY <1>1, <1>3, <1>6, <2>2, <3>1, OnceDispatched
    <3> QED BY <2>2, <3>2, <3>3 DEF f
  <2> QED BY <1>4, <2>1, <2>2, ReportType DEF r
<1> QED BY <1>7, <1>8, OnceElsewhere

(* Every step.                                                             *)
LEMMA StepOnce ==
  ASSUME IInv, Once, [Next]_vars
  PROVE  Once'
<1> USE DEF IInv
<1>1. CASE UNCHANGED <<queue, main, clock>>
  BY <1>1 DEF Once
<1>2. CASE Next
  <2>1. PICK d \in Devices : Device(d)
    BY <1>2 DEF Next
  <2>2. CASE \E to \in Users : Send(d, to)
    BY <2>2, SendOnce
  <2>3. CASE RunOwnCompletion(d)
    BY <2>3, RunOwnCompletionOnce
  <2>4. CASE RunPeerCompletion(d) \/ RunCredentialChange(d)
    BY <2>4, RunOtherOnce
  <2>5. CASE SignOut(d) \/ \E u \in Users : SignIn(d, u)
    BY <2>5, AuthenticateOnce DEF SignOut, SignIn, Accounts
  <2>6. CASE Kill(d) \/ KillInFanOut(d)
    BY <2>6, KillOnce
  <2>7. CASE Apply(d) \/ StreamReset(d)
    BY <1>1, <2>7 DEF Apply, StreamReset, local
  <2>8. CASE Ack(d)
    <3>1. Pending(d) # <<>>
      <4>1. Pending(d) \in Seq(Entries) /\ applied[d] \in Nat
            /\ 0 < applied[d] /\ applied[d] <= Len(Pending(d))
        BY <2>8 DEF TypeOK, Ack, Pending
      <4> QED BY <4>1, EmptySeq
    <3> QED BY <2>8, <3>1, AnswerOnce DEF Ack
  <2>9. CASE Reject(d)
    BY <2>9, AnswerOnce DEF Reject
  <2> QED BY <2>1, <2>2, <2>3, <2>4, <2>5, <2>6, <2>7, <2>8, <2>9 DEF Device
<1> QED BY <1>1, <1>2 DEF vars

-----------------------------------------------------------------------------
(***************************************************************************)
(* The theorems.                                                           *)
(***************************************************************************)

(* Whatever is under way is alone: one copy, or one block about to fan out.*)
LEMMA OneToken ==
  ASSUME TypeOK, Once, NEW m \in Messages
  PROVE  Cardinality(Tokens(m)) <= 1
<1> DEFINE T == Tokens(m)
<1>1. ASSUME NEW s \in T, NEW t \in T  PROVE s = t
  <2> DEFINE Queued(x) ==
               \E d \in Devices, a \in Accounts : \E i \in 1..Len(queue[d][a]) :
                 x = <<d, a, i>> /\ CopyAt(queue[d][a], i, m)
             Waiting(x) ==
               \E d \in Devices : \E i \in 1..Len(main[d]) :
                 x = <<d, i>> /\ OwnAt(main[d], i, m)
  <2>1. \A d \in Devices : /\ DOMAIN main[d] = 1..Len(main[d])
                           /\ \A a \in Accounts :
                                DOMAIN queue[d][a] = 1..Len(queue[d][a])
    BY DEF TypeOK
  <2>2. ASSUME NEW x \in T  PROVE Queued(x) \/ Waiting(x)
    <3>1. CASE \E d \in Devices, a \in Accounts :
                 \E i \in DOMAIN queue[d][a] :
                   x = <<d, a, i>> /\ CopyAt(queue[d][a], i, m)
      BY <2>1, <3>1
    <3>2. CASE \E d \in Devices : \E i \in DOMAIN main[d] :
                 x = <<d, i>> /\ OwnAt(main[d], i, m)
      BY <2>1, <3>2
    <3>3. CASE x \in UNION {QueuedCopies(d, a, m) : d \in Devices, a \in Accounts}
      <4>1. PICK d \in Devices, a \in Accounts : x \in QueuedCopies(d, a, m)
        BY <3>3
      <4>2. PICK i \in DOMAIN queue[d][a] :
                   x = <<d, a, i>> /\ CopyAt(queue[d][a], i, m)
        BY <4>1 DEF QueuedCopies, CopyAt
      <4> QED BY <3>1, <4>2
    <3>4. CASE x \in UNION {FanOuts(d, m) : d \in Devices}
      <4>1. PICK d \in Devices : x \in FanOuts(d, m)
        BY <3>4
      <4>2. PICK i \in DOMAIN main[d] : x = <<d, i>> /\ OwnAt(main[d], i, m)
        BY <4>1 DEF FanOuts, OwnAt
      <4> QED BY <3>2, <4>2
    <3> QED BY <3>3, <3>4 DEF Tokens
  <2>3. \A d \in Devices : OnceOK(d, queue[d], main[d], clock[d])
    BY DEF Once
  <2>4. ASSUME NEW d \in Devices, NEW a \in Accounts,
               NEW i \in 1..Len(queue[d][a]), CopyAt(queue[d][a], i, m)
        PROVE  m.dev = d
    BY <2>3, <2>4 DEF OnceOK, CopyAt, SentFrom
  <2>5. ASSUME NEW d \in Devices, NEW i \in 1..Len(main[d]), OwnAt(main[d], i, m)
        PROVE  m.dev = d
    BY <2>3, <2>5 DEF OnceOK, OwnAt, SentFrom
  <2>6. CASE Queued(s) /\ Queued(t)
    <3>1. PICK d \in Devices, a \in Accounts : \E i \in 1..Len(queue[d][a]) :
                 s = <<d, a, i>> /\ CopyAt(queue[d][a], i, m)
      BY <2>6
    <3>2. PICK i \in 1..Len(queue[d][a]) :
                 s = <<d, a, i>> /\ CopyAt(queue[d][a], i, m)
      BY <3>1
    <3>3. PICK e \in Devices, b \in Accounts : \E j \in 1..Len(queue[e][b]) :
                 t = <<e, b, j>> /\ CopyAt(queue[e][b], j, m)
      BY <2>6
    <3>4. PICK j \in 1..Len(queue[e][b]) :
                 t = <<e, b, j>> /\ CopyAt(queue[e][b], j, m)
      BY <3>3
    <3>5. d = e
      BY <2>4, <3>2, <3>4
    <3>6. a = b /\ i = j
      BY <2>3, <3>2, <3>4, <3>5 DEF OnceOK, CopyAt
    <3> QED BY <3>2, <3>4, <3>5, <3>6
  <2>7. CASE Waiting(s) /\ Waiting(t)
    <3>1. PICK d \in Devices : \E i \in 1..Len(main[d]) :
                 s = <<d, i>> /\ OwnAt(main[d], i, m)
      BY <2>7
    <3>2. PICK i \in 1..Len(main[d]) : s = <<d, i>> /\ OwnAt(main[d], i, m)
      BY <3>1
    <3>3. PICK e \in Devices : \E j \in 1..Len(main[e]) :
                 t = <<e, j>> /\ OwnAt(main[e], j, m)
      BY <2>7
    <3>4. PICK j \in 1..Len(main[e]) : t = <<e, j>> /\ OwnAt(main[e], j, m)
      BY <3>3
    <3>5. d = e
      BY <2>5, <3>2, <3>4
    <3>6. i = j
      BY <2>3, <3>2, <3>4, <3>5 DEF OnceOK, OwnAt
    <3> QED BY <3>2, <3>4, <3>5, <3>6
  <2>8. ASSUME NEW x, NEW y, Queued(x), Waiting(y)  PROVE FALSE
    <3>1. PICK d \in Devices, a \in Accounts : \E i \in 1..Len(queue[d][a]) :
                 CopyAt(queue[d][a], i, m)
      BY <2>8
    <3>2. PICK i \in 1..Len(queue[d][a]) : CopyAt(queue[d][a], i, m)
      BY <3>1
    <3>3. PICK e \in Devices : \E j \in 1..Len(main[e]) : OwnAt(main[e], j, m)
      BY <2>8
    <3>4. PICK j \in 1..Len(main[e]) : OwnAt(main[e], j, m)
      BY <3>3
    <3>5. d = e
      BY <2>4, <2>5, <3>2, <3>4
    <3> QED BY <2>3, <3>2, <3>4, <3>5 DEF OnceOK, OwnAt
  <2> QED BY <2>2, <2>6, <2>7, <2>8
<1> HIDE DEF T
<1>2. CASE T = {}
  BY <1>2, FS_EmptySet DEF T
<1>3. CASE T # {}
  <2>1. PICK t : t \in T
    BY <1>3
  <2>2. T = {t}
    BY <1>1, <2>1
  <2>3. Cardinality({t}) = 1
    BY FS_Singleton
  <2> QED BY <2>2, <2>3 DEF T
<1> QED BY <1>2, <1>3

(* uploadMessage fans out once: at no time are two copies of a message     *)
(* under way, so no message shows twice, whatever is killed, sent again,   *)
(* refused or signed out in between.                                       *)
THEOREM FansOutOnce == Spec => []FanOutOnce
<1>1. Init => IInv /\ Once
  <2>1. Init => Once
    BY DEF Init, Once, OnceOK
  <2> QED BY <2>1, InitInv
<1>2. IInv /\ Once /\ [Next]_vars => (IInv /\ Once)'
  BY StepInv, StepOnce
<1>3. IInv /\ Once => FanOutOnce
  BY OneToken DEF IInv, TypeOK, FanOutOnce
<1> QED BY <1>1, <1>2, <1>3, PTL DEF Spec

-----------------------------------------------------------------------------
(***************************************************************************)
(* The refinement of MessageDelivery, and the lists that settle.           *)
(***************************************************************************)

(***************************************************************************)
(* The invariants, besides IInv.                                           *)
(***************************************************************************)
(* Whatever is under way was sent.                                         *)
EntriesIn(q, U) == \A i \in 1..Len(q) : q[i].msg \in U
BlocksIn(b, U) == \A j \in 1..Len(b) : b[j].kind \in CopyOps => b[j].msg \in U

QueuesSent == \A d \in Devices, a \in Accounts : EntriesIn(queue[d][a], sent)
MainsSent == \A d \in Devices : BlocksIn(main[d], sent)

(* Unless accounts change, Firestore works for the account signed in.      *)
OnlyCopies(b) == \A j \in 1..Len(b) : b[j].kind \in CopyOps
Steady(d) == fs[d] = auth[d] /\ OnlyCopies(main[d])

(***************************************************************************)
(* The line of the messages of device d on their way, q being its queue, b *)
(* its main queue, P its messages the partners have, c its clock: partner's*)
(* copies that are stored, then those in the queue, then completions that  *)
(* will issue some, then own copies in the queue, each in the order of the *)
(* clock.                                                                  *)
(***************************************************************************)
Numbered(d, q, b, P, c) ==
  /\ \A i \in 1..Len(q) : q[i].msg.dev = d /\ q[i].msg.n <= c
  /\ \A j \in 1..Len(b) : b[j].kind = "own" => b[j].msg.dev = d /\ b[j].msg.n <= c
  /\ \A m \in P : m.n <= c

QueueInLine(q) ==
  \A i, j \in 1..Len(q) :
     /\ i < j /\ q[i].op = q[j].op /\ q[i].op \in CopyOps
           => q[i].msg.n < q[j].msg.n
     /\ q[i].op = "peer" /\ q[j].op = "own" => q[i].msg.n < q[j].msg.n

MainInLine(b) ==
  \A i, j \in 1..Len(b) :
     i < j /\ b[i].kind = "own" /\ b[j].kind = "own" => b[i].msg.n < b[j].msg.n

AcrossInLine(q, b) ==
  \A i \in 1..Len(q), j \in 1..Len(b) : b[j].kind = "own" =>
     /\ q[i].op = "peer" => q[i].msg.n < b[j].msg.n
     /\ q[i].op = "own" => b[j].msg.n < q[i].msg.n

(* A copy of the queue that is older than a stored one is stored itself    *)
(* (it was sent before, and is about to be sent again).                    *)
StoredInLine(q, b, P) ==
  \A m \in P :
     /\ \A i \in 1..Len(q) :
           /\ q[i].op = "own" => m.n < q[i].msg.n
           /\ q[i].op = "peer" /\ q[i].msg.n < m.n => q[i].msg \in P
     /\ \A j \in 1..Len(b) : b[j].kind = "own" => m.n < b[j].msg.n

LineOK(d, q, b, P, c) ==
  /\ Numbered(d, q, b, P, c)
  /\ QueueInLine(q)
  /\ MainInLine(b)
  /\ AcrossInLine(q, b)
  /\ StoredInLine(q, b, P)

Delivered(d) == {m \in Messages : m.dev = d /\ Stored("peer", m)}

Lines ==
  \A d \in Devices :
     /\ Steady(d)
     /\ LineOK(d, Pending(d), main[d], Delivered(d), clock[d])

DInv ==
  /\ QueuesSent
  /\ MainsSent
  /\ "switch" \notin MayHappen => Lines

-----------------------------------------------------------------------------
(***************************************************************************)
(* What a step does to a line.                                             *)
(***************************************************************************)

(* Where an index of a concatenation comes from.                           *)
LEMMA ConcatFrom ==
  ASSUME NEW E, NEW q \in Seq(E), NEW s \in Seq(E), NEW i \in 1..Len(q \o s)
  PROVE  \/ i \in 1..Len(q) /\ (q \o s)[i] = q[i]
         \/ \E k \in 1..Len(s) : i = Len(q) + k /\ (q \o s)[i] = s[k]
<1>1. Len(q) \in Nat /\ Len(s) \in Nat /\ Len(q \o s) = Len(q) + Len(s)
  BY ConcatIndex, LenProperties
<1>2. CASE i <= Len(q)
  BY <1>1, <1>2, ConcatIndex
<1>3. CASE i > Len(q)
  <2>1. i - Len(q) \in 1..Len(s) /\ i = Len(q) + (i - Len(q))
    BY <1>1, <1>3
  <2> QED BY <2>1, ConcatIndex
<1> QED BY <1>1, <1>2, <1>3

(* The indices of a tail.                                                  *)
LEMMA TailFrom ==
  ASSUME NEW E, NEW q \in Seq(E), q # <<>>
  PROVE  /\ Tail(q) \in Seq(E)
         /\ 1 \in 1..Len(q) /\ Head(q) = q[1]
         /\ \A i \in 1..Len(Tail(q)) : /\ i + 1 \in 1..Len(q) /\ 1 < i + 1
                                       /\ Tail(q)[i] = q[i + 1]
<1>1. /\ Tail(q) \in Seq(E) /\ Head(q) = q[1]
      /\ Len(Tail(q)) = Len(q) - 1
      /\ \A i \in 1..Len(Tail(q)) : Tail(q)[i] = q[i + 1]
  BY HeadTailProperties
<1>2. Len(q) \in Nat /\ Len(q) # 0
  BY EmptySeq, LenProperties
<1> QED BY <1>1, <1>2

(* The numbers of the messages of a queue.                                 *)
LEMMA EntryNumbers ==
  ASSUME NEW q \in Seq(Entries), NEW i \in 1..Len(q)
  PROVE  /\ q[i] \in Entries
         /\ q[i].msg \in Messages /\ q[i].msg.n \in Int
<1>1. q[i] \in Entries
  BY ElementOfSeq
<1>2. q[i].msg \in Messages
  BY <1>1 DEF Entries
<1>3. q[i].msg.n \in Int
  BY <1>2 DEF Messages
<1> QED BY <1>1, <1>2, <1>3

(* The head of the queue leaves it.                                        *)
LEMMA LineTail ==
  ASSUME NEW d, NEW b, NEW P, NEW c, NEW q \in Seq(Entries), q # <<>>,
         LineOK(d, q, b, P, c)
  PROVE  LineOK(d, Tail(q), b, P, c)
<1>1. PICK r : r = Tail(q)
  OBVIOUS
<1>2. \A i \in 1..Len(r) : i + 1 \in 1..Len(q) /\ r[i] = q[i + 1]
  BY <1>1, TailFrom
<1>3. \A i, j \in 1..Len(r) : i < j => i + 1 < j + 1
  BY <1>1, TailFrom, LenProperties
<1>4. Numbered(d, r, b, P, c)
  BY <1>2 DEF LineOK, Numbered
<1>5. QueueInLine(r)
  BY <1>2, <1>3 DEF LineOK, QueueInLine
<1>6. AcrossInLine(r, b)
  BY <1>2 DEF LineOK, AcrossInLine
<1>7. StoredInLine(r, b, P)
  BY <1>2 DEF LineOK, StoredInLine
<1> QED BY <1>1, <1>4, <1>5, <1>6, <1>7 DEF LineOK

(* A block leaves the main queue.                                          *)
LEMMA LineRun ==
  ASSUME NEW d, NEW q, NEW P, NEW c, NEW b \in Seq(MainEvents), b # <<>>,
         LineOK(d, q, b, P, c)
  PROVE  LineOK(d, q, Tail(b), P, c)
<1>1. PICK r : r = Tail(b)
  OBVIOUS
<1>2. \A j \in 1..Len(r) : j + 1 \in 1..Len(b) /\ r[j] = b[j + 1]
  BY <1>1, TailFrom
<1>3. \A i, j \in 1..Len(r) : i < j => i + 1 < j + 1
  BY <1>1, TailFrom, LenProperties
<1>4. Numbered(d, q, r, P, c)
  BY <1>2 DEF LineOK, Numbered
<1>5. MainInLine(r)
  BY <1>2, <1>3 DEF LineOK, MainInLine
<1>6. AcrossInLine(q, r)
  BY <1>2 DEF LineOK, AcrossInLine
<1>7. StoredInLine(q, r, P)
  BY <1>2 DEF LineOK, StoredInLine
<1> QED BY <1>1, <1>4, <1>5, <1>6, <1>7 DEF LineOK

(* Forgetting closures leaves operations and messages.                     *)
LEMMA ForgottenShape ==
  ASSUME NEW q \in Seq(Entries)
  PROVE  /\ Len(Forgotten(q)) = Len(q)
         /\ \A i \in 1..Len(q) : /\ Forgotten(q)[i].op = q[i].op
                                 /\ Forgotten(q)[i].msg = q[i].msg
<1>1. PICK r : r = Forgotten(q)
  OBVIOUS
<1>2. \A i \in 1..Len(q) : /\ [q[i] EXCEPT !.cb = FALSE] \in Entries
                           /\ [q[i] EXCEPT !.cb = FALSE].op = q[i].op
                           /\ [q[i] EXCEPT !.cb = FALSE].msg = q[i].msg
  BY EntryNumbers DEF Entries
<1>3. r \in [1..Len(q) -> Entries] /\ Len(q) \in Nat
  BY <1>1, <1>2, LenProperties DEF Forgotten
<1>4. Len(r) = Len(q)
  BY <1>3
<1>5. \A i \in 1..Len(q) : r[i] = [q[i] EXCEPT !.cb = FALSE]
  BY <1>1 DEF Forgotten
<1> QED BY <1>1, <1>2, <1>4, <1>5

(* The process dies.                                                       *)
LEMMA LineKilled ==
  ASSUME NEW d, NEW b, NEW P, NEW c, NEW q \in Seq(Entries), LineOK(d, q, b, P, c)
  PROVE  LineOK(d, Forgotten(q), <<>>, P, c)
<1>1. PICK r : r = Forgotten(q)
  OBVIOUS
<1>2. Len(r) = Len(q) /\ \A i \in 1..Len(q) : r[i].op = q[i].op /\ r[i].msg = q[i].msg
  BY <1>1, ForgottenShape
<1>3. QueueInLine(r)
  BY <1>2 DEF LineOK, QueueInLine
<1>4. Numbered(d, r, <<>>, P, c)
  BY <1>2 DEF LineOK, Numbered
<1>5. StoredInLine(r, <<>>, P)
  BY <1>2 DEF LineOK, StoredInLine
<1>6. MainInLine(<<>>) /\ AcrossInLine(r, <<>>)
  BY DEF MainInLine, AcrossInLine
<1> QED BY <1>1, <1>3, <1>4, <1>5, <1>6 DEF LineOK

(* A block other than the completion of an own write is dispatched.        *)
LEMMA LineOtherBlock ==
  ASSUME NEW d, NEW q, NEW P, NEW c, NEW b \in Seq(MainEvents),
         NEW e \in MainEvents, e.kind # "own", LineOK(d, q, b, P, c)
  PROVE  LineOK(d, q, b \o <<e>>, P, c)
<1>1. PICK r : r = b \o <<e>>
  OBVIOUS
<1>2. \A j \in 1..Len(r) : r[j].kind = "own" => j \in 1..Len(b) /\ r[j] = b[j]
  BY <1>1, ConcatFrom
<1>3. Numbered(d, q, r, P, c)
  BY <1>2 DEF LineOK, Numbered
<1>4. MainInLine(r)
  BY <1>2 DEF LineOK, MainInLine
<1>5. AcrossInLine(q, r)
  BY <1>2 DEF LineOK, AcrossInLine
<1>6. StoredInLine(q, r, P)
  BY <1>2 DEF LineOK, StoredInLine
<1> QED BY <1>1, <1>3, <1>4, <1>5, <1>6 DEF LineOK

(* The own copy at the head leaves the queue for the main queue.           *)
LEMMA LineOwnBlock ==
  ASSUME NEW d, NEW P, NEW c, NEW q \in Seq(Entries), q # <<>>,
         NEW b \in Seq(MainEvents), NEW e \in MainEvents,
         q[1].op = "own", e.kind = "own", e.msg = q[1].msg,
         LineOK(d, q, b, P, c)
  PROVE  LineOK(d, Tail(q), b \o <<e>>, P, c)
<1>1. PICK t, r : t = Tail(q) /\ r = b \o <<e>>
  OBVIOUS
<1>2. LineOK(d, t, b, P, c)
  BY <1>1, LineTail
<1>3. /\ 1 \in 1..Len(q)
      /\ \A i \in 1..Len(t) : i + 1 \in 1..Len(q) /\ 1 < i + 1 /\ t[i] = q[i + 1]
  BY <1>1, TailFrom
<1>4. \A j \in 1..Len(r) : \/ j \in 1..Len(b) /\ r[j] = b[j]
                           \/ j = Len(b) + 1 /\ r[j] = e
  BY <1>1, ConcatFrom
<1>5. Numbered(d, t, r, P, c)
  <2>1. q[1].msg.dev = d /\ q[1].msg.n <= c
    BY <1>3 DEF LineOK, Numbered
  <2> QED BY <1>2, <1>4, <2>1 DEF LineOK, Numbered
<1>6. MainInLine(r)
  <2>1. \A j \in 1..Len(b) : b[j].kind = "own" => b[j].msg.n < e.msg.n
    BY <1>3 DEF LineOK, AcrossInLine
  <2>2. Len(b) \in Nat
    BY LenProperties
  <2>3. \A j \in 1..Len(b) : ~(Len(b) + 1 < j)
    BY <2>2
  <2> QED BY <1>2, <1>4, <2>1, <2>2, <2>3 DEF LineOK, MainInLine
<1>7. AcrossInLine(t, r)
  <2>1. \A i \in 1..Len(t) : /\ t[i].op = "peer" => t[i].msg.n < e.msg.n
                             /\ t[i].op = "own" => e.msg.n < t[i].msg.n
    BY <1>3 DEF LineOK, QueueInLine, CopyOps
  <2> QED BY <1>2, <1>4, <2>1 DEF LineOK, AcrossInLine
<1>8. StoredInLine(t, r, P)
  <2>1. \A m \in P : m.n < e.msg.n
    BY <1>3 DEF LineOK, StoredInLine
  <2> QED BY <1>2, <1>4, <2>1 DEF LineOK, StoredInLine
<1> QED BY <1>1, <1>2, <1>5, <1>6, <1>7, <1>8 DEF LineOK

(* The completion at the head of the main queue puts the partner's copy,   *)
(* and what follows it, into the queue.                                    *)
LEMMA LineFanOut ==
  ASSUME NEW d, NEW P \in SUBSET Messages, NEW c, NEW q \in Seq(Entries),
         NEW b \in Seq(MainEvents), b # <<>>, b[1].kind = "own",
         b[1].msg \in Messages,
         NEW s \in Seq(Entries), Len(s) <= 3,
         \A i \in 1..Len(s) : s[i] = FanOut(b[1].msg)[i],
         LineOK(d, q, b, P, c)
  PROVE  LineOK(d, q \o s, Tail(b), P, c)
<1>1. PICK m, t, r : m = b[1].msg /\ t = Tail(b) /\ r = q \o s
  OBVIOUS
<1>2. LineOK(d, q, t, P, c)
  BY <1>1, LineRun
<1>3. /\ 1 \in 1..Len(b)
      /\ \A j \in 1..Len(t) : j + 1 \in 1..Len(b) /\ 1 < j + 1 /\ t[j] = b[j + 1]
  BY <1>1, TailFrom
<1>4. \A k \in 1..Len(s) : /\ s[k].msg = m
                           /\ k = 1 => s[k].op = "peer"
                           /\ k # 1 => s[k].op \notin CopyOps
  <2>1. Len(s) \in Nat
    BY LenProperties
  <2>2. \A k \in 1..Len(s) : k = 1 \/ k = 2 \/ k = 3
    BY <2>1
  <2>3. \A k \in 1..Len(s) : s[k] = FanOut(m)[k]
    BY <1>1
  <2>4. /\ FanOut(m)[1].msg = m /\ FanOut(m)[2].msg = m /\ FanOut(m)[3].msg = m
        /\ FanOut(m)[1].op = "peer"
        /\ FanOut(m)[2].op \notin CopyOps /\ FanOut(m)[3].op \notin CopyOps
    BY <1>1, FanOutType DEF CopyOps
  <2> QED BY <2>2, <2>3, <2>4
<1>5. \A i \in 1..Len(r) :
         \/ i \in 1..Len(q) /\ r[i] = q[i]
         \/ i = Len(q) + 1 /\ r[i].op = "peer" /\ r[i].msg = m
         \/ r[i].op \notin CopyOps /\ r[i].msg = m
  <2> TAKE i \in 1..Len(r)
  <2>1. \/ i \in 1..Len(q) /\ r[i] = q[i]
        \/ \E k \in 1..Len(s) : i = Len(q) + k /\ r[i] = s[k]
    BY <1>1, ConcatFrom
  <2> QED BY <1>4, <2>1
<1>6. m.dev = d /\ m.n <= c
  BY <1>1, <1>3 DEF LineOK, Numbered
<1>7. \A i \in 1..Len(q) : /\ q[i].op = "peer" => q[i].msg.n < m.n
                           /\ q[i].op = "own" => m.n < q[i].msg.n
  BY <1>1, <1>3 DEF LineOK, AcrossInLine
<1>8. Numbered(d, r, t, P, c)
  BY <1>2, <1>5, <1>6 DEF LineOK, Numbered
<1>9. QueueInLine(r)
  <2>1. \A i \in 1..Len(q) : ~(Len(q) + 1 < i) /\ i # Len(q) + 1
    BY LenProperties
  <2>2. ~(Len(q) + 1 < Len(q) + 1)
    BY LenProperties
  <2>3. "own" \in CopyOps /\ "peer" \in CopyOps /\ "own" # "peer"
    BY DEF CopyOps
  <2>4. ASSUME NEW i \in 1..Len(r), NEW j \in 1..Len(r), i < j,
               r[i].op = r[j].op, r[i].op \in CopyOps
        PROVE  r[i].msg.n < r[j].msg.n
    <3>1. CASE i \in 1..Len(q) /\ r[i] = q[i] /\ j \in 1..Len(q) /\ r[j] = q[j]
      BY <1>2, <2>4, <3>1 DEF LineOK, QueueInLine
    <3>2. CASE /\ i \in 1..Len(q) /\ r[i] = q[i]
               /\ j = Len(q) + 1 /\ r[j].op = "peer" /\ r[j].msg = m
      BY <1>7, <2>4, <3>2
    <3> QED BY <1>5, <2>1, <2>2, <2>4, <3>1, <3>2
  <2>5. ASSUME NEW i \in 1..Len(r), NEW j \in 1..Len(r),
               r[i].op = "peer", r[j].op = "own"
        PROVE  r[i].msg.n < r[j].msg.n
    <3>1. j \in 1..Len(q) /\ r[j] = q[j]
      BY <1>5, <2>3, <2>5
    <3> QED BY <1>2, <1>5, <1>7, <2>3, <2>5, <3>1 DEF LineOK, QueueInLine
  <2> QED BY <2>4, <2>5 DEF QueueInLine
<1>10. AcrossInLine(r, t)
  <2>1. \A j \in 1..Len(t) : t[j].kind = "own" => m.n < t[j].msg.n
    BY <1>1, <1>3 DEF LineOK, MainInLine
  <2> QED BY <1>2, <1>5, <2>1 DEF LineOK, AcrossInLine, CopyOps
<1>11. StoredInLine(r, t, P)
  <2>1. \A l \in P : l.n < m.n
    BY <1>1, <1>3 DEF LineOK, StoredInLine
  <2>2. m.n \in Int /\ \A l \in P : l.n \in Int
    BY <1>1 DEF Messages
  <2>3. \A l \in P : ~(m.n < l.n)
    BY <2>1, <2>2
  <2> QED BY <1>2, <1>5, <2>1, <2>3 DEF LineOK, StoredInLine, CopyOps
<1> QED BY <1>1, <1>2, <1>8, <1>9, <1>10, <1>11 DEF LineOK

(* A message is sent.                                                      *)
LEMMA LineSend ==
  ASSUME NEW d, NEW P \in SUBSET Messages, NEW c \in Nat, NEW q \in Seq(Entries),
         NEW b \in Seq(MainEvents), NEW m \in Messages, m.dev = d, m.n = c + 1,
         LineOK(d, q, b, P, c)
  PROVE  LineOK(d, q \o Upload(m), b, P, c + 1)
<1>1. PICK r : r = q \o Upload(m)
  OBVIOUS
<1>2. \A i \in 1..Len(r) :
         \/ i \in 1..Len(q) /\ r[i] = q[i]
         \/ i = Len(q) + 1 /\ r[i].op = "own" /\ r[i].msg = m
  <2>1. /\ Upload(m) \in Seq(Entries)
        /\ \A k \in 1..Len(Upload(m)) : k = 1
        /\ Upload(m)[1].op = "own" /\ Upload(m)[1].msg = m
    BY UploadType DEF Upload, Entry
  <2> QED BY <1>1, <2>1, ConcatFrom
<1>3. /\ \A i \in 1..Len(q) : q[i].msg.n \in Int
      /\ \A l \in P : l.n \in Int
      /\ \A j \in 1..Len(b) : b[j].kind = "own" => b[j].msg.n \in Int
  <2>1. \A j \in 1..Len(b) : b[j].kind = "own" => b[j].msg \in Messages
    <3> TAKE j \in 1..Len(b)
    <3>1. b[j] \in MainEvents
      BY ElementOfSeq
    <3> QED BY <3>1 DEF MainEvents, Completions, CredentialChanges
  <2> QED BY <2>1, EntryNumbers DEF Messages
<1>4. /\ \A i \in 1..Len(q) : q[i].msg.n <= c + 1 /\ q[i].msg.n < m.n
      /\ \A l \in P : l.n <= c + 1 /\ l.n < m.n
      /\ \A j \in 1..Len(b) : b[j].kind = "own" => b[j].msg.n <= c + 1 /\ b[j].msg.n < m.n
  <2>1. \A k \in Int : k <= c => k <= c + 1 /\ k < m.n
    OBVIOUS
  <2> QED BY <1>3, <2>1 DEF LineOK, Numbered
<1>5. Numbered(d, r, b, P, c + 1)
  BY <1>2, <1>4 DEF LineOK, Numbered
<1>6. QueueInLine(r)
  <2>1. \A i \in 1..Len(q) : ~(Len(q) + 1 < i)
    BY LenProperties
  <2>2. ~(Len(q) + 1 < Len(q) + 1)
    BY LenProperties
  <2>3. ASSUME NEW i \in 1..Len(r), NEW j \in 1..Len(r), i < j,
               r[i].op = r[j].op, r[i].op \in CopyOps
        PROVE  r[i].msg.n < r[j].msg.n
    <3>1. i \in 1..Len(q) /\ r[i] = q[i]
      BY <1>2, <2>1, <2>2, <2>3
    <3> QED BY <1>2, <1>4, <2>3, <3>1 DEF LineOK, QueueInLine
  <2>4. ASSUME NEW i \in 1..Len(r), NEW j \in 1..Len(r),
               r[i].op = "peer", r[j].op = "own"
        PROVE  r[i].msg.n < r[j].msg.n
    <3>1. i \in 1..Len(q) /\ r[i] = q[i]
      BY <1>2, <2>4
    <3> QED BY <1>2, <1>4, <2>4, <3>1 DEF LineOK, QueueInLine
  <2> QED BY <2>3, <2>4 DEF QueueInLine
<1>7. AcrossInLine(r, b)
  BY <1>2, <1>4 DEF LineOK, AcrossInLine
<1>8. StoredInLine(r, b, P)
  BY <1>2, <1>4 DEF LineOK, StoredInLine
<1> QED BY <1>1, <1>5, <1>6, <1>7, <1>8 DEF LineOK

(* The server stores the partner's copy at index k, the copies before it   *)
(* being stored.                                                           *)
LEMMA LineDeliver ==
  ASSUME NEW d, NEW P \in SUBSET Messages, NEW c, NEW q \in Seq(Entries), NEW b,
         NEW k \in 1..Len(q), q[k].op = "peer",
         \A i \in 1..(k - 1) : q[i].op = "peer" => q[i].msg \in P,
         LineOK(d, q, b, P, c)
  PROVE  LineOK(d, q, b, P \cup {q[k].msg}, c)
<1>1. PICK m : m = q[k].msg
  OBVIOUS
<1>2. Numbered(d, q, b, P \cup {m}, c)
  BY <1>1 DEF LineOK, Numbered
<1>3. ASSUME NEW i \in 1..Len(q), q[i].op = "peer", q[i].msg.n < m.n
      PROVE  q[i].msg \in P
  <2>1. q[i].msg.n \in Int /\ m.n \in Int
    BY <1>1, EntryNumbers
  <2>2. i # k
    BY <1>1, <1>3, <2>1
  <2>3. ~(k < i)
    <3>1. k < i => m.n < q[i].msg.n
      BY <1>1, <1>3 DEF LineOK, QueueInLine, CopyOps
    <3> QED BY <1>3, <2>1, <3>1
  <2>4. i \in 1..(k - 1)
    BY <2>2, <2>3, LenProperties
  <2> QED BY <1>3, <2>4
<1>4. \A i \in 1..Len(q) : q[i].op = "own" => m.n < q[i].msg.n
  BY <1>1 DEF LineOK, QueueInLine
<1>5. \A j \in 1..Len(b) : b[j].kind = "own" => m.n < b[j].msg.n
  BY <1>1 DEF LineOK, AcrossInLine
<1>6. StoredInLine(q, b, P \cup {m})
  <2>1. ASSUME NEW l \in P \cup {m}, NEW i \in 1..Len(q)
        PROVE  /\ q[i].op = "own" => l.n < q[i].msg.n
               /\ q[i].op = "peer" /\ q[i].msg.n < l.n => q[i].msg \in P \cup {m}
    <3>1. CASE l = m
      BY <1>3, <1>4, <3>1
    <3>2. CASE l \in P
      BY <3>2 DEF LineOK, StoredInLine
    <3> QED BY <2>1, <3>1, <3>2
  <2>2. ASSUME NEW l \in P \cup {m}, NEW j \in 1..Len(b), b[j].kind = "own"
        PROVE  l.n < b[j].msg.n
    <3>1. CASE l = m
      BY <1>5, <2>2, <3>1
    <3>2. CASE l \in P
      BY <2>2, <3>2 DEF LineOK, StoredInLine
    <3> QED BY <2>2, <3>1, <3>2
  <2> QED BY <2>1, <2>2 DEF StoredInLine
<1> QED BY <1>1, <1>2, <1>6 DEF LineOK

-----------------------------------------------------------------------------
(***************************************************************************)
(* What a step does to the parts of the state.                             *)
(***************************************************************************)

(* What is joined, or left over, was sent as well.                         *)
LEMMA EntriesInConcat ==
  ASSUME NEW q \in Seq(Entries), NEW s \in Seq(Entries), NEW U,
         EntriesIn(q, U), EntriesIn(s, U)
  PROVE  EntriesIn(q \o s, U)
BY ConcatFrom DEF EntriesIn

(* The same of the blocks of a main queue.                                 *)
LEMMA BlocksInConcat ==
  ASSUME NEW b \in Seq(MainEvents), NEW r \in Seq(MainEvents), NEW U,
         BlocksIn(b, U), BlocksIn(r, U)
  PROVE  BlocksIn(b \o r, U)
BY ConcatFrom DEF BlocksIn

(* What a fan-out issues was sent.                                         *)
LEMMA FanOutSent ==
  ASSUME NEW m \in Messages, NEW U, m \in U, NEW s \in Seq(Entries), Len(s) <= 3,
         \A i \in 1..Len(s) : s[i] = FanOut(m)[i]
  PROVE  EntriesIn(s, U)
<1>1. Len(s) \in Nat
  BY LenProperties
<1>2. \A i \in 1..Len(s) : i = 1 \/ i = 2 \/ i = 3
  BY <1>1
<1>3. FanOut(m)[1].msg = m /\ FanOut(m)[2].msg = m /\ FanOut(m)[3].msg = m
  BY FanOutType
<1> QED BY <1>2, <1>3 DEF EntriesIn

(* What is known of the rest of a main queue.                              *)
LEMMA BlocksTail ==
  ASSUME NEW b \in Seq(MainEvents), b # <<>>, NEW U, BlocksIn(b, U)
  PROVE  /\ BlocksIn(Tail(b), U)
         /\ OnlyCopies(b) => OnlyCopies(Tail(b))
         /\ Head(b) = b[1]
         /\ Head(b).kind \in CopyOps => Head(b).msg \in U
         /\ OnlyCopies(b) => Head(b).kind \in CopyOps
BY TailFrom DEF BlocksIn, OnlyCopies

(* The queue in use of device d becomes s.                                 *)
LEMMA PendingStep ==
  ASSUME TypeOK, QueuesSent, NEW d \in Devices, NEW s \in Seq(Entries),
         queue' = [queue EXCEPT ![d][fs[d]] = s], fs' = fs,
         sent \subseteq sent', EntriesIn(s, sent')
  PROVE  /\ QueuesSent'
         /\ Pending(d)' = s
         /\ \A e \in Devices \ {d} : Pending(e)' = Pending(e)
<1>1. fs[d] \in Accounts /\ queue \in [Devices -> [Accounts -> Seq(Entries)]]
  BY DEF TypeOK
<1>2. /\ queue'[d][fs[d]] = s
      /\ \A e \in Devices, b \in Accounts :
            <<e, b>> # <<d, fs[d]>> => queue'[e][b] = queue[e][b]
  BY <1>1, QueueUpdate
<1>3. ASSUME NEW e \in Devices, NEW a \in Accounts
      PROVE  EntriesIn(queue'[e][a], sent')
  <2>1. CASE <<e, a>> = <<d, fs[d]>>
    BY <1>2, <2>1
  <2>2. CASE <<e, a>> # <<d, fs[d]>>
    <3>1. queue'[e][a] = queue[e][a] /\ EntriesIn(queue[e][a], sent)
      BY <1>2, <2>2 DEF QueuesSent
    <3> QED BY <3>1 DEF EntriesIn
  <2> QED BY <2>1, <2>2
<1>4. QueuesSent'
  BY <1>3 DEF QueuesSent
<1>5. Pending(d)' = s
  BY <1>2 DEF Pending
<1>6. \A e \in Devices \ {d} : Pending(e)' = Pending(e)
  BY <1>2 DEF Pending, TypeOK
<1> QED BY <1>4, <1>5, <1>6

(* The main queue of device d becomes b.                                   *)
LEMMA BlocksStep ==
  ASSUME TypeOK, MainsSent, NEW d \in Devices, NEW b \in Seq(MainEvents),
         main' = [main EXCEPT ![d] = b], sent' = sent, BlocksIn(b, sent)
  PROVE  /\ MainsSent'
         /\ main'[d] = b
         /\ \A e \in Devices \ {d} : main'[e] = main[e]
<1>1. main'[d] = b /\ \A e \in Devices \ {d} : main'[e] = main[e]
  BY DEF TypeOK
<1>2. \A e \in Devices : BlocksIn(main'[e], sent')
  BY <1>1 DEF MainsSent
<1> QED BY <1>1, <1>2 DEF MainsSent

(* Only the line of device d changes.                                      *)
LEMMA LinesStep ==
  ASSUME Lines, NEW d \in Devices, UNCHANGED auth, fs'[d] = fs[d],
         OnlyCopies(main'[d]),
         LineOK(d, Pending(d)', main'[d], Delivered(d)', clock'[d]),
         \A e \in Devices \ {d} :
            /\ fs'[e] = fs[e]
            /\ Pending(e)' = Pending(e) /\ main'[e] = main[e]
            /\ Delivered(e)' = Delivered(e) /\ clock'[e] = clock[e]
  PROVE  Lines'
<1>1. ASSUME NEW e \in Devices
      PROVE  /\ fs'[e] = auth'[e] /\ OnlyCopies(main'[e])
             /\ LineOK(e, Pending(e)', main'[e], Delivered(e)', clock'[e])
  <2>1. CASE e = d
    BY <2>1 DEF Lines, Steady
  <2>2. CASE e # d
    BY <2>2 DEF Lines, Steady
  <2> QED BY <2>1, <2>2
<1> QED BY <1>1 DEF Lines, Steady

(* The partners have the same messages while the chats do not change.      *)
LEMMA DeliveredSame ==
  ASSUME chats' = chats
  PROVE  \A d : Delivered(d)' = Delivered(d)
BY DEF Delivered, Stored

(* What is known of the line of one device.                                *)
LEMMA LineOf ==
  ASSUME IInv, DInv, NEW d \in Devices
  PROVE  /\ Pending(d) \in Seq(Entries) /\ EntriesIn(Pending(d), sent)
         /\ main[d] \in Seq(MainEvents) /\ BlocksIn(main[d], sent)
         /\ Delivered(d) \in SUBSET Messages /\ clock[d] \in Nat
         /\ "switch" \notin MayHappen =>
               /\ fs[d] = auth[d] /\ OnlyCopies(main[d])
               /\ LineOK(d, Pending(d), main[d], Delivered(d), clock[d])
<1>1. TypeOK
  BY DEF IInv
<1>2. fs[d] \in Accounts
  BY <1>1 DEF TypeOK
<1>3. Pending(d) \in Seq(Entries) /\ EntriesIn(Pending(d), sent)
  BY <1>1, <1>2 DEF TypeOK, Pending, DInv, QueuesSent
<1>4. clock[d] \in Nat
  BY <1>1, BoundsAssumption DEF TypeOK
<1>5. main[d] \in Seq(MainEvents) /\ BlocksIn(main[d], sent)
  BY <1>1 DEF TypeOK, DInv, MainsSent
<1> QED BY <1>3, <1>4, <1>5 DEF DInv, Lines, Steady, Delivered

-----------------------------------------------------------------------------
(***************************************************************************)
(* The invariant is established, and preserved, action by action.          *)
(***************************************************************************)
LEMMA InitLine ==
  ASSUME Init
  PROVE  DInv
<1>1. \A d \in Devices : fs[d] \in Accounts /\ Pending(d) = <<>>
  BY StartAssumption DEF Init, Pending
<1>2. QueuesSent /\ MainsSent
  BY DEF Init, QueuesSent, MainsSent, EntriesIn, BlocksIn
<1>3. ASSUME NEW d \in Devices
      PROVE  Steady(d) /\ LineOK(d, Pending(d), main[d], Delivered(d), clock[d])
  <2>1. Delivered(d) = {}
    BY PlaceType DEF Init, Delivered, Stored
  <2>2. main[d] = <<>> /\ Steady(d)
    BY DEF Init, Steady, OnlyCopies
  <2>3. Numbered(d, <<>>, <<>>, {}, clock[d])
    BY DEF Numbered
  <2>4. /\ QueueInLine(<<>>) /\ MainInLine(<<>>)
        /\ AcrossInLine(<<>>, <<>>) /\ StoredInLine(<<>>, <<>>, {})
    BY DEF QueueInLine, MainInLine, AcrossInLine, StoredInLine
  <2> QED BY <1>1, <2>1, <2>2, <2>3, <2>4 DEF LineOK
<1> QED BY <1>2, <1>3 DEF DInv, Lines

(* The message takes its place at the end of the line.                     *)
LEMMA SendLine ==
  ASSUME IInv, DInv, NEW d \in Devices, NEW to \in Users, Send(d, to)
  PROVE  DInv'
<1> DEFINE m == [from |-> auth[d], to |-> to, dev |-> d, n |-> clock[d] + 1]
           q == Pending(d)
<1>1. TypeOK
  BY DEF IInv
<1>2. m \in Messages /\ m.dev = d /\ m.n = clock[d] + 1
  BY <1>1, BoundsAssumption DEF TypeOK, Send, Messages, Accounts
<1>3. /\ queue' = [queue EXCEPT ![d][fs[d]] = q \o Upload(m)]
      /\ sent' = sent \cup {m}
      /\ clock' = [clock EXCEPT ![d] = clock[d] + 1]
      /\ UNCHANGED <<auth, fs, main, chats>>
  BY DEF Send, Persist, Pending, server
<1> HIDE DEF m
<1>4. q \o Upload(m) \in Seq(Entries) /\ EntriesIn(q \o Upload(m), sent')
  <2>1. Upload(m) \in Seq(Entries) /\ EntriesIn(Upload(m), sent')
    <3>1. \A k \in 1..Len(Upload(m)) : k = 1 /\ Upload(m)[1].msg = m
      BY <1>2, UploadType DEF Upload, Entry
    <3> QED BY <1>2, <1>3, <3>1, UploadType DEF EntriesIn
  <2>2. EntriesIn(q, sent') /\ q \in Seq(Entries)
    BY <1>3, LineOf DEF EntriesIn
  <2> QED BY <2>1, <2>2, EntriesInConcat, ConcatIndex
<1>5. /\ QueuesSent'
      /\ Pending(d)' = q \o Upload(m)
      /\ \A e \in Devices \ {d} : Pending(e)' = Pending(e)
  BY <1>1, <1>3, <1>4, PendingStep DEF DInv
<1>6. MainsSent'
  BY <1>3 DEF DInv, MainsSent, BlocksIn
<1>7. ASSUME "switch" \notin MayHappen  PROVE Lines'
  <2>1. LineOK(d, q \o Upload(m), main[d], Delivered(d), clock[d] + 1)
    BY <1>2, <1>7, LineOf, LineSend
  <2>2. clock'[d] = clock[d] + 1 /\ \A e \in Devices \ {d} : clock'[e] = clock[e]
    BY <1>1, <1>3 DEF TypeOK
  <2>3. LineOK(d, Pending(d)', main'[d], Delivered(d)', clock'[d])
    BY <1>3, <1>5, <2>1, <2>2, DeliveredSame
  <2>4. OnlyCopies(main'[d])
    BY <1>3, <1>7, LineOf
  <2>5. Lines
    BY <1>7 DEF DInv
  <2> QED BY <1>3, <1>5, <2>2, <2>3, <2>4, <2>5, LinesStep, DeliveredSame
<1> QED BY <1>5, <1>6, <1>7 DEF DInv

(* A fan-out moves the message on to the partner's copies.                 *)
LEMMA RunOwnCompletionLine ==
  ASSUME IInv, DInv, NEW d \in Devices, RunOwnCompletion(d)
  PROVE  DInv'
<1> DEFINE b == main[d]
           m == Head(b).msg
           q == Pending(d)
<1>1. TypeOK /\ MainsOK
  BY DEF IInv
<1>2. /\ queue' = [queue EXCEPT ![d][fs[d]] = q \o FanOut(m)]
      /\ main' = [main EXCEPT ![d] = Tail(b)] /\ b # <<>> /\ Head(b).kind = "own"
      /\ UNCHANGED <<auth, fs, clock, sent, chats>>
  BY DEF RunOwnCompletion, Persist, Pending, server
<1>3. b \in Seq(MainEvents) /\ BlocksIn(b, sent)
  BY LineOf
<1>4. /\ Head(b) = b[1] /\ m \in Messages /\ m \in sent
      /\ Tail(b) \in Seq(MainEvents) /\ BlocksIn(Tail(b), sent)
  BY <1>1, <1>2, <1>3, HeadEvent, BlocksTail DEF CopyOps, Completions
<1>5. /\ FanOut(m) \in Seq(Entries) /\ Len(FanOut(m)) <= 3
      /\ EntriesIn(FanOut(m), sent)
  <2> HIDE DEF m
  <2>1. Len(FanOut(m)) = 3 /\ FanOut(m) \in Seq(Entries)
    BY <1>4, FanOutType
  <2>2. Len(FanOut(m)) <= 3
    BY <2>1
  <2> QED BY <1>4, <2>1, <2>2, FanOutSent
<1> HIDE DEF m
<1>6. q \o FanOut(m) \in Seq(Entries) /\ EntriesIn(q \o FanOut(m), sent)
  BY <1>5, LineOf, EntriesInConcat, ConcatIndex
<1>7. /\ QueuesSent'
      /\ Pending(d)' = q \o FanOut(m)
      /\ \A e \in Devices \ {d} : Pending(e)' = Pending(e)
  BY <1>1, <1>2, <1>6, PendingStep DEF DInv
<1>8. /\ MainsSent'
      /\ main'[d] = Tail(b)
      /\ \A e \in Devices \ {d} : main'[e] = main[e]
  BY <1>1, <1>2, <1>4, BlocksStep DEF DInv
<1>9. ASSUME "switch" \notin MayHappen  PROVE Lines'
  <2>1. b[1].msg = m /\ b[1].kind = "own" /\ b[1].msg \in Messages
    BY <1>2, <1>4 DEF m
  <2>2. /\ Delivered(d) \in SUBSET Messages /\ q \in Seq(Entries)
        /\ LineOK(d, q, b, Delivered(d), clock[d]) /\ OnlyCopies(b)
    BY <1>9, LineOf
  <2>3. \A i \in 1..Len(FanOut(m)) : FanOut(m)[i] = FanOut(b[1].msg)[i]
    BY <2>1
  <2> HIDE DEF b, q
  <2>4. LineOK(d, q \o FanOut(m), Tail(b), Delivered(d), clock[d])
    BY <1>2, <1>3, <1>5, <2>1, <2>2, <2>3, LineFanOut
  <2>5. LineOK(d, Pending(d)', main'[d], Delivered(d)', clock'[d])
    BY <1>2, <1>7, <1>8, <2>4, DeliveredSame
  <2>6. OnlyCopies(main'[d])
    BY <1>2, <1>3, <1>8, <2>2, BlocksTail
  <2>7. Lines
    BY <1>9 DEF DInv
  <2> QED BY <1>2, <1>7, <1>8, <2>5, <2>6, <2>7, LinesStep, DeliveredSame
<1> QED BY <1>7, <1>8, <1>9 DEF DInv

(* Emptying the field takes a block off the main queue.                    *)
LEMMA RunPeerCompletionLine ==
  ASSUME IInv, DInv, NEW d \in Devices, RunPeerCompletion(d)
  PROVE  DInv'
<1> DEFINE b == main[d]
<1>1. TypeOK /\ b \in Seq(MainEvents) /\ BlocksIn(b, sent)
  BY LineOf DEF IInv
<1>2. /\ main' = [main EXCEPT ![d] = Tail(b)] /\ b # <<>>
      /\ UNCHANGED <<auth, fs, queue, clock, sent, chats>>
  BY DEF RunPeerCompletion, server
<1>3. Tail(b) \in Seq(MainEvents) /\ BlocksIn(Tail(b), sent)
  BY <1>1, <1>2, BlocksTail, TailFrom
<1>4. /\ MainsSent'
      /\ main'[d] = Tail(b)
      /\ \A e \in Devices \ {d} : main'[e] = main[e]
  BY <1>1, <1>2, <1>3, BlocksStep DEF DInv
<1>5. QueuesSent' /\ \A e \in Devices : Pending(e)' = Pending(e)
  BY <1>2 DEF DInv, QueuesSent, Pending
<1>6. ASSUME "switch" \notin MayHappen  PROVE Lines'
  <2>1. LineOK(d, Pending(d), b, Delivered(d), clock[d]) /\ OnlyCopies(b)
    BY <1>6, LineOf
  <2>2. LineOK(d, Pending(d), Tail(b), Delivered(d), clock[d]) /\ OnlyCopies(Tail(b))
    BY <1>1, <1>2, <2>1, LineRun, BlocksTail
  <2>3. LineOK(d, Pending(d)', main'[d], Delivered(d)', clock'[d])
    BY <1>2, <1>4, <1>5, <2>2, DeliveredSame
  <2>4. Lines /\ OnlyCopies(main'[d])
    BY <1>4, <1>6, <2>2 DEF DInv
  <2> QED BY <1>2, <1>4, <1>5, <2>3, <2>4, LinesStep, DeliveredSame
<1> QED BY <1>4, <1>5, <1>6 DEF DInv

(* Accounts change in the case without lines only.                         *)
LEMMA AuthenticateLine ==
  ASSUME IInv, DInv, NEW d \in Devices, NEW user \in Accounts, Authenticate(d, user)
  PROVE  DInv'
<1> DEFINE e == [kind |-> "credential", user |-> user]
<1>1. TypeOK /\ main[d] \in Seq(MainEvents) /\ BlocksIn(main[d], sent)
  BY LineOf DEF IInv
<1>2. /\ main' = [main EXCEPT ![d] = Append(main[d], e)]
      /\ UNCHANGED <<queue, sent>> /\ "switch" \in MayHappen
  BY DEF Authenticate
<1>3. e \in MainEvents /\ e.kind \notin CopyOps
  BY DEF MainEvents, CredentialChanges, CopyOps
<1> HIDE DEF e
<1>4. <<e>> \in Seq(MainEvents) /\ BlocksIn(<<e>>, sent)
  BY <1>3 DEF BlocksIn
<1>5. Append(main[d], e) = main[d] \o <<e>>
  BY <1>1, <1>3, AppendIsConcat
<1>6. main[d] \o <<e>> \in Seq(MainEvents) /\ BlocksIn(main[d] \o <<e>>, sent)
  BY <1>1, <1>4, BlocksInConcat, ConcatIndex
<1>7. MainsSent'
  BY <1>1, <1>2, <1>5, <1>6, BlocksStep DEF DInv
<1>8. QueuesSent'
  BY <1>2 DEF DInv, QueuesSent
<1> QED BY <1>2, <1>7, <1>8 DEF DInv

(* Dying keeps the queues and empties the main queue.                      *)
LEMMA LoseMemoryLine ==
  ASSUME IInv, DInv, NEW d \in Devices, NEW sv \in [Accounts -> Seq(Entries)],
         \A a \in Accounts : EntriesIn(sv[a], sent), NEW b,
         "switch" \notin MayHappen =>
            LineOK(d, sv[fs[d]], b, Delivered(d), clock[d]),
         LoseMemory(d, sv)
  PROVE  DInv'
<1> DEFINE F == [a \in Accounts |-> Forgotten(sv[a])]
<1>1. TypeOK
  BY DEF IInv
<1>2. /\ queue' = [queue EXCEPT ![d] = F]
      /\ main' = [main EXCEPT ![d] = <<>>]
      /\ fs' = [fs EXCEPT ![d] = auth[d]]
      /\ UNCHANGED <<auth, clock, sent, chats>>
  BY DEF LoseMemory, server
<1>3. \A a \in Accounts : EntriesIn(F[a], sent)
  <2> TAKE a \in Accounts
  <2>1. PICK q \in Seq(Entries) : q = sv[a] /\ EntriesIn(q, sent)
    OBVIOUS
  <2>2. EntriesIn(Forgotten(q), sent)
    BY <2>1, ForgottenShape DEF EntriesIn
  <2> QED BY <2>1, <2>2
<1>4. F[fs[d]] = Forgotten(sv[fs[d]]) /\ sv[fs[d]] \in Seq(Entries)
  BY <1>1 DEF TypeOK
<1> HIDE DEF F
<1>5. /\ queue'[d] = F /\ main'[d] = <<>> /\ fs'[d] = auth[d]
      /\ \A e \in Devices \ {d} :
            queue'[e] = queue[e] /\ main'[e] = main[e] /\ fs'[e] = fs[e]
  BY <1>1, <1>2 DEF TypeOK
<1>6. QueuesSent'
  <2>1. \A e \in Devices, a \in Accounts : EntriesIn(queue'[e][a], sent)
    BY <1>3, <1>5 DEF DInv, QueuesSent
  <2> QED BY <1>2, <2>1 DEF QueuesSent
<1>7. MainsSent'
  <2>1. \A e \in Devices : BlocksIn(main'[e], sent)
    BY <1>5 DEF DInv, MainsSent, BlocksIn
  <2> QED BY <1>2, <2>1 DEF MainsSent
<1>8. ASSUME "switch" \notin MayHappen  PROVE Lines'
  <2>1. fs'[d] = fs[d]
    BY <1>5, <1>8, LineOf
  <2>2. Pending(d)' = Forgotten(sv[fs[d]])
    BY <1>4, <1>5, <2>1 DEF Pending
  <2>3. LineOK(d, Pending(d)', main'[d], Delivered(d)', clock'[d])
    BY <1>2, <1>4, <1>5, <1>8, <2>2, LineKilled, DeliveredSame
  <2>4. OnlyCopies(main'[d])
    BY <1>5 DEF OnlyCopies
  <2>5. Lines /\ \A e \in Devices \ {d} : Pending(e)' = Pending(e)
    BY <1>5, <1>8 DEF DInv, Pending
  <2> QED BY <1>2, <1>5, <2>1, <2>3, <2>4, <2>5, LinesStep, DeliveredSame
<1> QED BY <1>6, <1>7, <1>8 DEF DInv

(* Both ways to die, before and within a fan-out.                          *)
LEMMA KillLine ==
  ASSUME IInv, DInv, NEW d \in Devices, Kill(d) \/ KillInFanOut(d)
  PROVE  DInv'
<1>1. /\ queue[d] \in [Accounts -> Seq(Entries)] /\ fs[d] \in Accounts
      /\ \A a \in Accounts : EntriesIn(queue[d][a], sent)
  BY DEF IInv, TypeOK, DInv, QueuesSent
<1>2. "switch" \notin MayHappen =>
         LineOK(d, queue[d][fs[d]], main[d], Delivered(d), clock[d])
  BY LineOf DEF Pending
<1>3. CASE Kill(d)
  BY <1>1, <1>2, <1>3, LoseMemoryLine DEF Kill
<1>4. CASE KillInFanOut(d)
  <2> DEFINE b == main[d]
             m == Head(b).msg
             s(k) == SubSeq(FanOut(m), 1, k)
             q == queue[d][fs[d]]
  <2>1. PICK k \in 1..2 :
          LoseMemory(d, [queue[d] EXCEPT ![fs[d]] = q \o s(k)])
    BY <1>4 DEF KillInFanOut
  <2>2. b \in Seq(MainEvents) /\ BlocksIn(b, sent) /\ b # <<>>
    BY <1>4, LineOf DEF KillInFanOut
  <2>3. /\ Head(b).kind = "own" /\ m \in Messages
        /\ Head(b) = b[1] /\ m \in sent
    BY <1>4, <2>2, HeadEvent, BlocksTail
       DEF KillInFanOut, IInv, CopyOps, Completions
  <2>4. m = b[1].msg
    BY <2>3
  <2> HIDE DEF m
  <2>5. /\ s(k) \in Seq(Entries)
        /\ Len(s(k)) <= 3
        /\ \A i \in 1..Len(s(k)) : s(k)[i] = FanOut(m)[i]
    BY <2>3, FanOutPrefix
  <2> HIDE DEF s
  <2>6. q \o s(k) \in Seq(Entries) /\ EntriesIn(q \o s(k), sent)
    <3>1. EntriesIn(s(k), sent)
      BY <2>3, <2>5, FanOutSent
    <3> QED BY <1>1, <2>5, <3>1, EntriesInConcat, ConcatIndex
  <2>7. "switch" \notin MayHappen =>
           LineOK(d, q \o s(k), Tail(b), Delivered(d), clock[d])
    <3>1. q \in Seq(Entries) /\ Delivered(d) \in SUBSET Messages
      BY <1>1, LineOf
    <3>2. /\ b[1].kind = "own" /\ b[1].msg \in Messages
          /\ \A i \in 1..Len(s(k)) : s(k)[i] = FanOut(b[1].msg)[i]
      BY <2>3, <2>4, <2>5
    <3> QED BY <1>2, <2>2, <2>5, <3>1, <3>2, LineFanOut
  <2> DEFINE sv == [queue[d] EXCEPT ![fs[d]] = q \o s(k)]
  <2>8. /\ sv \in [Accounts -> Seq(Entries)]
        /\ sv[fs[d]] = q \o s(k)
        /\ \A a \in Accounts : EntriesIn(sv[a], sent)
    BY <1>1, <2>6
  <2> HIDE DEF sv
  <2>9. LoseMemory(d, sv)
    BY <2>1 DEF sv
  <2>10. "switch" \notin MayHappen =>
            LineOK(d, sv[fs[d]], Tail(b), Delivered(d), clock[d])
    BY <2>7, <2>8
  <2> QED BY <2>8, <2>9, <2>10, LoseMemoryLine
<1> QED BY <1>3, <1>4

(* Firestore changes its user in the case without lines only.              *)
LEMMA RunCredentialChangeLine ==
  ASSUME IInv, DInv, NEW d \in Devices, RunCredentialChange(d)
  PROVE  DInv'
<1>1. /\ TypeOK /\ main[d] \in Seq(MainEvents) /\ BlocksIn(main[d], sent)
      /\ "switch" \notin MayHappen => OnlyCopies(main[d])
  BY LineOf DEF IInv
<1>2. /\ main' = [main EXCEPT ![d] = Tail(main[d])] /\ main[d] # <<>>
      /\ Head(main[d]).kind = "credential"
      /\ UNCHANGED <<queue, sent>>
  BY DEF RunCredentialChange
<1>3. "switch" \in MayHappen
  BY <1>1, <1>2, BlocksTail DEF CopyOps
<1>4. Tail(main[d]) \in Seq(MainEvents) /\ BlocksIn(Tail(main[d]), sent)
  BY <1>1, <1>2, BlocksTail, TailFrom
<1>5. MainsSent'
  BY <1>1, <1>2, <1>4, BlocksStep DEF DInv
<1>6. QueuesSent'
  BY <1>2 DEF DInv, QueuesSent
<1> QED BY <1>3, <1>5, <1>6 DEF DInv

(* What the server holds after a commit.                                   *)
LEMMA CommitCopies ==
  ASSUME IInv, NEW d \in Devices, Apply(d)
  PROVE  LET e == Pending(d)[applied[d] + 1]
         IN  /\ applied[d] + 1 \in 1..Len(Pending(d)) /\ e \in Entries
             /\ e.op \in CopyOps =>
                  StoredCopies' = StoredCopies \cup {Copy(e.op, e.msg)}
             /\ e.op \notin CopyOps => StoredCopies' = StoredCopies
             /\ UNCHANGED <<auth, fs, queue, main, clock, sent, refused, cleared>>
<1> DEFINE q == Pending(d)
           e == q[applied[d] + 1]
<1>1. /\ TypeOK /\ q \in Seq(Entries) /\ applied[d] \in Nat
      /\ applied[d] < Len(q) /\ Commit(e)
      /\ UNCHANGED <<auth, fs, queue, main, clock, sent, refused, cleared>>
  BY DEF IInv, TypeOK, Apply, local, Pending
<1>2. applied[d] + 1 \in 1..Len(q)
  BY <1>1, LenProperties
<1>3. e \in Entries
  BY <1>1, <1>2, ElementOfSeq
<1> HIDE DEF q, e
<1>4. e.op \in Ops /\ e.msg \in Messages
  BY <1>3 DEF Entries
<1>5. CASE e.op \in CopyOps
  <2>1. chats' = [chats EXCEPT ![Place(e.op, e.msg)] =
                    chats[Place(e.op, e.msg)] \cup {Copy(e.op, e.msg)}]
    BY <1>1, <1>5 DEF Commit, Copy, CopyOps, RecentOps
  <2>2. Place(e.op, e.msg) \in Users \X Users /\ Copy(e.op, e.msg) \in Copies
    BY <1>4, <1>5, PlaceType DEF Copy, Copies
  <2>3. Copy(e.op, e.msg).op = e.op /\ Copy(e.op, e.msg).msg = e.msg
    BY DEF Copy
  <2>4. \A r \in Users \X Users :
          chats'[r] = IF r = Place(e.op, e.msg)
                         THEN chats[r] \cup {Copy(e.op, e.msg)} ELSE chats[r]
    BY <1>1, <2>1 DEF TypeOK
  <2>5. \A c \in Copies : Place(c.op, c.msg) \in Users \X Users
    BY PlaceType DEF Copies
  <2>6. StoredCopies' = StoredCopies \cup {Copy(e.op, e.msg)}
    BY <2>2, <2>3, <2>4, <2>5 DEF StoredCopies
  <2> QED BY <1>1, <1>2, <1>3, <1>5, <2>6 DEF q, e
<1>6. CASE e.op \notin CopyOps
  <2>1. chats' = chats
    BY <1>1, <1>6 DEF Commit
  <2>2. StoredCopies' = StoredCopies
    BY <2>1 DEF StoredCopies
  <2> QED BY <1>1, <1>2, <1>3, <1>6, <2>2 DEF q, e
<1> QED BY <1>5, <1>6

(* A commit of the partner's copy moves the message to the stored ones.    *)
LEMMA ApplyLine ==
  ASSUME IInv, DInv, NEW d \in Devices, Apply(d)
  PROVE  DInv'
<1> DEFINE q == Pending(d)
           k == applied[d] + 1
           e == q[k]
<1>1. /\ k \in 1..Len(q) /\ e \in Entries
      /\ e.op \in CopyOps => StoredCopies' = StoredCopies \cup {Copy(e.op, e.msg)}
      /\ e.op \notin CopyOps => StoredCopies' = StoredCopies
      /\ UNCHANGED <<auth, fs, queue, main, clock, sent>>
  BY CommitCopies
<1>2. /\ QueuesSent' /\ MainsSent'
      /\ \A c \in Devices : Pending(c)' = Pending(c)
  BY <1>1 DEF DInv, QueuesSent, MainsSent, Pending
<1>3. ASSUME "switch" \notin MayHappen  PROVE Lines'
  <2>1. /\ q \in Seq(Entries) /\ Delivered(d) \in SUBSET Messages
        /\ OnlyCopies(main[d])
        /\ LineOK(d, q, main[d], Delivered(d), clock[d])
    BY <1>3, LineOf
  <2>2. \A c : Delivered(c) = {m \in Messages : m.dev = c /\ Copy("peer", m) \in StoredCopies}
    BY CopySets DEF Delivered, CopyOps
  <2>3. \A c : Delivered(c)' = {m \in Messages : m.dev = c /\ Copy("peer", m) \in StoredCopies'}
    BY CopySetsNext DEF Delivered, CopyOps
  <2>4. CASE e.op = "peer"
    <3>1. e.msg.dev = d /\ e.msg \in Messages
      BY <1>1, <2>1 DEF LineOK, Numbered, Entries
    <3>2. \A m : Copy("peer", m) \in StoredCopies' <=>
                    Copy("peer", m) \in StoredCopies \/ m = e.msg
      BY <1>1, <2>4 DEF Copy, CopyOps
    <3>3. /\ Delivered(d)' = Delivered(d) \cup {e.msg}
          /\ \A c \in Devices \ {d} : Delivered(c)' = Delivered(c)
      <4> HIDE DEF e
      <4>1. /\ \A m : m \in Delivered(d)' <=> m \in Delivered(d) \cup {e.msg}
            /\ \A c \in Devices \ {d} : \A m : m \in Delivered(c)' <=> m \in Delivered(c)
        BY <2>2, <2>3, <3>1, <3>2
      <4> QED BY <4>1
    <3>4. \A i \in 1..(k - 1) : q[i].op = "peer" => q[i].msg \in Delivered(d)
      <4>1. PrefixOK(q, applied[d], StoredCopies) /\ applied[d] \in Nat
        BY DEF IInv, PrefixesOK, TypeOK
      <4>2. \A i \in 1..(k - 1) : /\ i \in 1..applied[d] /\ i \in 1..Len(q)
        BY <1>1, <4>1, <2>1, LenProperties
      <4>3. \A i \in 1..Len(q) : q[i].msg \in Messages /\ q[i].msg.dev = d
        BY <2>1, EntryNumbers DEF LineOK, Numbered
      <4> QED BY <2>2, <4>1, <4>2, <4>3 DEF PrefixOK, CopyOps
    <3> HIDE DEF q, k, e
    <3>5. LineOK(d, q, main[d], Delivered(d) \cup {q[k].msg}, clock[d])
      <4>1. q[k].op = "peer"
        BY <2>4 DEF e
      <4> QED BY <1>1, <2>1, <3>4, <4>1, LineDeliver
    <3>6. LineOK(d, Pending(d)', main'[d], Delivered(d)', clock'[d])
      BY <1>1, <1>2, <3>3, <3>5 DEF e, q
    <3>7. Lines
      BY <1>3 DEF DInv
    <3> QED BY <1>1, <1>2, <2>1, <3>3, <3>6, <3>7, LinesStep
  <2>5. CASE e.op # "peer"
    <3>1. \A m : Copy("peer", m) \in StoredCopies' <=> Copy("peer", m) \in StoredCopies
      BY <1>1, <2>5 DEF Copy
    <3>2. \A c : Delivered(c)' = Delivered(c)
      BY <2>2, <2>3, <3>1
    <3>3. LineOK(d, Pending(d)', main'[d], Delivered(d)', clock'[d])
      BY <1>1, <1>2, <2>1, <3>2
    <3>4. Lines
      BY <1>3 DEF DInv
    <3> QED BY <1>1, <1>2, <2>1, <3>2, <3>3, <3>4, LinesStep
  <2> QED BY <2>4, <2>5
<1> QED BY <1>2, <1>3 DEF DInv

(* The head of the queue leaves it and reports.                            *)
LEMMA DequeueLine ==
  ASSUME IInv, DInv, NEW d \in Devices, NEW ok \in BOOLEAN,
         Pending(d) # <<>>, Dequeue(d),
         main' = [main EXCEPT ![d] = main[d] \o Report(Head(Pending(d)), ok)],
         UNCHANGED <<auth, fs, clock, sent, chats>>
  PROVE  DInv'
<1> DEFINE q == Pending(d)
           e == Head(q)
           r == Report(e, ok)
           b == main[d]
<1>1. /\ TypeOK /\ q \in Seq(Entries) /\ EntriesIn(q, sent) /\ q # <<>>
      /\ b \in Seq(MainEvents) /\ BlocksIn(b, sent)
      /\ queue' = [queue EXCEPT ![d][fs[d]] = Tail(q)]
  BY LineOf DEF IInv, Dequeue, Pending
<1>2. /\ 1 \in 1..Len(q) /\ e = q[1] /\ e \in Entries
      /\ Tail(q) \in Seq(Entries) /\ EntriesIn(Tail(q), sent)
  BY <1>1, TailFrom, EntryNumbers DEF EntriesIn
<1>3. e.cb => e.op \in CopyOps
  <2>1. fs[d] \in Accounts
    BY <1>1 DEF TypeOK
  <2> QED BY <1>2, <2>1 DEF IInv, QueuesOK, QueueOK, EntryOK, Pending
<1>4. r \in Seq(MainEvents) /\ BlocksIn(r, sent)
  <2>1. e.msg \in sent
    BY <1>1, <1>2 DEF EntriesIn
  <2>2. /\ r \in Seq(MainEvents)
        /\ r = <<>> \/ (r = <<Completion(e.op, e.msg, ok)>> /\ e.op \in CopyOps)
    BY <1>2, <1>3, ReportType
  <2> HIDE DEF e, r
  <2>3. CASE r = <<>>
    <3>1. <<>> \in Seq(MainEvents) /\ BlocksIn(<<>>, sent)
      BY DEF BlocksIn
    <3> QED BY <2>3, <3>1
  <2>4. CASE r = <<Completion(e.op, e.msg, ok)>>
    <3>1. \A k \in 1..Len(r) : r[k] = Completion(e.op, e.msg, ok)
      BY <2>4
    <3> QED BY <2>1, <2>2, <3>1 DEF BlocksIn, Completion
  <2> QED BY <2>2, <2>3, <2>4
<1>5. main' = [main EXCEPT ![d] = b \o r]
  OBVIOUS
<1> HIDE DEF q, e, r, b
<1>6. b \o r \in Seq(MainEvents) /\ BlocksIn(b \o r, sent)
  BY <1>1, <1>4, BlocksInConcat, ConcatIndex
<1>7. /\ QueuesSent'
      /\ Pending(d)' = Tail(q)
      /\ \A c \in Devices \ {d} : Pending(c)' = Pending(c)
  BY <1>1, <1>2, PendingStep DEF DInv
<1>8. /\ MainsSent'
      /\ main'[d] = b \o r
      /\ \A c \in Devices \ {d} : main'[c] = main[c]
  BY <1>1, <1>5, <1>6, BlocksStep DEF DInv
<1>9. ASSUME "switch" \notin MayHappen  PROVE Lines'
  <2>1. /\ Delivered(d) \in SUBSET Messages
        /\ LineOK(d, q, b, Delivered(d), clock[d]) /\ OnlyCopies(b)
    BY <1>9, LineOf DEF q, b
  <2>2. /\ LineOK(d, Tail(q), b \o r, Delivered(d), clock[d])
        /\ OnlyCopies(b \o r)
    <3>1. CASE r = <<>>
      <4>1. b \o r = b
        BY <1>1, <3>1
      <4> QED BY <1>1, <2>1, <4>1, LineTail
    <3>2. CASE r # <<>>
      <4>1. PICK c \in Completions : /\ c.kind = e.op /\ c.msg = e.msg
                                     /\ c.kind \in CopyOps /\ r = <<c>>
        BY <1>2, <1>3, <3>2, ReportType DEF r, Completion
      <4>2. c \in MainEvents
        BY DEF MainEvents
      <4>3. OnlyCopies(b \o r)
        <5>1. <<c>> \in Seq(MainEvents) /\ \A k \in 1..Len(<<c>>) : <<c>>[k].kind \in CopyOps
          BY <4>1, <4>2
        <5> QED BY <1>1, <2>1, <4>1, <5>1, ConcatFrom DEF OnlyCopies
      <4>4. CASE e.op = "own"
        <5>1. LineOK(d, Tail(q), b \o <<c>>, Delivered(d), clock[d])
          BY <1>1, <1>2, <2>1, <4>1, <4>2, <4>4, LineOwnBlock
        <5> QED BY <4>1, <4>3, <5>1
      <4>5. CASE e.op # "own"
        <5>1. LineOK(d, Tail(q), b, Delivered(d), clock[d])
          BY <1>1, <2>1, LineTail
        <5>2. LineOK(d, Tail(q), b \o <<c>>, Delivered(d), clock[d])
          BY <1>1, <4>1, <4>2, <4>5, <5>1, LineOtherBlock
        <5> QED BY <4>1, <4>3, <5>2
      <4> QED BY <4>4, <4>5
    <3> QED BY <3>1, <3>2
  <2>3. LineOK(d, Pending(d)', main'[d], Delivered(d)', clock'[d])
    BY <1>7, <1>8, <2>2, DeliveredSame
  <2>4. Lines /\ OnlyCopies(main'[d])
    BY <1>8, <1>9, <2>2 DEF DInv
  <2> QED BY <1>7, <1>8, <2>3, <2>4, LinesStep, DeliveredSame
<1> QED BY <1>7, <1>8, <1>9 DEF DInv

(* An answer, and a permanent error.                                       *)
LEMMA AnswerLine ==
  ASSUME IInv, DInv, NEW d \in Devices, Ack(d) \/ Reject(d)
  PROVE  DInv'
<1>1. CASE Ack(d)
  <2>1. Pending(d) # <<>>
    <3>1. Pending(d) \in Seq(Entries)
      BY LineOf
    <3>2. applied[d] \in Nat /\ 0 < applied[d] /\ applied[d] <= Len(Pending(d))
      BY <1>1 DEF IInv, TypeOK, Ack
    <3> QED BY <3>1, <3>2, EmptySeq
  <2>2. PICK ok \in BOOLEAN : ok = TRUE
    OBVIOUS
  <2>3. /\ Dequeue(d)
        /\ main' = [main EXCEPT ![d] = main[d] \o Report(Head(Pending(d)), ok)]
        /\ UNCHANGED <<auth, fs, clock, sent, chats>>
    BY <1>1, <2>2 DEF Ack, server
  <2> QED BY <2>1, <2>3, DequeueLine
<1>2. CASE Reject(d)
  <2>1. PICK ok \in BOOLEAN : ok = FALSE
    OBVIOUS
  <2>2. /\ Pending(d) # <<>> /\ Dequeue(d)
        /\ main' = [main EXCEPT ![d] = main[d] \o Report(Head(Pending(d)), ok)]
        /\ UNCHANGED <<auth, fs, clock, sent, chats>>
    BY <1>2, <2>1 DEF Reject, server
  <2> QED BY <2>2, DequeueLine
<1> QED BY <1>1, <1>2

(* Nothing a line is made of changes.                                      *)
LEMMA SameLine ==
  ASSUME DInv, UNCHANGED <<auth, fs, queue, main, clock, sent, chats>>
  PROVE  DInv'
<1>1. QueuesSent' /\ MainsSent'
  BY DEF DInv, QueuesSent, MainsSent
<1>2. /\ \A d : Pending(d)' = Pending(d)
      /\ \A d : Delivered(d)' = Delivered(d)
  BY DeliveredSame DEF Pending
<1>3. ASSUME "switch" \notin MayHappen  PROVE Lines'
  <2>1. Lines
    BY <1>3 DEF DInv
  <2> QED BY <1>2, <2>1 DEF Lines, Steady
<1> QED BY <1>1, <1>3 DEF DInv

(* Every step keeps the lines.                                             *)
LEMMA StepLine ==
  ASSUME IInv, DInv, [Next]_vars
  PROVE  DInv'
<1>1. CASE UNCHANGED vars
  BY <1>1, SameLine DEF vars
<1>2. CASE Next
  <2>1. PICK d \in Devices : Device(d)
    BY <1>2 DEF Next
  <2>2. CASE \E to \in Users : Send(d, to)
    BY <2>2, SendLine
  <2>3. CASE RunOwnCompletion(d)
    BY <2>3, RunOwnCompletionLine
  <2>4. CASE RunPeerCompletion(d)
    BY <2>4, RunPeerCompletionLine
  <2>5. CASE SignOut(d) \/ \E u \in Users : SignIn(d, u)
    BY <2>5, AuthenticateLine DEF SignOut, SignIn, Accounts
  <2>6. CASE Kill(d) \/ KillInFanOut(d)
    BY <2>6, KillLine
  <2>7. CASE RunCredentialChange(d)
    BY <2>7, RunCredentialChangeLine
  <2>8. CASE Apply(d)
    BY <2>8, ApplyLine
  <2>9. CASE Ack(d) \/ Reject(d)
    BY <2>9, AnswerLine
  <2>10. CASE StreamReset(d)
    BY <2>10, SameLine DEF StreamReset, local, server
  <2> QED BY <2>1, <2>2, <2>3, <2>4, <2>5, <2>6, <2>7, <2>8, <2>9, <2>10 DEF Device
<1> QED BY <1>1, <1>2

(* Both invariants hold in every reachable state.                          *)
THEOREM LinesAreKept == Spec => [](IInv /\ DInv)
<1>1. Init => IInv /\ DInv
  BY InitInv, InitLine
<1>2. IInv /\ DInv /\ [Next]_vars => IInv' /\ DInv'
  BY StepInv, StepLine
<1> QED BY <1>1, <1>2, PTL DEF Spec

-----------------------------------------------------------------------------
(***************************************************************************)
(* The step simulation.                                                    *)
(***************************************************************************)
OwnStored == {m \in Messages : Stored("own", m)}
PeerStored == {m \in Messages : Stored("peer", m)}
OwnRefused == {m \in Messages : Refused("own", m)}

(* What MessageDelivery sees does not change.                              *)
LEMMA UnseenStep ==
  ASSUME UNCHANGED <<chats, refused, sent, cleared>>
  PROVE  [Delivery!Next]_Delivery!vars
BY DEF Delivery!vars, Stored, Refused

(* A step of a device is a step of MessageDelivery or is not seen there.   *)
LEMMA SendStep ==
  ASSUME IInv, NEW d \in Devices, NEW to \in Users, Send(d, to)
  PROVE  [Delivery!Next]_Delivery!vars
<1> DEFINE m == [from |-> auth[d], to |-> to, dev |-> d, n |-> clock[d] + 1]
<1>1. m \in Messages
  BY BoundsAssumption DEF IInv, TypeOK, Send, Messages, Accounts
<1>2. sent' = sent \cup {m} /\ UNCHANGED <<chats, refused, cleared>>
  BY DEF Send, server
<1> HIDE DEF m
<1>3. CASE m \in sent
  <2>1. sent' = sent
    BY <1>2, <1>3
  <2> QED BY <1>2, <2>1, UnseenStep
<1>4. CASE m \notin sent
  <2>1. Delivery!Post(m)
    BY <1>2, <1>4 DEF Delivery!Post, Stored, Refused
  <2> QED BY <1>1, <2>1 DEF Delivery!Next
<1> QED BY <1>3, <1>4

(* Emptying the field confirms the message.                                *)
LEMMA ConfirmStep ==
  ASSUME IInv, NEW d \in Devices, RunPeerCompletion(d)
  PROVE  [Delivery!Next]_Delivery!vars
<1> DEFINE e == Head(main[d])
<1>1. /\ main[d] # <<>> /\ e.kind = "peer"
      /\ cleared' = IF e.ok THEN cleared \cup {e.msg} ELSE cleared
      /\ UNCHANGED <<sent, refused, chats>>
  BY DEF RunPeerCompletion, server
<1>2. e \in Completions /\ EventOK(e, StoredCopies, SettledCopies)
  BY <1>1, HeadEvent DEF CopyOps, IInv
<1> HIDE DEF e
<1>3. CASE ~e.ok
  BY <1>1, <1>3, UnseenStep
<1>4. CASE e.ok
  <2>1. e.msg \in Messages /\ Stored("peer", e.msg)
    BY <1>1, <1>2, <1>4, CopySets DEF EventOK, Completions, CopyOps
  <2>2. cleared' = cleared \cup {e.msg}
    BY <1>1, <1>4
  <2>3. Delivery!Confirm(e.msg)
    BY <1>1, <2>1, <2>2 DEF Delivery!Confirm, Stored, Refused
  <2> QED BY <2>1, <2>3 DEF Delivery!Next
<1> QED BY <1>3, <1>4

(* A permanent error loses the author's copy, or is not seen.              *)
LEMMA RefuseStep ==
  ASSUME IInv, DInv, NEW d \in Devices, Reject(d)
  PROVE  [Delivery!Next]_Delivery!vars
<1> DEFINE q == Pending(d)
           e == Head(q)
<1>1. /\ q # <<>> /\ refused' = refused \cup {Copy(e.op, e.msg)}
      /\ UNCHANGED <<sent, cleared, chats>>
  BY DEF Reject, server, Copy
<1>2. q \in Seq(Entries) /\ EntriesIn(q, sent)
  BY LineOf
<1>3. e = q[1] /\ e \in Entries /\ e.msg \in Messages /\ e.msg \in sent
  BY <1>1, <1>2, TailFrom, EntryNumbers DEF EntriesIn
<1> HIDE DEF e
<1>4. \A m : Refused("own", m)' <=> Refused("own", m) \/ (e.op = "own" /\ m = e.msg)
  BY <1>1 DEF Refused, Copy
<1>5. CASE e.op = "own"
  <2>1. OwnRefused' = OwnRefused \cup {e.msg}
    BY <1>3, <1>4, <1>5 DEF OwnRefused
  <2>2. Delivery!RefuseOwn(e.msg)
    BY <1>1, <1>3, <2>1 DEF Delivery!RefuseOwn, OwnRefused, Stored
  <2> QED BY <1>3, <2>2 DEF Delivery!Next
<1>6. CASE e.op # "own"
  <2>1. OwnRefused' = OwnRefused
    BY <1>4, <1>6 DEF OwnRefused
  <2> QED BY <1>1, <2>1 DEF Delivery!vars, OwnRefused, Stored
<1> QED BY <1>5, <1>6

(* A commit stores the author's copy, or delivers: no later message of the *)
(* line is stored yet, and the own copy is settled.                        *)
LEMMA ApplyStep ==
  ASSUME IInv, DInv, NEW d \in Devices, Apply(d)
  PROVE  [Delivery!Next]_Delivery!vars
<1> DEFINE q == Pending(d)
           k == applied[d] + 1
           e == q[k]
<1>1. /\ k \in 1..Len(q) /\ e \in Entries
      /\ e.op \in CopyOps => StoredCopies' = StoredCopies \cup {Copy(e.op, e.msg)}
      /\ e.op \notin CopyOps => StoredCopies' = StoredCopies
      /\ UNCHANGED <<sent, refused, cleared>>
  BY CommitCopies
<1>2. e.msg \in Messages /\ e.msg \in sent
  BY <1>1, LineOf DEF Entries, EntriesIn
<1>3. EntryOK(q, k, SettledCopies)
  <2>1. fs[d] \in Accounts
    BY DEF IInv, TypeOK
  <2> QED BY <1>1, <2>1 DEF IInv, QueuesOK, QueueOK, Pending
<1>4. ASSUME "switch" \notin MayHappen  PROVE StoredInLine(q, main[d], Delivered(d))
  BY <1>4, LineOf DEF LineOK
<1> HIDE DEF q, k
<1>5. e.op = "own" \/ Copy("own", e.msg) \in SettledCopies
  BY <1>3 DEF EntryOK
<1> DEFINE x == q[k]
<1>6. \A op \in CopyOps, m \in Messages :
         Stored(op, m)' <=> Stored(op, m) \/ (op = e.op /\ m = e.msg)
  BY <1>1, CopySets, CopySetsNext DEF Copy
<1>7. OwnRefused' = OwnRefused
  BY <1>1 DEF OwnRefused, Refused
<1>8. CASE e.op = "own"
  <2>1. OwnStored' = OwnStored \cup {e.msg} /\ PeerStored' = PeerStored
    BY <1>2, <1>6, <1>8 DEF OwnStored, PeerStored, CopyOps
  <2>2. Delivery!StoreOwn(e.msg)
    BY <1>1, <1>2, <1>7, <2>1
       DEF Delivery!StoreOwn, OwnStored, PeerStored, OwnRefused
  <2> QED BY <1>2, <2>2 DEF Delivery!Next
<1>9. CASE e.op = "peer" /\ e.msg \notin PeerStored
  <2>1. OwnStored' = OwnStored /\ PeerStored' = PeerStored \cup {e.msg}
    BY <1>2, <1>6, <1>9 DEF OwnStored, PeerStored, CopyOps
  <2>2. e.msg \in OwnStored \cup OwnRefused
    BY <1>2, <1>5, <1>9, CopySets
       DEF OwnStored, OwnRefused, Settled, CopyOps
  <2>3. ASSUME NEW l \in PeerStored, <<e.msg, l>> \in DeliveryOrder  PROVE FALSE
    <3>1. /\ "switch" \notin MayHappen
          /\ e.msg.dev = l.dev /\ e.msg.n < l.n
      BY <2>3 DEF DeliveryOrder, LaneOrder, SameLane
    <3>2. l \in Delivered(l.dev)
      BY DEF PeerStored, Delivered
    <3>3. Lines
      BY <3>1 DEF DInv
    <3>4. e.msg.dev = d
      BY <1>1, <3>1, <3>3 DEF Lines, LineOK, Numbered, q
    <3>5. e.msg \in Delivered(d)
      BY <1>1, <1>4, <1>9, <3>1, <3>2, <3>4 DEF StoredInLine
    <3> QED BY <1>9, <3>5 DEF Delivered, PeerStored
  <2>4. Delivery!Deliver(e.msg)
    BY <1>1, <1>7, <1>9, <2>1, <2>2, <2>3
       DEF Delivery!Deliver, OwnStored, PeerStored, OwnRefused
  <2> QED BY <1>2, <2>4 DEF Delivery!Next
<1>10. CASE e.op # "own" /\ (e.op # "peer" \/ e.msg \in PeerStored)
  <2>1. OwnStored' = OwnStored /\ PeerStored' = PeerStored
    BY <1>6, <1>10 DEF OwnStored, PeerStored, CopyOps
  <2> QED BY <1>1, <1>7, <2>1
          DEF Delivery!vars, OwnStored, PeerStored, OwnRefused
<1> QED BY <1>8, <1>9, <1>10

(* Every step of Messaging is a step of MessageDelivery or a stutter.      *)
LEMMA StepSimulation ==
  ASSUME IInv, DInv, [Next]_vars
  PROVE  [Delivery!Next]_Delivery!vars
<1>1. CASE UNCHANGED vars
  BY <1>1, UnseenStep DEF vars
<1>2. CASE Next
  <2>1. PICK d \in Devices : Device(d)
    BY <1>2 DEF Next
  <2>2. CASE \E to \in Users : Send(d, to)
    BY <2>2, SendStep
  <2>3. CASE RunPeerCompletion(d)
    BY <2>3, ConfirmStep
  <2>4. CASE Apply(d)
    BY <2>4, ApplyStep
  <2>5. CASE Reject(d)
    BY <2>5, RefuseStep
  <2>6. CASE RunOwnCompletion(d) \/ RunCredentialChange(d) \/ Ack(d)
    BY <2>6, UnseenStep DEF RunOwnCompletion, RunCredentialChange, Ack, server
  <2>7. CASE SignOut(d) \/ \E u \in Users : SignIn(d, u)
    BY <2>7, UnseenStep DEF SignOut, SignIn, Authenticate, server
  <2>8. CASE Kill(d) \/ KillInFanOut(d)
    BY <2>8, UnseenStep DEF Kill, KillInFanOut, LoseMemory, server
  <2>9. CASE StreamReset(d)
    BY <2>9, UnseenStep DEF StreamReset, local, server
  <2> QED BY <2>1, <2>2, <2>3, <2>4, <2>5, <2>6, <2>7, <2>8, <2>9 DEF Device
<1> QED BY <1>1, <1>2

(* uploadMessage and the SDK's queue keep what MessageDelivery promises:   *)
(* the author's copy settled before the partner's, the messages of a       *)
(* device delivered in order unless accounts change, the input field       *)
(* emptied only for a delivered message.                                   *)
THEOREM DeliveryIsKept == Spec => DeliveryKept
<1>1. Init => Delivery!Init
  <2> SUFFICES ASSUME Init  PROVE Delivery!Init
    OBVIOUS
  <2>1. \A op : \A m \in Messages : ~Stored(op, m) /\ ~Refused(op, m)
    BY PlaceType DEF Init, Stored, Refused
  <2> QED BY <2>1 DEF Init, Delivery!Init
<1>2. IInv /\ DInv /\ [Next]_vars => [Delivery!Next]_Delivery!vars
  BY StepSimulation
<1> QED BY <1>1, <1>2, LinesAreKept, PTL DEF Spec, DeliveryKept, Delivery!Spec

-----------------------------------------------------------------------------
(***************************************************************************)
(* When everything is written the lists show the newest message of a       *)
(* device, as long as nothing is killed, refused or signed out.            *)
(*                                                                         *)
(* On a device with queue q in use and main queue b, the recents document  *)
(* op of m is still to be written by a batch behind place k.               *)
(***************************************************************************)
Calm == MayHappen \cap {"kill", "reject", "switch"} = {}

OwnIn(q, k, m) == \E i \in 1..Len(q) : k < i /\ q[i].op = "own" /\ q[i].msg = m
OwnBlock(b, k, m) == \E j \in 1..Len(b) : k < j /\ b[j].kind = "own" /\ b[j].msg = m
RecentIn(q, k, op, m) == \E i \in 1..Len(q) : k < i /\ q[i].op = op /\ q[i].msg = m

ToCome(q, b, k, op, m) ==
  OwnIn(q, 0, m) \/ OwnBlock(b, 0, m) \/ RecentIn(q, k, op, m)

Later(m, old) == m.dev = old.dev /\ old.n < m.n

(* The later messages S of the device follow in every stage of their way.  *)
QueueFollows(q, b, S) ==
  \A i \in 1..Len(q) : \A m \in S : Later(m, q[i].msg) =>
     /\ q[i].op = "own" => OwnIn(q, i, m)
     /\ q[i].op \in RecentOps => \A op \in RecentOps : ToCome(q, b, i, op, m)

MainFollows(q, b, S) ==
  \A j \in 1..Len(b) : \A m \in S : b[j].kind = "own" /\ Later(m, b[j].msg) =>
     OwnIn(q, 0, m) \/ OwnBlock(b, j, m)

(* The completion of every own copy is still held.                         *)
Heard(q) == \A i \in 1..Len(q) : q[i].op = "own" => q[i].cb

(* The list has m or what its device does not know to be older.            *)
Shows(recent, m) == recent # NoMessage /\ <<recent, m>> \notin LaneOrder

(* What a device owes to the lists, n batches being committed already.     *)
Owed(q, b, n) ==
  \A m \in sent, op \in RecentOps :
     ToCome(q, b, n, op, m) \/ Shows(recents[Place(op, m)], m)

Followed(d) == /\ QueueFollows(Pending(d), main[d], sent)
               /\ MainFollows(Pending(d), main[d], sent)
               /\ Heard(Pending(d))

Settling ==
  /\ \A d \in Devices : Followed(d)
  /\ \A m \in sent : m.n <= clock[m.dev]
  /\ \A m \in sent, op \in RecentOps :
        \/ ToCome(Pending(m.dev), main[m.dev], applied[m.dev], op, m)
        \/ Shows(recents[Place(op, m)], m)
  /\ \A u, p \in Users : recents[u, p] # NoMessage => recents[u, p] \in Between(u, p)

-----------------------------------------------------------------------------
(* The queue grows.                                                        *)
LEMMA StaysInQueue ==
  ASSUME NEW q \in Seq(Entries), NEW s \in Seq(Entries), NEW b, NEW m
  PROVE  /\ \A k : OwnIn(q, k, m) => OwnIn(q \o s, k, m)
         /\ \A k, op : RecentIn(q, k, op, m) => RecentIn(q \o s, k, op, m)
         /\ \A k, op : ToCome(q, b, k, op, m) => ToCome(q \o s, b, k, op, m)
<1> DEFINE r == q \o s
<1>1. \A i \in 1..Len(q) : i \in 1..Len(r) /\ r[i] = q[i]
  <2>1. Len(q) \in Nat /\ Len(s) \in Nat /\ Len(r) = Len(q) + Len(s)
    BY ConcatIndex, LenProperties
  <2>2. \A i \in 1..Len(q) : i \in 1..(Len(q) + Len(s))
    BY <2>1
  <2> QED BY <2>1, <2>2, ConcatIndex
<1> HIDE DEF r
<1> QED BY <1>1 DEF OwnIn, RecentIn, ToCome, r

(* What is appended to the queue is behind everything in it.               *)
LEMMA AppendedBehind ==
  ASSUME NEW q \in Seq(Entries), NEW s \in Seq(Entries), NEW i \in 1..Len(s)
  PROVE  /\ Len(q) + i \in 1..Len(q \o s)
         /\ (q \o s)[Len(q) + i] = s[i]
         /\ \A k \in 0..Len(q) : k < Len(q) + i
         /\ Len(q) \in Nat
<1>1. Len(q) \in Nat /\ Len(s) \in Nat /\ Len(q \o s) = Len(q) + Len(s)
  BY ConcatIndex, LenProperties
<1> QED BY <1>1, ConcatIndex

(* The head leaves the queue.                                              *)
LEMMA LeavesQueue ==
  ASSUME NEW q \in Seq(Entries), q # <<>>, NEW m, NEW k \in Nat
  PROVE  /\ OwnIn(q, k + 1, m) => OwnIn(Tail(q), k, m)
         /\ \A op : RecentIn(q, k + 1, op, m) => RecentIn(Tail(q), k, op, m)
         /\ OwnIn(q, 0, m) => \/ OwnIn(Tail(q), 0, m)
                              \/ Head(q).op = "own" /\ Head(q).msg = m
<1> DEFINE t == Tail(q)
<1>1. /\ Head(q) = q[1]
      /\ \A i \in 1..Len(q) : i # 1 => /\ i - 1 \in 1..Len(t)
                                  /\ t[i - 1] = q[i] /\ 0 < i - 1
      /\ \A i \in 1..Len(q) : k + 1 < i => i # 1 /\ k < i - 1
  <2>1. /\ Head(q) = q[1] /\ Len(t) = Len(q) - 1
        /\ \A i \in 1..Len(t) : t[i] = q[i + 1]
    BY HeadTailProperties
  <2>2. Len(q) \in Nat
    BY LenProperties
  <2>3. ASSUME NEW i \in 1..Len(q), i # 1
        PROVE  i - 1 \in 1..Len(t) /\ (i - 1) + 1 = i
    BY <2>1, <2>2, <2>3
  <2>4. \A i \in 1..Len(q) : i # 1 => i - 1 \in 1..Len(t) /\ t[i - 1] = q[i] /\ 0 < i - 1
    BY <2>1, <2>2, <2>3
  <2>5. \A i \in 1..Len(q) : k + 1 < i => i # 1 /\ k < i - 1
    BY <2>2
  <2> QED BY <2>1, <2>4, <2>5
<1> HIDE DEF t
<1>2. ASSUME OwnIn(q, k + 1, m)  PROVE OwnIn(t, k, m)
  BY <1>1, <1>2 DEF OwnIn
<1>3. ASSUME NEW op, RecentIn(q, k + 1, op, m)  PROVE RecentIn(t, k, op, m)
  BY <1>1, <1>3 DEF RecentIn
<1>4. ASSUME OwnIn(q, 0, m)
      PROVE  OwnIn(t, 0, m) \/ (Head(q).op = "own" /\ Head(q).msg = m)
  <2>1. PICK i \in 1..Len(q) : q[i].op = "own" /\ q[i].msg = m
    BY <1>4 DEF OwnIn
  <2>2. CASE i = 1
    BY <1>1, <2>1, <2>2
  <2>3. CASE i # 1
    <3>1. i - 1 \in 1..Len(t) /\ 0 < i - 1 /\ t[i - 1] = q[i]
      BY <1>1, <2>3
    <3> QED BY <2>1, <3>1 DEF OwnIn
  <2> QED BY <2>2, <2>3
<1> QED BY <1>2, <1>3, <1>4 DEF t

(* The first block of the main queue leaves it.                            *)
LEMMA LeavesMain ==
  ASSUME NEW b \in Seq(MainEvents), b # <<>>, NEW m, NEW k \in Nat
  PROVE  /\ OwnBlock(b, k + 1, m) => OwnBlock(Tail(b), k, m)
         /\ OwnBlock(b, 0, m) => \/ OwnBlock(Tail(b), 0, m)
                                 \/ Head(b).kind = "own" /\ Head(b).msg = m
<1> DEFINE t == Tail(b)
<1>1. /\ Head(b) = b[1]
      /\ \A i \in 1..Len(b) : i # 1 => /\ i - 1 \in 1..Len(t)
                                  /\ t[i - 1] = b[i] /\ 0 < i - 1
      /\ \A i \in 1..Len(b) : k + 1 < i => i # 1 /\ k < i - 1
  <2>1. /\ Head(b) = b[1] /\ Len(t) = Len(b) - 1
        /\ \A i \in 1..Len(t) : t[i] = b[i + 1]
    BY HeadTailProperties
  <2>2. Len(b) \in Nat
    BY LenProperties
  <2>3. ASSUME NEW i \in 1..Len(b), i # 1
        PROVE  i - 1 \in 1..Len(t) /\ (i - 1) + 1 = i
    BY <2>1, <2>2, <2>3
  <2>4. \A i \in 1..Len(b) : i # 1 => i - 1 \in 1..Len(t) /\ t[i - 1] = b[i] /\ 0 < i - 1
    BY <2>1, <2>2, <2>3
  <2>5. \A i \in 1..Len(b) : k + 1 < i => i # 1 /\ k < i - 1
    BY <2>2
  <2> QED BY <2>1, <2>4, <2>5
<1> HIDE DEF t
<1>2. ASSUME OwnBlock(b, k + 1, m)  PROVE OwnBlock(t, k, m)
  BY <1>1, <1>2 DEF OwnBlock
<1>3. ASSUME OwnBlock(b, 0, m)
      PROVE  OwnBlock(t, 0, m) \/ (Head(b).kind = "own" /\ Head(b).msg = m)
  <2>1. PICK i \in 1..Len(b) : b[i].kind = "own" /\ b[i].msg = m
    BY <1>3 DEF OwnBlock
  <2>2. CASE i = 1
    BY <1>1, <2>1, <2>2
  <2>3. CASE i # 1
    <3>1. i - 1 \in 1..Len(t) /\ 0 < i - 1 /\ t[i - 1] = b[i]
      BY <1>1, <2>3
    <3> QED BY <2>1, <3>1 DEF OwnBlock
  <2> QED BY <2>2, <2>3
<1> QED BY <1>2, <1>3 DEF t

(* A block is dispatched.                                                  *)
LEMMA StaysInMain ==
  ASSUME NEW b \in Seq(MainEvents), NEW e \in MainEvents, NEW m
  PROVE  /\ \A k : OwnBlock(b, k, m) => OwnBlock(Append(b, e), k, m)
         /\ e.kind = "own" /\ e.msg = m =>
               \A k \in 0..Len(b) : OwnBlock(Append(b, e), k, m)
<1> DEFINE r == Append(b, e)
<1>1. /\ \A i \in 1..Len(b) : i \in 1..Len(r) /\ r[i] = b[i]
      /\ Len(b) + 1 \in 1..Len(r) /\ r[Len(b) + 1] = e
      /\ \A k \in 0..Len(b) : k < Len(b) + 1
  <2>1. /\ Len(b) \in Nat /\ Len(r) = Len(b) + 1 /\ r[Len(b) + 1] = e
        /\ \A i \in 1..Len(b) : r[i] = b[i]
    BY AppendProperties, LenProperties
  <2>2. \A i \in 1..Len(b) : i \in 1..(Len(b) + 1)
    BY <2>1
  <2> QED BY <2>1, <2>2
<1> HIDE DEF r
<1> QED BY <1>1 DEF OwnBlock, r

(* A newer message is sent from the device.                                *)
LEMMA FollowsSend ==
  ASSUME NEW q \in Seq(Entries), NEW b \in Seq(MainEvents), NEW S \in SUBSET Messages,
         NEW x \in Messages, \A m \in S : m.dev = x.dev => m.n < x.n,
         QueueFollows(q, b, S), MainFollows(q, b, S), Heard(q)
  PROVE  LET r == q \o Upload(x)
         IN  /\ QueueFollows(r, b, S \cup {x})
             /\ MainFollows(r, b, S \cup {x})
             /\ Heard(r)
             /\ \A k, op : ToCome(r, b, k, op, x)
<1> DEFINE u == Upload(x)
           r == q \o u
<1>1. /\ u \in Seq(Entries) /\ Len(u) = 1 /\ u[1].op = "own"
      /\ u[1].msg = x /\ u[1].cb
  BY UploadType DEF Upload, Entry
<1> HIDE DEF u
<1>2. /\ r \in Seq(Entries)
      /\ \A i \in 1..Len(r) : (i \in 1..Len(q) /\ r[i] = q[i]) \/ r[i] = u[1]
  <2>1. r \in Seq(Entries)
    BY <1>1, ConcatIndex
  <2>2. ASSUME NEW i \in 1..Len(r)
        PROVE  (i \in 1..Len(q) /\ r[i] = q[i]) \/ r[i] = u[1]
    <3>1. \A k \in 1..Len(u) : k = 1
      BY <1>1
    <3> QED BY <1>1, <3>1, ConcatFrom
  <2> QED BY <2>1, <2>2
<1>3. /\ Len(q) + 1 \in 1..Len(r) /\ r[Len(q) + 1] = u[1]
      /\ \A k \in 0..Len(q) : k < Len(q) + 1
      /\ Len(q) \in Nat
  <2>1. 1 \in 1..Len(u)
    BY <1>1
  <2> QED BY <1>1, <2>1, AppendedBehind
<1>4. \A k \in 0..Len(q) : OwnIn(r, k, x)
  BY <1>1, <1>3 DEF OwnIn
<1>5. \A i \in 1..Len(q) : i \in 0..Len(q)
  OBVIOUS
<1>6. ASSUME NEW m \in S \cup {x}  PROVE ~Later(m, x)
  <2>1. m.n \in Int /\ x.n \in Int
    BY DEF Messages
  <2>2. m.dev = x.dev => m.n <= x.n
    BY <2>1
  <2> QED BY <2>1, <2>2 DEF Later
<1>7. /\ \A m : \A k : OwnIn(q, k, m) => OwnIn(r, k, m)
      /\ \A m : \A k, op : ToCome(q, b, k, op, m) => ToCome(r, b, k, op, m)
  BY <1>1, StaysInQueue
<1>8. 0 \in 0..Len(q)
  BY <1>3
<1> HIDE DEF r
<1>9. \A k, op : ToCome(r, b, k, op, x)
  BY <1>4, <1>8 DEF ToCome
<1>10. QueueFollows(r, b, S \cup {x})
  <2>1. ASSUME NEW i \in 1..Len(r), NEW m \in S \cup {x}, Later(m, r[i].msg)
        PROVE  /\ r[i].op = "own" => OwnIn(r, i, m)
               /\ r[i].op \in RecentOps =>
                     \A op \in RecentOps : ToCome(r, b, i, op, m)
    <3>1. i \in 1..Len(q) /\ r[i] = q[i]
      BY <1>1, <1>2, <1>6, <2>1
    <3>2. CASE m = x
      BY <1>4, <1>5, <1>9, <3>1, <3>2
    <3>3. CASE m \in S
      BY <1>7, <2>1, <3>1, <3>3 DEF QueueFollows
    <3> QED BY <3>2, <3>3
  <2> QED BY <2>1 DEF QueueFollows
<1>11. MainFollows(r, b, S \cup {x})
  <2>1. ASSUME NEW j \in 1..Len(b), NEW m \in S \cup {x},
               b[j].kind = "own", Later(m, b[j].msg)
        PROVE  OwnIn(r, 0, m) \/ OwnBlock(b, j, m)
    <3>1. CASE m = x
      BY <1>4, <1>8, <3>1
    <3>2. CASE m \in S
      BY <1>7, <2>1, <3>2 DEF MainFollows
    <3> QED BY <3>1, <3>2
  <2> QED BY <2>1 DEF MainFollows
<1>12. Heard(r)
  BY <1>1, <1>2 DEF Heard
<1> QED BY <1>9, <1>10, <1>11, <1>12 DEF r, u

(* A message is sent from another device.                                  *)
LEMMA FollowsElsewhere ==
  ASSUME NEW q, NEW b, NEW S, NEW x, QueueFollows(q, b, S), MainFollows(q, b, S),
         \A i \in 1..Len(q) : q[i].msg.dev # x.dev,
         \A j \in 1..Len(b) : b[j].kind = "own" => b[j].msg.dev # x.dev
  PROVE  QueueFollows(q, b, S \cup {x}) /\ MainFollows(q, b, S \cup {x})
BY DEF QueueFollows, MainFollows, Later

(* The completion of an own copy gives way to the writes it issues.        *)
LEMMA FollowsFanOut ==
  ASSUME NEW q \in Seq(Entries), NEW b \in Seq(MainEvents), NEW S \in SUBSET Messages,
         b # <<>>, Head(b).kind = "own", Head(b).msg \in Messages,
         QueueFollows(q, b, S), MainFollows(q, b, S), Heard(q)
  PROVE  LET r == q \o FanOut(Head(b).msg)
         IN  /\ QueueFollows(r, Tail(b), S)
             /\ MainFollows(r, Tail(b), S)
             /\ Heard(r)
             /\ \A k \in 0..Len(q), op \in RecentOps, m \in S :
                   ToCome(q, b, k, op, m) => ToCome(r, Tail(b), k, op, m)
<1> DEFINE x == Head(b).msg
           u == FanOut(x)
           r == q \o u
           t == Tail(b)
<1>1. /\ u \in Seq(Entries) /\ Len(u) = 3
      /\ u[1].msg = x /\ u[2].msg = x /\ u[3].msg = x
      /\ u[1].op = "peer" /\ u[2].op = "ownRecent" /\ u[3].op = "peerRecent"
  BY FanOutType
<1> HIDE DEF u, x
<1>2. /\ r \in Seq(Entries)
      /\ \A i \in 1..Len(r) : \/ i \in 1..Len(q) /\ r[i] = q[i]
                              \/ r[i].msg = x /\ r[i].op # "own"
  <2>1. r \in Seq(Entries)
    BY <1>1, ConcatIndex
  <2>2. \A k \in 1..Len(u) : u[k].msg = x /\ u[k].op # "own"
    <3>1. \A k \in 1..Len(u) : k = 1 \/ k = 2 \/ k = 3
      BY <1>1
    <3> QED BY <1>1, <3>1
  <2>3. ASSUME NEW i \in 1..Len(r)
        PROVE  \/ i \in 1..Len(q) /\ r[i] = q[i]
               \/ r[i].msg = x /\ r[i].op # "own"
    <3>1. \/ i \in 1..Len(q) /\ r[i] = q[i]
          \/ \E k \in 1..Len(u) : i = Len(q) + k /\ r[i] = u[k]
      <4>1. u \in Seq(Entries)
        BY <1>1
      <4>2. i \in 1..Len(q \o u)
        OBVIOUS
      <4> QED BY <4>1, <4>2, ConcatFrom
    <3> HIDE DEF r
    <3> QED BY <2>2, <3>1
  <2> QED BY <2>1, <2>3
<1>3. /\ 2 \in 1..Len(u) /\ 3 \in 1..Len(u) /\ Len(q) \in Nat
  BY <1>1, LenProperties
<1>4. /\ \A m : \A k : OwnIn(q, k, m) => OwnIn(r, k, m)
      /\ \A m : \A k, op : RecentIn(q, k, op, m) => RecentIn(r, k, op, m)
  BY <1>1, StaysInQueue
<1>5. \A k \in 0..Len(q), op \in RecentOps : RecentIn(r, k, op, x)
  <2>1. /\ Len(q) + 2 \in 1..Len(r) /\ r[Len(q) + 2] = u[2]
        /\ \A k \in 0..Len(q) : k < Len(q) + 2
    BY <1>1, <1>3, AppendedBehind
  <2>2. /\ Len(q) + 3 \in 1..Len(r) /\ r[Len(q) + 3] = u[3]
        /\ \A k \in 0..Len(q) : k < Len(q) + 3
    BY <1>1, <1>3, AppendedBehind
  <2> HIDE DEF r
  <2>3. \A k \in 0..Len(q) : RecentIn(r, k, "ownRecent", x)
    BY <1>1, <2>1 DEF RecentIn
  <2>4. \A k \in 0..Len(q) : RecentIn(r, k, "peerRecent", x)
    BY <1>1, <2>2 DEF RecentIn
  <2> QED BY <2>3, <2>4 DEF RecentOps
<1>6. \A m : OwnBlock(b, 0, m) => OwnBlock(t, 0, m) \/ m = x
  <2>1. 0 \in Nat
    OBVIOUS
  <2> QED BY <2>1, LeavesMain DEF x
<1>7. \A i \in 1..Len(q) : i \in 0..Len(q)
  OBVIOUS
<1>8. t \in Seq(MainEvents) /\ 1 \in 1..Len(b) /\ b[1] = Head(b)
  BY TailFrom
<1>9. \A j \in 1..Len(t) : j \in Nat /\ j + 1 \in 1..Len(b) /\ t[j] = b[j + 1]
  BY TailFrom
<1>10. \A j \in Nat : \A m : OwnBlock(b, j + 1, m) => OwnBlock(t, j, m)
  BY LeavesMain
<1> HIDE DEF r, t
<1>11. ASSUME NEW k \in 0..Len(q), NEW op \in RecentOps, NEW m,
              ToCome(q, b, k, op, m)
       PROVE  ToCome(r, t, k, op, m)
  BY <1>4, <1>5, <1>6, <1>11 DEF ToCome
<1>12. ASSUME NEW m \in S, Later(m, x)  PROVE OwnIn(r, 0, m) \/ OwnBlock(t, 0, m)
  <2>1. OwnIn(q, 0, m) \/ OwnBlock(b, 1, m)
    BY <1>8, <1>12 DEF MainFollows, x
  <2>2. 0 \in Nat /\ 0 + 1 = 1
    OBVIOUS
  <2> QED BY <1>4, <1>10, <2>1, <2>2
<1>13. QueueFollows(r, t, S)
  <2>1. ASSUME NEW i \in 1..Len(r), NEW m \in S, Later(m, r[i].msg)
        PROVE  /\ r[i].op = "own" => OwnIn(r, i, m)
               /\ r[i].op \in RecentOps =>
                     \A op \in RecentOps : ToCome(r, t, i, op, m)
    <3>1. CASE i \in 1..Len(q) /\ r[i] = q[i]
      BY <1>4, <1>7, <1>11, <2>1, <3>1 DEF QueueFollows
    <3>2. CASE r[i].msg = x /\ r[i].op # "own"
      BY <1>12, <2>1, <3>2 DEF ToCome
    <3> QED BY <1>2, <3>1, <3>2
  <2> QED BY <2>1 DEF QueueFollows
<1>14. MainFollows(r, t, S)
  <2>1. ASSUME NEW j \in 1..Len(t), NEW m \in S,
               t[j].kind = "own", Later(m, t[j].msg)
        PROVE  OwnIn(r, 0, m) \/ OwnBlock(t, j, m)
    <3>1. OwnIn(q, 0, m) \/ OwnBlock(b, j + 1, m)
      BY <1>9, <2>1 DEF MainFollows
    <3> QED BY <1>4, <1>9, <1>10, <3>1
  <2> QED BY <2>1 DEF MainFollows
<1>15. Heard(r)
  BY <1>2 DEF Heard
<1> QED BY <1>11, <1>13, <1>14, <1>15 DEF x, u, r, t

(* Another block is run.                                                   *)
LEMMA FollowsOtherBlock ==
  ASSUME NEW q, NEW b \in Seq(MainEvents), NEW S, b # <<>>, Head(b).kind # "own",
         QueueFollows(q, b, S), MainFollows(q, b, S)
  PROVE  /\ QueueFollows(q, Tail(b), S)
         /\ MainFollows(q, Tail(b), S)
         /\ \A k, op, m : ToCome(q, b, k, op, m) => ToCome(q, Tail(b), k, op, m)
<1> DEFINE t == Tail(b)
<1>1. \A m : OwnBlock(b, 0, m) => OwnBlock(t, 0, m)
  <2>1. 0 \in Nat
    OBVIOUS
  <2> QED BY <2>1, LeavesMain
<1>2. \A j \in 1..Len(t) : j \in Nat /\ j + 1 \in 1..Len(b) /\ t[j] = b[j + 1]
  BY TailFrom
<1>3. \A j \in Nat : \A m : OwnBlock(b, j + 1, m) => OwnBlock(t, j, m)
  BY LeavesMain
<1> HIDE DEF t
<1>4. \A k, op, m : ToCome(q, b, k, op, m) => ToCome(q, t, k, op, m)
  BY <1>1 DEF ToCome
<1>5. QueueFollows(q, t, S)
  BY <1>4 DEF QueueFollows
<1>6. MainFollows(q, t, S)
  <2>1. ASSUME NEW j \in 1..Len(t), NEW m \in S,
               t[j].kind = "own", Later(m, t[j].msg)
        PROVE  OwnIn(q, 0, m) \/ OwnBlock(t, j, m)
    <3>1. OwnIn(q, 0, m) \/ OwnBlock(b, j + 1, m)
      BY <1>2, <2>1 DEF MainFollows
    <3> QED BY <1>2, <1>3, <3>1
  <2> QED BY <2>1 DEF MainFollows
<1> QED BY <1>4, <1>5, <1>6 DEF t

(* The answer to an own copy, and to no other, brings a block to fan out.  *)
LEMMA AnswerBlocks ==
  ASSUME NEW b \in Seq(MainEvents), NEW h \in Entries, h.cb => h.op \in CopyOps,
         h.op = "own" => h.cb
  PROVE  LET c == b \o Report(h, TRUE)
         IN  /\ c \in Seq(MainEvents)
             /\ \A m : \A k : OwnBlock(b, k, m) => OwnBlock(c, k, m)
             /\ h.op = "own" => \A k \in 0..Len(b) : OwnBlock(c, k, h.msg)
             /\ \A j \in 1..Len(c) : c[j].kind = "own" =>
                   \/ j \in 1..Len(b) /\ c[j] = b[j]
                   \/ h.op = "own" /\ c[j].msg = h.msg
<1> DEFINE f == Completion(h.op, h.msg, TRUE)
           r == Report(h, TRUE)
<1>1. CASE ~h.cb
  <2>1. r = <<>> /\ b \o <<>> = b
    BY <1>1, ConcatEmptySeq DEF Report
  <2> QED BY <1>1, <2>1
<1>2. CASE h.cb
  <2>1. r = <<f>> /\ f.kind = h.op /\ f.msg = h.msg /\ f \in MainEvents
    BY <1>2 DEF Report, Completion, Completions, MainEvents, Entries
  <2> HIDE DEF r, f
  <2>2. b \o r = Append(b, f)
    BY <2>1
  <2>3. /\ Append(b, f) \in Seq(MainEvents)
        /\ \A j \in 1..Len(Append(b, f)) : \/ j \in 1..Len(b) /\ Append(b, f)[j] = b[j]
                                           \/ Append(b, f)[j] = f
    <3>1. /\ Append(b, f) \in Seq(MainEvents) /\ Len(b) \in Nat
          /\ Len(Append(b, f)) = Len(b) + 1 /\ Append(b, f)[Len(b) + 1] = f
          /\ \A i \in 1..Len(b) : Append(b, f)[i] = b[i]
      BY <2>1, AppendProperties, LenProperties
    <3>2. \A j \in 1..(Len(b) + 1) : j \in 1..Len(b) \/ j = Len(b) + 1
      BY <3>1
    <3> QED BY <3>1, <3>2
  <2>4. /\ \A m : \A k : OwnBlock(b, k, m) => OwnBlock(Append(b, f), k, m)
        /\ f.kind = "own" => \A k \in 0..Len(b) : OwnBlock(Append(b, f), k, f.msg)
    BY <2>1, StaysInMain
  <2> DEFINE c == Append(b, f)
  <2> HIDE DEF c
  <2>5. /\ c \in Seq(MainEvents)
        /\ \A m : \A k : OwnBlock(b, k, m) => OwnBlock(c, k, m)
        /\ h.op = "own" => \A k \in 0..Len(b) : OwnBlock(c, k, h.msg)
        /\ \A j \in 1..Len(c) : c[j].kind = "own" =>
              \/ j \in 1..Len(b) /\ c[j] = b[j]
              \/ h.op = "own" /\ c[j].msg = h.msg
    BY <2>1, <2>3, <2>4 DEF c
  <2> QED BY <2>2, <2>5 DEF c, r
<1> QED BY <1>1, <1>2

(* The oldest batch is answered.                                           *)
LEMMA FollowsAnswer ==
  ASSUME NEW q \in Seq(Entries), NEW b \in Seq(MainEvents), NEW S, q # <<>>,
         Head(q).cb => Head(q).op \in CopyOps,
         QueueFollows(q, b, S), MainFollows(q, b, S), Heard(q)
  PROVE  LET t == Tail(q)
             c == b \o Report(Head(q), TRUE)
         IN  /\ QueueFollows(t, c, S)
             /\ MainFollows(t, c, S)
             /\ Heard(t)
             /\ \A k \in Nat : \A op, m : ToCome(q, b, k + 1, op, m) => ToCome(t, c, k, op, m)
<1> DEFINE t == Tail(q)
           h == Head(q)
           c == b \o Report(h, TRUE)
<1>1. /\ 1 \in 1..Len(q) /\ h = q[1] /\ h \in Entries
  BY TailFrom, ElementOfSeq
<1>2. \A i \in 1..Len(t) : i \in Nat /\ i + 1 \in 1..Len(q) /\ t[i] = q[i + 1]
  BY TailFrom
<1>3. \A k \in Nat : \A m :
         /\ OwnIn(q, k + 1, m) => OwnIn(t, k, m)
         /\ \A op : RecentIn(q, k + 1, op, m) => RecentIn(t, k, op, m)
         /\ OwnIn(q, 0, m) => OwnIn(t, 0, m) \/ (h.op = "own" /\ h.msg = m)
  BY LeavesQueue
<1>4. 0 \in Nat /\ 0 + 1 = 1 /\ 0 \in 0..Len(b) /\ (\A j \in 1..Len(b) : j \in 0..Len(b))
  BY LenProperties
<1>5. /\ \A m : \A k : OwnBlock(b, k, m) => OwnBlock(c, k, m)
      /\ h.op = "own" => \A k \in 0..Len(b) : OwnBlock(c, k, h.msg)
      /\ \A j \in 1..Len(c) : c[j].kind = "own" =>
            \/ j \in 1..Len(b) /\ c[j] = b[j]
            \/ h.op = "own" /\ c[j].msg = h.msg
  <2>1. h.op = "own" => h.cb
    BY <1>1 DEF Heard
  <2> QED BY <1>1, <2>1, AnswerBlocks
<1> HIDE DEF t, c, h
<1>6. ASSUME NEW k \in Nat, NEW op, NEW m, ToCome(q, b, k + 1, op, m)
      PROVE  ToCome(t, c, k, op, m)
  BY <1>3, <1>4, <1>5, <1>6 DEF ToCome
<1>7. QueueFollows(t, c, S)
  <2>1. ASSUME NEW i \in 1..Len(t), NEW m \in S, Later(m, t[i].msg)
        PROVE  /\ t[i].op = "own" => OwnIn(t, i, m)
               /\ t[i].op \in RecentOps =>
                     \A op \in RecentOps : ToCome(t, c, i, op, m)
    <3>1. /\ t[i].op = "own" => OwnIn(q, i + 1, m)
          /\ t[i].op \in RecentOps => \A op \in RecentOps : ToCome(q, b, i + 1, op, m)
      BY <1>2, <2>1 DEF QueueFollows
    <3> QED BY <1>2, <1>3, <1>6, <3>1
  <2> QED BY <2>1 DEF QueueFollows
<1>8. MainFollows(t, c, S)
  <2>1. ASSUME NEW j \in 1..Len(c), NEW m \in S,
               c[j].kind = "own", Later(m, c[j].msg)
        PROVE  OwnIn(t, 0, m) \/ OwnBlock(c, j, m)
    <3>1. CASE j \in 1..Len(b) /\ c[j] = b[j]
      <4>1. OwnIn(q, 0, m) \/ OwnBlock(b, j, m)
        BY <2>1, <3>1 DEF MainFollows
      <4> QED BY <1>3, <1>4, <1>5, <3>1, <4>1
    <3>2. CASE h.op = "own" /\ c[j].msg = h.msg
      <4>1. OwnIn(q, 1, m)
        BY <1>1, <2>1, <3>2 DEF QueueFollows
      <4> QED BY <1>3, <1>4, <4>1
    <3> QED BY <1>5, <2>1, <3>1, <3>2
  <2> QED BY <2>1 DEF MainFollows
<1>9. Heard(t)
  BY <1>2 DEF Heard
<1> QED BY <1>6, <1>7, <1>8, <1>9 DEF t, c, h

-----------------------------------------------------------------------------
(* What is known of a device.                                              *)
LEMMA SettlingHere ==
  ASSUME IInv, Once, DInv, NEW d \in Devices
  PROVE  /\ Pending(d) \in Seq(Entries) /\ main[d] \in Seq(MainEvents)
         /\ sent \in SUBSET Messages /\ fs[d] \in Accounts
         /\ applied[d] \in Nat /\ applied[d] <= Len(Pending(d))
         /\ \A i \in 1..Len(Pending(d)) : /\ Pending(d)[i].msg \in sent
                                          /\ Pending(d)[i].msg.dev = d
         /\ \A j \in 1..Len(main[d]) :
               main[d][j].kind = "own" => main[d][j].msg.dev = d
         /\ Pending(d) # <<>> =>
               (Head(Pending(d)).cb => Head(Pending(d)).op \in CopyOps)
<1>1. /\ Pending(d) \in Seq(Entries) /\ main[d] \in Seq(MainEvents)
      /\ sent \in SUBSET Messages /\ fs[d] \in Accounts
      /\ applied[d] \in Nat /\ applied[d] <= Len(Pending(d))
  BY DEF IInv, TypeOK, Pending
<1>2. /\ \A i \in 1..Len(Pending(d)) : Pending(d)[i].msg \in sent
      /\ QueueOK(Pending(d), SettledCopies)
  BY <1>1 DEF DInv, QueuesSent, EntriesIn, Pending, IInv, QueuesOK
<1>3. /\ \A i \in 1..Len(Pending(d)) : Pending(d)[i].msg.dev = d
      /\ \A j \in 1..Len(main[d]) :
            main[d][j].kind = "own" => main[d][j].msg.dev = d
  <2>1. OnceOK(d, queue[d], main[d], clock[d])
    BY DEF Once
  <2> QED BY <1>1, <2>1 DEF OnceOK, SentFrom, Pending
<1>4. Pending(d) # <<>> => (Head(Pending(d)).cb => Head(Pending(d)).op \in CopyOps)
  BY <1>1, <1>2, TailFrom DEF QueueOK, EntryOK
<1> QED BY <1>1, <1>2, <1>3, <1>4

(* A step of one device that owes no less to the lists than before.        *)
LEMMA SettlingStep ==
  ASSUME TypeOK, Settling, NEW d \in Devices, UNCHANGED <<sent, clock, recents>>,
         \A e \in Devices \ {d} : /\ Pending(e)' = Pending(e)
                                  /\ main'[e] = main[e] /\ applied'[e] = applied[e],
         QueueFollows(Pending(d)', main'[d], sent),
         MainFollows(Pending(d)', main'[d], sent),
         Heard(Pending(d)'),
         \A op \in RecentOps, m \in sent :
            ToCome(Pending(d), main[d], applied[d], op, m) =>
               ToCome(Pending(d)', main'[d], applied'[d], op, m)
  PROVE  Settling'
<1>1. ASSUME NEW e \in Devices  PROVE Followed(e)'
  <2>1. CASE e = d
    BY <2>1 DEF Followed
  <2>2. CASE e # d
    <3>1. Followed(e)
      BY DEF Settling
    <3> QED BY <2>2, <3>1 DEF Followed
  <2> QED BY <2>1, <2>2
<1>2. ASSUME NEW m \in sent, NEW op \in RecentOps
      PROVE  \/ ToCome(Pending(m.dev), main[m.dev], applied[m.dev], op, m)'
             \/ Shows(recents[Place(op, m)], m)
  <2>1. \/ ToCome(Pending(m.dev), main[m.dev], applied[m.dev], op, m)
        \/ Shows(recents[Place(op, m)], m)
    BY DEF Settling
  <2>2. CASE m.dev = d
    BY <2>1, <2>2
  <2>3. CASE m.dev # d
    <3>1. m.dev \in Devices \ {d}
      BY <2>3 DEF TypeOK, Messages
    <3> QED BY <2>1, <3>1
  <2> QED BY <2>2, <2>3
<1> QED BY <1>1, <1>2 DEF Settling, Between

(* Nothing is sent yet.                                                    *)
LEMMA InitSettling == Init => Settling
<1> SUFFICES ASSUME Init  PROVE Settling
  OBVIOUS
<1>1. sent = {} /\ \A u, p \in Users : recents[u, p] = NoMessage
  BY DEF Init
<1>2. ASSUME NEW d \in Devices  PROVE Followed(d)
  <2>1. Pending(d) = <<>> /\ main[d] = <<>>
    BY StartAssumption DEF Init, Pending
  <2> QED BY <2>1 DEF Followed, QueueFollows, MainFollows, Heard
<1> QED BY <1>1, <1>2 DEF Settling

(* A message is sent.                                                      *)
LEMMA SendSettling ==
  ASSUME IInv, Once, DInv, Settling, NEW d \in Devices, NEW to \in Users, Send(d, to)
  PROVE  Settling'
<1> DEFINE x == [from |-> auth[d], to |-> to, dev |-> d, n |-> clock[d] + 1]
           q == Pending(d)
           r == q \o Upload(x)
<1>1. /\ q \in Seq(Entries) /\ main[d] \in Seq(MainEvents)
      /\ sent \in SUBSET Messages /\ applied[d] \in Nat
  BY SettlingHere
<1>2. x \in Messages /\ x.dev = d /\ x.n = clock[d] + 1
  BY BoundsAssumption DEF IInv, TypeOK, Send, Messages, Accounts
<1>3. /\ queue' = [queue EXCEPT ![d][fs[d]] = r] /\ fs' = fs
      /\ sent' = sent \cup {x} /\ main' = main /\ applied' = applied
      /\ recents' = recents /\ clock' = [clock EXCEPT ![d] = @ + 1]
  BY DEF Send, Persist, Pending, server
<1> HIDE DEF x
<1>4. clock \in [Devices -> Nat]
  BY BoundsAssumption DEF IInv, TypeOK
<1>5. /\ Pending(d)' = r
      /\ \A e \in Devices \ {d} : Pending(e)' = Pending(e)
  <2>1. fs[d] \in Accounts
    BY SettlingHere
  <2> HIDE DEF r
  <2> QED BY <1>3, <2>1 DEF IInv, TypeOK, Pending
<1>6. \A m \in sent : m.dev = x.dev => m.n < x.n
  <2>1. ASSUME NEW m \in sent, m.dev = d  PROVE m.n < clock[d] + 1
    <3>1. m.n <= clock[d] /\ m.n \in Int /\ clock[d] \in Int
      <4>1. \A n \in Messages : n.n \in Int
        BY DEF Messages
      <4>2. m.n <= clock[m.dev]
        BY DEF Settling
      <4> QED BY <1>1, <1>4, <2>1, <4>1, <4>2
    <3> QED BY <3>1
  <2> QED BY <1>2, <2>1
<1>7. /\ QueueFollows(r, main[d], sent \cup {x})
      /\ MainFollows(r, main[d], sent \cup {x})
      /\ Heard(r)
      /\ \A k, op : ToCome(r, main[d], k, op, x)
  BY <1>1, <1>2, <1>6, FollowsSend DEF Settling, Followed
<1>8. \A k, op, m : ToCome(q, main[d], k, op, m) => ToCome(r, main[d], k, op, m)
  BY <1>1, <1>2, UploadType, StaysInQueue
<1> HIDE DEF r, q
<1>9. \A m \in sent : m.dev \in Devices /\ m.n \in Int /\ m.n <= clock[m.dev]
  <2>1. \A m \in sent : m.n <= clock[m.dev]
    BY DEF Settling
  <2>2. \A m \in Messages : m.dev \in Devices /\ m.n \in Int
    BY DEF Messages
  <2> QED BY <1>1, <2>1, <2>2
<1>10. ASSUME NEW e \in Devices  PROVE Followed(e)'
  <2>1. CASE e = d
    BY <1>3, <1>5, <1>7, <2>1 DEF Followed
  <2>2. CASE e # d
    <3>1. /\ Followed(e) /\ Pending(e)' = Pending(e) /\ main'[e] = main[e]
      BY <1>3, <1>5, <2>2 DEF Settling
    <3>2. /\ \A i \in 1..Len(Pending(e)) : Pending(e)[i].msg.dev = e
          /\ \A j \in 1..Len(main[e]) :
                main[e][j].kind = "own" => main[e][j].msg.dev = e
      BY SettlingHere
    <3>3. /\ QueueFollows(Pending(e), main[e], sent \cup {x})
          /\ MainFollows(Pending(e), main[e], sent \cup {x})
      BY <1>2, <2>2, <3>1, <3>2, FollowsElsewhere DEF Followed
    <3> QED BY <1>3, <3>1, <3>3 DEF Followed
  <2> QED BY <2>1, <2>2
<1>11. ASSUME NEW m \in sent'  PROVE m.n <= clock'[m.dev]
  <2>1. CASE m = x
    BY <1>2, <1>3, <1>4, <2>1
  <2>2. CASE m \in sent
    <3>1. /\ m.n <= clock[m.dev] /\ m.dev \in Devices /\ m.n \in Int
      BY <1>9, <2>2
    <3>2. clock'[m.dev] = clock[m.dev] \/ clock'[m.dev] = clock[m.dev] + 1
      BY <1>3, <1>4, <3>1
    <3>3. clock[m.dev] \in Int
      BY <1>4, <3>1
    <3> QED BY <3>1, <3>2, <3>3
  <2> QED BY <1>3, <2>1, <2>2
<1>12. ASSUME NEW m \in sent', NEW op \in RecentOps
       PROVE  \/ ToCome(Pending(m.dev), main[m.dev], applied[m.dev], op, m)'
              \/ Shows(recents'[Place(op, m)], m)
  <2>1. CASE m = x
    BY <1>2, <1>3, <1>5, <1>7, <2>1
  <2>2. CASE m \in sent
    <3>1. /\ m.dev \in Devices
          /\ \/ ToCome(Pending(m.dev), main[m.dev], applied[m.dev], op, m)
             \/ Shows(recents[Place(op, m)], m)
      BY <1>9, <2>2 DEF Settling
    <3>2. CASE m.dev = d
      BY <1>3, <1>5, <1>8, <3>1, <3>2 DEF q
    <3>3. CASE m.dev # d
      BY <1>3, <1>5, <3>1, <3>3
    <3> QED BY <3>2, <3>3
  <2> QED BY <1>3, <2>1, <2>2
<1>13. \A u, p \in Users :
          recents'[u, p] # NoMessage => recents'[u, p] \in Between(u, p)'
  BY <1>3 DEF Settling, Between
<1> QED BY <1>10, <1>11, <1>12, <1>13 DEF Settling

(* The completion of an own write runs.                                    *)
LEMMA RunOwnCompletionSettling ==
  ASSUME IInv, Once, DInv, Settling, NEW d \in Devices, RunOwnCompletion(d)
  PROVE  Settling'
<1> DEFINE q == Pending(d)
           b == main[d]
           r == q \o FanOut(Head(b).msg)
<1>1. /\ q \in Seq(Entries) /\ b \in Seq(MainEvents)
      /\ sent \in SUBSET Messages /\ fs[d] \in Accounts
      /\ applied[d] \in Nat /\ applied[d] <= Len(q)
  BY SettlingHere
<1>2. /\ b # <<>> /\ Head(b).kind = "own"
      /\ queue' = [queue EXCEPT ![d][fs[d]] = r] /\ fs' = fs
      /\ main' = [main EXCEPT ![d] = Tail(b)]
      /\ applied' = applied /\ UNCHANGED <<sent, clock, recents>>
  BY DEF RunOwnCompletion, Persist, Pending, server
<1>3. Head(b).msg \in Messages
  <2>1. Head(b) \in MainEvents
    BY <1>1, <1>2, HeadTailProperties
  <2> QED BY <1>2, <2>1 DEF MainEvents, Completions, CredentialChanges
<1>4. applied[d] \in 0..Len(q)
  <2>1. Len(q) \in Nat
    BY <1>1, LenProperties
  <2> HIDE DEF q
  <2> QED BY <1>1, <2>1
<1>5. /\ QueueFollows(r, Tail(b), sent)
      /\ MainFollows(r, Tail(b), sent)
      /\ Heard(r)
      /\ \A k \in 0..Len(q), op \in RecentOps, m \in sent :
            ToCome(q, b, k, op, m) => ToCome(r, Tail(b), k, op, m)
  BY <1>1, <1>2, <1>3, FollowsFanOut DEF Settling, Followed
<1>6. /\ Pending(d)' = r /\ main'[d] = Tail(b)
      /\ \A e \in Devices \ {d} : Pending(e)' = Pending(e) /\ main'[e] = main[e]
  <2> HIDE DEF r
  <2> QED BY <1>1, <1>2 DEF IInv, TypeOK, Pending
<1> HIDE DEF r, q
<1>7. \A op \in RecentOps, m \in sent :
         ToCome(q, b, applied[d], op, m) => ToCome(r, Tail(b), applied'[d], op, m)
  BY <1>2, <1>4, <1>5
<1> QED BY <1>2, <1>5, <1>6, <1>7, SettlingStep DEF q, IInv

(* The completion of a partner's copy runs.                                *)
LEMMA RunPeerCompletionSettling ==
  ASSUME IInv, Once, DInv, Settling, NEW d \in Devices, RunPeerCompletion(d)
  PROVE  Settling'
<1> DEFINE b == main[d]
<1>1. b \in Seq(MainEvents)
  BY SettlingHere
<1>2. /\ b # <<>> /\ Head(b).kind # "own"
      /\ main' = [main EXCEPT ![d] = Tail(b)] /\ queue' = queue /\ fs' = fs
      /\ applied' = applied /\ UNCHANGED <<sent, clock, recents>>
  BY DEF RunPeerCompletion, server
<1>3. /\ QueueFollows(Pending(d), Tail(b), sent)
      /\ MainFollows(Pending(d), Tail(b), sent)
      /\ Heard(Pending(d))
      /\ \A k, op, m : ToCome(Pending(d), b, k, op, m) =>
                          ToCome(Pending(d), Tail(b), k, op, m)
  BY <1>1, <1>2, FollowsOtherBlock DEF Settling, Followed
<1>4. /\ main'[d] = Tail(b) /\ \A e \in Devices : Pending(e)' = Pending(e)
      /\ \A e \in Devices \ {d} : main'[e] = main[e]
  BY <1>2 DEF IInv, TypeOK, Pending
<1> QED BY <1>2, <1>3, <1>4, SettlingStep DEF IInv

(* The answer to the oldest batch arrives.                                 *)
LEMMA AckSettling ==
  ASSUME IInv, Once, DInv, Settling, NEW d \in Devices, Ack(d)
  PROVE  Settling'
<1> DEFINE q == Pending(d)
           b == main[d]
           n == applied[d] - 1
           c == b \o Report(Head(q), TRUE)
<1>1. /\ q \in Seq(Entries) /\ b \in Seq(MainEvents)
      /\ sent \in SUBSET Messages /\ fs[d] \in Accounts
      /\ applied[d] \in Nat /\ applied[d] <= Len(q)
      /\ q # <<>> => (Head(q).cb => Head(q).op \in CopyOps)
  BY SettlingHere
<1>2. /\ applied[d] > 0
      /\ queue' = [queue EXCEPT ![d][fs[d]] = Tail(q)] /\ fs' = fs
      /\ main' = [main EXCEPT ![d] = c]
      /\ applied' = [applied EXCEPT ![d] = n]
      /\ UNCHANGED <<sent, clock, recents>>
  BY DEF Ack, Dequeue, Pending, server
<1>3. q # <<>> /\ n \in Nat /\ n + 1 = applied[d]
  <2> HIDE DEF q
  <2> QED BY <1>1, <1>2, EmptySeq
<1>4. /\ QueueFollows(Tail(q), c, sent)
      /\ MainFollows(Tail(q), c, sent)
      /\ Heard(Tail(q))
      /\ \A k \in Nat : \A op, m : ToCome(q, b, k + 1, op, m) => ToCome(Tail(q), c, k, op, m)
  BY <1>1, <1>3, FollowsAnswer DEF Settling, Followed
<1>5. /\ Pending(d)' = Tail(q)
      /\ \A e \in Devices \ {d} : Pending(e)' = Pending(e)
  <2> DEFINE t == Tail(q)
  <2> HIDE DEF t
  <2>1. /\ Pending(d)' = t
        /\ \A e \in Devices \ {d} : Pending(e)' = Pending(e)
    BY <1>1, <1>2 DEF IInv, TypeOK, Pending, t
  <2> QED BY <2>1 DEF t
<1>6. /\ main'[d] = c /\ applied'[d] = n
      /\ \A e \in Devices \ {d} : main'[e] = main[e] /\ applied'[e] = applied[e]
  <2> HIDE DEF c, n
  <2> QED BY <1>2 DEF IInv, TypeOK
<1> HIDE DEF c, n, q
<1>7. \A op \in RecentOps, m \in sent :
         ToCome(q, b, applied[d], op, m) => ToCome(Tail(q), c, n, op, m)
  BY <1>3, <1>4
<1> QED BY <1>2, <1>4, <1>5, <1>6, <1>7, SettlingStep DEF q, IInv

(* The stream breaks.                                                      *)
LEMMA StreamResetSettling ==
  ASSUME IInv, Once, DInv, Settling, NEW d \in Devices, StreamReset(d)
  PROVE  Settling'
<1>1. applied[d] \in Nat
  BY SettlingHere
<1>2. /\ applied' = [applied EXCEPT ![d] = 0]
      /\ queue' = queue /\ fs' = fs /\ main' = main
      /\ UNCHANGED <<sent, clock, recents>>
  BY DEF StreamReset, local, server
<1>3. /\ applied'[d] = 0
      /\ \A e \in Devices \ {d} : applied'[e] = applied[e]
      /\ \A e \in Devices : Pending(e)' = Pending(e)
  BY <1>2 DEF IInv, TypeOK, Pending
<1>4. \A q, op, m : RecentIn(q, applied[d], op, m) => RecentIn(q, 0, op, m)
  <2>1. \A i \in Int : applied[d] < i => 0 < i
    BY <1>1
  <2> QED BY <2>1 DEF RecentIn
<1>5. \A op \in RecentOps, m \in sent :
         ToCome(Pending(d), main[d], applied[d], op, m) =>
            ToCome(Pending(d), main[d], 0, op, m)
  BY <1>4 DEF ToCome
<1>6. /\ QueueFollows(Pending(d), main[d], sent)
      /\ MainFollows(Pending(d), main[d], sent)
      /\ Heard(Pending(d))
  BY DEF Settling, Followed
<1> QED BY <1>2, <1>3, <1>5, <1>6, SettlingStep DEF IInv

(* The server commits a batch: an older recents document may take the      *)
(* place of a newer one, but the newer one is to be written again behind.  *)
LEMMA ApplySettling ==
  ASSUME IInv, Once, DInv, Settling, NEW d \in Devices, Apply(d)
  PROVE  Settling'
<1> DEFINE q == Pending(d)
           b == main[d]
           n == applied[d]
           e == q[n + 1]
           x == e.msg
<1>1. /\ q \in Seq(Entries) /\ b \in Seq(MainEvents)
      /\ sent \in SUBSET Messages /\ n \in Nat /\ n <= Len(q)
      /\ \A i \in 1..Len(q) : q[i].msg \in sent /\ q[i].msg.dev = d
  BY SettlingHere
<1>2. /\ n < Len(q) /\ Commit(e)
      /\ applied' = [applied EXCEPT ![d] = n + 1]
      /\ queue' = queue /\ fs' = fs /\ main' = main
      /\ UNCHANGED <<sent, clock>>
  BY DEF Apply, local
<1> HIDE DEF q, n
<1>3. n + 1 \in 1..Len(q)
  <2>1. Len(q) \in Nat
    BY <1>1, LenProperties
  <2> QED BY <1>1, <1>2, <2>1
<1>4. e \in Entries /\ x \in sent /\ x \in Messages /\ x.dev = d
  BY <1>1, <1>3, ElementOfSeq
<1>5. /\ applied'[d] = n + 1
      /\ \A c \in Devices \ {d} : applied'[c] = applied[c]
      /\ \A c \in Devices : Pending(c)' = Pending(c)
  BY <1>2 DEF IInv, TypeOK, Pending
<1>6. QueueFollows(q, b, sent)
  BY DEF Settling, Followed, q
<1> HIDE DEF e, b
<1>7. ASSUME NEW op, NEW m, ToCome(q, b, n, op, m)
      PROVE  ToCome(q, b, n + 1, op, m) \/ (e.op = op /\ x = m)
  <2>1. CASE OwnIn(q, 0, m) \/ OwnBlock(b, 0, m)
    BY <2>1 DEF ToCome
  <2>2. CASE RecentIn(q, n, op, m)
    <3>1. PICK i \in 1..Len(q) : n < i /\ q[i].op = op /\ q[i].msg = m
      BY <2>2 DEF RecentIn
    <3>2. n + 1 < i \/ i = n + 1
      BY <1>1, <3>1
    <3>3. CASE n + 1 < i
      BY <3>1, <3>3 DEF RecentIn, ToCome
    <3>4. CASE i = n + 1
      BY <3>1, <3>4 DEF e
    <3> QED BY <3>2, <3>3, <3>4
  <2> QED BY <1>7, <2>1, <2>2 DEF ToCome
<1> HIDE DEF x
(* What is shown afterwards, wherever the document was written.            *)
<1>8. /\ e.op \in RecentOps \/ recents' = recents
      /\ e.op \in RecentOps => recents' = [recents EXCEPT ![Place(e.op, x)] = x]
  <2>1. e.op \in CopyOps => e.op \notin RecentOps
    BY DEF CopyOps, RecentOps
  <2> QED BY <1>2, <2>1 DEF Commit, x
<1>9. recents \in [Users \X Users -> Messages \cup {NoMessage}]
  BY DEF IInv, TypeOK
<1>10. ASSUME NEW m \in sent, NEW op \in RecentOps, m.dev = d
       PROVE  ToCome(q, b, n + 1, op, m) \/ Shows(recents'[Place(op, m)], m)
  <2>1. Place(op, m) \in Users \X Users
    BY <1>1, PlaceType
  <2>2. ToCome(q, b, n, op, m) \/ Shows(recents[Place(op, m)], m)
    BY <1>10 DEF Settling, q, b, n
  <2>3. CASE e.op \notin RecentOps
    BY <1>7, <1>8, <2>2, <2>3
  <2>4. CASE e.op \in RecentOps
    <3>1. CASE Place(op, m) = Place(e.op, x)
      <4>1. recents'[Place(op, m)] = x /\ x # NoMessage
        BY <1>4, <1>8, <1>9, <2>1, <2>4, <3>1, NoMessageAssumption
      <4>2. CASE <<x, m>> \in LaneOrder
        <5>1. Later(m, x)
          BY <4>2 DEF LaneOrder, SameLane, Later
        <5> QED BY <1>3, <1>6, <2>4, <5>1 DEF QueueFollows, e, x
      <4>3. CASE <<x, m>> \notin LaneOrder
        BY <4>1, <4>3 DEF Shows
      <4> QED BY <4>2, <4>3
    <3>2. CASE Place(op, m) # Place(e.op, x)
      <4>1. recents'[Place(op, m)] = recents[Place(op, m)]
        BY <1>8, <1>9, <2>1, <2>4, <3>2
      <4>2. ~(e.op = op /\ x = m)
        BY <3>2
      <4> QED BY <1>7, <2>2, <4>1, <4>2
    <3> QED BY <3>1, <3>2
  <2> QED BY <2>3, <2>4
<1>11. ASSUME NEW m \in sent, NEW op \in RecentOps, m.dev # d
       PROVE  \/ ToCome(Pending(m.dev), main[m.dev], applied[m.dev], op, m)
              \/ Shows(recents'[Place(op, m)], m)
  <2>1. Place(op, m) \in Users \X Users
    BY <1>1, PlaceType
  <2>2. \/ ToCome(Pending(m.dev), main[m.dev], applied[m.dev], op, m)
        \/ Shows(recents[Place(op, m)], m)
    BY DEF Settling
  <2>3. \/ recents'[Place(op, m)] = recents[Place(op, m)]
        \/ recents'[Place(op, m)] = x
    BY <1>8, <1>9, <2>1
  <2>4. Shows(x, m)
    BY <1>4, <1>11, NoMessageAssumption DEF Shows, LaneOrder, SameLane
  <2> QED BY <2>2, <2>3, <2>4
<1>12. ASSUME NEW m \in sent', NEW op \in RecentOps
       PROVE  \/ ToCome(Pending(m.dev), main[m.dev], applied[m.dev], op, m)'
              \/ Shows(recents'[Place(op, m)], m)
  <2>1. m \in sent /\ m.dev \in Devices
    BY <1>1, <1>2 DEF Messages
  <2>2. CASE m.dev = d
    BY <1>2, <1>5, <1>10, <2>1, <2>2 DEF q, b
  <2>3. CASE m.dev # d
    BY <1>2, <1>5, <1>11, <2>1, <2>3
  <2> QED BY <2>2, <2>3
<1>13. ASSUME NEW u \in Users, NEW p \in Users, recents'[u, p] # NoMessage
       PROVE  recents'[u, p] \in Between(u, p)'
  <2>1. CASE recents'[u, p] = recents[u, p]
    BY <1>2, <1>13, <2>1 DEF Settling, Between
  <2>2. CASE recents'[u, p] # recents[u, p]
    <3>1. recents'[u, p] = x /\ Place(e.op, x) = <<u, p>>
      BY <1>8, <1>9, <2>2
    <3>2. {x.from, x.to} = {u, p}
      BY <3>1 DEF Place
    <3> QED BY <1>2, <1>4, <3>1, <3>2 DEF Between
  <2> QED BY <2>1, <2>2
<1>14. ASSUME NEW c \in Devices  PROVE Followed(c)'
  BY <1>2, <1>5 DEF Settling, Followed
<1>15. \A m \in sent' : m.n <= clock'[m.dev]
  BY <1>2 DEF Settling
<1> QED BY <1>12, <1>13, <1>14, <1>15 DEF Settling

(* Every step.                                                             *)
LEMMA StepSettling ==
  ASSUME Calm, IInv, Once, DInv, Settling, [Next]_vars
  PROVE  Settling'
<1>1. CASE UNCHANGED vars
  BY <1>1 DEF vars, Settling, Followed, Pending, Between
<1>2. CASE Next
  <2>1. PICK d \in Devices : Device(d)
    BY <1>2 DEF Next
  <2>2. /\ ~(SignOut(d) \/ \E u \in Users : SignIn(d, u))
        /\ ~Kill(d) /\ ~KillInFanOut(d) /\ ~Reject(d)
    BY DEF Calm, SignOut, SignIn, Authenticate, Kill, KillInFanOut, Reject
  <2>3. ~RunCredentialChange(d)
    <3>1. OnlyCopies(main[d]) /\ main[d] \in Seq(MainEvents)
      BY DEF Calm, DInv, Lines, Steady, IInv, TypeOK
    <3>2. main[d] # <<>> => Head(main[d]).kind \in CopyOps
      BY <3>1, TailFrom DEF OnlyCopies
    <3> QED BY <3>2 DEF RunCredentialChange, CopyOps
  <2>4. CASE \E to \in Users : Send(d, to)
    BY <2>4, SendSettling
  <2>5. CASE RunOwnCompletion(d)
    BY <2>5, RunOwnCompletionSettling
  <2>6. CASE RunPeerCompletion(d)
    BY <2>6, RunPeerCompletionSettling
  <2>7. CASE Apply(d)
    BY <2>7, ApplySettling
  <2>8. CASE Ack(d)
    BY <2>8, AckSettling
  <2>9. CASE StreamReset(d)
    BY <2>9, StreamResetSettling
  <2> QED BY <2>1, <2>2, <2>3, <2>4, <2>5, <2>6, <2>7, <2>8, <2>9 DEF Device
<1> QED BY <1>1, <1>2

(* Nothing is owed any more when all is written.                           *)
LEMMA AllWritten ==
  ASSUME IInv, Settling
  PROVE  SettledRecents
<1> SUFFICES ASSUME Idle, NEW u \in Users, NEW p \in Users, Between(u, p) # {}
             PROVE  /\ recents[u, p] \in Between(u, p)
                    /\ \A m \in Between(u, p) : <<recents[u, p], m>> \notin LaneOrder
  BY DEF SettledRecents
<1>1. \A d \in Devices : Pending(d) = <<>> /\ main[d] = <<>>
  BY DEF Idle, Pending, IInv, TypeOK
<1>2. ASSUME NEW m \in Between(u, p)
      PROVE  Shows(recents[u, p], m)
  <2>1. m \in sent /\ m.dev \in Devices /\ {m.from, m.to} = {u, p}
    BY DEF Between, IInv, TypeOK, Messages
  <2>2. PICK op \in RecentOps : Place(op, m) = <<u, p>>
    <3>1. CASE m.from = u /\ m.to = p
      <4>1. Place("ownRecent", m) = <<u, p>> /\ "ownRecent" \in RecentOps
        BY <3>1 DEF Place, RecentOps
      <4> QED BY <4>1
    <3>2. CASE m.from = p /\ m.to = u
      <4>1. Place("peerRecent", m) = <<u, p>> /\ "peerRecent" \in RecentOps
        BY <3>2 DEF Place, RecentOps
      <4> QED BY <4>1
    <3> QED BY <2>1, <3>1, <3>2
  <2>3. ~ToCome(Pending(m.dev), main[m.dev], applied[m.dev], op, m)
    BY <1>1, <2>1 DEF ToCome, OwnIn, OwnBlock, RecentIn
  <2> QED BY <2>1, <2>2, <2>3 DEF Settling
<1>3. recents[u, p] \in Between(u, p)
  BY <1>2 DEF Shows, Settling
<1> QED BY <1>2, <1>3 DEF Shows

(* When all is written, and nothing was killed, refused or signed out, the *)
(* list of either partner shows the newest message of the device it came   *)
(* from: however often the stream breaks, the recents that the broken      *)
(* stream had committed are sent again in the order of uploadMessage.      *)
THEOREM ListsSettle ==
  ASSUME Calm
  PROVE  Spec => []SettledRecents
<1> DEFINE J == IInv /\ Once /\ DInv /\ Settling
<1>1. Init => J
  <2>1. Init => Once
    BY DEF Init, Once, OnceOK
  <2> QED BY <2>1, InitInv, InitLine, InitSettling
<1>2. J /\ [Next]_vars => J'
  BY StepInv, StepOnce, StepLine, StepSettling DEF J
<1>3. J => SettledRecents
  BY AllWritten DEF J
<1> QED BY <1>1, <1>2, <1>3, PTL DEF Spec
=============================================================================
