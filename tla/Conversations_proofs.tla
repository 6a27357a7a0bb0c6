------------------------ MODULE Conversations_proofs ------------------------
(***************************************************************************)
(* Proofs about Conversations, for any accounts, partners and number of    *)
(* messages: its types whatever happens, and within one login that the     *)
(* list catches up and no row goes back.                                   *)
(***************************************************************************)
EXTENDS Conversations, Ordering_proofs

Listener == [of : Accounts, alive : BOOLEAN, rows : [Users -> Rows \cup {None}],
             lost : SUBSET Users]

Requesting(n) == [by : 1..n, msg : Messages, at : Nat]

(***************************************************************************)
(* Types, whatever happens.                                                *)
(***************************************************************************)
Documents == [Accounts -> [Partners -> Messages \cup {None}]]

(* The types of the steps' pieces, and who a pending write is for.         *)
Typed(li, fe) ==
  /\ li \in Seq(Listener)
  /\ fe \in [Users -> Seq(Requesting(Len(li)))]

TypeInv ==
  /\ TypeOK
  /\ pend # None => pend.to \in Partners

LEMMA Parts ==
  ASSUME TypeInv
  PROVE  /\ Typed(listeners, fetches)
         /\ Len(listeners) \in Nat
         /\ told \in Nat
         /\ auth \in Accounts \cup {None}
         /\ remote \in Documents /\ cache \in Documents
         /\ pend \in Messages \cup {None}
         /\ dict \in [Users -> Rows \cup {None}]
<1>1. /\ listeners \in Seq(Listener) /\ DOMAIN listeners = 1..Len(listeners)
      /\ Len(listeners) \in Nat
  BY LenProperties DEF TypeInv, TypeOK, Listener
<1> QED BY <1>1 DEF TypeInv, TypeOK, Typed, Requesting, Documents

(* The listeners that are told, in their order.                            *)
LEMMA RequestsTyped ==
  ASSUME listeners \in Seq(Listener), told \in Nat,
         NEW a, NEW m \in Messages
  PROVE  Requests(a, m) \in Seq(Requesting(Len(listeners)))
<1> DEFINE S == Live(a)
           c == Cardinality(S)
           n == Len(listeners)
           key == [x \in S |-> x]
           order == InOrder(S)
<1>1. n \in Nat /\ DOMAIN listeners = 1..n
  BY LenProperties
<1>2. S \in SUBSET (1..n)
  BY <1>1 DEF Live
<1>3. IsFiniteSet(S)
  <2>1. IsFiniteSet(1..n)
    BY <1>1, FS_Interval
  <2> HIDE DEF S, n
  <2> QED BY <1>2, <2>1, FS_Subset
<1>4. key \in [S -> Nat] /\ \A x, y \in S : key[x] = key[y] => x = y
  BY <1>2
<1>5. \E s \in [1..c -> S] : \A i, j \in 1..c : i < j => key[s[i]] < key[s[j]]
  <2> HIDE DEF key, S
  <2> QED BY <1>3, <1>4, OrderExists
<1>6. \E s \in [1..c -> S] : \A i, j \in DOMAIN s : i < j => s[i] < s[j]
  <2> HIDE DEF S, c
  <2> PICK s \in [1..c -> S] : \A i, j \in 1..c : i < j => key[s[i]] < key[s[j]]
    BY <1>5
  <2> QED OBVIOUS
<1>7. order \in [1..c -> S]
  <2> HIDE DEF S
  <2> QED BY <1>6 DEF InOrder
<1>8. c \in Nat
  BY <1>3, FS_CardinalityType
<1>9. Requests(a, m) = [i \in 1..c |-> [by |-> order[i], msg |-> m, at |-> told + 1]]
  <2> HIDE DEF c, order
  <2> QED BY <1>7 DEF Requests, order, c
<1> HIDE DEF c, order, S, n
<1>10. ASSUME NEW i \in 1..c
       PROVE  [by |-> order[i], msg |-> m, at |-> told + 1] \in Requesting(n)
  <2>1. order[i] \in 1..n
    BY <1>2, <1>7
  <2> QED BY <2>1 DEF Requesting
<1> QED BY <1>8, <1>9, <1>10 DEF n

(* A document in sight.                                                    *)
LEMMA ViewTyped ==
  ASSUME NEW a \in Accounts, NEW p \in Partners, NEW user,
         NEW own \in Messages \cup {None}, NEW c \in Documents
  PROVE  ViewOf(a, p, user, own, c) \in Messages \cup {None}
BY DEF ViewOf, Documents

(* A change that is told.                                                  *)
LEMMA NotifyTyped ==
  ASSUME TypeInv, cache' \in Documents, pend' \in Messages \cup {None},
         NEW a \in Accounts, NEW p \in Partners, View(a, p)' # View(a, p)
  PROVE  Notify(a, p) \in [Users -> Seq(Requesting(Len(listeners)))]
<1> DEFINE m == IF View(a, p)' = None THEN View(a, p) ELSE View(a, p)'
           R == Requesting(Len(listeners))
           q == PartnerOf(m)
<1>1. View(a, p) \in Messages \cup {None} /\ View(a, p)' \in Messages \cup {None}
  BY Parts, ViewTyped DEF View
<1>2. m \in Messages
  BY <1>1
<1>3. /\ fetches \in [Users -> Seq(R)] /\ listeners \in Seq(Listener) /\ told \in Nat
  BY Parts DEF Typed
<1>4. Requests(a, m) \in Seq(R)
  <2> HIDE DEF m
  <2> QED BY <1>2, <1>3, RequestsTyped
<1>5. q \in Users
  <2> HIDE DEF m
  <2> QED BY <1>2 DEF PartnerOf, Messages
<1>6. Notify(a, p) = [fetches EXCEPT ![q] = fetches[q] \o Requests(a, m)]
  BY DEF Notify, Ask
<1> HIDE DEF m, q, R
<1>7. fetches[q] \o Requests(a, m) \in Seq(R)
  BY <1>3, <1>4, <1>5, ConcatProperties
<1> QED BY <1>3, <1>6, <1>7 DEF R

LEMMA TellTyped ==
  ASSUME TypeInv, cache' \in Documents, pend' \in Messages \cup {None},
         NEW a \in Accounts, NEW p \in Partners, TellIfChanged(a, p)
  PROVE  fetches' \in [Users -> Seq(Requesting(Len(listeners)))] /\ told' \in Nat
<1>1. CASE View(a, p)' # View(a, p)
  BY <1>1, NotifyTyped, Parts DEF TellIfChanged, Tell
<1>2. CASE View(a, p)' = View(a, p)
  BY <1>2, Parts DEF TellIfChanged, Typed
<1> QED BY <1>1, <1>2

(* A new listener, told of what is in sight.                               *)
LEMMA FetchTyped ==
  ASSUME NEW pool, NEW requests, NEW t \in Nat, Typed(pool, requests),
         auth' \in Accounts, pend' \in Messages \cup {None}, cache' \in Documents,
         Fetch(pool, requests, t)
  PROVE  Typed(listeners', fetches') /\ told' \in Nat
<1> DEFINE n == Len(pool)
           R == Requesting(n + 1)
           new(k) == [by |-> n + 1, msg |-> InSight(k), at |-> t + 1]
<1>1. n \in Nat /\ pool \in Seq(Listener)
  BY LenProperties DEF Typed
<1>2. NewListener(auth') \in Listener
  BY DEF NewListener, Listener, NoRows
<1>3. listeners' \in Seq(Listener) /\ Len(listeners') = n + 1
  BY <1>1, <1>2, AppendProperties DEF Fetch
<1>4. ASSUME NEW k \in Users
      PROVE  requests[k] \in Seq(R)
  <2>1. requests[k] \in Seq(Requesting(n))
    BY DEF Typed
  <2>2. Requesting(n) \subseteq R
    BY <1>1 DEF Requesting
  <2> HIDE DEF n, R
  <2> QED BY <2>1, <2>2, SeqMonotonic
<1>5. ASSUME NEW k \in Users, InSight(k) # None
      PROVE  new(k) \in R
  <2>1. InSight(k) \in Messages
    BY <1>5, ViewTyped DEF InSight, View
  <2> QED BY <1>1, <2>1 DEF Requesting
<1>6. ASSUME NEW k \in Users
      PROVE  fetches'[k] \in Seq(R)
  <2>1. fetches'[k] = IF InSight(k) = None THEN requests[k] ELSE requests[k] \o <<new(k)>>
    BY DEF Fetch, Ask
  <2>2. CASE InSight(k) = None
    BY <1>4, <2>1, <2>2
  <2>3. CASE InSight(k) # None
    <3>1. <<new(k)>> \in Seq(R)
      BY <1>5, <2>3
    <3> HIDE DEF R, new
    <3> QED BY <1>4, <2>1, <2>3, <3>1, ConcatProperties
  <2> QED BY <2>2, <2>3
<1>7. fetches' \in [Users -> Seq(R)]
  BY <1>6 DEF Fetch
<1>8. told' \in Nat
  BY DEF Fetch
<1> HIDE DEF n
<1> QED BY <1>3, <1>7, <1>8 DEF Typed
-----------------------------------------------------------------------------
(* The steps keep the types.                                               *)

(* What a step of the documents leaves alone.                              *)
LEMMA DocumentStepTyped ==
  ASSUME TypeInv,
         remote' \in Documents, cache' \in Documents, pend' \in Messages \cup {None},
         pend' # None => pend'.to \in Partners,
         written' \in 0..MaxMessages, auth' \in Accounts \cup {None},
         UNCHANGED <<listeners, dict, late>>,
         NEW a \in Accounts, NEW p \in Partners,
         TellIfChanged(a, p) \/ UNCHANGED <<fetches, told>>
  PROVE  TypeInv'
<1>1. fetches' \in [Users -> Seq(Requesting(Len(listeners)))] /\ told' \in Nat
  BY TellTyped, Parts DEF Typed
<1>2. DOMAIN listeners = 1..Len(listeners) /\ listeners \in Seq(Listener)
  BY Parts, LenProperties DEF Typed
<1> QED BY <1>1, <1>2 DEF TypeInv, TypeOK, Listener, Requesting, Documents

LEMMA PartnerWritesTyped ==
  ASSUME TypeInv, NEW p \in Partners, NEW a \in Accounts, PartnerWrites(p, a)
  PROVE  TypeInv'
<1>1. written \in Nat /\ written + 1 \in 1..MaxMessages
  BY BoundsAssumption DEF TypeInv, TypeOK, PartnerWrites
<1>2. [from |-> p, to |-> a, n |-> written'] \in Messages
  BY <1>1 DEF PartnerWrites, Messages, Users
<1>3. remote' \in Documents
  BY <1>2, Parts DEF PartnerWrites, Documents
<1> QED BY <1>1, <1>3, DocumentStepTyped, Parts DEF PartnerWrites, TypeInv

LEMMA SendTyped ==
  ASSUME TypeInv, NEW p \in Partners, Send(p)
  PROVE  TypeInv'
<1>1. written \in Nat /\ written + 1 \in 1..MaxMessages
  BY BoundsAssumption DEF TypeInv, TypeOK, Send
<1>2. auth \in Accounts
  BY Parts DEF Send
<1>3. pend' \in Messages /\ pend'.to = p
  BY <1>1, <1>2 DEF Send, Messages, Users
<1> QED BY <1>1, <1>2, <1>3, DocumentStepTyped, Parts DEF Send

LEMMA CommitTyped ==
  ASSUME TypeInv, Commit
  PROVE  TypeInv'
<1>1. remote' \in Documents /\ cache' \in Documents
  BY Parts DEF Commit, Documents
<1>2. /\ TypeOK
      /\ UNCHANGED <<auth, listeners, fetches, dict, written, told, late>> /\ pend' = None
  BY DEF Commit, TypeInv
<1> QED BY <1>1, <1>2 DEF TypeInv, TypeOK, Documents

LEMMA RefuseTyped ==
  ASSUME TypeInv, NEW p \in Partners, Refuse(p)
  PROVE  TypeInv'
<1>1. auth \in Accounts
  <2>1. auth \in Users
    BY Parts DEF Refuse, Messages
  <2> QED BY <2>1, Parts, UsersAssumption
<1> QED BY <1>1, DocumentStepTyped, Parts DEF Refuse, TypeInv, TypeOK

LEMMA WatchTyped ==
  ASSUME TypeInv, NEW p \in Partners, NEW a \in Accounts, Watch(a, p)
  PROVE  TypeInv'
<1>1. cache' \in Documents
  BY Parts DEF Watch, Documents
<1> QED BY <1>1, DocumentStepTyped, Parts DEF Watch, TypeInv, TypeOK

(* An answer, or none, to the oldest request.                              *)
LEMMA OldestTyped ==
  ASSUME TypeInv, NEW k \in Users, fetches[k] # <<>>
  PROVE  /\ Head(fetches[k]) \in Requesting(Len(listeners))
         /\ [fetches EXCEPT ![k] = Tail(@)] \in [Users -> Seq(Requesting(Len(listeners)))]
<1> DEFINE R == Requesting(Len(listeners))
<1>1. fetches \in [Users -> Seq(R)]
  BY Parts DEF Typed
<1> HIDE DEF R
<1>2. Head(fetches[k]) \in R /\ Tail(fetches[k]) \in Seq(R)
  BY <1>1, HeadTailProperties
<1> QED BY <1>1, <1>2 DEF R

LEMMA AnswerTyped ==
  ASSUME TypeInv, NEW k \in Users, Answer(k)
  PROVE  TypeInv'
<1> DEFINE f == Head(fetches[k])
           n == Len(listeners)
           row == [msg |-> f.msg, at |-> f.at]
           l == listeners[f.by]
           new == [l EXCEPT !.rows = [@ EXCEPT ![k] = row], !.lost = @ \ {k}]
<1>1. f \in Requesting(n) /\ fetches' \in [Users -> Seq(Requesting(n))]
  BY OldestTyped DEF Answer
<1>2. f.by \in 1..n /\ row \in Rows
  BY <1>1 DEF Requesting, Rows
<1>3. listeners \in Seq(Listener)
  BY Parts DEF Typed
<1>4. l \in Listener
  <2> HIDE DEF f
  <2> QED BY <1>2, <1>3, ElementOfSeq
<1>5. new \in Listener
  <2> HIDE DEF l, row
  <2> QED BY <1>2, <1>4 DEF Listener
<1>6. listeners' = [listeners EXCEPT ![f.by] = new]
  <2> HIDE DEF f
  <2> QED BY <1>2, <1>3 DEF Answer, f
<1> HIDE DEF f, new, row, l
<1>7. listeners' \in Seq(Listener) /\ Len(listeners') = n /\ listeners'[f.by] = new
  BY <1>2, <1>3, <1>5, <1>6, ExceptSeq
<1>8. dict' \in [Users -> Rows \cup {None}]
  <2>1. dict' = Merge(new.rows, dict)
    BY <1>7 DEF Answer, f
  <2>2. new.rows \in [Users -> Rows \cup {None}] /\ dict \in [Users -> Rows \cup {None}]
    BY <1>5, Parts DEF Listener
  <2> QED BY <2>1, <2>2 DEF Merge
<1>9. late' \subseteq Users
  BY DEF Answer, TypeInv, TypeOK
<1>10. DOMAIN listeners' = 1..n
  BY <1>7, LenProperties
<1> QED BY <1>1, <1>7, <1>8, <1>9, <1>10
        DEF Answer, data, TypeInv, TypeOK, Listener, Requesting

LEMMA FailTyped ==
  ASSUME TypeInv, NEW k \in Users, Fail(k)
  PROVE  TypeInv'
<1> DEFINE f == Head(fetches[k])
           n == Len(listeners)
           l == listeners[f.by]
           new == [l EXCEPT !.lost = @ \cup {k}]
<1>1. f \in Requesting(n) /\ fetches' \in [Users -> Seq(Requesting(n))]
  BY OldestTyped DEF Fail
<1>2. f.by \in 1..n
  BY <1>1 DEF Requesting
<1>3. listeners \in Seq(Listener)
  BY Parts DEF Typed
<1>4. l \in Listener
  <2> HIDE DEF f
  <2> QED BY <1>2, <1>3, ElementOfSeq
<1>5. new \in Listener
  <2> HIDE DEF l
  <2> QED BY <1>4 DEF Listener
<1>6. listeners' = [listeners EXCEPT ![f.by] = new]
  <2> HIDE DEF f
  <2> QED BY <1>2, <1>3 DEF Fail, f
<1> HIDE DEF f, new, l
<1>7. listeners' \in Seq(Listener) /\ Len(listeners') = n
  BY <1>2, <1>3, <1>5, <1>6, ExceptSeq
<1>8. DOMAIN listeners' = 1..n
  BY <1>7, LenProperties
<1> QED BY <1>1, <1>7, <1>8
        DEF Fail, data, TypeInv, TypeOK, Listener, Requesting

LEMMA SignOutTyped ==
  ASSUME TypeInv, SignOut
  PROVE  TypeInv'
<1>1. auth \in Accounts /\ auth' = None /\ UNCHANGED <<dict, late, data>>
  BY Parts DEF SignOut
<1>2. CASE UNCHANGED <<listeners, fetches, told>>
  BY <1>1, <1>2 DEF TypeInv, TypeOK, data
<1>3. ASSUME UNCHANGED listeners, pend # None, pend.from = auth,
             NEW p \in Partners, TellIfChanged(pend.from, p)
      PROVE  TypeInv'
  BY <1>1, <1>3, DocumentStepTyped, Parts DEF data, TypeInv, TypeOK
<1>4. ASSUME listeners' = [i \in DOMAIN listeners |-> [listeners[i] EXCEPT !.alive = FALSE]],
             UNCHANGED <<fetches, told>>
      PROVE  TypeInv'
  <2> DEFINE n == Len(listeners)
             ended(i) == [listeners[i] EXCEPT !.alive = FALSE]
  <2>1. /\ listeners \in Seq(Listener) /\ n \in Nat /\ DOMAIN listeners = 1..n
        /\ fetches \in [Users -> Seq(Requesting(n))]
    BY Parts, LenProperties DEF Typed
  <2>2. \A i \in 1..n : ended(i) \in Listener
    <3> TAKE i \in 1..n
    <3>1. listeners[i] \in Listener
      BY <2>1, ElementOfSeq
    <3> QED BY <3>1 DEF Listener
  <2>3. listeners' = [i \in 1..n |-> ended(i)]
    BY <1>4, <2>1
  <2> HIDE DEF n, ended
  <2>4. listeners' \in Seq(Listener) /\ DOMAIN listeners' = 1..n
    BY <2>1, <2>2, <2>3
  <2> QED BY <1>1, <1>4, <2>1, <2>4
          DEF data, TypeInv, TypeOK, Listener, Requesting
<1> QED BY <1>2, <1>3, <1>4 DEF SignOut

(* A listener is added: at a login, or when the app starts.                *)
LEMMA FetchStepTyped ==
  ASSUME TypeInv, auth' \in Accounts, UNCHANGED data,
         dict' \in [Users -> Rows \cup {None}], late' = {},
         NEW pool, NEW requests, NEW t \in Nat, Typed(pool, requests),
         Fetch(pool, requests, t)
  PROVE  TypeInv'
<1>1. Typed(listeners', fetches') /\ told' \in Nat
  BY FetchTyped, Parts DEF data
<1>2. DOMAIN listeners' = 1..Len(listeners')
  BY <1>1, LenProperties DEF Typed
<1> QED BY <1>1, <1>2 DEF data, TypeInv, TypeOK, Typed, Listener, Requesting

LEMMA SignInTyped ==
  ASSUME TypeInv, NEW a \in Accounts, SignIn(a)
  PROVE  TypeInv'
<1> DEFINE back == pend # None /\ pend.from = a /\ pend # cache[a][pend.to]
           queue == IF back THEN Notify(a, pend.to) ELSE fetches
<1>1. /\ auth = None /\ auth' = a /\ late' = {} /\ UNCHANGED <<dict, data>>
      /\ Fetch(listeners, queue, told + 1)
  BY DEF SignIn
<1>2. queue \in [Users -> Seq(Requesting(Len(listeners)))]
  <2>1. ASSUME back
        PROVE  Notify(a, pend.to) \in [Users -> Seq(Requesting(Len(listeners)))]
    <3>1. pend.to \in Partners
      BY <2>1 DEF TypeInv
    <3>2. View(a, pend.to)' = pend /\ View(a, pend.to) = cache[a][pend.to]
      BY <1>1, <2>1, UsersAssumption DEF View, ViewOf, Users, data
    <3> QED BY <1>1, <2>1, <3>1, <3>2, NotifyTyped, Parts DEF data
  <2> QED BY <2>1, Parts DEF Typed
<1>3. Typed(listeners, queue) /\ told + 1 \in Nat
  BY <1>2, Parts DEF Typed
<1> HIDE DEF queue
<1> QED BY <1>1, <1>3, FetchStepTyped, Parts

LEMMA RelaunchTyped ==
  ASSUME TypeInv, Relaunch
  PROVE  TypeInv'
<1>1. Typed(<<>>, [k \in Users |-> <<>>])
  BY EmptySeq DEF Typed
<1>2. NoRows \in [Users -> Rows \cup {None}]
  BY DEF NoRows
<1> QED BY <1>1, <1>2, FetchStepTyped, Parts DEF Relaunch

LEMMA InitTyped ==
  ASSUME Init
  PROVE  TypeInv
<1>1. NewListener(auth) \in Listener
  BY DEF Init, NewListener, Listener, NoRows
<1>2. listeners \in Seq(Listener)
  BY <1>1 DEF Init
<1>3. fetches \in [Users -> Seq([by : DOMAIN listeners, msg : Messages, at : Nat])]
  BY EmptySeq DEF Init
<1> QED BY <1>2, <1>3, BoundsAssumption DEF Init, TypeInv, TypeOK, Listener, NoRows

LEMMA StepTyped ==
  ASSUME TypeInv, [Next]_vars
  PROVE  TypeInv'
<1>1. CASE Next
  BY <1>1, PartnerWritesTyped, SendTyped, CommitTyped, RefuseTyped, WatchTyped,
     AnswerTyped, FailTyped, SignOutTyped, SignInTyped, RelaunchTyped DEF Next
<1>2. CASE UNCHANGED vars
  BY <1>2 DEF vars, TypeInv, TypeOK
<1> QED BY <1>1, <1>2

LEMMA TypeInvariance == Spec => []TypeInv
BY InitTyped, StepTyped, PTL DEF Spec

(* Every document, request and row is well formed, whoever logs in, and a  *)
(* request's listener is there: an answer finds the array it belongs to.   *)
THEOREM TypeCorrect == Spec => []TypeOK
<1>1. TypeInv => TypeOK
  BY DEF TypeInv
<1> QED BY <1>1, TypeInvariance, PTL
-----------------------------------------------------------------------------
(***************************************************************************)
(* One login.                                                              *)
(***************************************************************************)
OneLogin == "relogin" \notin MayHappen

(* A message of the conversation of a with p.                              *)
Between(m, a, p) == (m.from = a /\ m.to = p) \/ (m.from = p /\ m.to = a)

(* One listener, whose array is the dictionary.                            *)
OneListener ==
  /\ auth \in Accounts
  /\ Len(listeners) = 1
  /\ listeners[1].of = auth
  /\ listeners[1].alive
  /\ dict = listeners[1].rows

(* A document is filed under the partner of its message.                   *)
Filed ==
  /\ pend # None => pend.from = auth /\ pend.to \in Partners
  /\ \A p \in Partners : /\ remote[auth][p] # None => Between(remote[auth][p], auth, p)
                         /\ cache[auth][p] # None => Between(cache[auth][p], auth, p)

(* The requests for a profile are in the order in which the listener was   *)
(* told, and newer than the row.                                           *)
QueuedFor(k) ==
  /\ dict[k] # None => dict[k].at <= told
  /\ \A i \in 1..Len(fetches[k]) :
        /\ fetches[k][i].at <= told
        /\ dict[k] # None => dict[k].at <= fetches[k][i].at
        /\ \A j \in 1..Len(fetches[k]) : i < j => fetches[k][i].at <= fetches[k][j].at

Queued == \A k \in Users : QueuedFor(k)

(* The newest request is about what the document says now, and without a   *)
(* request the row is, unless the last one was not answered.               *)
Current(p) ==
  View(auth, p) # None =>
     IF fetches[p] # <<>> THEN fetches[p][Len(fetches[p])].msg = View(auth, p)
     ELSE p \notin listeners[1].lost => dict[p] # None /\ dict[p].msg = View(auth, p)

LoginInv ==
  /\ TypeInv
  /\ OneListener
  /\ Filed
  /\ Queued
  /\ \A p \in Partners : Current(p)
-----------------------------------------------------------------------------
(* Who is told of a change: the listener, when it is a document of the     *)
(* account that is signed in.                                              *)
LEMMA RequestsOfListener ==
  ASSUME LoginInv, NEW m \in Messages
  PROVE  Requests(auth, m) = <<[by |-> 1, msg |-> m, at |-> told + 1]>>
<1> DEFINE s == InOrder({1})
           r == [by |-> 1, msg |-> m, at |-> told + 1]
<1>1. listeners \in Seq(Listener) /\ DOMAIN listeners = {1}
  BY Parts, LenProperties DEF LoginInv, OneListener, Typed
<1>2. Live(auth) = {1}
  BY <1>1 DEF LoginInv, OneListener, Live
<1>3. Cardinality({1}) = 1
  BY FS_Singleton
<1>4. \E t \in [1..1 -> {1}] : \A i, j \in DOMAIN t : i < j => t[i] < t[j]
  <2> DEFINE t == [i \in 1..1 |-> 1]
  <2>1. t \in [1..1 -> {1}] /\ \A i, j \in DOMAIN t : ~(i < j)
    OBVIOUS
  <2> HIDE DEF t
  <2> QED BY <2>1
<1>5. s \in [1..1 -> {1}]
  BY <1>3, <1>4 DEF InOrder
<1>6. Requests(auth, m) = [i \in 1..1 |-> r]
  <2>1. Requests(auth, m) = [i \in DOMAIN s |-> [by |-> s[i], msg |-> m, at |-> told + 1]]
    BY <1>2 DEF Requests
  <2> HIDE DEF s
  <2> QED BY <1>5, <2>1
<1> HIDE DEF r
<1> QED BY <1>6 DEF r

LEMMA RequestsOfOthers ==
  ASSUME LoginInv, NEW a \in Accounts, a # auth, NEW m
  PROVE  Requests(a, m) = <<>>
<1> DEFINE s == InOrder({})
<1>1. listeners \in Seq(Listener) /\ DOMAIN listeners = {1}
  BY Parts, LenProperties DEF LoginInv, OneListener, Typed
<1>2. Live(a) = {}
  BY <1>1 DEF LoginInv, OneListener, Live
<1>3. Cardinality({}) = 0
  BY FS_EmptySet
<1>4. \E t \in [1..0 -> {}] : \A i, j \in DOMAIN t : i < j => t[i] < t[j]
  <2>1. [i \in 1..0 |-> 1] \in [1..0 -> {}]
    OBVIOUS
  <2> QED BY <2>1
<1>5. s \in [1..0 -> {}]
  BY <1>3, <1>4 DEF InOrder
<1>6. Requests(a, m) = [i \in DOMAIN s |-> [by |-> s[i], msg |-> m, at |-> told + 1]]
  BY <1>2 DEF Requests
<1> HIDE DEF s
<1>7. DOMAIN s = {}
  BY <1>5
<1> QED BY <1>6, <1>7

LEMMA TellShape ==
  ASSUME LoginInv, cache' \in Documents, pend' \in Messages \cup {None},
         UNCHANGED <<auth, listeners>>,
         NEW a \in Accounts, NEW p \in Partners, TellIfChanged(a, p),
         View(auth, p) # None => Between(View(auth, p), auth, p),
         View(auth, p)' # None => Between(View(auth, p)', auth, p)
  PROVE  \/ /\ UNCHANGED fetches /\ told' \in {told, told + 1}
            /\ a = auth => View(auth, p)' = View(auth, p)
         \/ /\ a = auth /\ told' = told + 1
            /\ \E m \in Messages :
                  /\ View(auth, p)' # None => m = View(auth, p)'
                  /\ fetches' = [fetches EXCEPT ![p] =
                         Append(@, [by |-> 1, msg |-> m, at |-> told + 1])]
<1> DEFINE m == IF View(a, p)' = None THEN View(a, p) ELSE View(a, p)'
           R == Requesting(1)
<1>1. fetches \in [Users -> Seq(R)] /\ auth \in Accounts /\ auth' = auth
  BY Parts DEF LoginInv, OneListener, Typed
<1>2. CASE View(a, p)' = View(a, p)
  BY <1>1, <1>2 DEF TellIfChanged
<1>3. CASE View(a, p)' # View(a, p) /\ a # auth
  <2>1. fetches' = Notify(a, p) /\ told' = told + 1
    BY <1>3 DEF TellIfChanged, Tell
  <2>2. Notify(a, p) = [fetches EXCEPT ![PartnerOf(m)] = @ \o <<>>]
    BY <1>3, RequestsOfOthers DEF Notify, Ask
  <2> HIDE DEF m
  <2>3. \A k \in Users : fetches[k] \o <<>> = fetches[k]
    BY <1>1, ConcatEmptySeq
  <2>4. [fetches EXCEPT ![PartnerOf(m)] = @ \o <<>>] = fetches
    BY <1>1, <2>3
  <2> QED BY <1>1, <1>3, <2>1, <2>2, <2>4
<1>4. CASE View(a, p)' # View(a, p) /\ a = auth
  <2>1. fetches' = Notify(auth, p) /\ told' = told + 1
    BY <1>4 DEF TellIfChanged, Tell
  <2>2. m \in Messages
    BY <1>1, <1>4, ViewTyped, Parts DEF View, LoginInv
  <2>3. Between(m, auth, p)
    BY <1>1, <1>4
  <2>4. PartnerOf(m) = p
    <3> HIDE DEF m
    <3> QED BY <1>1, <2>3, UsersAssumption DEF PartnerOf, Between
  <2>5. Notify(auth, p) = [fetches EXCEPT ![p] = @ \o Requests(auth, m)]
    <3>1. Notify(auth, p) = [fetches EXCEPT ![PartnerOf(m)] = @ \o Requests(auth, m)]
      BY <1>4 DEF Notify, Ask
    <3> QED BY <2>4, <3>1
  <2>6. View(auth, p)' # None => m = View(auth, p)'
    BY <1>1, <1>4
  <2> HIDE DEF m
  <2>7. Requests(auth, m) = <<[by |-> 1, msg |-> m, at |-> told + 1]>>
    BY <2>2, RequestsOfListener
  <2>8. fetches[p] \in Seq(R) /\ [by |-> 1, msg |-> m, at |-> told + 1] \in R
    <3>1. told + 1 \in Nat /\ 1 \in 1..1 /\ p \in Users
      BY Parts DEF LoginInv, Users
    <3>2. [by |-> 1, msg |-> m, at |-> told + 1] \in R
      BY <2>2, <3>1 DEF Requesting
    <3> HIDE DEF R
    <3> QED BY <1>1, <3>1, <3>2
  <2>9. fetches[p] \o Requests(auth, m) = Append(fetches[p], [by |-> 1, msg |-> m, at |-> told + 1])
    <3> DEFINE r == [by |-> 1, msg |-> m, at |-> told + 1]
    <3> HIDE DEF r, R
    <3>1. fetches[p] \o <<r>> = Append(fetches[p], r)
      BY <2>8 DEF r
    <3> QED BY <2>7, <3>1 DEF r
  <2>10. fetches' = [fetches EXCEPT ![p] = Append(@, [by |-> 1, msg |-> m, at |-> told + 1])]
    BY <2>1, <2>5, <2>9
  <2> QED BY <1>4, <2>1, <2>2, <2>6, <2>10
<1> QED BY <1>2, <1>3, <1>4
-----------------------------------------------------------------------------
(* A document in sight is filed under its partner.                         *)
LEMMA ViewFiled ==
  ASSUME NEW a \in Accounts, NEW p \in Partners, NEW own, NEW c,
         own # None => own.from = a /\ own.to \in Partners,
         c[a][p] # None => Between(c[a][p], a, p)
  PROVE  ViewOf(a, p, a, own, c) # None => Between(ViewOf(a, p, a, own, c), a, p)
<1>1. CASE own # None /\ own.from = a /\ own.to = p
  BY <1>1 DEF ViewOf, Between
<1>2. CASE ~(own # None /\ own.from = a /\ own.to = p)
  BY <1>2 DEF ViewOf
<1> QED BY <1>1, <1>2

(* A request behind the others is the newest.                              *)
LEMMA AskKeeps ==
  ASSUME LoginInv, UNCHANGED dict, told' = told + 1,
         NEW p \in Partners, NEW m \in Messages,
         fetches' = [fetches EXCEPT ![p] =
                         Append(@, [by |-> 1, msg |-> m, at |-> told + 1])]
  PROVE  /\ Queued'
         /\ fetches'[p] # <<>> /\ fetches'[p][Len(fetches'[p])].msg = m
         /\ \A k \in Users \ {p} : fetches'[k] = fetches[k]
<1> DEFINE R == Requesting(1)
           r == [by |-> 1, msg |-> m, at |-> told + 1]
           n == Len(fetches[p])
<1>1. fetches \in [Users -> Seq(R)] /\ told \in Nat /\ p \in Users
  BY Parts DEF LoginInv, OneListener, Typed, Users
<1>2. r \in R
  <2>1. told + 1 \in Nat /\ 1 \in 1..1
    BY <1>1
  <2> QED BY <2>1 DEF Requesting
<1>3. r.at = told + 1 /\ r.msg = m
  OBVIOUS
<1> HIDE DEF r
<1>4. fetches'[p] = Append(fetches[p], r) /\ \A k \in Users \ {p} : fetches'[k] = fetches[k]
  BY <1>1 DEF r
<1>5. /\ n \in Nat /\ Len(fetches'[p]) = n + 1 /\ fetches'[p][n + 1] = r
      /\ \A i \in 1..n : fetches'[p][i] = fetches[p][i]
      /\ fetches'[p] \in Seq(R)
  <2>1. fetches[p] \in Seq(R)
    BY <1>1
  <2> HIDE DEF R
  <2> QED BY <1>2, <1>4, <2>1, AppendProperties, LenProperties
<1>6. \A i \in 1..n : fetches[p][i].at \in Nat
  <2> TAKE i \in 1..n
  <2>1. fetches[p][i] \in R
    BY <1>1, ElementOfSeq
  <2> QED BY <2>1 DEF Requesting
<1>7. dict[p] # None => dict[p].at \in Nat
  BY <1>1, Parts DEF LoginInv, Rows
<1>8. Queued'
  <2>1. ASSUME NEW k \in Users, k # p
        PROVE  QueuedFor(k)'
    <3>1. fetches'[k] = fetches[k]
      BY <1>4, <2>1
    <3>2. \A i \in 1..Len(fetches[k]) : fetches[k][i].at \in Nat
      <4> TAKE i \in 1..Len(fetches[k])
      <4>1. fetches[k][i] \in R
        BY <1>1, ElementOfSeq
      <4> QED BY <4>1 DEF Requesting
    <3>3. dict[k] # None => dict[k].at \in Nat
      BY Parts DEF LoginInv, Rows
    <3> QED BY <1>1, <3>1, <3>2, <3>3 DEF LoginInv, Queued, QueuedFor
  <2>2. /\ dict[p] # None => dict[p].at <= told + 1
        /\ \A i \in 1..n : fetches[p][i].at <= told + 1
        /\ \A i \in 1..n : dict[p] # None => dict[p].at <= fetches[p][i].at
        /\ \A i, j \in 1..n : i < j => fetches[p][i].at <= fetches[p][j].at
    BY <1>1, <1>6, <1>7 DEF LoginInv, Queued, QueuedFor
  <2>3. ASSUME NEW i \in 1..(n + 1)
        PROVE  /\ fetches'[p][i].at <= told + 1
               /\ dict[p] # None => dict[p].at <= fetches'[p][i].at
               /\ \A j \in 1..(n + 1) : i < j => fetches'[p][i].at <= fetches'[p][j].at
    <3> HIDE DEF n
    <3>1. CASE i = n + 1
      BY <1>1, <1>3, <1>5, <2>2, <3>1
    <3>2. CASE i \in 1..n
      <4>1. fetches'[p][i].at <= told + 1 /\ (dict[p] # None => dict[p].at <= fetches'[p][i].at)
        BY <1>5, <2>2, <3>2
      <4>2. ASSUME NEW j \in 1..(n + 1), i < j
            PROVE  fetches'[p][i].at <= fetches'[p][j].at
        <5>1. CASE j = n + 1
          BY <1>3, <1>5, <4>1, <5>1
        <5>2. CASE j \in 1..n
          BY <1>5, <2>2, <3>2, <4>2, <5>2
        <5> QED BY <1>5, <5>1, <5>2
      <4> QED BY <4>1, <4>2
    <3> QED BY <1>5, <3>1, <3>2
  <2> HIDE DEF n
  <2> QED BY <1>5, <2>1, <2>2, <2>3 DEF Queued, QueuedFor
<1>9. fetches'[p] # <<>>
  BY <1>5
<1> QED BY <1>3, <1>4, <1>5, <1>8, <1>9

(* A step of the documents.                                                *)
LEMMA DocumentStepKeeps ==
  ASSUME LoginInv, TypeInv', Filed', UNCHANGED <<auth, listeners, dict>>,
         NEW a \in Accounts, NEW p \in Partners,
         \A q \in Partners : q # p \/ a # auth => View(auth, q)' = View(auth, q),
         \/ TellIfChanged(a, p)
         \/ UNCHANGED <<fetches, told>> /\ View(auth, p)' = View(auth, p)
  PROVE  LoginInv'
<1>1. OneListener' /\ auth \in Accounts
  BY DEF LoginInv, OneListener
<1>2. cache' \in Documents /\ pend' \in Messages \cup {None}
  BY DEF TypeInv, TypeOK, Documents
<1>3. View(auth, p) # None => Between(View(auth, p), auth, p)
  <2>1. /\ pend # None => pend.from = auth /\ pend.to \in Partners
        /\ cache[auth][p] # None => Between(cache[auth][p], auth, p)
    BY DEF LoginInv, Filed
  <2> QED BY <1>1, <2>1, ViewFiled DEF View
<1>4. View(auth, p)' # None => Between(View(auth, p)', auth, p)
  <2>1. /\ pend' # None => pend'.from = auth /\ pend'.to \in Partners
        /\ cache'[auth][p] # None => Between(cache'[auth][p], auth, p)
    BY DEF Filed
  <2> QED BY <1>1, <2>1, ViewFiled DEF View
<1>5. ASSUME UNCHANGED fetches, told' \in {told, told + 1},
             a = auth => View(auth, p)' = View(auth, p)
      PROVE  LoginInv'
  <2>1. Queued'
    <3>1. told \in Nat /\ dict \in [Users -> Rows \cup {None}]
          /\ fetches \in [Users -> Seq(Requesting(1))]
      BY Parts DEF LoginInv, OneListener, Typed
    <3>2. ASSUME NEW k \in Users, NEW i \in 1..Len(fetches[k])
          PROVE  fetches[k][i].at \in Nat
      <4>1. fetches[k][i] \in Requesting(1)
        BY <3>1, ElementOfSeq
      <4> QED BY <4>1 DEF Requesting
    <3>3. \A k \in Users : dict[k] # None => dict[k].at \in Nat
      BY <3>1 DEF Rows
    <3>4. \A x \in Nat : x <= told => x <= told'
      BY <1>5, <3>1
    <3> QED BY <1>5, <3>2, <3>3, <3>4 DEF LoginInv, Queued, QueuedFor
  <2>2. \A q \in Partners : View(auth, q)' = View(auth, q)
    BY <1>5
  <2>3. \A q \in Partners : Current(q)'
    BY <1>5, <2>2 DEF LoginInv, Current
  <2> QED BY <1>1, <2>1, <2>3 DEF LoginInv
<1>6. ASSUME NEW m \in Messages, a = auth, told' = told + 1,
             View(auth, p)' # None => m = View(auth, p)',
             fetches' = [fetches EXCEPT ![p] =
                             Append(@, [by |-> 1, msg |-> m, at |-> told + 1])]
      PROVE  LoginInv'
  <2>1. /\ Queued'
        /\ fetches'[p] # <<>> /\ fetches'[p][Len(fetches'[p])].msg = m
        /\ \A k \in Users \ {p} : fetches'[k] = fetches[k]
    BY <1>6, AskKeeps
  <2>2. Current(p)'
    BY <1>6, <2>1 DEF Current
  <2>3. ASSUME NEW q \in Partners, q # p
        PROVE  Current(q)'
    <3>1. View(auth, q)' = View(auth, q) /\ fetches'[q] = fetches[q]
      BY <2>1, <2>3 DEF Users
    <3> QED BY <3>1 DEF LoginInv, Current
  <2> QED BY <1>1, <2>1, <2>2, <2>3 DEF LoginInv
<1>7. CASE TellIfChanged(a, p)
  BY <1>2, <1>3, <1>4, <1>5, <1>6, <1>7, TellShape
<1>8. CASE UNCHANGED <<fetches, told>> /\ View(auth, p)' = View(auth, p)
  BY <1>5, <1>8
<1> QED BY <1>7, <1>8
-----------------------------------------------------------------------------
(* The steps of one login.                                                 *)
LEMMA LoginParts ==
  ASSUME LoginInv
  PROVE  /\ auth \in Accounts /\ auth # None
         /\ Len(listeners) = 1 /\ listeners \in Seq(Listener) /\ DOMAIN listeners = {1}
         /\ fetches \in [Users -> Seq(Requesting(1))]
         /\ TypeInv /\ dict = listeners[1].rows
         /\ pend # None => pend.from = auth /\ pend.to \in Partners
<1>1. auth # None
  BY UsersAssumption DEF LoginInv, OneListener, Users
<1>2. listeners \in Seq(Listener) /\ Len(listeners) = 1
  BY Parts DEF LoginInv, OneListener, Typed
<1>3. DOMAIN listeners = 1..1
  BY <1>2, LenProperties
<1> QED BY <1>1, <1>2, <1>3, Parts DEF LoginInv, OneListener, Typed, Filed

LEMMA PartnerWritesKeeps ==
  ASSUME LoginInv, NEW p \in Partners, NEW a \in Accounts, PartnerWrites(p, a)
  PROVE  LoginInv'
<1>1. TypeInv'
  BY LoginParts, PartnerWritesTyped
<1>2. Filed'
  BY LoginParts, Parts DEF PartnerWrites, LoginInv, Filed, Between, Documents
<1>3. \A q \in Partners : View(auth, q)' = View(auth, q)
  BY DEF PartnerWrites, View
<1> QED BY <1>1, <1>2, <1>3, DocumentStepKeeps DEF PartnerWrites

LEMMA SendKeeps ==
  ASSUME LoginInv, NEW p \in Partners, Send(p)
  PROVE  LoginInv'
<1>1. TypeInv'
  BY LoginParts, SendTyped
<1>2. pend = None /\ pend'.from = auth /\ pend'.to = p
  BY DEF Send
<1>3. Filed'
  BY <1>2 DEF Send, LoginInv, Filed, Between
<1>4. \A q \in Partners : q # p => View(auth, q)' = View(auth, q)
  BY <1>2 DEF Send, View, ViewOf
<1> QED BY <1>1, <1>3, <1>4, LoginParts, DocumentStepKeeps DEF Send

LEMMA CommitKeeps ==
  ASSUME LoginInv, Commit
  PROVE  LoginInv'
<1> DEFINE p == pend.to
<1>1. TypeInv'
  BY LoginParts, CommitTyped
<1>2. /\ pend # None /\ pend.from = auth /\ p \in Partners /\ auth \in Accounts
      /\ auth' = auth /\ pend' = None
      /\ remote' = [remote EXCEPT ![auth][p] = pend]
      /\ cache' = [cache EXCEPT ![auth][p] = pend]
      /\ remote \in Documents /\ cache \in Documents
  BY LoginParts, Parts DEF Commit
<1>3. \A q \in Partners : /\ remote'[auth][q] = IF q = p THEN pend ELSE remote[auth][q]
                          /\ cache'[auth][q] = IF q = p THEN pend ELSE cache[auth][q]
  BY <1>2 DEF Documents
<1>4. Filed'
  BY <1>2, <1>3 DEF LoginInv, Filed, Between
<1>5. \A q \in Partners : View(auth, q)' = View(auth, q)
  BY <1>2, <1>3 DEF View, ViewOf
<1> QED BY <1>1, <1>2, <1>4, <1>5, DocumentStepKeeps DEF Commit

LEMMA RefuseKeeps ==
  ASSUME LoginInv, NEW p \in Partners, Refuse(p)
  PROVE  LoginInv'
<1>1. TypeInv'
  BY LoginParts, RefuseTyped
<1>2. Filed'
  BY DEF Refuse, LoginInv, Filed, Between
<1>3. \A q \in Partners : q # p => View(auth, q)' = View(auth, q)
  BY DEF Refuse, View, ViewOf
<1> QED BY <1>1, <1>2, <1>3, LoginParts, DocumentStepKeeps DEF Refuse

LEMMA WatchKeeps ==
  ASSUME LoginInv, NEW p \in Partners, NEW a \in Accounts, Watch(a, p)
  PROVE  LoginInv'
<1>1. TypeInv'
  BY LoginParts, WatchTyped
<1>2. \A q \in Partners : /\ q # p \/ a # auth => cache'[auth][q] = cache[auth][q]
                          /\ q = p /\ a = auth => cache'[auth][q] = remote[auth][q]
  BY LoginParts, Parts DEF Watch, Documents
<1>3. Filed'
  BY <1>2 DEF Watch, LoginInv, Filed, Between
<1>4. \A q \in Partners : q # p \/ a # auth => View(auth, q)' = View(auth, q)
  BY <1>2 DEF Watch, View, ViewOf
<1> QED BY <1>1, <1>3, <1>4, DocumentStepKeeps DEF Watch

(* The oldest request goes; those behind it stay in their order.           *)
LEMMA OldestShape ==
  ASSUME LoginInv, NEW k \in Users, fetches[k] # <<>>,
         fetches' = [fetches EXCEPT ![k] = Tail(@)],
         NEW f, f = Head(fetches[k]), NEW n, n = Len(fetches[k])
  PROVE  /\ f \in Requesting(1) /\ f.at \in Nat /\ f.at <= told
         /\ dict[k] # None => dict[k].at <= f.at
         /\ n \in Nat \ {0} /\ f = fetches[k][1]
         /\ Len(fetches'[k]) = n - 1
         /\ \A i \in 1..(n - 1) : /\ fetches'[k][i] = fetches[k][i + 1]
                                  /\ i + 1 \in 1..n
                                  /\ fetches'[k][i].at \in Nat
                                  /\ f.at <= fetches'[k][i].at
         /\ \A q \in Users : q # k => fetches'[q] = fetches[q]
<1> DEFINE R == Requesting(1)
           s == fetches[k]
           t == Tail(s)
<1>1. s \in Seq(R) /\ fetches'[k] = t /\ \A q \in Users : q # k => fetches'[q] = fetches[q]
  BY LoginParts
<1>2. /\ f \in R /\ t \in Seq(R) /\ Len(t) = n - 1 /\ n \in Nat \ {0} /\ f = s[1]
      /\ \A i \in 1..Len(t) : t[i] = s[i + 1]
  <2> HIDE DEF R, s
  <2>1. f \in R /\ t \in Seq(R) /\ Len(t) = n - 1 /\ \A i \in 1..Len(t) : t[i] = s[i + 1]
    BY <1>1, HeadTailProperties DEF s
  <2>2. n \in Nat \ {0}
    BY <1>1, EmptySeq DEF s
  <2> QED BY <1>1, <2>1, <2>2 DEF s
<1>3. ASSUME NEW i \in 1..n
      PROVE  s[i].at \in Nat
  <2>1. s[i] \in R
    BY <1>1, ElementOfSeq
  <2> QED BY <2>1 DEF Requesting
<1>4. /\ dict[k] # None => dict[k].at <= s[1].at
      /\ s[1].at <= told
      /\ \A i \in 1..n : 1 < i => s[1].at <= s[i].at
  BY <1>2 DEF LoginInv, Queued, QueuedFor
<1> HIDE DEF t, s
<1>5. \A i \in 1..(n - 1) : i + 1 \in 1..n /\ 1 < i + 1 /\ i \in 1..Len(t)
  BY <1>2
<1> QED BY <1>1, <1>2, <1>3, <1>4, <1>5 DEF s

(* The rest of the requests for a profile is in order, behind any row that *)
(* is not newer than the one that went.                                    *)
LEMMA OldestGone ==
  ASSUME LoginInv, NEW k \in Users, fetches[k] # <<>>,
         fetches' = [fetches EXCEPT ![k] = Tail(@)], UNCHANGED told,
         \A q \in Users : q # k => dict'[q] = dict[q],
         dict'[k] # None => dict'[k].at \in Nat /\ dict'[k].at <= Head(fetches[k]).at
  PROVE  Queued'
<1> DEFINE f == Head(fetches[k])
           n == Len(fetches[k])
<1>1. /\ f \in Requesting(1) /\ f.at \in Nat /\ f.at <= told
      /\ dict[k] # None => dict[k].at <= f.at
      /\ n \in Nat \ {0} /\ f = fetches[k][1]
      /\ Len(fetches'[k]) = n - 1
      /\ \A i \in 1..(n - 1) : /\ fetches'[k][i] = fetches[k][i + 1]
                               /\ i + 1 \in 1..n
                               /\ fetches'[k][i].at \in Nat
                               /\ f.at <= fetches'[k][i].at
      /\ \A q \in Users : q # k => fetches'[q] = fetches[q]
  BY OldestShape
<1>2. told \in Nat
  BY LoginParts, Parts
<1> HIDE DEF f, n
<1>3. dict'[k] # None => dict'[k].at \in Nat /\ dict'[k].at <= f.at
  BY DEF f
<1>4. dict'[k] # None => dict'[k].at <= told
  BY <1>1, <1>2, <1>3
<1>5. ASSUME NEW i \in 1..(n - 1)
      PROVE  /\ fetches'[k][i].at <= told
             /\ dict'[k] # None => dict'[k].at <= fetches'[k][i].at
             /\ \A j \in 1..(n - 1) : i < j => fetches'[k][i].at <= fetches'[k][j].at
  <2>1. /\ i + 1 \in 1..n /\ fetches'[k][i] = fetches[k][i + 1]
        /\ fetches'[k][i].at \in Nat /\ f.at <= fetches'[k][i].at
    BY <1>1
  <2>2. fetches[k][i + 1].at <= told
    BY <2>1 DEF LoginInv, Queued, QueuedFor, n
  <2>3. dict'[k] # None => dict'[k].at <= fetches'[k][i].at
    BY <1>1, <1>3, <2>1
  <2>4. ASSUME NEW j \in 1..(n - 1), i < j
        PROVE  fetches'[k][i].at <= fetches'[k][j].at
    <3>1. j + 1 \in 1..n /\ fetches'[k][j] = fetches[k][j + 1] /\ i + 1 < j + 1
      BY <1>1, <2>4
    <3>2. fetches[k][i + 1].at <= fetches[k][j + 1].at
      BY <2>1, <3>1 DEF LoginInv, Queued, QueuedFor, n
    <3> QED BY <2>1, <3>1, <3>2
  <2> QED BY <2>1, <2>2, <2>3, <2>4
<1>6. ASSUME NEW q \in Users, q # k
      PROVE  QueuedFor(q)'
  <2>1. fetches'[q] = fetches[q] /\ dict'[q] = dict[q]
    BY <1>1, <1>6
  <2> QED BY <2>1 DEF LoginInv, Queued, QueuedFor
<1>7. QueuedFor(k)'
  <2>1. Len(fetches'[k]) = n - 1
    BY <1>1
  <2> QED BY <1>4, <1>5, <2>1 DEF QueuedFor
<1> QED BY <1>6, <1>7 DEF Queued

(* What the newest request of the others and of this profile is about.     *)
LEMMA OldestCurrent ==
  ASSUME LoginInv, NEW k \in Users, fetches[k] # <<>>,
         fetches' = [fetches EXCEPT ![k] = Tail(@)],
         UNCHANGED <<auth, pend, cache>>,
         \A q \in Users : q # k => dict'[q] = dict[q],
         \A q \in Users : q # k => (q \in listeners'[1].lost <=> q \in listeners[1].lost),
         \/ k \in listeners'[1].lost
         \/ dict'[k] # None /\ dict'[k].msg = Head(fetches[k]).msg
  PROVE  \A p \in Partners : Current(p)'
<1> DEFINE f == Head(fetches[k])
           n == Len(fetches[k])
<1>1. /\ n \in Nat \ {0} /\ f = fetches[k][1]
      /\ Len(fetches'[k]) = n - 1
      /\ \A i \in 1..(n - 1) : fetches'[k][i] = fetches[k][i + 1]
      /\ \A q \in Users : q # k => fetches'[q] = fetches[q]
  BY OldestShape
<1>2. \A p \in Partners : p \in Users /\ View(auth, p)' = View(auth, p)
  BY DEF View, Users
<1> HIDE DEF f
<1>3. ASSUME NEW p \in Partners, p # k
      PROVE  Current(p)'
  <2>1. fetches'[p] = fetches[p] /\ dict'[p] = dict[p]
        /\ (p \in listeners'[1].lost <=> p \in listeners[1].lost)
    BY <1>1, <1>2, <1>3
  <2> QED BY <1>2, <2>1 DEF LoginInv, Current
<1>4. ASSUME k \in Partners, View(auth, k) # None
      PROVE  Current(k)'
  <2>1. fetches[k][n].msg = View(auth, k)
    BY <1>4 DEF LoginInv, Current
  <2> HIDE DEF n
  <2>2. CASE n = 1
    <3>1. fetches'[k] = <<>>
      <4>1. fetches'[k] \in Seq(Requesting(1)) /\ Len(fetches'[k]) = 0
        <5>1. Tail(fetches[k]) \in Seq(Requesting(1))
          BY LoginParts, HeadTailProperties
        <5> QED BY <1>1, <2>2, <5>1
      <4> QED BY <4>1, EmptySeq
    <3>2. f.msg = View(auth, k)
      BY <1>1, <2>1, <2>2
    <3> QED BY <1>2, <1>4, <3>1, <3>2 DEF Current, f
  <2>3. CASE n # 1
    <3>1. n - 1 \in 1..(n - 1) /\ n - 1 + 1 = n
      BY <1>1, <2>3
    <3>2. fetches'[k][n - 1] = fetches[k][n] /\ Len(fetches'[k]) = n - 1
      BY <1>1, <3>1
    <3>3. fetches'[k] # <<>>
      <4>1. Len(fetches'[k]) # 0
        BY <1>1, <2>3, <3>2
      <4> QED BY <4>1
    <3>4. fetches'[k][Len(fetches'[k])].msg = View(auth, k)'
      BY <1>2, <1>4, <2>1, <3>2
    <3> QED BY <3>3, <3>4 DEF Current
  <2> QED BY <2>2, <2>3
<1>5. ASSUME k \in Partners, View(auth, k) = None
      PROVE  Current(k)'
  BY <1>2, <1>5 DEF Current
<1> QED BY <1>3, <1>4, <1>5

LEMMA ListenerAlone ==
  ASSUME LoginInv
  PROVE  /\ listeners[1] \in Listener /\ Len(listeners) = 1 /\ 1 \in DOMAIN listeners
         /\ listeners \in Seq(Listener) /\ auth \in Accounts
         /\ listeners[1].of = auth /\ listeners[1].alive
<1>1. listeners \in Seq(Listener) /\ Len(listeners) = 1
  BY LoginParts
<1>2. 1 \in 1..Len(listeners)
  BY <1>1
<1>3. listeners[1] \in Listener
  BY <1>1, <1>2, ElementOfSeq
<1> QED BY <1>3, LoginParts DEF LoginInv, OneListener

LEMMA AnswerKeeps ==
  ASSUME LoginInv, NEW k \in Users, Answer(k)
  PROVE  /\ LoginInv'
         /\ \A q \in Users : dict[q] # None => dict'[q].at >= dict[q].at
<1> DEFINE f == Head(fetches[k])
           row == [msg |-> f.msg, at |-> f.at]
           l == listeners[1]
<1>1. TypeInv'
  BY LoginParts, AnswerTyped
<1>2. /\ f \in Requesting(1) /\ f.at \in Nat /\ f.at <= told
      /\ dict[k] # None => dict[k].at <= f.at
  BY OldestShape DEF Answer
<1>3. /\ l \in Listener /\ Len(listeners) = 1 /\ 1 \in DOMAIN listeners
      /\ listeners \in Seq(Listener) /\ auth \in Accounts /\ l.of = auth /\ l.alive
  BY ListenerAlone
<1>4. row \in Rows /\ row # None /\ f.by = 1
  BY <1>2, NoneAssumption DEF Requesting, Rows
<1>5. row.msg = f.msg /\ row.at = f.at
  OBVIOUS
<1>6. /\ UNCHANGED <<auth, told, remote, cache, pend>>
      /\ fetches' = [fetches EXCEPT ![k] = Tail(@)] /\ fetches[k] # <<>>
      /\ dict' = Merge(listeners'[f.by].rows, dict)
  BY DEF Answer, data
<1>7. listeners' = [listeners EXCEPT ![f.by].rows[k] = row, ![f.by].lost = @ \ {k}]
  BY DEF Answer
<1> HIDE DEF row, f
<1>8. /\ listeners'[1].of = auth /\ listeners'[1].alive
      /\ listeners'[1].rows = [l.rows EXCEPT ![k] = row]
      /\ listeners'[1].lost = l.lost \ {k}
  BY <1>3, <1>4, <1>7 DEF Listener
<1>9. Len(listeners') = 1
  BY <1>3, <1>4, <1>7
<1>10. dict \in [Users -> Rows \cup {None}] /\ dict = l.rows
  BY LoginParts, Parts
<1>11. dict' = [dict EXCEPT ![k] = row]
  <2>1. \A q \in Users : Merge(listeners'[1].rows, dict)[q] = IF q = k THEN row ELSE dict[q]
    BY <1>4, <1>8, <1>10 DEF Merge
  <2>2. Merge(listeners'[1].rows, dict) = [q \in Users |-> Merge(listeners'[1].rows, dict)[q]]
    BY DEF Merge
  <2> HIDE DEF l
  <2> QED BY <1>4, <1>6, <1>10, <2>1, <2>2
<1>12. dict'[k] = row /\ \A q \in Users : q # k => dict'[q] = dict[q]
  BY <1>10, <1>11
<1>13. OneListener'
  BY <1>3, <1>6, <1>8, <1>9, <1>10, <1>11 DEF OneListener
<1>14. Filed'
  BY <1>6 DEF LoginInv, Filed
<1>15. Queued'
  <2>1. dict'[k].at \in Nat /\ dict'[k].at <= Head(fetches[k]).at
    BY <1>2, <1>5, <1>12 DEF f
  <2> QED BY <1>6, <1>12, <2>1, OldestGone
<1>16. \A p \in Partners : Current(p)'
  BY <1>4, <1>5, <1>6, <1>8, <1>12, OldestCurrent DEF f
<1>17. \A q \in Users : dict[q] # None => dict'[q].at >= dict[q].at
  <2> SUFFICES ASSUME NEW q \in Users, dict[q] # None
               PROVE  dict'[q].at >= dict[q].at
    OBVIOUS
  <2>1. dict[q].at \in Nat
    BY <1>10 DEF Rows
  <2> QED BY <1>2, <1>5, <1>12, <2>1
<1> QED BY <1>1, <1>13, <1>14, <1>15, <1>16, <1>17 DEF LoginInv

LEMMA FailKeeps ==
  ASSUME LoginInv, NEW k \in Users, Fail(k)
  PROVE  LoginInv'
<1> DEFINE f == Head(fetches[k])
           l == listeners[1]
<1>1. TypeInv'
  BY LoginParts, FailTyped
<1>2. f \in Requesting(1) /\ f.at \in Nat /\ (dict[k] # None => dict[k].at <= f.at)
  BY OldestShape DEF Fail
<1>3. /\ l \in Listener /\ Len(listeners) = 1 /\ 1 \in DOMAIN listeners
      /\ listeners \in Seq(Listener) /\ auth \in Accounts /\ l.of = auth /\ l.alive
      /\ dict = l.rows
  BY ListenerAlone, LoginParts
<1>4. f.by = 1
  BY <1>2 DEF Requesting
<1>5. /\ UNCHANGED <<auth, dict, told, remote, cache, pend>>
      /\ fetches' = [fetches EXCEPT ![k] = Tail(@)] /\ fetches[k] # <<>>
      /\ listeners' = [listeners EXCEPT ![f.by].lost = @ \cup {k}]
  BY DEF Fail, data
<1> HIDE DEF f
<1>6. /\ listeners'[1].of = auth /\ listeners'[1].alive
      /\ listeners'[1].rows = l.rows /\ listeners'[1].lost = l.lost \cup {k}
      /\ Len(listeners') = 1
  BY <1>3, <1>4, <1>5 DEF Listener
<1>7. OneListener'
  BY <1>3, <1>5, <1>6 DEF OneListener
<1>8. Filed'
  BY <1>5 DEF LoginInv, Filed
<1>9. Queued'
  <2>1. dict[k] # None => dict[k].at \in Nat
    BY LoginParts, Parts DEF Rows
  <2> QED BY <1>2, <1>5, <2>1, OldestGone DEF f
<1>10. \A p \in Partners : Current(p)'
  BY <1>5, <1>6, OldestCurrent
<1> QED BY <1>1, <1>7, <1>8, <1>9, <1>10 DEF LoginInv

(* The app starts: a listener of its own, told of what is in sight.        *)
LEMMA RelaunchKeeps ==
  ASSUME LoginInv, Relaunch
  PROVE  LoginInv'
<1> DEFINE r(k) == [by |-> 1, msg |-> InSight(k), at |-> 1]
<1>1. TypeInv'
  BY LoginParts, RelaunchTyped
<1>2. /\ auth' = auth /\ auth \in Accounts /\ UNCHANGED <<remote, cache, pend>>
      /\ dict' = NoRows /\ told' = 1
      /\ listeners' = <<NewListener(auth)>>
      /\ fetches' = [k \in Users |-> IF InSight(k) = None THEN <<>> ELSE <<>> \o <<r(k)>>]
  BY LoginParts DEF Relaunch, Fetch, Ask, data
<1>3. OneListener'
  BY <1>2 DEF OneListener, NewListener
<1>4. Filed'
  BY <1>2 DEF LoginInv, Filed
<1>5. \A k \in Users : dict'[k] = None
  BY <1>2 DEF NoRows
<1>6. \A k \in Users : r(k).at = 1 /\ r(k).msg = InSight(k)
  OBVIOUS
<1> HIDE DEF r
<1>7. \A k \in Users : \/ InSight(k) = None /\ fetches'[k] = <<>>
                       \/ InSight(k) # None /\ fetches'[k] = <<r(k)>>
  BY <1>2
<1>8. ASSUME NEW k \in Users, NEW i \in 1..Len(fetches'[k])
      PROVE  fetches'[k][i].at = 1
  BY <1>6, <1>7
<1>9. Queued'
  BY <1>2, <1>5, <1>8 DEF Queued, QueuedFor
<1>10. ASSUME NEW p \in Partners
       PROVE  Current(p)'
  <2>1. p \in Users /\ InSight(p) = View(auth, p)'
    BY <1>2 DEF Users, InSight
  <2>2. CASE View(auth, p)' # None
    <3>1. fetches'[p] # <<>> /\ fetches'[p][Len(fetches'[p])].msg = View(auth, p)'
      BY <1>6, <1>7, <2>1, <2>2
    <3> QED BY <3>1 DEF Current
  <2>3. CASE View(auth, p)' = None
    BY <2>3 DEF Current
  <2> QED BY <2>2, <2>3
<1> QED BY <1>1, <1>3, <1>4, <1>9, <1>10 DEF LoginInv

LEMMA InitLogin ==
  ASSUME Init
  PROVE  LoginInv
<1>1. TypeInv
  BY InitTyped
<1>2. OneListener /\ Filed
  BY DEF Init, OneListener, Filed, NewListener
<1>3. \A k \in Users : dict[k] = None /\ Len(fetches[k]) = 0
  BY DEF Init, NoRows
<1>4. Queued
  BY <1>3 DEF Queued, QueuedFor
<1>5. \A p \in Partners : View(auth, p) = None
  BY DEF Init, View, ViewOf
<1> QED BY <1>1, <1>2, <1>4, <1>5 DEF LoginInv, Current

LEMMA StepLogin ==
  ASSUME LoginInv, OneLogin, [Next]_vars
  PROVE  LoginInv'
<1>1. ~SignOut /\ \A a \in Accounts : ~SignIn(a)
  BY LoginParts DEF OneLogin, SignOut, SignIn
<1>2. CASE Next
  BY <1>1, <1>2, PartnerWritesKeeps, SendKeeps, CommitKeeps, RefuseKeeps, WatchKeeps,
     AnswerKeeps, FailKeeps, RelaunchKeeps DEF Next
<1>3. CASE UNCHANGED vars
  <2>1. TypeInv'
    BY <1>3, LoginParts, StepTyped
  <2> QED BY <1>3, <2>1 DEF vars, LoginInv, OneListener, Filed, Queued, QueuedFor, Current, View
<1> QED BY <1>2, <1>3

LEMMA LoginInvariance ==
  ASSUME OneLogin
  PROVE  Spec => []LoginInv
BY InitLogin, StepLogin, PTL DEF Spec
-----------------------------------------------------------------------------
(* Within one login, when nothing is under way every conversation has a    *)
(* row that shows its recent-messages document, except where its own last  *)
(* request was not answered.                                               *)
THEOREM OneLoginCatchesUp ==
  ASSUME OneLogin
  PROVE  Spec => []CaughtUp
<1>1. LoginInv => CaughtUp
  <2> SUFFICES ASSUME LoginInv, Quiet, NEW p \in Partners,
                      remote[auth][p] # None, ~Unanswered(p)
               PROVE  dict[p] # None /\ dict[p].msg = remote[auth][p]
    BY DEF CaughtUp
  <2>1. View(auth, p) = remote[auth][p] /\ fetches[p] = <<>>
    BY DEF Quiet, View, ViewOf, Users
  <2>2. p \notin listeners[1].lost
    BY LoginParts DEF Unanswered
  <2> QED BY <2>1, <2>2 DEF LoginInv, Current
<1> QED BY <1>1, LoginInvariance, PTL

(* Within one login no row goes back to what its document said before,     *)
(* until the app is killed: answers overtake each other, and each merges   *)
(* the whole array, but the array is the dictionary.                       *)
THEOREM RowsNeverGoBack ==
  ASSUME OneLogin
  PROVE  Spec => NoRegress
<1>1. LoginInv /\ [Next]_vars =>
         [\A k \in Users : dict[k] # None =>
             \/ dict' = NoRows
             \/ dict'[k].at >= dict[k].at]_vars
  <2> SUFFICES ASSUME LoginInv, Next, NEW k \in Users, dict[k] # None, dict' # NoRows
               PROVE  dict'[k].at >= dict[k].at
    OBVIOUS
  <2>1. dict[k].at \in Nat
    BY LoginParts, Parts DEF Rows
  <2>2. dict' = dict \/ \E q \in Users : Answer(q)
    BY LoginParts DEF Next, PartnerWrites, Send, Commit, Refuse, Watch, Fail,
       SignOut, SignIn, Relaunch
  <2>3. CASE dict' = dict
    BY <2>1, <2>3
  <2>4. CASE \E q \in Users : Answer(q)
    BY <2>4, AnswerKeeps
  <2> QED BY <2>2, <2>3, <2>4
<1> QED BY <1>1, LoginInvariance, PTL DEF Spec, NoRegress
=============================================================================
