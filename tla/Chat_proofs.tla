---------------------------- MODULE Chat_proofs ----------------------------
(***************************************************************************)
(* Proofs about Chat, for any sources and any number of messages.          *)
(***************************************************************************)
EXTENDS Chat, Ordering_proofs

(***************************************************************************)
(* The order of the query.                                                 *)
(***************************************************************************)
(* No two of them have the same place in the query.                        *)
Distinct(S) == \A m1, m2 \in S : m1.at = m2.at => m1 = m2

Ascending(s) == \A i, j \in DOMAIN s : i < j => s[i].at < s[j].at

(* What InOrder makes of a set of messages.                                *)
LEMMA InOrderSorts ==
  ASSUME NEW S, IsFiniteSet(S), S \subseteq Messages, Distinct(S)
  PROVE  /\ InOrder(S) \in Seq(S)
         /\ Ascending(InOrder(S))
         /\ ToSet(InOrder(S)) = S
<1> DEFINE n == Cardinality(S)
           s == InOrder(S)
           key == [m \in S |-> m.at]
<1>1. key \in [S -> Nat] /\ \A m1, m2 \in S : key[m1] = key[m2] => m1 = m2
  BY BoundsAssumption DEF Messages, Distinct
<1>2. PICK t \in [1..n -> S] : \A i, j \in 1..n : i < j => key[t[i]] < key[t[j]]
  <2> HIDE DEF key
  <2> QED BY <1>1, OrderExists
<1>3. \A i, j \in DOMAIN t : i < j => t[i].at < t[j].at
  BY <1>2
<1>4. s \in [1..n -> S] /\ Ascending(s)
  BY <1>3 DEF InOrder, Ascending
<1>5. DOMAIN s = 1..n
  BY <1>4
<1> HIDE DEF s
<1>6. \A i, j \in 1..n : i < j => key[s[i]] < key[s[j]]
  BY <1>4, <1>5 DEF Ascending
<1>7. s \in Surjection(1..n, S)
  <2>1. n \in Nat /\ IsFiniteSet(1..n) /\ Cardinality(1..n) = n
    BY FS_CardinalityType, FS_Interval
  <2>2. \A i, j \in 1..n : s[i] = s[j] => i = j
    <3> SUFFICES ASSUME NEW i \in 1..n, NEW j \in 1..n, s[i] = s[j], i # j
                 PROVE  FALSE
      OBVIOUS
    <3>1. key[s[i]] \in Nat /\ key[s[j]] \in Nat /\ (i < j \/ j < i)
      BY <1>1, <1>4, <2>1
    <3> QED BY <1>6, <3>1
  <2>3. s \in Injection(1..n, S)
    BY <1>4, <2>2 DEF Injection, IsInjective
  <2> QED BY <2>1, <2>3, FS_Injection
<1>8. ToSet(s) = S
  BY <1>4, <1>5, <1>7 DEF ToSet, Surjection
<1>9. n \in Nat
  BY FS_CardinalityType
<1> QED BY <1>4, <1>8, <1>9 DEF s
-----------------------------------------------------------------------------
(***************************************************************************)
(* What a chat was told: the array and the snapshots on their way to it.   *)
(***************************************************************************)
SourceOrdered(s) ==
  \A i, j \in DOMAIN s : i < j /\ s[i].src = s[j].src => s[i].at < s[j].at

Before(S, T) == \A m \in S, l \in T : m.src = l.src => m.at < l.at

(* Put one behind the other they are in the order of their sources.        *)
InLine(shown, evs) ==
  /\ SourceOrdered(shown)
  /\ \A i \in 1..Len(evs) : /\ SourceOrdered(evs[i])
                            /\ Before(ToSet(shown), ToSet(evs[i]))
  /\ \A i, j \in 1..Len(evs) : i < j => Before(ToSet(evs[i]), ToSet(evs[j]))

Told(shown, evs) == ToSet(shown) \cup UNION {ToSet(evs[i]) : i \in 1..Len(evs)}

(* The members of a sequence.                                              *)
LEMMA Members ==
  ASSUME NEW U, NEW s \in Seq(U)
  PROVE  /\ DOMAIN s = 1..Len(s) /\ Len(s) \in Nat
         /\ \A i \in 1..Len(s) : s[i] \in U
         /\ ToSet(s) = {s[i] : i \in 1..Len(s)} /\ ToSet(s) \subseteq U
BY LenProperties, ElementOfSeq DEF ToSet

(* One sequence behind another.                                            *)
LEMMA Joined ==
  ASSUME NEW U, NEW s \in Seq(U), NEW t \in Seq(U),
         \A m \in U : m.at \in Nat
  PROVE  /\ s \o t \in Seq(U)
         /\ ToSet(s \o t) = ToSet(s) \cup ToSet(t)
         /\ SourceOrdered(s) /\ SourceOrdered(t) /\ Before(ToSet(s), ToSet(t))
               => SourceOrdered(s \o t)
<1>1. /\ s \o t \in Seq(U)
      /\ Len(s \o t) = Len(s) + Len(t)
      /\ \A i \in 1..Len(s) + Len(t) :
            (s \o t)[i] = IF i <= Len(s) THEN s[i] ELSE t[i - Len(s)]
  BY ConcatProperties
<1>2. /\ DOMAIN s = 1..Len(s) /\ Len(s) \in Nat
      /\ DOMAIN t = 1..Len(t) /\ Len(t) \in Nat
      /\ DOMAIN (s \o t) = 1..(Len(s) + Len(t))
      /\ ToSet(s) = {s[i] : i \in 1..Len(s)}
      /\ ToSet(t) = {t[i] : i \in 1..Len(t)}
      /\ ToSet(s \o t) = {(s \o t)[i] : i \in 1..(Len(s) + Len(t))}
  BY <1>1, Members
<1>3. ToSet(s \o t) \subseteq ToSet(s) \cup ToSet(t)
  <2> SUFFICES ASSUME NEW i \in 1..(Len(s) + Len(t))
               PROVE  (s \o t)[i] \in ToSet(s) \cup ToSet(t)
    BY <1>2
  <2>1. CASE i <= Len(s)
    <3>1. i \in 1..Len(s) /\ (s \o t)[i] = s[i]
      BY <1>1, <1>2, <2>1
    <3> QED BY <1>2, <3>1
  <2>2. CASE ~(i <= Len(s))
    <3>1. i - Len(s) \in 1..Len(t) /\ (s \o t)[i] = t[i - Len(s)]
      BY <1>1, <1>2, <2>2
    <3> QED BY <1>2, <3>1
  <2> QED BY <2>1, <2>2
<1>4. ToSet(s) \subseteq ToSet(s \o t)
  <2> SUFFICES ASSUME NEW i \in 1..Len(s)
               PROVE  s[i] \in ToSet(s \o t)
    BY <1>2
  <2>1. i \in 1..(Len(s) + Len(t)) /\ (s \o t)[i] = s[i]
    BY <1>1, <1>2
  <2> QED BY <1>2, <2>1
<1>5. ToSet(t) \subseteq ToSet(s \o t)
  <2> SUFFICES ASSUME NEW i \in 1..Len(t)
               PROVE  t[i] \in ToSet(s \o t)
    BY <1>2
  <2>1. i + Len(s) \in 1..(Len(s) + Len(t)) /\ (s \o t)[i + Len(s)] = t[i]
    BY <1>1, <1>2
  <2> QED BY <1>2, <2>1
<1>6. ASSUME SourceOrdered(s), SourceOrdered(t), Before(ToSet(s), ToSet(t))
      PROVE  SourceOrdered(s \o t)
  <2> SUFFICES ASSUME NEW i \in 1..(Len(s) + Len(t)), NEW j \in 1..(Len(s) + Len(t)),
                      i < j, (s \o t)[i].src = (s \o t)[j].src
               PROVE  (s \o t)[i].at < (s \o t)[j].at
    BY <1>2 DEF SourceOrdered
  <2>1. CASE j <= Len(s)
    <3>1. /\ i \in 1..Len(s) /\ (s \o t)[i] = s[i]
          /\ j \in 1..Len(s) /\ (s \o t)[j] = s[j]
      BY <1>1, <1>2, <2>1
    <3> QED BY <1>2, <1>6, <3>1 DEF SourceOrdered
  <2>2. CASE i <= Len(s) /\ ~(j <= Len(s))
    <3>1. /\ i \in 1..Len(s) /\ (s \o t)[i] = s[i]
          /\ j - Len(s) \in 1..Len(t) /\ (s \o t)[j] = t[j - Len(s)]
      BY <1>1, <1>2, <2>2
    <3>2. s[i] \in ToSet(s) /\ t[j - Len(s)] \in ToSet(t)
      BY <1>2, <3>1
    <3> QED BY <1>6, <3>1, <3>2 DEF Before
  <2>3. CASE ~(i <= Len(s))
    <3>1. /\ i - Len(s) \in 1..Len(t) /\ (s \o t)[i] = t[i - Len(s)]
          /\ j - Len(s) \in 1..Len(t) /\ (s \o t)[j] = t[j - Len(s)]
          /\ i - Len(s) < j - Len(s)
      BY <1>1, <1>2, <2>3
    <3> QED BY <1>2, <1>6, <3>1 DEF SourceOrdered
  <2> QED BY <2>1, <2>2, <2>3
<1> QED BY <1>1, <1>3, <1>4, <1>5, <1>6

(* One element behind a sequence.                                          *)
LEMMA Appended ==
  ASSUME NEW U, NEW s \in Seq(U), NEW e \in U, \A m \in U : m.at \in Nat
  PROVE  /\ Append(s, e) \in Seq(U) /\ Len(Append(s, e)) = Len(s) + 1
         /\ \A i \in 1..Len(s) : Append(s, e)[i] = s[i]
         /\ ToSet(Append(s, e)) = ToSet(s) \cup {e}
         /\ SourceOrdered(s) /\ Before(ToSet(s), {e}) => SourceOrdered(Append(s, e))
         /\ IsInjective(s) /\ e \notin ToSet(s) => IsInjective(Append(s, e))
<1> DEFINE t == Append(s, e)
           n == Len(s)
<1>1. /\ t \in Seq(U) /\ Len(t) = n + 1 /\ n \in Nat
      /\ \A i \in 1..n : t[i] = s[i]
      /\ t[n + 1] = e
  BY AppendProperties, LenProperties
<1>2. /\ DOMAIN s = 1..n /\ DOMAIN t = 1..(n + 1)
      /\ ToSet(s) = {s[i] : i \in 1..n}
      /\ ToSet(t) = {t[i] : i \in 1..(n + 1)}
  BY <1>1, Members
<1> HIDE DEF t
<1>3. \A i \in 1..(n + 1) : i \in 1..n \/ i = n + 1
  BY <1>1
<1>4. \A i \in 1..n : i \in 1..(n + 1) /\ i # n + 1
  BY <1>1
<1>5. n + 1 \in 1..(n + 1)
  BY <1>1
<1> HIDE DEF n
<1>6. ToSet(t) = ToSet(s) \cup {e}
  BY <1>1, <1>2, <1>3, <1>4, <1>5
<1>7. ASSUME SourceOrdered(s), Before(ToSet(s), {e})
      PROVE  SourceOrdered(t)
  <2> SUFFICES ASSUME NEW i \in 1..(n + 1), NEW j \in 1..(n + 1), i < j,
                      t[i].src = t[j].src
               PROVE  t[i].at < t[j].at
    BY <1>2 DEF SourceOrdered
  <2>1. i \in 1..n /\ t[i] = s[i] /\ s[i] \in ToSet(s)
    BY <1>1, <1>2
  <2>2. CASE j \in 1..n
    BY <1>1, <1>2, <1>7, <2>1, <2>2 DEF SourceOrdered
  <2>3. CASE j = n + 1
    BY <1>1, <1>7, <2>1, <2>3 DEF Before
  <2> QED BY <1>3, <2>2, <2>3
<1>8. ASSUME IsInjective(s), e \notin ToSet(s)
      PROVE  IsInjective(t)
  BY <1>1, <1>2, <1>3, <1>4, <1>8 DEF IsInjective
<1> QED BY <1>1, <1>6, <1>7, <1>8 DEF t, n

(* A sequence without its first element.                                   *)
LEMMA Beheaded ==
  ASSUME NEW U, NEW s \in Seq(U), s # <<>>
  PROVE  /\ Head(s) \in U /\ Tail(s) \in Seq(U)
         /\ ToSet(s) = {Head(s)} \cup ToSet(Tail(s))
         /\ SourceOrdered(s) => /\ SourceOrdered(Tail(s))
                                /\ Before({Head(s)}, ToSet(Tail(s)))
         /\ IsInjective(s) => IsInjective(Tail(s)) /\ Head(s) \notin ToSet(Tail(s))
<1> DEFINE h == Head(s)
           t == Tail(s)
           n == Len(t)
<1>1. /\ h \in U /\ h = s[1] /\ t \in Seq(U) /\ n \in Nat /\ Len(s) = n + 1
      /\ \A i \in 1..n : t[i] = s[i + 1]
  BY HeadTailProperties, LenProperties, EmptySeq
<1>2. /\ DOMAIN s = 1..(n + 1) /\ DOMAIN t = 1..n
      /\ ToSet(s) = {s[i] : i \in 1..(n + 1)}
      /\ ToSet(t) = {t[i] : i \in 1..n}
  BY <1>1, Members
<1> HIDE DEF h, t, n
<1>3. /\ 1 \in 1..(n + 1)
      /\ \A i \in 1..n : i + 1 \in 1..(n + 1) /\ 1 < i + 1 /\ i + 1 # 1
      /\ \A i, j \in 1..n : i < j => i + 1 < j + 1
      /\ \A i, j \in 1..n : i + 1 = j + 1 => i = j
  BY <1>1
<1>4. \A i \in 1..(n + 1) : i = 1 \/ (i - 1 \in 1..n /\ s[i] = t[i - 1])
  BY <1>1
<1>5. ToSet(s) = {h} \cup ToSet(t)
  <2>1. ToSet(s) \subseteq {h} \cup ToSet(t)
    BY <1>1, <1>2, <1>4
  <2>2. {h} \cup ToSet(t) \subseteq ToSet(s)
    BY <1>1, <1>2, <1>3
  <2> QED BY <2>1, <2>2
<1>6. SourceOrdered(s) => SourceOrdered(t) /\ Before({h}, ToSet(t))
  <2> SUFFICES ASSUME \A i, j \in 1..(n + 1) :
                         i < j /\ s[i].src = s[j].src => s[i].at < s[j].at
               PROVE  SourceOrdered(t) /\ Before({h}, ToSet(t))
    BY <1>2 DEF SourceOrdered
  <2>1. ASSUME NEW i \in 1..n, NEW j \in 1..n, i < j, t[i].src = t[j].src
        PROVE  t[i].at < t[j].at
    BY <1>1, <1>3, <2>1
  <2>2. ASSUME NEW i \in 1..n, h.src = t[i].src
        PROVE  h.at < t[i].at
    BY <1>1, <1>3, <2>2
  <2> QED BY <1>2, <2>1, <2>2 DEF SourceOrdered, Before
<1>7. IsInjective(s) => IsInjective(t) /\ h \notin ToSet(t)
  <2> SUFFICES ASSUME \A i, j \in 1..(n + 1) : s[i] = s[j] => i = j
               PROVE  IsInjective(t) /\ h \notin ToSet(t)
    BY <1>2 DEF IsInjective
  <2>1. ASSUME NEW i \in 1..n, NEW j \in 1..n, t[i] = t[j]
        PROVE  i = j
    BY <1>1, <1>3, <2>1
  <2>2. ASSUME NEW i \in 1..n
        PROVE  h # t[i]
    BY <1>1, <1>3
  <2> QED BY <1>2, <2>1, <2>2 DEF IsInjective
<1> QED BY <1>1, <1>5, <1>6, <1>7 DEF h, t

(* A snapshot is added to those on their way.                              *)
LEMMA EventAdded ==
  ASSUME NEW U, NEW shown \in Seq(U), NEW evs \in Seq(Seq(U)), NEW s \in Seq(U),
         InLine(shown, evs), SourceOrdered(s), Before(Told(shown, evs), ToSet(s))
  PROVE  /\ Append(evs, s) \in Seq(Seq(U))
         /\ InLine(shown, Append(evs, s))
         /\ Told(shown, Append(evs, s)) = Told(shown, evs) \cup ToSet(s)
<1> DEFINE more == Append(evs, s)
           n == Len(evs)
<1>1. /\ more \in Seq(Seq(U)) /\ Len(more) = n + 1 /\ n \in Nat
      /\ \A i \in 1..n : more[i] = evs[i]
      /\ more[n + 1] = s
  BY AppendProperties, LenProperties
<1> HIDE DEF more, n
<1>2. \A i \in 1..Len(more) : i \in 1..n \/ i = n + 1
  BY <1>1
<1>3. \A i \in 1..n : Before(ToSet(evs[i]), ToSet(s))
  BY DEF Told, Before, n
<1>4. Before(ToSet(shown), ToSet(s))
  BY DEF Told, Before
<1>5. \A i \in 1..Len(more) : SourceOrdered(more[i]) /\ Before(ToSet(shown), ToSet(more[i]))
  BY <1>1, <1>2, <1>4 DEF InLine, n
<1>6. \A i, j \in 1..Len(more) : i < j => Before(ToSet(more[i]), ToSet(more[j]))
  <2> SUFFICES ASSUME NEW i \in 1..Len(more), NEW j \in 1..Len(more), i < j
               PROVE  Before(ToSet(more[i]), ToSet(more[j]))
    OBVIOUS
  <2>1. i \in 1..n
    BY <1>1
  <2>2. CASE j \in 1..n
    BY <1>1, <2>1, <2>2 DEF InLine, n
  <2>3. CASE j = n + 1
    BY <1>1, <1>3, <2>1, <2>3
  <2> QED BY <1>2, <2>2, <2>3
<1>7. InLine(shown, more)
  BY <1>5, <1>6 DEF InLine
<1>8. Told(shown, more) = Told(shown, evs) \cup ToSet(s)
  <2>1. Told(shown, more) \subseteq Told(shown, evs) \cup ToSet(s)
    BY <1>1, <1>2 DEF Told, n
  <2>2. Told(shown, evs) \subseteq Told(shown, more)
    <3>1. \A i \in 1..n : i \in 1..Len(more)
      BY <1>1
    <3> QED BY <1>1, <3>1 DEF Told, n
  <2>3. ToSet(s) \subseteq Told(shown, more)
    <3>1. n + 1 \in 1..Len(more)
      BY <1>1
    <3> QED BY <1>1, <3>1 DEF Told
  <2> QED BY <2>1, <2>2, <2>3
<1> QED BY <1>1, <1>7, <1>8 DEF more

(* The oldest snapshot on its way is shown.                                *)
LEMMA EventShown ==
  ASSUME NEW U, NEW shown \in Seq(U), NEW evs \in Seq(Seq(U)), evs # <<>>,
         \A m \in U : m.at \in Nat,
         InLine(shown, evs)
  PROVE  /\ shown \o Head(evs) \in Seq(U)
         /\ Tail(evs) \in Seq(Seq(U))
         /\ InLine(shown \o Head(evs), Tail(evs))
         /\ Told(shown \o Head(evs), Tail(evs)) = Told(shown, evs)
<1> DEFINE h == Head(evs)
           rest == Tail(evs)
<1>1. /\ h \in Seq(U) /\ h = evs[1] /\ 1 \in 1..Len(evs)
      /\ rest \in Seq(Seq(U)) /\ Len(rest) = Len(evs) - 1 /\ Len(evs) \in Nat
      /\ \A i \in 1..Len(rest) : rest[i] = evs[i + 1]
  BY HeadTailProperties, LenProperties, EmptySeq
<1> HIDE DEF h, rest
<1>2. /\ shown \o h \in Seq(U)
      /\ ToSet(shown \o h) = ToSet(shown) \cup ToSet(h)
      /\ SourceOrdered(shown \o h)
  BY <1>1, Joined DEF InLine
<1>3. \A i \in 1..Len(rest) : i + 1 \in 1..Len(evs) /\ 1 < i + 1
  BY <1>1
<1>4. \A i \in 1..Len(rest) : SourceOrdered(rest[i])
                               /\ Before(ToSet(shown), ToSet(rest[i]))
                               /\ Before(ToSet(h), ToSet(rest[i]))
  BY <1>1, <1>3 DEF InLine
<1>5. \A i \in 1..Len(rest) : Before(ToSet(shown \o h), ToSet(rest[i]))
  BY <1>2, <1>4 DEF Before
<1>6. \A i, j \in 1..Len(rest) : i < j => Before(ToSet(rest[i]), ToSet(rest[j]))
  <2> SUFFICES ASSUME NEW i \in 1..Len(rest), NEW j \in 1..Len(rest), i < j
               PROVE  Before(ToSet(rest[i]), ToSet(rest[j]))
    OBVIOUS
  <2>1. i + 1 < j + 1
    BY <1>1
  <2> QED BY <1>1, <1>3, <2>1 DEF InLine
<1>7. InLine(shown \o h, rest)
  BY <1>2, <1>4, <1>5, <1>6 DEF InLine
<1>8. UNION {ToSet(evs[i]) : i \in 1..Len(evs)}
        = ToSet(h) \cup UNION {ToSet(rest[i]) : i \in 1..Len(rest)}
  <2>1. \A i \in 1..Len(evs) : i = 1 \/ (i - 1 \in 1..Len(rest) /\ rest[i - 1] = evs[i])
    BY <1>1
  <2>2. ASSUME NEW i \in 1..Len(evs), NEW m \in ToSet(evs[i])
        PROVE  m \in ToSet(h) \/ \E j \in 1..Len(rest) : m \in ToSet(rest[j])
    BY <1>1, <2>1, <2>2
  <2>3. \A j \in 1..Len(rest) : ToSet(rest[j]) = ToSet(evs[j + 1])
    BY <1>1
  <2>4. UNION {ToSet(evs[i]) : i \in 1..Len(evs)}
          \subseteq ToSet(h) \cup UNION {ToSet(rest[i]) : i \in 1..Len(rest)}
    BY <2>2
  <2>5. ToSet(h) \cup UNION {ToSet(rest[i]) : i \in 1..Len(rest)}
          \subseteq UNION {ToSet(evs[i]) : i \in 1..Len(evs)}
    BY <1>1, <1>3, <2>3
  <2> QED BY <2>4, <2>5
<1>9. Told(shown \o h, rest) = Told(shown, evs)
  BY <1>2, <1>8 DEF Told
<1> QED BY <1>1, <1>2, <1>7, <1>9 DEF h, rest

-----------------------------------------------------------------------------
(***************************************************************************)
(* The inductive invariant.                                                *)
(***************************************************************************)
(* Messages of this device; what the watch stream brought.                 *)
Own == {m \in made : m.src = Here}
Brought == {log[i] : i \in 1..seen}

(* What was written has places of its own, and the collection and the      *)
(* queue keep the order of every source.                                   *)
WrittenInOrder ==
  /\ IsFiniteSet(made) /\ Distinct(made)
  /\ SourceOrdered(log)
  /\ SourceOrdered(pending)
  /\ ToSet(pending) \subseteq Own
  /\ Before(ToSet(log), ToSet(pending))

(* A chat was told of others what the watch stream brought, and nothing    *)
(* but what it shall show and what was refused.                            *)
ToldInView ==
  /\ Told(messages, events) \ Own \subseteq Brought
  /\ open => /\ View \subseteq Told(messages, events)
             /\ Told(messages, events) \ View \subseteq refused

IInv ==
  /\ TypeOK
  /\ WrittenInOrder
  /\ InLine(messages, events)
  /\ ToldInView


(* What the invariant says of the variables.                               *)
LEMMA Shapes ==
  ASSUME IInv
  PROVE  /\ made \subseteq Messages
         /\ \A m \in made : m \in Messages /\ m.at \in Nat
         /\ DOMAIN log = 1..Len(log) /\ Len(log) \in Nat
         /\ \A i \in 1..Len(log) : log[i] \in made
         /\ ToSet(log) = {log[i] : i \in 1..Len(log)} /\ ToSet(log) \subseteq made
         /\ DOMAIN pending = 1..Len(pending) /\ Len(pending) \in Nat
         /\ \A i \in 1..Len(pending) : pending[i] \in made
         /\ ToSet(pending) = {pending[i] : i \in 1..Len(pending)}
         /\ ToSet(pending) \subseteq made
         /\ \A i \in 1..seen : i \in 1..Len(log)
         /\ Brought \subseteq ToSet(log)
         /\ View = Brought \cup (ToSet(log) \cap Own) \cup ToSet(pending)
         /\ View \subseteq made
<1>1. made \subseteq Messages /\ \A m \in made : m \in Messages /\ m.at \in Nat
  BY BoundsAssumption DEF IInv, TypeOK, Messages
<1>2. /\ DOMAIN log = 1..Len(log) /\ Len(log) \in Nat
      /\ \A i \in 1..Len(log) : log[i] \in made
      /\ ToSet(log) = {log[i] : i \in 1..Len(log)} /\ ToSet(log) \subseteq made
  BY Members DEF IInv, TypeOK
<1>3. /\ DOMAIN pending = 1..Len(pending) /\ Len(pending) \in Nat
      /\ \A i \in 1..Len(pending) : pending[i] \in made
      /\ ToSet(pending) = {pending[i] : i \in 1..Len(pending)}
      /\ ToSet(pending) \subseteq made
  BY Members DEF IInv, TypeOK
<1>4. \A i \in 1..seen : i \in 1..Len(log)
  BY <1>2 DEF IInv, TypeOK
<1>5. Brought \subseteq ToSet(log)
  BY <1>2, <1>4 DEF Brought
<1>6. View = Brought \cup (ToSet(log) \cap Own) \cup ToSet(pending)
  BY <1>2 DEF View, Brought, Own
<1> QED BY <1>1, <1>2, <1>3, <1>4, <1>5, <1>6

(* A snapshot tells an open chat what became visible.                      *)
LEMMA TellKeeps ==
  ASSUME IInv, Tell, UNCHANGED <<open, messages>>,
         made \subseteq made', made' \subseteq Messages,
         IsFiniteSet(made'), Distinct(made'),
         NEW A, A = View' \ View, A \subseteq made',
         Before(Told(messages, events), A)
  PROVE  /\ events' \in Seq(Seq(made'))
         /\ messages' \in Seq(made')
         /\ InLine(messages', events')
         /\ Told(messages', events') =
               IF open THEN Told(messages, events) \cup A ELSE Told(messages, events)
<1>1. messages \in Seq(made') /\ events \in Seq(Seq(made'))
  <2>1. Seq(made) \subseteq Seq(made')
    BY SeqMonotonic
  <2> QED BY <2>1, SeqMonotonic DEF IInv, TypeOK
<1>2. InLine(messages, events)
  BY DEF IInv
<1>3. IsFiniteSet(A) /\ A \subseteq Messages /\ Distinct(A)
  BY FS_Subset DEF Distinct
<1>4. InOrder(A) \in Seq(A) /\ Ascending(InOrder(A)) /\ ToSet(InOrder(A)) = A
  BY <1>3, InOrderSorts
<1>5. InOrder(A) \in Seq(made') /\ SourceOrdered(InOrder(A))
  BY <1>4, SeqMonotonic DEF Ascending, SourceOrdered
<1>6. CASE A # {} /\ open
  <2>1. events' = Append(events, InOrder(A))
    BY <1>6 DEF Tell
  <2>2. /\ Append(events, InOrder(A)) \in Seq(Seq(made'))
        /\ InLine(messages, Append(events, InOrder(A)))
        /\ Told(messages, Append(events, InOrder(A))) = Told(messages, events) \cup A
    <3> DEFINE s == InOrder(A)
    <3>1. Before(Told(messages, events), ToSet(s)) /\ ToSet(s) = A
      BY <1>4
    <3>2. s \in Seq(made') /\ SourceOrdered(s)
      BY <1>5
    <3> HIDE DEF s
    <3> DEFINE U == made'
    <3>3. messages \in Seq(U) /\ events \in Seq(Seq(U)) /\ s \in Seq(U)
      BY <1>1, <3>2
    <3> HIDE DEF U
    <3>4. SourceOrdered(s)
      BY <3>2
    <3>5. Before(Told(messages, events), ToSet(s))
      BY <3>1
    <3>6. /\ Append(events, s) \in Seq(Seq(U))
          /\ InLine(messages, Append(events, s))
          /\ Told(messages, Append(events, s)) = Told(messages, events) \cup ToSet(s)
      BY <1>2, <3>3, <3>4, <3>5, EventAdded
    <3> QED BY <3>1, <3>6 DEF s, U
  <2> QED BY <1>1, <1>6, <2>1, <2>2
<1>7. CASE ~(A # {} /\ open)
  <2>1. events' = events
    BY <1>7 DEF Tell
  <2> QED BY <1>1, <1>2, <1>7, <2>1
<1> QED BY <1>6, <1>7

(* A new message is not made yet, and the newest of its source.            *)
LEMMA MakeKeeps ==
  ASSUME IInv, NEW m \in Messages, Make(m)
  PROVE  /\ m \notin made /\ m \in made' /\ made \subseteq made'
         /\ made' = made \cup {m} /\ made' \subseteq Messages
         /\ IsFiniteSet(made') /\ Distinct(made')
         /\ \A l \in made : l.src = m.src => l.at < m.at
<1>1. m \notin made /\ made' = made \cup {m}
  BY DEF Make
<1>2. IsFiniteSet(made')
  BY <1>1, FS_AddElement DEF IInv, WrittenInOrder
<1>3. Distinct(made')
  BY <1>1 DEF IInv, WrittenInOrder, Distinct, Make
<1> QED BY <1>1, <1>2, <1>3, Shapes DEF Make

(* What the chat was told was made.                                        *)
LEMMA Heard ==
  ASSUME IInv
  PROVE  Told(messages, events) \subseteq made
<1>1. ToSet(messages) \subseteq made
  BY Members DEF IInv, TypeOK
<1>2. \A i \in 1..Len(events) : events[i] \in Seq(made)
  BY Members DEF IInv, TypeOK
<1>3. \A i \in 1..Len(events) : ToSet(events[i]) \subseteq made
  BY <1>2, Members
<1> QED BY <1>1, <1>3 DEF Told

(* uploadMessage, the own copy.                                            *)
LEMMA WriteKeeps ==
  ASSUME IInv, NEW m \in Messages, Write(m)
  PROVE  IInv'
<1> DEFINE A == View' \ View
<1>1. /\ m.src = Here /\ Make(m) /\ Tell
      /\ pending' = Append(pending, m)
      /\ UNCHANGED <<log, seen, refused, open, messages>>
  BY DEF Write
<1>2. /\ m \notin made /\ m \in made' /\ made \subseteq made'
      /\ made' = made \cup {m} /\ made' \subseteq Messages
      /\ IsFiniteSet(made') /\ Distinct(made')
      /\ \A l \in made : l.src = m.src => l.at < m.at
  BY <1>1, MakeKeeps
<1>3. \A l \in made' : l.at \in Nat
  BY <1>2, BoundsAssumption DEF Messages
<1>4. /\ pending \in Seq(made') /\ log \in Seq(made')
      /\ IsInjective(pending) /\ SourceOrdered(pending)
  BY <1>2, SeqMonotonic DEF IInv, TypeOK, WrittenInOrder
<1>5. /\ pending' \in Seq(made') /\ ToSet(pending') = ToSet(pending) \cup {m}
      /\ IsInjective(pending') /\ SourceOrdered(pending')
  <2>1. m \notin ToSet(pending) /\ Before(ToSet(pending), {m})
    BY <1>2, Shapes DEF Before
  <2>2. IsInjective(pending) /\ SourceOrdered(pending)
    BY <1>4
  <2> DEFINE U == made'
             t == Append(pending, m)
  <2>3. pending \in Seq(U) /\ m \in U /\ \A l \in U : l.at \in Nat
    BY <1>2, <1>3, <1>4
  <2> HIDE DEF U
  <2>4. /\ t \in Seq(U) /\ ToSet(t) = ToSet(pending) \cup {m}
        /\ SourceOrdered(t) /\ IsInjective(t)
    BY <2>1, <2>2, <2>3, Appended
  <2> QED BY <1>1, <2>4 DEF U
<1>6. View' = View \cup {m} /\ A = {m}
  <2>1. View' = View \cup {m}
    BY <1>1, <1>5 DEF View
  <2>2. m \notin View
    BY <1>2, Shapes
  <2> QED BY <2>1, <2>2
<1>7. Told(messages, events) \subseteq made
  BY Heard
<1>8. Before(Told(messages, events), A)
  BY <1>2, <1>6, <1>7 DEF Before
<1> HIDE DEF A
<1>9. /\ events' \in Seq(Seq(made'))
      /\ messages' \in Seq(made')
      /\ InLine(messages', events')
      /\ Told(messages', events') =
            IF open THEN Told(messages, events) \cup A ELSE Told(messages, events)
  BY <1>1, <1>2, <1>6, <1>8, TellKeeps DEF A
<1>10. TypeOK'
  <2>1. ToSet(log') = ToSet(log) /\ refused' = refused /\ m \notin refused
        /\ m \notin ToSet(log)
    BY <1>1, <1>2, Shapes DEF IInv, TypeOK
  <2> QED BY <1>1, <1>2, <1>4, <1>5, <1>9, <2>1 DEF IInv, TypeOK
<1>11. WrittenInOrder'
  <2>1. ToSet(pending') \subseteq Own'
    BY <1>1, <1>2, <1>5 DEF IInv, WrittenInOrder, Own
  <2>2. Before(ToSet(log'), ToSet(pending'))
    BY <1>1, <1>2, <1>5, Shapes DEF IInv, WrittenInOrder, Before
  <2> QED BY <1>1, <1>2, <1>5, <2>1, <2>2 DEF IInv, WrittenInOrder
<1>12. ToldInView'
  <2>1. Own' = Own \cup {m} /\ Brought' = Brought
    BY <1>1, <1>2 DEF Own, Brought
  <2> QED BY <1>1, <1>6, <1>9, <2>1 DEF IInv, ToldInView
<1> QED BY <1>9, <1>10, <1>11, <1>12 DEF IInv

(* A message of another device: nothing here changes yet.                  *)
LEMMA ArriveKeeps ==
  ASSUME IInv, NEW m \in Messages, Arrive(m)
  PROVE  IInv'
<1>1. /\ m.src # Here /\ Make(m)
      /\ log' = Append(log, m)
      /\ UNCHANGED <<seen, pending, refused, open, events, messages>>
  BY DEF Arrive
<1>2. /\ m \notin made /\ m \in made' /\ made \subseteq made'
      /\ made' = made \cup {m} /\ made' \subseteq Messages
      /\ IsFiniteSet(made') /\ Distinct(made')
      /\ \A l \in made : l.src = m.src => l.at < m.at
  BY <1>1, MakeKeeps
<1>3. \A l \in made' : l.at \in Nat
  BY <1>2, BoundsAssumption DEF Messages
<1>4. /\ pending \in Seq(made') /\ log \in Seq(made') /\ messages \in Seq(made')
      /\ events \in Seq(Seq(made'))
  <2>1. Seq(made) \subseteq Seq(made')
    BY <1>2, SeqMonotonic
  <2> QED BY <2>1, SeqMonotonic DEF IInv, TypeOK
<1>5. /\ log' \in Seq(made') /\ ToSet(log') = ToSet(log) \cup {m}
      /\ IsInjective(log') /\ SourceOrdered(log')
      /\ Len(log') = Len(log) + 1
      /\ \A i \in 1..Len(log) : log'[i] = log[i]
  <2>1. m \notin ToSet(log) /\ Before(ToSet(log), {m})
    BY <1>2, Shapes DEF Before
  <2>2. IsInjective(log) /\ SourceOrdered(log)
    BY DEF IInv, TypeOK, WrittenInOrder
  <2> DEFINE U == made'
             t == Append(log, m)
  <2>3. log \in Seq(U) /\ m \in U /\ \A l \in U : l.at \in Nat
    BY <1>2, <1>3, <1>4
  <2> HIDE DEF U
  <2>4. /\ t \in Seq(U) /\ Len(t) = Len(log) + 1
        /\ \A i \in 1..Len(log) : t[i] = log[i]
        /\ ToSet(t) = ToSet(log) \cup {m}
        /\ SourceOrdered(t) /\ IsInjective(t)
    BY <2>1, <2>2, <2>3, Appended
  <2> QED BY <1>1, <2>4 DEF U
<1>6. Brought' = Brought /\ Own' = Own
  <2>1. Brought' = Brought
    BY <1>1, <1>5, Shapes DEF Brought
  <2> QED BY <1>1, <1>2, <2>1 DEF Own
<1>7. View' = View
  BY <1>1, <1>5, <1>6 DEF View, Brought
<1>8. TypeOK'
  <2>1. seen' \in 0..Len(log')
    BY <1>1, <1>5, Shapes DEF IInv, TypeOK
  <2>2. m \notin ToSet(pending) /\ m \notin refused
    BY <1>2, Shapes DEF IInv, TypeOK
  <2>3. ToSet(log') \cap (ToSet(pending') \cup refused') = {}
    BY <1>1, <1>5, <2>2 DEF IInv, TypeOK
  <2> QED BY <1>1, <1>2, <1>4, <1>5, <2>1, <2>3 DEF IInv, TypeOK
<1>9. WrittenInOrder'
  <2>1. Before(ToSet(log'), ToSet(pending'))
    BY <1>1, <1>5 DEF IInv, WrittenInOrder, Before, Own
  <2> QED BY <1>1, <1>2, <1>5, <1>6, <2>1 DEF IInv, WrittenInOrder
<1>10. InLine(messages, events)' /\ ToldInView'
  BY <1>1, <1>6, <1>7 DEF IInv, ToldInView
<1> QED BY <1>8, <1>9, <1>10 DEF IInv

(* No snapshot on its way.                                                 *)
LEMMA NoEvents ==
  ASSUME NEW U, NEW shown \in Seq(U), SourceOrdered(shown)
  PROVE  <<>> \in Seq(Seq(U)) /\ InLine(shown, <<>>) /\ Told(shown, <<>>) = ToSet(shown)
<1>1. Len(<<>>) = 0 /\ 1..0 = {}
  OBVIOUS
<1> QED BY <1>1 DEF InLine, Told

(* A new controller: everything in sight, in one snapshot.                 *)
LEMMA OpenKeeps ==
  ASSUME IInv, Open
  PROVE  IInv'
<1>1. /\ open' = TRUE /\ messages' = <<>>
      /\ events' = IF View = {} THEN <<>> ELSE <<InOrder(View)>>
      /\ UNCHANGED <<made, log, seen, pending, refused>>
  BY DEF Open, remote
<1>2. /\ <<>> \in Seq(made) /\ <<>> \in Seq(Seq(made))
      /\ SourceOrdered(<<>>) /\ ToSet(<<>>) = {}
  BY DEF SourceOrdered, ToSet
<1>3. InLine(<<>>, <<>>) /\ Told(<<>>, <<>>) = {}
  BY <1>2, NoEvents
<1>4. /\ events' \in Seq(Seq(made))
      /\ InLine(messages', events')
      /\ Told(messages', events') = View
  <2>1. CASE View = {}
    BY <1>1, <1>2, <1>3, <2>1
  <2>2. CASE View # {}
    <3> DEFINE s == InOrder(View)
    <3>1. IsFiniteSet(View) /\ View \subseteq Messages /\ Distinct(View)
      BY Shapes, FS_Subset DEF IInv, WrittenInOrder, Distinct
    <3>2. s \in Seq(View) /\ Ascending(s) /\ ToSet(s) = View
      BY <3>1, InOrderSorts
    <3>3. s \in Seq(made)
      BY <3>2, Shapes, SeqMonotonic
    <3>4. SourceOrdered(s)
      BY <3>2 DEF Ascending, SourceOrdered
    <3> HIDE DEF s
    <3>5. Before(Told(<<>>, <<>>), ToSet(s))
      BY <1>3 DEF Before
    <3> DEFINE a == <<>>
               b == <<>>
    <3>6. a \in Seq(made) /\ b \in Seq(Seq(made))
      BY <1>2
    <3>7. InLine(a, b)
      BY <1>3
    <3>8. Before(Told(a, b), ToSet(s))
      BY <3>5
    <3>9. messages' = a /\ events' = Append(b, s) /\ Told(a, b) = {}
      BY <1>1, <1>3, <2>2 DEF s
    <3> HIDE DEF a, b
    <3>10. /\ Append(b, s) \in Seq(Seq(made))
           /\ InLine(a, Append(b, s))
           /\ Told(a, Append(b, s)) = Told(a, b) \cup ToSet(s)
      BY <3>3, <3>4, <3>6, <3>7, <3>8, EventAdded
    <3> QED BY <3>2, <3>9, <3>10
  <2> QED BY <2>1, <2>2
<1>5. Own' = Own /\ Brought' = Brought /\ View' = View
  BY <1>1 DEF Own, Brought, View
<1>6. TypeOK' /\ WrittenInOrder'
  BY <1>1, <1>2, <1>4, <1>5 DEF IInv, TypeOK, WrittenInOrder
<1>7. View \ Own \subseteq Brought
  BY Shapes DEF IInv, WrittenInOrder
<1>8. ToldInView'
  BY <1>4, <1>5, <1>7 DEF ToldInView
<1> QED BY <1>4, <1>6, <1>8 DEF IInv

(* The chat is left: what it shows is not looked at any more.              *)
LEMMA CloseKeeps ==
  ASSUME IInv, Close
  PROVE  IInv'
<1>1. /\ open' = FALSE /\ events' = <<>>
      /\ UNCHANGED <<messages, made, log, seen, pending, refused>>
  BY DEF Close, remote
<1>2. messages \in Seq(made) /\ SourceOrdered(messages)
  BY DEF IInv, TypeOK, InLine
<1>3. events' \in Seq(Seq(made)) /\ InLine(messages', events')
      /\ Told(messages', events') = ToSet(messages)
  BY <1>1, <1>2, NoEvents
<1>4. Own' = Own /\ Brought' = Brought
  BY <1>1 DEF Own, Brought
<1>5. TypeOK' /\ WrittenInOrder'
  BY <1>1, <1>3, <1>4 DEF IInv, TypeOK, WrittenInOrder
<1>6. ToldInView'
  BY <1>1, <1>3, <1>4 DEF IInv, ToldInView, Told
<1> QED BY <1>3, <1>5, <1>6 DEF IInv

(* The oldest write in the queue, and the others.                          *)
LEMMA OldestPending ==
  ASSUME IInv, pending # <<>>
  PROVE  LET h == Head(pending)
         IN  /\ h \in Own /\ h \in made
             /\ Tail(pending) \in Seq(made) /\ IsInjective(Tail(pending))
             /\ SourceOrdered(Tail(pending))
             /\ ToSet(pending) = {h} \cup ToSet(Tail(pending))
             /\ h \notin ToSet(Tail(pending))
             /\ Before({h}, ToSet(Tail(pending)))
             /\ h \notin ToSet(log) /\ h \notin refused
<1>1. pending \in Seq(made) /\ IsInjective(pending) /\ SourceOrdered(pending)
      /\ ToSet(pending) \subseteq Own
  BY DEF IInv, TypeOK, WrittenInOrder
<1>2. /\ Head(pending) \in made /\ Tail(pending) \in Seq(made)
      /\ ToSet(pending) = {Head(pending)} \cup ToSet(Tail(pending))
      /\ SourceOrdered(Tail(pending)) /\ Before({Head(pending)}, ToSet(Tail(pending)))
      /\ IsInjective(Tail(pending)) /\ Head(pending) \notin ToSet(Tail(pending))
  BY <1>1, Beheaded
<1> QED BY <1>1, <1>2 DEF IInv, TypeOK

(* The server takes the oldest write: nothing changes in sight.            *)
LEMMA CommitKeeps ==
  ASSUME IInv, Commit
  PROVE  IInv'
<1> DEFINE h == Head(pending)
<1>1. /\ pending # <<>> /\ log' = Append(log, h) /\ pending' = Tail(pending)
      /\ UNCHANGED <<made, seen, refused, open, events, messages>>
  BY DEF Commit
<1>2. /\ h \in Own /\ h \in made
      /\ Tail(pending) \in Seq(made) /\ IsInjective(Tail(pending))
      /\ SourceOrdered(Tail(pending))
      /\ ToSet(pending) = {h} \cup ToSet(Tail(pending))
      /\ h \notin ToSet(Tail(pending))
      /\ Before({h}, ToSet(Tail(pending)))
      /\ h \notin ToSet(log) /\ h \notin refused
  BY <1>1, OldestPending
<1> HIDE DEF h
<1>3. /\ log' \in Seq(made) /\ Len(log') = Len(log) + 1
      /\ \A i \in 1..Len(log) : log'[i] = log[i]
      /\ ToSet(log') = ToSet(log) \cup {h}
      /\ SourceOrdered(log') /\ IsInjective(log')
  <2>1. log \in Seq(made) /\ SourceOrdered(log) /\ IsInjective(log)
        /\ Before(ToSet(log), ToSet(pending))
    BY DEF IInv, TypeOK, WrittenInOrder
  <2>2. Before(ToSet(log), {h}) /\ \A m \in made : m.at \in Nat
    BY <1>2, <2>1, Shapes DEF Before
  <2> QED BY <1>1, <1>2, <2>1, <2>2, Appended
<1>4. Own' = Own /\ Brought' = Brought
  BY <1>1, <1>3, Shapes DEF Own, Brought
<1>5. View' = View
  <2>1. View' = Brought' \cup {m \in ToSet(log') : m.src = Here} \cup ToSet(pending')
    BY DEF View, Brought
  <2>2. h.src = Here
    BY <1>2 DEF Own
  <2> QED BY <1>1, <1>2, <1>3, <1>4, <2>1, <2>2 DEF View, Brought
<1>6. TypeOK'
  <2>1. seen' \in 0..Len(log')
    BY <1>1, <1>3, Shapes DEF IInv, TypeOK
  <2>2. /\ ToSet(log') \cap (ToSet(pending') \cup refused') = {}
        /\ ToSet(pending') \cap refused' = {}
    BY <1>1, <1>2, <1>3 DEF IInv, TypeOK
  <2> QED BY <1>1, <1>2, <1>3, <2>1, <2>2 DEF IInv, TypeOK
<1>7. WrittenInOrder'
  <2>1. Before(ToSet(log'), ToSet(pending'))
    BY <1>1, <1>2, <1>3 DEF IInv, WrittenInOrder, Before
  <2>2. ToSet(pending') \subseteq Own'
    BY <1>1, <1>2, <1>4 DEF IInv, WrittenInOrder
  <2> QED BY <1>1, <1>2, <1>3, <2>1, <2>2 DEF IInv, WrittenInOrder
<1>8. InLine(messages, events)' /\ ToldInView'
  BY <1>1, <1>4, <1>5 DEF IInv, ToldInView
<1> QED BY <1>6, <1>7, <1>8 DEF IInv

(* The server refuses the oldest write: it leaves the view, not the array. *)
LEMMA RefuseKeeps ==
  ASSUME IInv, Refuse
  PROVE  IInv'
<1> DEFINE h == Head(pending)
<1>1. /\ pending # <<>> /\ refused' = refused \cup {h} /\ pending' = Tail(pending)
      /\ UNCHANGED <<made, log, seen, open, events, messages>>
  BY DEF Refuse
<1>2. /\ h \in Own /\ h \in made
      /\ Tail(pending) \in Seq(made) /\ IsInjective(Tail(pending))
      /\ SourceOrdered(Tail(pending))
      /\ ToSet(pending) = {h} \cup ToSet(Tail(pending))
      /\ h \notin ToSet(Tail(pending))
      /\ h \notin ToSet(log)
  BY <1>1, OldestPending
<1> HIDE DEF h
<1>3. Own' = Own /\ Brought' = Brought
  BY <1>1 DEF Own, Brought
<1>4. View' \subseteq View /\ View \subseteq View' \cup {h}
  BY <1>1, <1>2 DEF View
<1>5. TypeOK'
  <2>1. /\ ToSet(log') \cap (ToSet(pending') \cup refused') = {}
        /\ ToSet(pending') \cap refused' = {}
    BY <1>1, <1>2 DEF IInv, TypeOK
  <2> QED BY <1>1, <1>2, <2>1 DEF IInv, TypeOK
<1>6. WrittenInOrder'
  <2>1. Before(ToSet(log'), ToSet(pending')) /\ ToSet(pending') \subseteq Own'
    BY <1>1, <1>2, <1>3 DEF IInv, WrittenInOrder, Before
  <2> QED BY <1>1, <1>2, <2>1 DEF IInv, WrittenInOrder
<1>7. InLine(messages, events)' /\ ToldInView'
  BY <1>1, <1>3, <1>4 DEF IInv, ToldInView
<1> QED BY <1>5, <1>6, <1>7 DEF IInv

(* A snapshot of the server: what others wrote since the last one is newer *)
(* than what they wrote before.                                            *)
LEMMA WatchKeeps ==
  ASSUME IInv, Watch
  PROVE  IInv'
<1> DEFINE A == View' \ View
<1>1. /\ seen < Len(log) /\ seen' \in (seen + 1)..Len(log) /\ Tell
      /\ UNCHANGED <<made, log, pending, refused, open, messages>>
  BY DEF Watch
<1>2. /\ Len(log) \in Nat /\ seen \in Nat /\ seen' \in 0..Len(log)
      /\ DOMAIN log = 1..Len(log)
      /\ \A i \in 1..seen' : i \in 1..Len(log)
      /\ \A i \in 1..seen : i \in 1..seen' /\ i \in 1..Len(log)
      /\ \A i \in 1..seen, j \in 1..seen' : j \notin 1..seen => i < j
  BY <1>1, Shapes DEF IInv, TypeOK
<1>3. Own' = Own /\ Brought \subseteq Brought'
  BY <1>1, <1>2 DEF Own, Brought
<1>4. View \subseteq View' /\ View' \subseteq View \cup Brought'
  BY <1>1, <1>2 DEF View, Brought
<1>5. Brought' \subseteq made /\ A \subseteq made
  <2>1. Brought' \subseteq made
    BY <1>1, <1>2, Shapes DEF Brought
  <2> QED BY <1>4, <2>1
<1>6. \A m \in A : m \in Brought' /\ m.src # Here
  <2>1. \A m \in A : m \in Brought'
    BY <1>4
  <2>2. \A m \in Brought' : m \in ToSet(log)
    BY <1>1, <1>2 DEF Brought, ToSet
  <2>3. \A m \in ToSet(log) : m.src = Here => m \in View
    BY DEF View
  <2> QED BY <2>1, <2>2, <2>3
<1>7. Before(Told(messages, events), A)
  <2> SUFFICES ASSUME NEW m \in Told(messages, events), NEW l \in A, m.src = l.src
               PROVE  m.at < l.at
    BY DEF Before
  <2>1. l \in Brought' /\ m.src # Here
    BY <1>6
  <2>2. m \in Brought
    BY <2>1 DEF IInv, ToldInView, Own
  <2>3. PICK i \in 1..seen : m = log[i]
    BY <2>2 DEF Brought
  <2>4. PICK j \in 1..seen' : l = log[j]
    BY <1>1, <2>1 DEF Brought
  <2>5. j \notin 1..seen
    BY <2>4 DEF View
  <2>6. i < j /\ i \in DOMAIN log /\ j \in DOMAIN log
    BY <1>2, <2>3, <2>4, <2>5
  <2> QED BY <2>3, <2>4, <2>6 DEF IInv, WrittenInOrder, SourceOrdered
<1> HIDE DEF A
<1>8. /\ events' \in Seq(Seq(made'))
      /\ messages' \in Seq(made')
      /\ InLine(messages', events')
      /\ Told(messages', events') =
            IF open THEN Told(messages, events) \cup A ELSE Told(messages, events)
  <2>1. made' \subseteq Messages /\ IsFiniteSet(made') /\ Distinct(made')
        /\ made \subseteq made'
    BY <1>1, Shapes DEF IInv, WrittenInOrder
  <2> QED BY <1>1, <1>5, <1>7, <2>1, TellKeeps DEF A
<1>9. TypeOK'
  BY <1>1, <1>2, <1>8 DEF IInv, TypeOK
<1>10. WrittenInOrder'
  BY <1>1, <1>3 DEF IInv, WrittenInOrder
<1>11. ToldInView'
  BY <1>1, <1>3, <1>4, <1>6, <1>8 DEF IInv, ToldInView, A
<1> QED BY <1>8, <1>9, <1>10, <1>11 DEF IInv

(* The closure of the listener.                                            *)
LEMMA ShowKeeps ==
  ASSUME IInv, Show
  PROVE  IInv'
<1>1. /\ events # <<>> /\ messages' = messages \o Head(events) /\ events' = Tail(events)
      /\ UNCHANGED <<open, made, log, seen, pending, refused>>
  BY DEF Show, remote
<1>2. /\ messages \in Seq(made) /\ events \in Seq(Seq(made))
      /\ \A m \in made : m.at \in Nat
  BY Shapes DEF IInv, TypeOK
<1>3. InLine(messages, events)
  BY DEF IInv
<1>4. /\ messages' \in Seq(made) /\ events' \in Seq(Seq(made))
      /\ InLine(messages', events')
      /\ Told(messages', events') = Told(messages, events)
  BY <1>1, <1>2, <1>3, EventShown
<1>5. Own' = Own /\ Brought' = Brought /\ View' = View
  BY <1>1 DEF Own, Brought, View
<1>6. TypeOK' /\ WrittenInOrder'
  BY <1>1, <1>4, <1>5 DEF IInv, TypeOK, WrittenInOrder
<1>7. ToldInView'
  BY <1>1, <1>4, <1>5 DEF IInv, ToldInView
<1> QED BY <1>4, <1>6, <1>7 DEF IInv

-----------------------------------------------------------------------------
(***************************************************************************)
(* The theorems.                                                           *)
(***************************************************************************)
(* The inductive invariant holds in every reachable state.                 *)
THEOREM Invariance == Spec => []IInv
<1>1. Init => IInv
  <2> SUFFICES ASSUME Init
               PROVE  IInv
    OBVIOUS
  <2>1. /\ made = {} /\ log = <<>> /\ pending = <<>> /\ events = <<>> /\ messages = <<>>
        /\ seen = 0 /\ refused = {} /\ open = FALSE
    BY DEF Init
  <2>2. /\ <<>> \in Seq({}) /\ SourceOrdered(<<>>) /\ ToSet(<<>>) = {}
        /\ IsInjective(<<>>) /\ Len(<<>>) = 0
    BY DEF SourceOrdered, ToSet, IsInjective
  <2>3. <<>> \in Seq(Seq({})) /\ InLine(<<>>, <<>>) /\ Told(<<>>, <<>>) = {}
    BY <2>2, NoEvents
  <2>4. TypeOK
    <3>1. made \subseteq Messages /\ refused \subseteq made /\ open \in BOOLEAN
      BY <2>1
    <3>2. log \in Seq(made) /\ IsInjective(log) /\ pending \in Seq(made) /\ IsInjective(pending)
      BY <2>1, <2>2
    <3>3. events \in Seq(Seq(made)) /\ messages \in Seq(made)
      BY <2>1, <2>2, <2>3
    <3>4. seen \in 0..Len(log)
      BY <2>1, <2>2
    <3>5. ToSet(log) = {} /\ ToSet(pending) = {}
      BY <2>1, <2>2
    <3> QED BY <3>1, <3>2, <3>3, <3>4, <3>5 DEF TypeOK
  <2>5. WrittenInOrder
    BY <2>1, <2>2, FS_EmptySet DEF WrittenInOrder, Distinct, Before
  <2>6. ToldInView
    BY <2>1, <2>3 DEF ToldInView
  <2> QED BY <2>1, <2>3, <2>4, <2>5, <2>6 DEF IInv
<1>2. IInv /\ [Next]_vars => IInv'
  <2> SUFFICES ASSUME IInv, [Next]_vars
               PROVE  IInv'
    OBVIOUS
  <2>1. CASE UNCHANGED vars
    BY <2>1 DEF vars, IInv, TypeOK, WrittenInOrder, ToldInView, View, Own, Brought
  <2>2. CASE Next
    BY <2>2, WriteKeeps, ArriveKeeps, OpenKeeps, CloseKeeps, CommitKeeps, RefuseKeeps,
       WatchKeeps, ShowKeeps DEF Next
  <2> QED BY <2>1, <2>2
<1> QED BY <1>1, <1>2, PTL DEF Spec

(* Every variable keeps to its range; nothing is committed twice, or both  *)
(* committed and refused.                                                  *)
THEOREM TypeCorrect == Spec => []TypeOK
<1>1. IInv => TypeOK
  BY DEF IInv
<1> QED BY <1>1, Invariance, PTL

(* fetchMessages appends what was added: the messages of one source stay   *)
(* in the order they were sent, and none is shown twice.                   *)
THEOREM SourcesInOrder == Spec => []SourceOrder
<1>1. IInv => SourceOrder
  BY DEF IInv, InLine, SourceOrdered, SourceOrder
<1> QED BY <1>1, Invariance, PTL

(* When all snapshots were heard an open chat shows its view, and beyond   *)
(* it only what was refused.                                               *)
THEOREM ViewIsShown == Spec => []ShowsView
<1>1. IInv => ShowsView
  <2> SUFFICES ASSUME IInv, open, events = <<>>
               PROVE  View \subseteq ToSet(messages) /\ ToSet(messages) \ View \subseteq refused
    BY DEF ShowsView
  <2>1. Told(messages, events) = ToSet(messages)
    BY NoEvents DEF IInv, TypeOK, InLine
  <2> QED BY <2>1 DEF IInv, ToldInView
<1> QED BY <1>1, Invariance, PTL
============================================================================
