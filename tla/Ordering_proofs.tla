-------------------------- MODULE Ordering_proofs --------------------------
(***************************************************************************)
(* Putting a finite set into the order of a key, and taking the elements   *)
(* of a sequence at certain places in their order.                         *)
(***************************************************************************)
EXTENDS Selection, FiniteSetTheorems, SequenceTheorems, TLAPS

(* The elements of S that are not behind x.                                *)
UpTo(S, key, x) == {y \in S : key[y] <= key[x]}

(* The number of elements that are not behind x is its place.              *)
LEMMA Ranks ==
  ASSUME NEW S, IsFiniteSet(S), NEW key \in [S -> Nat],
         \A x, y \in S : key[x] = key[y] => x = y
  PROVE  /\ Cardinality(S) \in Nat
         /\ \A x \in S : Cardinality(UpTo(S, key, x)) \in 1..Cardinality(S)
         /\ \A x, y \in S : key[x] < key[y] =>
               Cardinality(UpTo(S, key, x)) < Cardinality(UpTo(S, key, y))
         /\ \A k \in 1..Cardinality(S) : \E x \in S :
               Cardinality(UpTo(S, key, x)) = k
<1> DEFINE n == Cardinality(S)
           upTo(x) == UpTo(S, key, x)
           rank == [x \in S |-> Cardinality(upTo(x))]
<1>1. n \in Nat
  BY FS_CardinalityType
<1>2. \A x \in S : key[x] \in Nat
  OBVIOUS
<1>3. ASSUME NEW x \in S
      PROVE  rank[x] \in 1..n
  <2>1. upTo(x) \in SUBSET S /\ x \in upTo(x)
    BY <1>2 DEF UpTo
  <2> HIDE DEF upTo
  <2>2. IsFiniteSet(upTo(x)) /\ Cardinality(upTo(x)) <= n
    BY <2>1, FS_Subset
  <2>3. Cardinality(upTo(x)) \in Nat /\ Cardinality(upTo(x)) # 0
    BY <2>1, <2>2, FS_CardinalityType, FS_EmptySet
  <2> QED BY <1>1, <2>2, <2>3
<1>4. ASSUME NEW x \in S, NEW y \in S, key[x] < key[y]
      PROVE  rank[x] < rank[y]
  <2>1. upTo(x) \in SUBSET upTo(y) /\ y \in upTo(y) /\ y \notin upTo(x)
    BY <1>2, <1>4 DEF UpTo
  <2>2. IsFiniteSet(upTo(y))
    BY FS_Subset DEF UpTo
  <2> HIDE DEF upTo
  <2>3. Cardinality(upTo(x)) <= Cardinality(upTo(y))
        /\ Cardinality(upTo(x)) # Cardinality(upTo(y))
    BY <2>1, <2>2, FS_Subset
  <2> QED BY <1>1, <1>3, <2>3
<1>5. rank \in Injection(S, 1..n)
  <2>1. rank \in [S -> 1..n]
    BY <1>3
  <2>2. \A x, y \in S : rank[x] = rank[y] => x = y
    <3> SUFFICES ASSUME NEW x \in S, NEW y \in S, x # y
                 PROVE  rank[x] # rank[y]
      OBVIOUS
    <3>1. key[x] < key[y] \/ key[y] < key[x]
      BY <1>2
    <3> HIDE DEF rank
    <3> QED BY <1>1, <1>3, <1>4, <3>1
  <2> HIDE DEF rank
  <2> QED BY <2>1, <2>2 DEF Injection, IsInjective
<1>6. rank \in Surjection(S, 1..n)
  <2>1. IsFiniteSet(1..n) /\ Cardinality(1..n) = n
    BY <1>1, FS_Interval
  <2> HIDE DEF rank
  <2> QED BY <1>5, <2>1, FS_Injection
<1>7. \A k \in 1..n : \E x \in S : rank[x] = k
  <2> HIDE DEF rank
  <2> QED BY <1>6 DEF Surjection
<1> QED BY <1>1, <1>3, <1>4, <1>7

(* A finite set can be put into the order of any key that tells its        *)
(* elements apart.                                                         *)
LEMMA OrderExists ==
  ASSUME NEW S, IsFiniteSet(S), NEW key \in [S -> Nat],
         \A x, y \in S : key[x] = key[y] => x = y
  PROVE  \E s \in [1..Cardinality(S) -> S] :
            \A i, j \in 1..Cardinality(S) : i < j => key[s[i]] < key[s[j]]
<1> DEFINE n == Cardinality(S)
           rank == [x \in S |-> Cardinality(UpTo(S, key, x))]
           s == [i \in 1..n |-> CHOOSE x \in S : rank[x] = i]
<1>1. /\ n \in Nat
      /\ \A x \in S : key[x] \in Nat /\ rank[x] \in 1..n
      /\ \A x, y \in S : key[x] < key[y] => rank[x] < rank[y]
      /\ \A k \in 1..n : \E x \in S : rank[x] = k
  BY Ranks
<1> HIDE DEF rank
<1>2. \A i \in 1..n : s[i] \in S /\ rank[s[i]] = i
  BY <1>1
<1> HIDE DEF s
<1>3. ASSUME NEW i \in 1..n, NEW j \in 1..n, i < j
      PROVE  key[s[i]] < key[s[j]]
  <2>1. key[s[j]] = key[s[i]] => i = j
    BY <1>2
  <2>2. key[s[j]] < key[s[i]] => j < i
    BY <1>1, <1>2
  <2> QED BY <1>1, <1>2, <1>3, <2>1, <2>2
<1>4. s \in [1..n -> S]
  BY <1>2 DEF s
<1> QED BY <1>3, <1>4

-----------------------------------------------------------------------------
(***************************************************************************)
(* Select.                                                                 *)
(***************************************************************************)
Identity(I) == [i \in I |-> i]

LEMMA NthOf ==
  ASSUME NEW I, IsFiniteSet(I), I \subseteq Nat
  PROVE  /\ Cardinality(I) \in Nat
         /\ \A k \in 1..Cardinality(I) :
               Nth(I, k) \in I /\ Cardinality({j \in I : j <= Nth(I, k)}) = k
         /\ \A x \in I : \E k \in 1..Cardinality(I) : Nth(I, k) = x
         /\ \A k, l \in 1..Cardinality(I) : k < l => Nth(I, k) < Nth(I, l)
<1> DEFINE n == Cardinality(I)
           rank == [x \in I |-> Cardinality({j \in I : j <= x})]
<1>1. /\ n \in Nat
      /\ \A x \in I : rank[x] \in 1..n
      /\ \A x, y \in I : x < y => rank[x] < rank[y]
      /\ \A k \in 1..n : \E x \in I : rank[x] = k
  <2>1. Identity(I) \in [I -> Nat] /\ \A x \in I : Identity(I)[x] = x
    BY DEF Identity
  <2>2. \A x \in I : UpTo(I, Identity(I), x) = {j \in I : j <= x}
    BY <2>1 DEF UpTo
  <2>3. \A x \in I : rank[x] = Cardinality(UpTo(I, Identity(I), x))
    BY <2>2
  <2>4. \A x, y \in I : Identity(I)[x] = Identity(I)[y] => x = y
    BY <2>1
  <2>5. /\ n \in Nat
        /\ \A x \in I : Cardinality(UpTo(I, Identity(I), x)) \in 1..n
        /\ \A x, y \in I : Identity(I)[x] < Identity(I)[y] =>
              Cardinality(UpTo(I, Identity(I), x)) < Cardinality(UpTo(I, Identity(I), y))
        /\ \A k \in 1..n : \E x \in I :
              Cardinality(UpTo(I, Identity(I), x)) = k
    <3> HIDE DEF n
    <3> QED BY <2>1, <2>4, Ranks DEF n
  <2> HIDE DEF n, rank
  <2> QED BY <2>1, <2>3, <2>5
<1>2. \A k \in 1..n : Nth(I, k) \in I /\ rank[Nth(I, k)] = k
  <2> SUFFICES ASSUME NEW k \in 1..n
               PROVE  Nth(I, k) \in I /\ Cardinality({j \in I : j <= Nth(I, k)}) = k
    OBVIOUS
  <2>1. \E x \in I : Cardinality({j \in I : j <= x}) = k
    BY <1>1
  <2> QED BY <2>1 DEF Nth
<1>3. \A x, y \in I : rank[x] = rank[y] => x = y
  <2> SUFFICES ASSUME NEW x \in I, NEW y \in I, x # y
               PROVE  rank[x] # rank[y]
    OBVIOUS
  <2>1. x \in Nat /\ y \in Nat
    OBVIOUS
  <2>2. x < y \/ y < x
    BY <2>1
  <2> HIDE DEF rank
  <2> QED BY <1>1, <2>2
<1>4. \A k, l \in 1..n : k < l => Nth(I, k) < Nth(I, l)
  <2> SUFFICES ASSUME NEW k \in 1..n, NEW l \in 1..n, k < l
               PROVE  Nth(I, k) < Nth(I, l)
    OBVIOUS
  <2> DEFINE x == Nth(I, k)
             y == Nth(I, l)
  <2>1. x \in I /\ y \in I /\ rank[x] = k /\ rank[y] = l
    BY <1>2
  <2> HIDE DEF rank, x, y
  <2>2. x \in Nat /\ y \in Nat
    BY <2>1
  <2>3. y < x => l < k
    BY <1>1, <2>1
  <2>4. x = y => k = l
    BY <2>1
  <2>5. x < y
    BY <1>1, <2>2, <2>3, <2>4
  <2> QED BY <2>5 DEF x, y
<1>5. \A x \in I : \E k \in 1..n : Nth(I, k) = x
  <2> SUFFICES ASSUME NEW x \in I
               PROVE  Nth(I, rank[x]) = x /\ rank[x] \in 1..n
    OBVIOUS
  <2> HIDE DEF rank
  <2> QED BY <1>1, <1>2, <1>3
<1> QED BY <1>1, <1>2, <1>4, <1>5

(* new is old, read in order at the places I.                              *)
InPlaces(new, old, I, h) ==
    /\ h \in [1..Len(new) -> I]
    /\ \A i, j \in 1..Len(new) : i < j => h[i] < h[j]
    /\ \A x \in I : \E i \in 1..Len(new) : h[i] = x
    /\ \A i \in 1..Len(new) : new[i] = old[h[i]]

LEMMA SelectProperties ==
  ASSUME NEW E, NEW s \in Seq(E), NEW I \in SUBSET (1..Len(s))
  PROVE  /\ Select(s, I) \in Seq(E)
         /\ \E h : InPlaces(Select(s, I), s, I, h)
<1> DEFINE n == Cardinality(I)
           h == [k \in 1..n |-> Nth(I, k)]
<1>1. IsFiniteSet(I) /\ I \subseteq Nat
  <2>1. Len(s) \in Nat /\ 0 \in Nat
    OBVIOUS
  <2>2. IsFiniteSet(1..Len(s))
    BY <2>1, FS_Interval
  <2>3. IsFiniteSet(I)
    BY <2>2, FS_Subset
  <2>4. 1..Len(s) \subseteq Nat
    BY <2>1
  <2> QED BY <2>3, <2>4
<1>2. /\ n \in Nat
      /\ \A k \in 1..n : h[k] \in I
      /\ \A x \in I : \E k \in 1..n : h[k] = x
      /\ \A k, l \in 1..n : k < l => h[k] < h[l]
  BY <1>1, NthOf
<1>3. Select(s, I) = [k \in 1..n |-> s[h[k]]]
  BY DEF Select
<1>5. h \in [1..n -> I]
  BY <1>2
<1> HIDE DEF h
<1>4. Select(s, I) \in Seq(E) /\ Len(Select(s, I)) = n
  <2>1. \A k \in 1..n : s[h[k]] \in E
    <3>1. \A i \in 1..Len(s) : s[i] \in E
      OBVIOUS
    <3> QED BY <1>2, <3>1
  <2> QED BY <1>2, <1>3, <2>1
<1>6. \A i \in 1..n : Select(s, I)[i] = s[h[i]]
  BY <1>3
<1> HIDE DEF n
<1>7. InPlaces(Select(s, I), s, I, h)
  BY <1>2, <1>4, <1>5, <1>6 DEF InPlaces
<1> QED BY <1>4, <1>7

(* The last elements.                                                      *)
LEMMA SelectSuffix ==
  ASSUME NEW E, NEW s \in Seq(E), NEW m \in Nat, m <= Len(s)
  PROVE  /\ Select(s, m + 1 .. Len(s)) \in Seq(E)
         /\ Len(Select(s, m + 1 .. Len(s))) = Len(s) - m
         /\ \A i \in 1..Len(s) - m : Select(s, m + 1 .. Len(s))[i] = s[m + i]
<1> DEFINE I == m + 1 .. Len(s)
           n == Len(s) - m
<1>1. /\ Len(s) \in Nat /\ n \in Nat
      /\ I \subseteq Nat /\ IsFiniteSet(I) /\ Cardinality(I) = n
  <2>1. Len(s) \in Nat /\ n \in Nat /\ I \subseteq Nat
    OBVIOUS
  <2>2. IsFiniteSet(I)
    BY <2>1, FS_Interval
  <2>3. Cardinality(I) = n
    <3>1. CASE m + 1 > Len(s)
      <4>1. n = 0 /\ I = {}
        BY <2>1, <3>1
      <4> HIDE DEF I, n
      <4> QED BY <4>1, FS_EmptySet
    <3>2. CASE m + 1 <= Len(s)
      BY <2>1, <3>2, FS_Interval
    <3> QED BY <2>1, <3>1, <3>2
  <2> QED BY <2>1, <2>2, <2>3
<1>2. \A k \in 1..n : Nth(I, k) = m + k
  <2> SUFFICES ASSUME NEW k \in 1..n
               PROVE  Nth(I, k) = m + k
    OBVIOUS
  <2>1. /\ Nth(I, k) \in I
        /\ Cardinality({j \in I : j <= Nth(I, k)}) = k
    BY <1>1, NthOf
  <2> DEFINE x == Nth(I, k)
  <2>2. {j \in I : j <= x} = m + 1 .. x
    BY <1>1, <2>1
  <2> HIDE DEF x
  <2>3. Cardinality(m + 1 .. x) = x - m
    BY <1>1, <2>1, FS_Interval DEF x
  <2>4. x - m = k
    BY <2>1, <2>2, <2>3 DEF x
  <2>5. x \in Nat
    BY <1>1, <2>1 DEF x
  <2>6. x = m + k
    BY <2>4, <2>5
  <2> QED BY <2>6 DEF x
<1>3. Select(s, I) = [k \in 1..n |-> s[m + k]]
  BY <1>1, <1>2 DEF Select
<1>4. \A k \in 1..n : s[m + k] \in E
  BY <1>1
<1> QED BY <1>1, <1>3, <1>4
=============================================================================
