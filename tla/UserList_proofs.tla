-------------------------- MODULE UserList_proofs --------------------------
(***************************************************************************)
(* Proofs about UserList, for any users, texts, cells and screen, and any  *)
(* number of downloads.                                                    *)
(***************************************************************************)
EXTENDS UserList, Ordering_proofs

(***************************************************************************)
(* The inductive invariant.  A load of cell c is at a place of SDWebImage: *)
(* a question to the disk, its answer, a download it waits for, or a block *)
(* with the outcome.                                                       *)
(***************************************************************************)
Asks(p, i, c) == p.io[i].cell = c
Found(p, i, c) == p.main[i].kind = "found" /\ p.main[i].cell = c
Loaded(p, i, c) == p.main[i].kind = "loaded" /\ c \in p.main[i].cells
Waits(p, i, c) == c \in p.ops[i].waiting

(* Each place of c fits the load it has under way.                         *)
Placed(p, c) ==
  /\ \A i \in 1..Len(p.io) : Asks(p, i, c) => p.cell[c].stage = "query"
  /\ \A i \in 1..Len(p.main) :
        /\ Found(p, i, c) => p.cell[c].stage = "answer"
        /\ Loaded(p, i, c) => /\ p.cell[c].stage = "download"
                              /\ p.cell[c].url = p.main[i].url
  /\ \A i \in 1..MaxDownloads :
        Waits(p, i, c) => p.cell[c].stage = "download" /\ p.cell[c].url = p.ops[i].url

(* The load of c is at one place only.                                     *)
Once(p, c) ==
  /\ \A i, j \in 1..Len(p.io) : Asks(p, i, c) /\ Asks(p, j, c) => i = j
  /\ \A i, j \in 1..Len(p.main) :
        /\ Found(p, i, c) /\ Found(p, j, c) => i = j
        /\ Loaded(p, i, c) /\ Loaded(p, j, c) => i = j
  /\ \A i, j \in 1..MaxDownloads : Waits(p, i, c) /\ Waits(p, j, c) => i = j
  /\ \A i \in 1..Len(p.main), j \in 1..MaxDownloads : ~(Loaded(p, i, c) /\ Waits(p, j, c))

PlacesOK(p) == \A c \in Cells : Placed(p, c)
OnePlace(p) == \A c \in Cells : Once(p, c)

(* Loads and downloads have a URL; URLOperations knows downloads by theirs.*)
UrlsOK(p) ==
  /\ \A c \in Cells : p.cell[c].stage # "none" => p.cell[c].url \in Users
  /\ \A i \in 1..MaxDownloads : p.ops[i].phase # "free" => p.ops[i].url \in Users
  /\ \A u \in Users : p.operationOf[u] # 0 =>
        /\ p.ops[p.operationOf[u]].phase # "free"
        /\ p.ops[p.operationOf[u]].url = u

Fit(p) == p \in Pics /\ PlacesOK(p) /\ OnePlace(p) /\ UrlsOK(p)

(* A cell shows, and loads, the picture of its user, if he has one.        *)
Dressed(cell) ==
  cell.user \notin NoPicture => /\ cell.image \in {Nobody, cell.user}
                                /\ cell.url = cell.user

(* The load of c is about to join a download, and at no place meanwhile.   *)
NoPlace(p, c) ==
  /\ \A i \in 1..Len(p.io) : ~Asks(p, i, c)
  /\ \A i \in 1..Len(p.main) : ~Found(p, i, c) /\ ~Loaded(p, i, c)
  /\ \A i \in 1..MaxDownloads : ~Waits(p, i, c)

Joined(p, c) ==
  /\ NoPlace(p, c)
  /\ p.cell[c].stage = "download"
  /\ p.operationOf[p.cell[c].url] # 0

JoinsOK == joining \subseteq Cells /\ \A c \in joining : Joined(pics, c)

IInv ==
  /\ TypeOK
  /\ Fit(pics)
  /\ JoinsOK
  /\ RowsTrue
  /\ \A c \in Cells : Dressed(pics.cell[c])

-----------------------------------------------------------------------------
(***************************************************************************)
(* Sequences and records.                                                  *)
(***************************************************************************)

(* A set of places has a first one.                                        *)
LEMMA LeastOf ==
  ASSUME NEW S, S \subseteq Nat, IsFiniteSet(S), S # {}
  PROVE  Least(S) \in S
<1>1. Cardinality(S) \in Nat /\ Cardinality(S) # 0
  BY FS_CardinalityType, FS_EmptySet
<1>2. 1 \in 1..Cardinality(S)
  BY <1>1
<1> DEFINE x == Nth(S, 1)
           T == {j \in S : j <= x}
<1>3. x \in S /\ Cardinality(T) = 1
  BY <1>2, NthOf
<1> HIDE DEF x
<1>4. x \in T /\ IsFiniteSet(T)
  <2>1. T \subseteq S
    OBVIOUS
  <2> QED BY <1>3, <2>1, FS_Subset
<1>5. PICK y : T = {y}
  BY <1>3, <1>4, FS_Singleton
<1>6. ASSUME NEW j \in S  PROVE x <= j
  <2>1. j \in T => j = x
    BY <1>4, <1>5
  <2>2. x \in Nat /\ j \in Nat
    BY <1>3
  <2> QED BY <2>1, <2>2
<1> QED BY <1>3, <1>6 DEF Least

(* What r holds stands at different places of s, those of I.               *)
Picked(r, s, I) ==
  \E h \in [1..Len(r) -> 1..Len(s)] :
     /\ \A i \in 1..Len(r) : h[i] \in I /\ r[i] = s[h[i]]
     /\ \A i, j \in 1..Len(r) : h[i] = h[j] => i = j

LEMMA Selected ==
  ASSUME NEW E, NEW s \in Seq(E), NEW I \in SUBSET DOMAIN s
  PROVE  Select(s, I) \in Seq(E) /\ Picked(Select(s, I), s, I)
<1> DEFINE r == Select(s, I)
<1>1. I \in SUBSET (1..Len(s))
  OBVIOUS
<1>2. r \in Seq(E)
  BY <1>1, SelectProperties
<1>3. PICK h : InPlaces(r, s, I, h)
  BY <1>1, SelectProperties
<1> HIDE DEF r
<1>4. Len(r) \in Nat /\ Len(s) \in Nat
  BY <1>2, LenProperties
<1>5. /\ h \in [1..Len(r) -> I]
      /\ \A i, j \in 1..Len(r) : i < j => h[i] < h[j]
      /\ \A i \in 1..Len(r) : r[i] = s[h[i]]
  BY <1>3 DEF InPlaces
<1>6. h \in [1..Len(r) -> 1..Len(s)]
  BY <1>1, <1>5
<1>7. ASSUME NEW i \in 1..Len(r), NEW j \in 1..Len(r), h[i] = h[j]
      PROVE  i = j
  <2>1. h[i] \in Int /\ ~(h[i] < h[i])
    BY <1>4, <1>6
  <2>2. i \in Int /\ j \in Int
    BY <1>4
  <2>3. ~(i < j) /\ ~(j < i)
    BY <1>5, <1>7, <2>1
  <2> QED BY <2>2, <2>3
<1>8. Picked(r, s, I)
  BY <1>5, <1>6, <1>7 DEF Picked
<1> QED BY <1>2, <1>8 DEF r

LEMMA TailPicked ==
  ASSUME NEW E, NEW s \in Seq(E), s # <<>>
  PROVE  /\ Tail(s) \in Seq(E) /\ Picked(Tail(s), s, 2..Len(s))
         /\ Head(s) = s[1] /\ Head(s) \in E /\ 1 \in 1..Len(s)
<1> DEFINE r == Tail(s)
           h == [i \in 1..Len(r) |-> i + 1]
<1>1. /\ r \in Seq(E) /\ Len(r) = Len(s) - 1 /\ Head(s) \in E
      /\ \A i \in 1..Len(r) : r[i] = s[i + 1]
  BY HeadTailProperties
<1>2. Len(s) \in Nat /\ Len(s) # 0 /\ Head(s) = s[1]
  BY EmptySeq, LenProperties
<1> HIDE DEF r
<1>3. \A i \in 1..Len(r) : i + 1 \in 1..Len(s) /\ i + 1 \in 2..Len(s)
  BY <1>1, <1>2
<1>4. h \in [1..Len(r) -> 1..Len(s)] /\ \A i \in 1..Len(r) : h[i] = i + 1
  BY <1>3
<1> HIDE DEF h
<1>5. \A i, j \in 1..Len(r) : h[i] = h[j] => i = j
  BY <1>1, <1>2, <1>4
<1>6. Picked(r, s, 2..Len(s))
  BY <1>1, <1>3, <1>4, <1>5 DEF Picked
<1> QED BY <1>1, <1>2, <1>6 DEF r

CellStates == [user : Pictures, image : Pictures, url : Pictures,
               stage : {"none", "query", "answer", "download"}]
Operations == [url : Pictures, waiting : SUBSET Cells, called : SUBSET Cells,
               phase : Phases]
Questions == [cell : Cells, hit : BOOLEAN]

(* A record with the fields of Pics, and no others.                        *)
Whole(p) ==
  p = [cell |-> p.cell, ops |-> p.ops, operationOf |-> p.operationOf,
       cache |-> p.cache, io |-> p.io, failed |-> p.failed, main |-> p.main]

LEMMA StaysWhole ==
  ASSUME NEW p, Whole(p), NEW x
  PROVE  /\ Whole([p EXCEPT !.cell = x]) /\ Whole([p EXCEPT !.ops = x])
         /\ Whole([p EXCEPT !.operationOf = x]) /\ Whole([p EXCEPT !.cache = x])
         /\ Whole([p EXCEPT !.io = x]) /\ Whole([p EXCEPT !.failed = x])
         /\ Whole([p EXCEPT !.main = x])
<1>1. Whole([p EXCEPT !.cell = x]) /\ Whole([p EXCEPT !.ops = x])
  BY DEF Whole
<1>2. Whole([p EXCEPT !.operationOf = x]) /\ Whole([p EXCEPT !.cache = x])
  BY DEF Whole
<1>3. Whole([p EXCEPT !.io = x]) /\ Whole([p EXCEPT !.failed = x])
  BY DEF Whole
<1>4. Whole([p EXCEPT !.main = x])
  BY DEF Whole
<1> QED BY <1>1, <1>2, <1>3, <1>4

(* The fields of pics.                                                     *)
LEMMA PicsFields ==
  ASSUME NEW p \in Pics
  PROVE  /\ p.cell \in [Cells -> CellStates]
         /\ p.ops \in [1..MaxDownloads -> Operations]
         /\ p.operationOf \in [Users -> 0..MaxDownloads]
         /\ p.cache \in [Users -> {"none", "disk", "memory"}]
         /\ p.io \in Seq(Questions)
         /\ p.failed \in SUBSET Users
         /\ p.main \in Seq(Blocks)
         /\ Whole(p)
BY DEF Pics, CellStates, Operations, Questions, Whole

LEMMA PicsFrom ==
  ASSUME NEW p,
         p.cell \in [Cells -> CellStates],
         p.ops \in [1..MaxDownloads -> Operations],
         p.operationOf \in [Users -> 0..MaxDownloads],
         p.cache \in [Users -> {"none", "disk", "memory"}],
         p.io \in Seq(Questions),
         p.failed \in SUBSET Users,
         p.main \in Seq(Blocks),
         Whole(p)
  PROVE  p \in Pics
BY DEF Pics, CellStates, Operations, Questions, Whole

(* The fields of a block.                                                  *)
LEMMA BlockFields ==
  ASSUME NEW b \in Blocks
  PROVE  /\ b.kind \in {"found", "loaded"}
         /\ b.kind = "found" => b.cell \in Cells /\ b.hit \in BOOLEAN
         /\ b.kind = "loaded" => /\ b.url \in Users /\ b.cells \in SUBSET Cells
                                 /\ b.result \in Results
BY DEF Blocks

-----------------------------------------------------------------------------
(***************************************************************************)
(* What happens to the places of the loads.                                *)
(***************************************************************************)

(* Every place of r is one of p, and the cells C have none.                *)
PlacesOf(r, p, C) ==
  /\ \E h \in [1..Len(r.io) -> 1..Len(p.io)] :
        /\ \A i \in 1..Len(r.io) : r.io[i].cell = p.io[h[i]].cell /\ r.io[i].cell \notin C
        /\ \A i, j \in 1..Len(r.io) : h[i] = h[j] => i = j
  /\ \E h \in [1..Len(r.main) -> 1..Len(p.main)] :
        /\ \A i \in 1..Len(r.main), c \in Cells :
              /\ Found(r, i, c) => Found(p, h[i], c) /\ c \notin C
              /\ Loaded(r, i, c) => /\ Loaded(p, h[i], c) /\ c \notin C
                                    /\ r.main[i].url = p.main[h[i]].url
        /\ \A i, j \in 1..Len(r.main) : h[i] = h[j] => i = j
  /\ \A i \in 1..MaxDownloads, c \in Cells :
        Waits(r, i, c) => /\ Waits(p, i, c) /\ c \notin C
                          /\ r.ops[i].url = p.ops[i].url

(* The loads of the cells C end, the others go on.                         *)
LoadsEnd(r, p, C) ==
  \A c \in Cells : /\ c \notin C => /\ r.cell[c].stage = p.cell[c].stage
                                    /\ r.cell[c].url = p.cell[c].url
                   /\ c \in C => r.cell[c].stage = "none"

(* Downloads end.                                                          *)
DownloadsEnd(r, p) ==
  /\ \A i \in 1..MaxDownloads : r.ops[i].phase # "free" =>
        p.ops[i].phase # "free" /\ r.ops[i].url = p.ops[i].url
  /\ \A u \in Users : r.operationOf[u] # 0 =>
        /\ r.operationOf[u] = p.operationOf[u]
        /\ r.ops[r.operationOf[u]].phase # "free"

LEMMA FewerLoads ==
  ASSUME NEW p, Fit(p), NEW r \in Pics, NEW C \in SUBSET Cells,
         PlacesOf(r, p, C), LoadsEnd(r, p, C), DownloadsEnd(r, p)
  PROVE  Fit(r)
<1>1. PICK hq \in [1..Len(r.io) -> 1..Len(p.io)] :
        /\ \A i \in 1..Len(r.io) : r.io[i].cell = p.io[hq[i]].cell /\ r.io[i].cell \notin C
        /\ \A i, j \in 1..Len(r.io) : hq[i] = hq[j] => i = j
  BY DEF PlacesOf
<1>2. PICK hm \in [1..Len(r.main) -> 1..Len(p.main)] :
        /\ \A i \in 1..Len(r.main), c \in Cells :
              /\ Found(r, i, c) => Found(p, hm[i], c) /\ c \notin C
              /\ Loaded(r, i, c) => /\ Loaded(p, hm[i], c) /\ c \notin C
                                    /\ r.main[i].url = p.main[hm[i]].url
        /\ \A i, j \in 1..Len(r.main) : hm[i] = hm[j] => i = j
  BY DEF PlacesOf
<1>3. /\ \A i \in 1..Len(r.io) : hq[i] \in 1..Len(p.io)
      /\ \A i \in 1..Len(r.main) : hm[i] \in 1..Len(p.main)
  OBVIOUS
<1>4. \A i \in 1..MaxDownloads, c \in Cells :
         Waits(r, i, c) => /\ Waits(p, i, c) /\ c \notin C
                           /\ r.ops[i].url = p.ops[i].url
  BY DEF PlacesOf
<1>5. \A i \in 1..Len(r.io), c \in Cells :
         Asks(r, i, c) => Asks(p, hq[i], c) /\ c \notin C
  BY <1>1 DEF Asks
<1>6. PlacesOK(r)
  <2>1. ASSUME NEW c \in Cells, NEW i \in 1..Len(r.io), Asks(r, i, c)
        PROVE  r.cell[c].stage = "query"
    BY <1>3, <1>5, <2>1 DEF Fit, PlacesOK, Placed, LoadsEnd
  <2>2. ASSUME NEW c \in Cells, NEW i \in 1..Len(r.main)
        PROVE  /\ Found(r, i, c) => r.cell[c].stage = "answer"
               /\ Loaded(r, i, c) => /\ r.cell[c].stage = "download"
                                     /\ r.cell[c].url = r.main[i].url
    <3>1. Found(r, i, c) => r.cell[c].stage = "answer"
      <4>1. Found(r, i, c) => Found(p, hm[i], c) /\ c \notin C
        BY <1>2
      <4>2. Found(p, hm[i], c) => p.cell[c].stage = "answer"
        BY <1>3 DEF Fit, PlacesOK, Placed
      <4> QED BY <4>1, <4>2 DEF LoadsEnd
    <3>2. ASSUME Loaded(r, i, c)
          PROVE  r.cell[c].stage = "download" /\ r.cell[c].url = r.main[i].url
      <4>1. Loaded(p, hm[i], c) /\ c \notin C /\ r.main[i].url = p.main[hm[i]].url
        BY <1>2, <3>2
      <4>2. p.cell[c].stage = "download" /\ p.cell[c].url = p.main[hm[i]].url
        BY <1>3, <4>1 DEF Fit, PlacesOK, Placed
      <4> QED BY <4>1, <4>2 DEF LoadsEnd
    <3> QED BY <3>1, <3>2
  <2>3. ASSUME NEW c \in Cells, NEW i \in 1..MaxDownloads, Waits(r, i, c)
        PROVE  r.cell[c].stage = "download" /\ r.cell[c].url = r.ops[i].url
    BY <1>4, <2>3 DEF Fit, PlacesOK, Placed, LoadsEnd
  <2> QED BY <2>1, <2>2, <2>3 DEF PlacesOK, Placed
<1>7. OnePlace(r)
  <2> SUFFICES ASSUME NEW c \in Cells
               PROVE  /\ \A i, j \in 1..Len(r.io) : Asks(r, i, c) /\ Asks(r, j, c) => i = j
                      /\ \A i, j \in 1..Len(r.main) :
                            /\ Found(r, i, c) /\ Found(r, j, c) => i = j
                            /\ Loaded(r, i, c) /\ Loaded(r, j, c) => i = j
                      /\ \A i, j \in 1..MaxDownloads : Waits(r, i, c) /\ Waits(r, j, c) => i = j
                      /\ \A i \in 1..Len(r.main), j \in 1..MaxDownloads :
                            ~(Loaded(r, i, c) /\ Waits(r, j, c))
    BY DEF OnePlace, Once
  <2>1. /\ \A i, j \in 1..Len(p.io) : Asks(p, i, c) /\ Asks(p, j, c) => i = j
        /\ \A i, j \in 1..Len(p.main) :
              /\ Found(p, i, c) /\ Found(p, j, c) => i = j
              /\ Loaded(p, i, c) /\ Loaded(p, j, c) => i = j
        /\ \A i, j \in 1..MaxDownloads : Waits(p, i, c) /\ Waits(p, j, c) => i = j
        /\ \A i \in 1..Len(p.main), j \in 1..MaxDownloads :
              ~(Loaded(p, i, c) /\ Waits(p, j, c))
    BY DEF Fit, OnePlace, Once
  <2>2. \A i, j \in 1..Len(r.io) : Asks(r, i, c) /\ Asks(r, j, c) => i = j
    BY <1>1, <1>3, <1>5, <2>1
  <2>3. ASSUME NEW i \in 1..Len(r.main), NEW j \in 1..Len(r.main)
        PROVE  /\ Found(r, i, c) /\ Found(r, j, c) => i = j
               /\ Loaded(r, i, c) /\ Loaded(r, j, c) => i = j
    BY <1>2, <1>3, <2>1
  <2>4. \A i, j \in 1..MaxDownloads : Waits(r, i, c) /\ Waits(r, j, c) => i = j
    BY <1>4, <2>1
  <2>5. \A i \in 1..Len(r.main), j \in 1..MaxDownloads : ~(Loaded(r, i, c) /\ Waits(r, j, c))
    BY <1>2, <1>3, <1>4, <2>1
  <2> QED BY <2>2, <2>3, <2>4, <2>5
<1>8. UrlsOK(r)
  <2>1. \A u \in Users : r.operationOf[u] # 0 => r.operationOf[u] \in 1..MaxDownloads
    BY SizesAssumption, PicsFields
  <2>2. \A c \in Cells : r.cell[c].stage # "none" => r.cell[c].url \in Users
    BY DEF Fit, UrlsOK, LoadsEnd
  <2>3. \A i \in 1..MaxDownloads : r.ops[i].phase # "free" => r.ops[i].url \in Users
    BY DEF Fit, UrlsOK, DownloadsEnd
  <2>4. \A u \in Users : r.operationOf[u] # 0 =>
           /\ r.ops[r.operationOf[u]].phase # "free"
           /\ r.ops[r.operationOf[u]].url = u
    BY <2>1 DEF Fit, UrlsOK, DownloadsEnd
  <2> QED BY <2>2, <2>3, <2>4 DEF UrlsOK
<1> QED BY <1>6, <1>7, <1>8 DEF Fit

(* The main queue after the load of c was cancelled.                       *)
Forgets(r, b, c) ==
  \E h \in [1..Len(r) -> 1..Len(b)] :
     /\ \A i \in 1..Len(r) :
           /\ r[i].kind = b[h[i]].kind
           /\ r[i].kind = "found" => r[i].cell = b[h[i]].cell /\ r[i].cell # c
           /\ r[i].kind = "loaded" => /\ r[i].url = b[h[i]].url
                                      /\ r[i].cells = b[h[i]].cells \ {c}
     /\ \A i, j \in 1..Len(r) : h[i] = h[j] => i = j

LEMMA ForgetBlocks ==
  ASSUME NEW b \in Seq(Blocks), NEW c \in Cells
  PROVE  Forget(b, c) \in Seq(Blocks) /\ Forgets(Forget(b, c), b, c)
<1> DEFINE I == {i \in DOMAIN b : b[i].kind = "loaded" \/ b[i].cell # c}
           kept == Select(b, I)
           without(e) == IF e.kind = "loaded" THEN [e EXCEPT !.cells = @ \ {c}] ELSE e
           r == Forget(b, c)
<1>1. I \in SUBSET DOMAIN b
  OBVIOUS
<1>3. kept \in Seq(Blocks) /\ Picked(kept, b, I)
  BY <1>1, Selected
<1>4. r = [i \in DOMAIN kept |-> without(kept[i])]
  BY DEF Forget
<1> HIDE DEF kept, r
<1>2. PICK h \in [1..Len(kept) -> 1..Len(b)] :
        /\ \A i \in 1..Len(kept) : h[i] \in I /\ kept[i] = b[h[i]]
        /\ \A i, j \in 1..Len(kept) : h[i] = h[j] => i = j
  BY <1>3 DEF Picked
<1>5. ASSUME NEW e \in Blocks
      PROVE  /\ without(e) \in Blocks /\ without(e).kind = e.kind
             /\ e.kind = "found" => without(e).cell = e.cell
             /\ e.kind = "loaded" => /\ without(e).url = e.url
                                     /\ without(e).cells = e.cells \ {c}
  <2>1. CASE e \in [kind : {"found"}, cell : Cells, hit : BOOLEAN]
    BY <2>1
  <2>2. CASE e \in [kind : {"loaded"}, url : Users, cells : SUBSET Cells, result : Results]
    <3>1. /\ without(e) = [e EXCEPT !.cells = e.cells \ {c}]
          /\ e.cells \ {c} \in SUBSET Cells
      BY <2>2
    <3> HIDE DEF without
    <3> QED BY <2>2, <3>1 DEF Blocks
  <2> QED BY <2>1, <2>2 DEF Blocks
<1>6. DOMAIN kept = 1..Len(kept) /\ Len(kept) \in Nat
      /\ \A i \in 1..Len(kept) : kept[i] \in Blocks
  BY <1>3, LenProperties, ElementOfSeq
<1> HIDE DEF without
<1>7. /\ \A i \in 1..Len(kept) : r[i] = without(kept[i]) /\ r[i] \in Blocks
      /\ r \in Seq(Blocks) /\ Len(r) = Len(kept)
  <2>1. /\ r = [i \in 1..Len(kept) |-> without(kept[i])]
        /\ \A i \in 1..Len(kept) : without(kept[i]) \in Blocks
    BY <1>4, <1>5, <1>6
  <2> QED BY <1>6, <2>1
<1>8. ASSUME NEW i \in 1..Len(r)
      PROVE  /\ r[i].kind = b[h[i]].kind
             /\ r[i].kind = "found" => r[i].cell = b[h[i]].cell /\ r[i].cell # c
             /\ r[i].kind = "loaded" => /\ r[i].url = b[h[i]].url
                                        /\ r[i].cells = b[h[i]].cells \ {c}
  <2>1. /\ i \in 1..Len(kept) /\ kept[i] \in Blocks /\ kept[i] = b[h[i]]
        /\ h[i] \in I /\ r[i] = without(kept[i])
    BY <1>2, <1>6, <1>7
  <2>2. kept[i].kind = "found" => kept[i].cell # c
    BY <2>1
  <2> QED BY <1>5, <2>1, <2>2
<1>9. h \in [1..Len(r) -> 1..Len(b)] /\ \A i, j \in 1..Len(r) : h[i] = h[j] => i = j
  BY <1>2, <1>7
<1>10. Forgets(r, b, c)
  BY <1>8, <1>9 DEF Forgets
<1> QED BY <1>7, <1>10 DEF r

(* The operations after the load of c was cancelled.                       *)
LEMMA CancelFit ==
  ASSUME NEW p, Fit(p), NEW c \in Cells
  PROVE  LET r == Cancel(p, c)
         IN  /\ Fit(r)
             /\ PlacesOf(r, p, {c})
             /\ r.cell = [p.cell EXCEPT ![c].stage = "none"]
             /\ r.cache = p.cache /\ r.failed = p.failed
<1> DEFINE op == OperationOf(p, c)
           url == p.cell[c].url
           off == IF op = 0 THEN NoOperation ELSE Left(p.ops[op], c)
           left == IF op # 0 /\ off.waiting \cup off.called = {} THEN Ended(off) ELSE off
           io == Select(p.io, {i \in DOMAIN p.io : p.io[i].cell # c})
           main == Forget(p.main, c)
           ops == [i \in DOMAIN p.ops |-> IF i = op THEN left
                                          ELSE [p.ops[i] EXCEPT !.waiting = @ \ {c}]]
           of == IF op # 0 /\ left.phase = "finished"
                 THEN [p.operationOf EXCEPT ![url] = 0] ELSE p.operationOf
           cell == [p.cell EXCEPT ![c].stage = "none"]
           r == Cancel(p, c)
<1>1. p \in Pics /\ PlacesOK(p) /\ OnePlace(p) /\ UrlsOK(p)
  BY DEF Fit
<1>2. /\ p.cell \in [Cells -> CellStates]
      /\ p.ops \in [1..MaxDownloads -> Operations]
      /\ p.operationOf \in [Users -> 0..MaxDownloads]
      /\ p.io \in Seq(Questions) /\ p.main \in Seq(Blocks)
      /\ p.cache \in [Users -> {"none", "disk", "memory"}] /\ p.failed \in SUBSET Users
  BY <1>1, PicsFields
<1>3. /\ r.cell = cell /\ r.io = io /\ r.main = main /\ r.ops = ops
      /\ r.operationOf = of /\ r.cache = p.cache /\ r.failed = p.failed
      /\ Whole(r)
  <2>1. r = [p EXCEPT !.cell[c].stage = "none", !.io = io, !.main = main,
                      !.ops = ops, !.operationOf = of]
    BY DEF Cancel, CancelWith
  <2> HIDE DEF io, main, ops, of, r
  <2>2. Whole(p)
    BY <1>1, PicsFields
  <2>3. r = [p EXCEPT !.cell = cell, !.io = io, !.main = main,
                      !.ops = ops, !.operationOf = of]
    BY <2>1
  <2> HIDE DEF cell
  <2>4. /\ r.cell = cell /\ r.io = io /\ r.main = main /\ r.ops = ops
        /\ r.operationOf = of /\ r.cache = p.cache /\ r.failed = p.failed
    BY <2>2, <2>3 DEF Whole
  <2> DEFINE p1 == [p EXCEPT !.cell = cell]
             p2 == [p1 EXCEPT !.io = io]
             p3 == [p2 EXCEPT !.main = main]
             p4 == [p3 EXCEPT !.ops = ops]
             p5 == [p4 EXCEPT !.operationOf = of]
  <2>5. r = p5
    BY <2>3
  <2>6. Whole(p1)
    BY <2>2, StaysWhole
  <2> HIDE DEF p1
  <2>7. Whole(p2)
    BY <2>6, StaysWhole
  <2> HIDE DEF p2
  <2>8. Whole(p3)
    BY <2>7, StaysWhole
  <2> HIDE DEF p3
  <2>9. Whole(p4)
    BY <2>8, StaysWhole
  <2> HIDE DEF p4
  <2>10. Whole(p5)
    BY <2>9, StaysWhole
  <2> QED BY <2>4, <2>5, <2>10
<1> HIDE DEF r
<1>4. cell \in [Cells -> CellStates]
      /\ \A e \in Cells : /\ cell[e].url = p.cell[e].url
                          /\ e # c => cell[e] = p.cell[e]
      /\ cell[c].stage = "none"
  BY <1>2 DEF CellStates
<1> HIDE DEF cell
(* The download of the cell is not free, and remains one of its URL.       *)
<1>5. op \in 0..MaxDownloads
      /\ (op # 0 => /\ op \in 1..MaxDownloads /\ p.ops[op].phase # "free"
                    /\ p.ops[op].url = url /\ url \in Users)
  <2>1. op # 0 => op = p.operationOf[url] /\ p.cell[c].stage = "download"
    BY DEF OperationOf
  <2>2. op # 0 => url \in Users
    BY <1>1, <2>1 DEF UrlsOK
  <2> HIDE DEF op, url
  <2>3. op # 0 => op \in 0..MaxDownloads
    BY <1>2, <2>1, <2>2
  <2>4. 0 \in 0..MaxDownloads /\ \A i \in 0..MaxDownloads : i # 0 => i \in 1..MaxDownloads
    BY SizesAssumption
  <2> QED BY <1>1, <2>1, <2>2, <2>3, <2>4 DEF UrlsOK
<1> HIDE DEF op
<1>6. op # 0 => /\ left \in Operations /\ left.url = p.ops[op].url /\ left.phase # "free"
                /\ left.waiting \subseteq p.ops[op].waiting \ {c}
  <2> SUFFICES ASSUME op # 0
               PROVE  /\ left \in Operations /\ left.url = p.ops[op].url /\ left.phase # "free"
                      /\ left.waiting \subseteq p.ops[op].waiting \ {c}
    OBVIOUS
  <2> DEFINE o == p.ops[op]
  <2>1. o \in Operations /\ o.phase # "free"
    BY <1>2, <1>5
  <2> HIDE DEF o
  <2>2. off = Left(o, c)
    BY DEF o
  <2>3. /\ off \in Operations /\ off.url = o.url /\ off.phase = o.phase
        /\ off.waiting \subseteq o.waiting \ {c}
    <3>1. CASE c \in o.waiting
      BY <2>1, <2>2, <3>1 DEF Left, Operations
    <3>2. CASE c \notin o.waiting
      BY <2>1, <2>2, <3>2 DEF Left, Operations
    <3> QED BY <3>1, <3>2
  <2> HIDE DEF off
  <2>4. /\ Ended(off) \in Operations /\ Ended(off).url = o.url
        /\ Ended(off).phase # "free" /\ Ended(off).waiting = {}
    BY <2>3 DEF Ended, Operations, Phases
  <2> QED BY <2>1, <2>3, <2>4 DEF o
<1> HIDE DEF left
<1>7. /\ ops \in [1..MaxDownloads -> Operations]
      /\ \A i \in 1..MaxDownloads : /\ ops[i].url = p.ops[i].url
                                    /\ ops[i].waiting \subseteq p.ops[i].waiting \ {c}
                                    /\ ops[i].phase # "free" <=> p.ops[i].phase # "free"
  <2>1. ASSUME NEW i \in 1..MaxDownloads
        PROVE  /\ ops[i] \in Operations /\ ops[i].url = p.ops[i].url
               /\ ops[i].waiting \subseteq p.ops[i].waiting \ {c}
               /\ ops[i].phase # "free" <=> p.ops[i].phase # "free"
    <3>0. 0 \notin 1..MaxDownloads
      OBVIOUS
    <3>1. CASE i = op
      <4>1. ops[i] = left
        BY <1>2, <3>1
      <4> HIDE DEF ops
      <4> QED BY <1>5, <1>6, <3>0, <3>1, <4>1
    <3>2. CASE i # op
      <4>1. ops[i] = [p.ops[i] EXCEPT !.waiting = @ \ {c}] /\ p.ops[i] \in Operations
        BY <1>2, <3>2
      <4> HIDE DEF ops
      <4> QED BY <4>1 DEF Operations
    <3> QED BY <3>1, <3>2
  <2>2. ops = [i \in 1..MaxDownloads |-> ops[i]]
    BY <1>2
  <2> HIDE DEF ops
  <2> QED BY <2>1, <2>2
<1> HIDE DEF ops
<1>8. /\ of \in [Users -> 0..MaxDownloads]
      /\ \A u \in Users : of[u] # 0 => of[u] = p.operationOf[u]
  <2> HIDE DEF url
  <2>1. 0 \in 0..MaxDownloads
    BY SizesAssumption
  <2> QED BY <1>2, <1>5, <2>1
<1> HIDE DEF of
<1>9. io \in Seq(Questions) /\ main \in Seq(Blocks)
  BY <1>2, Selected, ForgetBlocks
<1>10. PlacesOf(r, p, {c})
  <2>1. \E h \in [1..Len(io) -> 1..Len(p.io)] :
           /\ \A i \in 1..Len(io) : io[i].cell = p.io[h[i]].cell /\ io[i].cell \notin {c}
           /\ \A i, j \in 1..Len(io) : h[i] = h[j] => i = j
    <3> DEFINE I == {i \in DOMAIN p.io : p.io[i].cell # c}
    <3>1. I \in SUBSET DOMAIN p.io
      OBVIOUS
    <3>2. Picked(io, p.io, I)
      BY <1>2, <3>1, Selected
    <3> HIDE DEF io
    <3> QED BY <3>2 DEF Picked
  <2>2. \E h \in [1..Len(main) -> 1..Len(p.main)] :
           /\ \A i \in 1..Len(main), e \in Cells :
                 /\ Found(r, i, e) => Found(p, h[i], e) /\ e \notin {c}
                 /\ Loaded(r, i, e) => /\ Loaded(p, h[i], e) /\ e \notin {c}
                                       /\ main[i].url = p.main[h[i]].url
           /\ \A i, j \in 1..Len(main) : h[i] = h[j] => i = j
    <3>1. PICK h \in [1..Len(main) -> 1..Len(p.main)] :
             /\ \A i \in 1..Len(main) :
                   /\ main[i].kind = p.main[h[i]].kind
                   /\ main[i].kind = "found" => main[i].cell = p.main[h[i]].cell /\ main[i].cell # c
                   /\ main[i].kind = "loaded" => /\ main[i].url = p.main[h[i]].url
                                                 /\ main[i].cells = p.main[h[i]].cells \ {c}
             /\ \A i, j \in 1..Len(main) : h[i] = h[j] => i = j
      <4>1. Forgets(main, p.main, c)
        BY <1>2, ForgetBlocks
      <4> HIDE DEF main
      <4> QED BY <4>1 DEF Forgets
    <3> HIDE DEF main
    <3> QED BY <1>3, <3>1 DEF Found, Loaded
  <2>3. \A i \in 1..MaxDownloads, e \in Cells :
           Waits(r, i, e) => /\ Waits(p, i, e) /\ e \notin {c}
                             /\ r.ops[i].url = p.ops[i].url
    BY <1>3, <1>7 DEF Waits
  <2> HIDE DEF io, main
  <2> QED BY <1>3, <2>1, <2>2, <2>3 DEF PlacesOf
<1> HIDE DEF io, main
<1>11. r \in Pics
  BY <1>2, <1>3, <1>4, <1>7, <1>8, <1>9, PicsFrom
<1>12. LoadsEnd(r, p, {c})
  BY <1>3, <1>4 DEF LoadsEnd
<1>13. DownloadsEnd(r, p)
  <2>1. \A u \in Users : p.operationOf[u] # 0 => p.operationOf[u] \in 1..MaxDownloads
    BY <1>2, SizesAssumption
  <2> QED BY <1>1, <1>3, <1>7, <1>8, <2>1 DEF DownloadsEnd, UrlsOK
<1>14. Fit(r)
  BY <1>10, <1>11, <1>12, <1>13, FewerLoads
<1> QED BY <1>3, <1>10, <1>14 DEF r, cell

(* What the cells C do leaves the loads of the others where they are.      *)
Stays(r, p, c) ==
  /\ r.cell[c].stage = p.cell[c].stage /\ r.cell[c].url = p.cell[c].url
  /\ \A i \in 1..Len(r.io) : Asks(r, i, c) => i \in 1..Len(p.io) /\ Asks(p, i, c)
  /\ \A i \in 1..Len(r.main) :
        /\ Found(r, i, c) => i \in 1..Len(p.main) /\ Found(p, i, c)
        /\ Loaded(r, i, c) => /\ i \in 1..Len(p.main) /\ Loaded(p, i, c)
                              /\ r.main[i].url = p.main[i].url
  /\ \A i \in 1..MaxDownloads :
        Waits(r, i, c) => Waits(p, i, c) /\ r.ops[i].url = p.ops[i].url

LEMMA Placeless ==
  ASSUME NEW p, NEW r, NEW C, PlacesOf(r, p, C), NEW c \in Cells, c \in C
  PROVE  NoPlace(r, c)
BY DEF NoPlace, PlacesOf, Asks

LEMMA OthersStay ==
  ASSUME NEW p, Fit(p), NEW r \in Pics, NEW C \in SUBSET Cells, UrlsOK(r),
         \A c \in Cells \ C : Stays(r, p, c),
         \A c \in C : Placed(r, c) /\ Once(r, c)
  PROVE  Fit(r)
<1>1. ASSUME NEW c \in Cells \ C
      PROVE  Placed(r, c) /\ Once(r, c)
  <2>1. Placed(p, c) /\ Once(p, c) /\ Stays(r, p, c)
    BY DEF Fit, PlacesOK, OnePlace
  <2>2. Placed(r, c)
    BY <2>1 DEF Placed, Stays
  <2>3. Once(r, c)
    BY <2>1 DEF Once, Stays
  <2> QED BY <2>2, <2>3
<1> QED BY <1>1 DEF Fit, PlacesOK, OnePlace

(* A load that is nowhere asks the disk.                                   *)
LEMMA AddQuestion ==
  ASSUME NEW p, Fit(p), NEW r \in Pics, NEW c \in Cells, NoPlace(p, c),
         NEW b \in BOOLEAN, r.io = Append(p.io, [cell |-> c, hit |-> b]),
         r.main = p.main, r.ops = p.ops, r.operationOf = p.operationOf,
         r.cell[c].stage = "query", r.cell[c].url \in Users,
         \A d \in Cells \ {c} : r.cell[d] = p.cell[d]
  PROVE  Fit(r)
<1>1. p \in Pics /\ UrlsOK(p)
  BY DEF Fit
<1> DEFINE q == [cell |-> c, hit |-> b]
           n == Len(p.io) + 1
<1>2. /\ Len(r.io) = n /\ Len(p.io) \in Nat /\ r.io[n] = q
      /\ \A i \in 1..Len(p.io) : r.io[i] = p.io[i]
  BY <1>1, PicsFields, AppendProperties
<1>3. q.cell = c
  OBVIOUS
<1> HIDE DEF q
<1>4. \A i \in 1..Len(r.io) : i \in 1..Len(p.io) \/ i = n
  BY <1>2
<1> HIDE DEF n
<1>5. UrlsOK(r)
  BY <1>1 DEF UrlsOK
<1>6. ASSUME NEW d \in Cells \ {c}
      PROVE  Stays(r, p, d)
  BY <1>2, <1>3, <1>4 DEF Stays, Asks, Found, Loaded, Waits
<1>7. \A i \in 1..Len(r.io) : Asks(r, i, c) => i = n
  BY <1>2, <1>4 DEF NoPlace, Asks
<1>8. \A i \in 1..Len(r.main) : ~Found(r, i, c) /\ ~Loaded(r, i, c)
  BY DEF NoPlace, Found, Loaded
<1>9. \A i \in 1..MaxDownloads : ~Waits(r, i, c)
  BY DEF NoPlace, Waits
<1>10. Placed(r, c) /\ Once(r, c)
  BY <1>7, <1>8, <1>9 DEF Placed, Once
<1>11. {c} \in SUBSET Cells /\ \A d \in {c} : Placed(r, d) /\ Once(r, d)
  BY <1>10
<1> QED BY <1>5, <1>6, <1>11, OthersStay

(* The disk answers a load that is nowhere.                                *)
LEMMA AddFound ==
  ASSUME NEW p, Fit(p), NEW r \in Pics, NEW c \in Cells, NoPlace(p, c),
         NEW b \in BOOLEAN,
         r.main = Append(p.main, [kind |-> "found", cell |-> c, hit |-> b]),
         r.io = p.io, r.ops = p.ops, r.operationOf = p.operationOf,
         r.cell[c].stage = "answer", r.cell[c].url \in Users,
         \A d \in Cells \ {c} : r.cell[d] = p.cell[d]
  PROVE  Fit(r)
<1>1. p \in Pics /\ UrlsOK(p)
  BY DEF Fit
<1> DEFINE q == [kind |-> "found", cell |-> c, hit |-> b]
           n == Len(p.main) + 1
<1>2. /\ Len(r.main) = n /\ Len(p.main) \in Nat /\ r.main[n] = q
      /\ \A i \in 1..Len(p.main) : r.main[i] = p.main[i]
  <2>1. p.main \in Seq(Blocks) /\ q \in Blocks
    BY <1>1, PicsFields DEF Blocks
  <2> QED BY <2>1, AppendProperties
<1>3. q.cell = c /\ q.kind = "found"
  OBVIOUS
<1> HIDE DEF q
<1>4. \A i \in 1..Len(r.main) : i \in 1..Len(p.main) \/ i = n
  BY <1>2
<1> HIDE DEF n
<1>5. UrlsOK(r)
  BY <1>1 DEF UrlsOK
<1>6. ASSUME NEW d \in Cells \ {c}
      PROVE  Stays(r, p, d)
  BY <1>2, <1>3, <1>4 DEF Stays, Asks, Found, Loaded, Waits
<1>7. \A i \in 1..Len(r.main) : ~Loaded(r, i, c) /\ (Found(r, i, c) => i = n)
  BY <1>2, <1>3, <1>4 DEF NoPlace, Found, Loaded
<1>8. \A i \in 1..Len(r.io) : ~Asks(r, i, c)
  BY DEF NoPlace, Asks
<1>9. \A i \in 1..MaxDownloads : ~Waits(r, i, c)
  BY DEF NoPlace, Waits
<1>10. Placed(r, c) /\ Once(r, c)
  BY <1>7, <1>8, <1>9 DEF Placed, Once
<1>11. {c} \in SUBSET Cells /\ \A d \in {c} : Placed(r, d) /\ Once(r, d)
  BY <1>10
<1> QED BY <1>5, <1>6, <1>11, OthersStay

(* SetImage and Configure: what they do to the cell, and to nothing else.  *)
Others(r, p, c) ==
  /\ \A d \in Cells \ {c} : r.cell[d] = p.cell[d]
  /\ r.cell[c].user = p.cell[c].user
  /\ r.cell \in [Cells -> CellStates]

LEMMA SetImageFit ==
  ASSUME NEW p, Fit(p), NEW c \in Cells, NEW url \in Users
  PROVE  LET r == SetImage(p, c, url)
         IN  /\ Fit(r) /\ Others(r, p, c)
             /\ r.cell[c].image \in {Nobody, url} /\ r.cell[c].url = url
<1> DEFINE q == Cancel(p, c)
           empty == [q EXCEPT !.cell[c].image = Nobody, !.cell[c].url = url]
           shown == [empty EXCEPT !.cell[c].image = url]
           hit == p.cache[url] = "disk"
           asked == [empty EXCEPT !.cell[c].stage = "query",
                                  !.io = Append(@, [cell |-> c, hit |-> hit])]
           r == SetImage(p, c, url)
<1>1. /\ Fit(q) /\ PlacesOf(q, p, {c}) /\ q.cell = [p.cell EXCEPT ![c].stage = "none"]
      /\ q.cache = p.cache /\ q.failed = p.failed
  BY CancelFit
<1>2. r = empty \/ r = shown \/ r = asked
  BY DEF SetImage
<1> HIDE DEF q, r
<1>3. q \in Pics /\ p \in Pics /\ Whole(q) /\ q.cell \in [Cells -> CellStates]
      /\ p.cell \in [Cells -> CellStates]
  BY <1>1, PicsFields DEF Fit
<1>4. /\ q.cell[c].stage = "none" /\ q.cell[c].user = p.cell[c].user
      /\ \A d \in Cells \ {c} : q.cell[d] = p.cell[d]
  BY <1>1, <1>3 DEF CellStates
<1>5. url \in Pictures /\ Nobody \in Pictures
  BY DEF Pictures
<1> DEFINE cell == [q.cell EXCEPT ![c] = [q.cell[c] EXCEPT !.image = Nobody, !.url = url]]
<1>6. /\ cell \in [Cells -> CellStates] /\ cell[c].stage = "none" /\ cell[c].url = url
      /\ cell[c].image = Nobody /\ cell[c].user = q.cell[c].user
      /\ \A d \in Cells \ {c} : cell[d] = q.cell[d]
  BY <1>3, <1>4, <1>5 DEF CellStates
<1>7. empty = [q EXCEPT !.cell = cell]
  OBVIOUS
<1> HIDE DEF cell, empty
<1>8. /\ empty.cell = cell /\ empty.io = q.io /\ empty.main = q.main /\ empty.ops = q.ops
      /\ empty.operationOf = q.operationOf /\ empty.cache = q.cache
      /\ empty.failed = q.failed /\ Whole(empty)
  <2>1. Whole(empty)
    BY <1>3, <1>7, StaysWhole
  <2> QED BY <1>3, <1>7, <2>1 DEF Whole
<1>9. empty \in Pics
  <2> HIDE DEF hit
  <2> QED BY <1>3, <1>6, <1>8, PicsFields, PicsFrom
<1>10. NoPlace(q, c)
  BY <1>1, Placeless
<1>11. NoPlace(empty, c)
  BY <1>8, <1>10 DEF NoPlace, Asks, Found, Loaded, Waits
<1>12. Fit(empty)
  <2>1. UrlsOK(empty)
    BY <1>1, <1>6, <1>8 DEF Fit, UrlsOK
  <2>2. \A d \in Cells \ {c} : Stays(empty, q, d)
    BY <1>6, <1>8 DEF Stays, Asks, Found, Loaded, Waits
  <2>3. {c} \in SUBSET Cells /\ \A d \in {c} : Placed(empty, d) /\ Once(empty, d)
    BY <1>11 DEF NoPlace, Placed, Once
  <2> QED BY <1>1, <1>9, <2>1, <2>2, <2>3, OthersStay
<1>13. Others(empty, p, c)
  BY <1>4, <1>6, <1>8 DEF Others
<1>14. CASE r = empty
  BY <1>6, <1>8, <1>12, <1>13, <1>14 DEF r
<1>15. CASE r = shown
  <2> DEFINE lit == [cell EXCEPT ![c] = [cell[c] EXCEPT !.image = url]]
  <2>1. /\ lit \in [Cells -> CellStates] /\ lit[c].stage = "none" /\ lit[c].url = url
        /\ lit[c].image = url /\ lit[c].user = cell[c].user
        /\ \A d \in Cells \ {c} : lit[d] = cell[d]
    BY <1>5, <1>6 DEF CellStates
  <2>2. r = [empty EXCEPT !.cell = lit]
    BY <1>8, <1>15
  <2> HIDE DEF lit
  <2>3. /\ r.cell = lit /\ r.io = empty.io /\ r.main = empty.main /\ r.ops = empty.ops
        /\ r.operationOf = empty.operationOf /\ r.cache = empty.cache
        /\ r.failed = empty.failed /\ Whole(r)
    <3>1. Whole(r)
      BY <1>8, <2>2, StaysWhole
    <3> QED BY <1>8, <2>2, <3>1 DEF Whole
  <2>4. r \in Pics
    BY <1>9, <2>1, <2>3, PicsFields, PicsFrom
  <2>5. UrlsOK(r)
    BY <1>12, <2>1, <1>8, <2>3 DEF Fit, UrlsOK
  <2>6. \A d \in Cells \ {c} : Stays(r, empty, d)
    BY <1>8, <2>1, <2>3 DEF Stays, Asks, Found, Loaded, Waits
  <2>7. NoPlace(r, c)
    BY <1>11, <2>3 DEF NoPlace, Asks, Found, Loaded, Waits
  <2>8. {c} \in SUBSET Cells /\ \A d \in {c} : Placed(r, d) /\ Once(r, d)
    BY <2>7 DEF NoPlace, Placed, Once
  <2>9. Fit(r)
    BY <1>12, <2>4, <2>5, <2>6, <2>8, OthersStay
  <2>10. Others(r, p, c)
    BY <1>8, <1>13, <2>1, <2>3 DEF Others
  <2> QED BY <2>1, <2>3, <2>9, <2>10 DEF r
<1>16. CASE r = asked
  <2> DEFINE busy == [cell EXCEPT ![c] = [cell[c] EXCEPT !.stage = "query"]]
             io == Append(empty.io, [cell |-> c, hit |-> hit])
  <2>1. /\ busy \in [Cells -> CellStates] /\ busy[c].stage = "query" /\ busy[c].url = url
        /\ busy[c].image = Nobody /\ busy[c].user = cell[c].user
        /\ \A d \in Cells \ {c} : busy[d] = cell[d]
    BY <1>6 DEF CellStates
  <2>2. r = [empty EXCEPT !.cell = busy, !.io = io]
    BY <1>8, <1>16
  <2>3. hit \in BOOLEAN
    OBVIOUS
  <2> HIDE DEF busy, hit
  <2>4. io \in Seq(Questions)
    <3>1. [cell |-> c, hit |-> hit] \in Questions
      BY <2>3 DEF Questions
    <3>2. empty.io \in Seq(Questions)
      BY <1>9, PicsFields
    <3> QED BY <3>1, <3>2, AppendProperties
  <2> HIDE DEF io
  <2>5. /\ r.cell = busy /\ r.io = io /\ r.main = empty.main /\ r.ops = empty.ops
        /\ r.operationOf = empty.operationOf /\ r.cache = empty.cache
        /\ r.failed = empty.failed /\ Whole(r)
    <3> DEFINE e == [empty EXCEPT !.cell = busy]
    <3>1. Whole(e) /\ r = [e EXCEPT !.io = io]
      BY <1>8, <2>2, StaysWhole
    <3> HIDE DEF e
    <3>2. Whole(r)
      BY <3>1, StaysWhole
    <3> QED BY <1>8, <2>2, <3>2 DEF Whole
  <2>6. r \in Pics
    BY <1>9, <2>1, <2>4, <2>5, PicsFields, PicsFrom
  <2>7. Fit(r)
    <3>1. r.io = Append(empty.io, [cell |-> c, hit |-> hit])
      BY <2>5 DEF io
    <3>2. /\ r.cell[c].stage = "query" /\ r.cell[c].url \in Users
          /\ \A d \in Cells \ {c} : r.cell[d] = empty.cell[d]
      BY <1>8, <2>1, <2>5
    <3> QED BY <1>11, <1>12, <2>3, <2>5, <2>6, <3>1, <3>2, AddQuestion
  <2>8. Others(r, p, c)
    BY <1>8, <1>13, <2>1, <2>5 DEF Others
  <2> QED BY <2>1, <2>5, <2>7, <2>8 DEF r
<1> QED BY <1>2, <1>14, <1>15, <1>16 DEF r

LEMMA ConfigureFit ==
  ASSUME NEW p, Fit(p), NEW c \in Cells, NEW user \in Users
  PROVE  LET r == Configure(p, c, user)
         IN  /\ Fit(r) /\ Dressed(r.cell[c]) /\ r.cell[c].user = user
             /\ \A d \in Cells \ {c} : r.cell[d] = p.cell[d]
<1> DEFINE named == [p EXCEPT !.cell[c].user = user]
           cell == [p.cell EXCEPT ![c] = [p.cell[c] EXCEPT !.user = user]]
           r == Configure(p, c, user)
<1>1. r = IF user \in NoPicture THEN named ELSE SetImage(named, c, user)
  BY DEF Configure
<1> HIDE DEF r
<1>2. p \in Pics /\ Whole(p) /\ p.cell \in [Cells -> CellStates]
  BY PicsFields DEF Fit
<1>3. /\ cell \in [Cells -> CellStates] /\ cell[c].user = user
      /\ cell[c].stage = p.cell[c].stage /\ cell[c].url = p.cell[c].url
      /\ \A d \in Cells \ {c} : cell[d] = p.cell[d]
  BY <1>2 DEF CellStates, Pictures
<1>4. named = [p EXCEPT !.cell = cell]
  OBVIOUS
<1> HIDE DEF cell, named
<1>5. /\ named.cell = cell /\ named.io = p.io /\ named.main = p.main /\ named.ops = p.ops
      /\ named.operationOf = p.operationOf /\ named.cache = p.cache
      /\ named.failed = p.failed /\ Whole(named)
  <2>1. Whole(named)
    BY <1>2, <1>4, StaysWhole
  <2> QED BY <1>2, <1>4, <2>1 DEF Whole
<1>6. named \in Pics
  BY <1>2, <1>3, <1>5, PicsFields, PicsFrom
<1>7. Fit(named)
  <2>1. \A d \in Cells : Stays(named, p, d)
    BY <1>3, <1>5 DEF Stays, Asks, Found, Loaded, Waits
  <2>2. UrlsOK(named)
    BY <1>3, <1>5 DEF Fit, UrlsOK
  <2>3. {} \in SUBSET Cells /\ Cells \ {} = Cells
    OBVIOUS
  <2> QED BY <1>6, <2>1, <2>2, <2>3, OthersStay
<1>8. CASE user \in NoPicture
  BY <1>1, <1>3, <1>5, <1>7, <1>8 DEF Dressed, r
<1>9. CASE user \notin NoPicture
  <2>1. /\ Fit(r) /\ Others(r, named, c)
        /\ r.cell[c].image \in {Nobody, user} /\ r.cell[c].url = user
    BY <1>1, <1>7, <1>9, SetImageFit
  <2>2. r.cell[c].user = user /\ \A d \in Cells \ {c} : r.cell[d] = p.cell[d]
    BY <1>3, <1>5, <2>1 DEF Others
  <2> QED BY <2>1, <2>2 DEF Dressed, r
<1> QED BY <1>8, <1>9

-----------------------------------------------------------------------------
(***************************************************************************)
(* The steps of SDWebImage.                                                *)
(***************************************************************************)

(* What they do for the cells.                                             *)
PicsStep ==
  /\ Fit(pics')
  /\ \A c \in Cells : Dressed(pics'.cell[c]) /\ pics'.cell[c].user = pics.cell[c].user

(* What other threads do while the main queue is about to add a callback.  *)
JoinsStay == \A c \in Cells : Joined(pics, c) => Joined(pics', c)

LEMMA JoinedStays ==
  ASSUME NEW p, NEW r, NEW c \in Cells, Joined(p, c), Stays(r, p, c),
         r.operationOf = p.operationOf
  PROVE  Joined(r, c)
<1>1. NoPlace(r, c)
  BY DEF Joined, NoPlace, Stays
<1> QED BY <1>1 DEF Joined, Stays

LEMMA MemoryWarningFit == IInv /\ MemoryWarning => PicsStep
<1> SUFFICES ASSUME IInv, MemoryWarning PROVE PicsStep
  OBVIOUS
<1>1. PICK gone \in SUBSET {u \in Users : pics.cache[u] = "memory"} :
         pics' = [pics EXCEPT !.cache =
                      [u \in Users |-> IF u \in gone THEN "disk" ELSE pics.cache[u]]]
  BY DEF MemoryWarning
<1> DEFINE cache == [u \in Users |-> IF u \in gone THEN "disk" ELSE pics.cache[u]]
<1>2. Fit(pics) /\ pics \in Pics /\ Whole(pics)
  BY PicsFields DEF IInv, Fit
<1>3. cache \in [Users -> {"none", "disk", "memory"}]
  BY <1>2, PicsFields
<1>4. pics' = [pics EXCEPT !.cache = cache]
  BY <1>1
<1> HIDE DEF cache
<1>5. /\ pics'.cell = pics.cell /\ pics'.io = pics.io /\ pics'.main = pics.main
      /\ pics'.ops = pics.ops /\ pics'.operationOf = pics.operationOf
      /\ pics'.cache = cache /\ pics'.failed = pics.failed /\ Whole(pics')
  <2>1. Whole(pics')
    BY <1>2, <1>4, StaysWhole
  <2> QED BY <1>2, <1>4, <2>1 DEF Whole
<1>6. pics' \in Pics
  BY <1>2, <1>3, <1>5, PicsFields, PicsFrom
<1>7. Fit(pics')
  <2>1. \A d \in Cells : Stays(pics', pics, d)
    BY <1>5 DEF Stays, Asks, Found, Loaded, Waits
  <2>2. UrlsOK(pics')
    BY <1>2, <1>5 DEF Fit, UrlsOK
  <2>3. {} \in SUBSET Cells /\ Cells \ {} = Cells
    OBVIOUS
  <2> QED BY <1>2, <1>6, <2>1, <2>2, <2>3, OthersStay
<1> QED BY <1>5, <1>7 DEF PicsStep, IInv

LEMMA ReadDiskFit == IInv /\ ReadDisk => PicsStep /\ JoinsStay
<1> SUFFICES ASSUME IInv, ReadDisk PROVE PicsStep /\ JoinsStay
  OBVIOUS
<1> DEFINE q == Head(pics.io)
           c == q.cell
           url == pics.cell[c].url
           io == Tail(pics.io)
           block == [kind |-> "found", cell |-> c, hit |-> q.hit]
           cache == [pics.cache EXCEPT ![url] = IF q.hit THEN "memory" ELSE @]
           off == [pics.cell EXCEPT ![c] = [pics.cell[c] EXCEPT !.stage = "none"]]
           cell == [pics.cell EXCEPT ![c] = [pics.cell[c] EXCEPT !.stage = "answer"]]
           between == [cell |-> off, ops |-> pics.ops, operationOf |-> pics.operationOf,
                       cache |-> cache, io |-> io, failed |-> pics.failed,
                       main |-> pics.main]
<1>1. Fit(pics) /\ pics \in Pics /\ Whole(pics) /\ UrlsOK(pics)
  BY PicsFields DEF IInv, Fit
<1>2. /\ pics.io \in Seq(Questions) /\ pics.io # <<>>
      /\ pics.cell \in [Cells -> CellStates] /\ pics.main \in Seq(Blocks)
      /\ pics.cache \in [Users -> {"none", "disk", "memory"}]
  BY <1>1, PicsFields DEF ReadDisk
<1>3. /\ io \in Seq(Questions) /\ Picked(io, pics.io, 2..Len(pics.io))
      /\ q = pics.io[1] /\ q \in Questions /\ 1 \in 1..Len(pics.io)
  BY <1>2, TailPicked
<1>4. pics' = [pics EXCEPT !.io = io, !.cell = cell, !.cache = cache,
                           !.main = Append(pics.main, block)]
  BY DEF ReadDisk
<1> HIDE DEF io, q
<1>5. c \in Cells /\ q.hit \in BOOLEAN /\ Asks(pics, 1, c)
  BY <1>3 DEF Questions, Asks
<1> HIDE DEF c
<1>6. Placed(pics, c) /\ Once(pics, c)
  BY <1>1, <1>5 DEF Fit, PlacesOK, OnePlace
<1>7. pics.cell[c].stage = "query" /\ url \in Users
  BY <1>1, <1>3, <1>5, <1>6 DEF Placed, UrlsOK
<1>8. /\ cell \in [Cells -> CellStates] /\ off \in [Cells -> CellStates]
      /\ cell[c].stage = "answer" /\ cell[c].url = url /\ off[c].stage = "none"
      /\ cell[c].user = pics.cell[c].user /\ cell[c].image = pics.cell[c].image
      /\ \A d \in Cells \ {c} : cell[d] = pics.cell[d] /\ off[d] = pics.cell[d]
  BY <1>2, <1>5 DEF CellStates
<1>9. cache \in [Users -> {"none", "disk", "memory"}]
  BY <1>2, <1>7
<1>10. block \in Blocks
  BY <1>5 DEF Blocks
<1> DEFINE main == Append(pics.main, block)
<1>11. main \in Seq(Blocks)
  BY <1>2, <1>10, AppendProperties
<1> HIDE DEF cell, off, cache, block, url, main
<1>12. /\ pics'.cell = cell /\ pics'.io = io /\ pics'.main = main
       /\ pics'.ops = pics.ops /\ pics'.operationOf = pics.operationOf
       /\ pics'.cache = cache /\ pics'.failed = pics.failed /\ Whole(pics')
  <2> DEFINE p1 == [pics EXCEPT !.io = io]
             p2 == [p1 EXCEPT !.cell = cell]
             p3 == [p2 EXCEPT !.cache = cache]
             p4 == [p3 EXCEPT !.main = main]
  <2>1. pics' = p4
    BY <1>4 DEF main
  <2>2. Whole(p1)
    BY <1>1, StaysWhole
  <2> HIDE DEF p1
  <2>3. Whole(p2)
    BY <2>2, StaysWhole
  <2> HIDE DEF p2
  <2>4. Whole(p3)
    BY <2>3, StaysWhole
  <2> HIDE DEF p3
  <2>5. Whole(p4)
    BY <2>4, StaysWhole
  <2>6. pics' = [pics EXCEPT !.io = io, !.cell = cell, !.cache = cache, !.main = main]
    BY <1>4 DEF main
  <2> HIDE DEF p4
  <2> QED BY <1>1, <2>1, <2>5, <2>6 DEF Whole
<1>13. pics' \in Pics
  BY <1>1, <1>3, <1>8, <1>9, <1>11, <1>12, PicsFields, PicsFrom
<1>14. /\ between.cell = off /\ between.io = io /\ between.main = pics.main
       /\ between.ops = pics.ops /\ between.operationOf = pics.operationOf
       /\ between.cache = cache /\ between.failed = pics.failed /\ Whole(between)
  BY DEF Whole
<1> HIDE DEF between
<1>15. between \in Pics
  BY <1>1, <1>3, <1>8, <1>9, <1>14, PicsFields, PicsFrom
<1>16. PlacesOf(between, pics, {c})
  <2>1. \E h \in [1..Len(between.io) -> 1..Len(pics.io)] :
           /\ \A i \in 1..Len(between.io) : /\ between.io[i].cell = pics.io[h[i]].cell
                                            /\ between.io[i].cell \notin {c}
           /\ \A i, j \in 1..Len(between.io) : h[i] = h[j] => i = j
    <3>1. PICK h \in [1..Len(io) -> 1..Len(pics.io)] :
             /\ \A i \in 1..Len(io) : h[i] \in 2..Len(pics.io) /\ io[i] = pics.io[h[i]]
             /\ \A i, j \in 1..Len(io) : h[i] = h[j] => i = j
      BY <1>3 DEF Picked
    <3>2. ASSUME NEW i \in 1..Len(io)  PROVE io[i].cell # c
      <4>1. h[i] \in 1..Len(pics.io) /\ h[i] # 1
        BY <3>1
      <4> QED BY <1>3, <1>5, <1>6, <3>1, <4>1 DEF Once, Asks
    <3> QED BY <1>14, <3>1, <3>2
  <2>2. \E h \in [1..Len(between.main) -> 1..Len(pics.main)] :
           /\ \A i \in 1..Len(between.main), d \in Cells :
                 /\ Found(between, i, d) => Found(pics, h[i], d) /\ d \notin {c}
                 /\ Loaded(between, i, d) => /\ Loaded(pics, h[i], d) /\ d \notin {c}
                                             /\ between.main[i].url = pics.main[h[i]].url
           /\ \A i, j \in 1..Len(between.main) : h[i] = h[j] => i = j
    <3> DEFINE h == [i \in 1..Len(pics.main) |-> i]
    <3>1. h \in [1..Len(between.main) -> 1..Len(pics.main)]
      BY <1>14
    <3>2. \A i \in 1..Len(pics.main) : ~Found(pics, i, c) /\ ~Loaded(pics, i, c)
      BY <1>6, <1>7 DEF Placed
    <3>3. \A i \in 1..Len(between.main) : h[i] = i
      BY <1>14
    <3> HIDE DEF h
    <3> QED BY <1>14, <3>1, <3>2, <3>3 DEF Found, Loaded
  <2>3. \A i \in 1..MaxDownloads, d \in Cells :
           Waits(between, i, d) => /\ Waits(pics, i, d) /\ d \notin {c}
                                   /\ between.ops[i].url = pics.ops[i].url
    BY <1>6, <1>7, <1>14 DEF Placed, Waits
  <2> QED BY <2>1, <2>2, <2>3 DEF PlacesOf
<1>17. Fit(between)
  <2>1. LoadsEnd(between, pics, {c})
    BY <1>8, <1>14 DEF LoadsEnd
  <2>2. DownloadsEnd(between, pics)
    BY <1>1, <1>14 DEF DownloadsEnd, UrlsOK
  <2>3. {c} \in SUBSET Cells
    BY <1>5
  <2> QED BY <1>1, <1>15, <1>16, <2>1, <2>2, <2>3, FewerLoads
<1>18. Fit(pics')
  <2>1. NoPlace(between, c)
    BY <1>5, <1>16, Placeless
  <2>2. pics'.main = Append(between.main, [kind |-> "found", cell |-> c, hit |-> q.hit])
    BY <1>12, <1>14 DEF main, block
  <2>3. /\ pics'.cell[c].stage = "answer" /\ pics'.cell[c].url \in Users
        /\ \A d \in Cells \ {c} : pics'.cell[d] = between.cell[d]
    BY <1>7, <1>8, <1>12, <1>14
  <2> QED BY <1>5, <1>12, <1>13, <1>14, <1>17, <2>1, <2>2, <2>3, AddFound
<1>19. \A d \in Cells : /\ pics'.cell[d].user = pics.cell[d].user
                        /\ pics'.cell[d].url = pics.cell[d].url
                        /\ pics'.cell[d].image = pics.cell[d].image
  BY <1>8, <1>12 DEF url
<1>20. ASSUME NEW d \in Cells, Joined(pics, d)
       PROVE  Joined(pics', d)
  <2>1. d # c /\ pics.cell[d].stage = "download"
    BY <1>7, <1>20 DEF Joined
  <2>2. pics'.cell[d] = pics.cell[d]
    BY <1>8, <1>12, <2>1
  <2>3. \A i \in 1..Len(pics'.io) : ~Asks(pics', i, d)
    <3>1. \A i \in 1..Len(between.io) : \E j \in 1..Len(pics.io) :
             between.io[i].cell = pics.io[j].cell
      BY <1>16 DEF PlacesOf
    <3>2. \A j \in 1..Len(pics.io) : pics.io[j].cell # d
      BY <1>20 DEF Joined, NoPlace, Asks
    <3>3. pics'.io = between.io
      BY <1>12, <1>14
    <3> QED BY <3>1, <3>2, <3>3 DEF Asks
  <2>4. \A i \in 1..Len(pics'.main) : ~Found(pics', i, d) /\ ~Loaded(pics', i, d)
    <3>1. block.kind = "found" /\ block.cell = c
      BY DEF block
    <3>2. /\ Len(pics.main) \in Nat /\ Len(main) = Len(pics.main) + 1
          /\ main[Len(pics.main) + 1] = block
          /\ \A i \in 1..Len(pics.main) : main[i] = pics.main[i]
      BY <1>2, <1>10, AppendProperties, LenProperties DEF main
    <3>3. \A i \in 1..Len(main) : i \in 1..Len(pics.main) \/ i = Len(pics.main) + 1
      BY <3>2
    <3>4. \A i \in 1..Len(pics.main) : ~Found(pics, i, d) /\ ~Loaded(pics, i, d)
      BY <1>20 DEF Joined, NoPlace
    <3> QED BY <1>12, <2>1, <3>1, <3>2, <3>3, <3>4 DEF Found, Loaded
  <2>5. \A i \in 1..MaxDownloads : ~Waits(pics', i, d)
    BY <1>12, <1>20 DEF Joined, NoPlace, Waits
  <2> QED BY <1>12, <1>20, <2>2, <2>3, <2>4, <2>5 DEF Joined, NoPlace
<1> QED BY <1>18, <1>19, <1>20 DEF PicsStep, JoinsStay, IInv, Dressed

(* A load that is nowhere waits for the download i.                        *)
LEMMA AddWaiter ==
  ASSUME NEW p, Fit(p), NEW r \in Pics, NEW c \in Cells, NoPlace(p, c),
         NEW i \in 1..MaxDownloads, r.io = p.io, r.main = p.main, UrlsOK(r),
         \A j \in 1..MaxDownloads : j # i => r.ops[j] = p.ops[j],
         \A d \in r.ops[i].waiting \ {c} : /\ d \in p.ops[i].waiting
                                          /\ r.ops[i].url = p.ops[i].url,
         r.cell[c].stage = "download", r.cell[c].url = r.ops[i].url,
         \A d \in Cells \ {c} : r.cell[d] = p.cell[d]
  PROVE  Fit(r)
<1>1. ASSUME NEW d \in Cells \ {c}
      PROVE  Stays(r, p, d)
  <2>1. ASSUME NEW j \in 1..MaxDownloads, Waits(r, j, d)
        PROVE  Waits(p, j, d) /\ r.ops[j].url = p.ops[j].url
    BY <2>1 DEF Waits
  <2> QED BY <2>1 DEF Stays, Asks, Found, Loaded
<1>2. \A j \in 1..MaxDownloads : Waits(r, j, c) => j = i
  BY DEF NoPlace, Waits
<1>3. /\ \A j \in 1..Len(r.io) : ~Asks(r, j, c)
      /\ \A j \in 1..Len(r.main) : ~Found(r, j, c) /\ ~Loaded(r, j, c)
  BY DEF NoPlace, Asks, Found, Loaded
<1>4. Placed(r, c) /\ Once(r, c)
  BY <1>2, <1>3 DEF Placed, Once
<1>5. {c} \in SUBSET Cells /\ \A d \in {c} : Placed(r, d) /\ Once(r, d)
  BY <1>4
<1> QED BY <1>1, <1>5, OthersStay

(* The block with the answer of the disk is taken from the main queue.     *)
LEMMA TakeFound ==
  ASSUME NEW p, Fit(p), p.main # <<>>, Head(p.main).kind = "found", NEW r \in Pics,
         r.main = Tail(p.main), r.io = p.io, r.ops = p.ops,
         r.operationOf = p.operationOf,
         r.cell[Head(p.main).cell].stage = "none",
         \A d \in Cells \ {Head(p.main).cell} : r.cell[d] = p.cell[d]
  PROVE  Fit(r) /\ NoPlace(r, Head(p.main).cell)
<1> DEFINE b == Head(p.main)
           c == b.cell
           main == Tail(p.main)
<1>1. p \in Pics /\ p.main \in Seq(Blocks) /\ UrlsOK(p)
  BY PicsFields DEF Fit
<1>2. /\ Picked(main, p.main, 2..Len(p.main))
      /\ b = p.main[1] /\ b \in Blocks /\ 1 \in 1..Len(p.main)
  BY <1>1, TailPicked
<1>3. b.kind = "found" /\ r.main = main /\ r.cell[c].stage = "none"
      /\ \A d \in Cells \ {c} : r.cell[d] = p.cell[d]
  OBVIOUS
<1> HIDE DEF b, main
<1>4. c \in Cells /\ Found(p, 1, c)
  BY <1>2, <1>3, BlockFields DEF Found
<1> HIDE DEF c
<1>5. Placed(p, c) /\ Once(p, c)
  BY <1>4 DEF Fit, PlacesOK, OnePlace
<1>6. p.cell[c].stage = "answer"
  BY <1>2, <1>4, <1>5 DEF Placed
<1>7. PlacesOf(r, p, {c})
  <2>1. \E h \in [1..Len(r.io) -> 1..Len(p.io)] :
           /\ \A i \in 1..Len(r.io) : /\ r.io[i].cell = p.io[h[i]].cell
                                      /\ r.io[i].cell \notin {c}
           /\ \A i, j \in 1..Len(r.io) : h[i] = h[j] => i = j
    <3> DEFINE h == [i \in 1..Len(p.io) |-> i]
    <3>1. h \in [1..Len(r.io) -> 1..Len(p.io)] /\ \A i \in 1..Len(r.io) : h[i] = i
      OBVIOUS
    <3>2. \A i \in 1..Len(p.io) : p.io[i].cell # c
      BY <1>5, <1>6 DEF Placed, Asks
    <3> HIDE DEF h
    <3> QED BY <3>1, <3>2
  <2>2. \E h \in [1..Len(r.main) -> 1..Len(p.main)] :
           /\ \A i \in 1..Len(r.main), d \in Cells :
                 /\ Found(r, i, d) => Found(p, h[i], d) /\ d \notin {c}
                 /\ Loaded(r, i, d) => /\ Loaded(p, h[i], d) /\ d \notin {c}
                                       /\ r.main[i].url = p.main[h[i]].url
           /\ \A i, j \in 1..Len(r.main) : h[i] = h[j] => i = j
    <3>1. PICK h \in [1..Len(main) -> 1..Len(p.main)] :
             /\ \A i \in 1..Len(main) : h[i] \in 2..Len(p.main) /\ main[i] = p.main[h[i]]
             /\ \A i, j \in 1..Len(main) : h[i] = h[j] => i = j
      BY <1>2 DEF Picked
    <3>2. ASSUME NEW i \in 1..Len(main), NEW d \in Cells
          PROVE  /\ Found(r, i, d) => Found(p, h[i], d) /\ d # c
                 /\ Loaded(r, i, d) => /\ Loaded(p, h[i], d) /\ d # c
                                       /\ r.main[i].url = p.main[h[i]].url
      <4>0. \A k \in 2..Len(p.main) : k # 1
        OBVIOUS
      <4>1. h[i] \in 1..Len(p.main) /\ h[i] # 1 /\ r.main[i] = p.main[h[i]]
        BY <1>3, <3>1, <4>0
      <4>2. Found(r, i, d) => Found(p, h[i], d)
        BY <4>1 DEF Found
      <4>3. Loaded(r, i, d) => Loaded(p, h[i], d)
        BY <4>1 DEF Loaded
      <4>4. ~Found(p, h[i], c)
        BY <1>2, <1>4, <1>5, <4>1 DEF Once
      <4>5. ~Loaded(p, h[i], c)
        BY <1>5, <1>6, <4>1 DEF Placed
      <4> QED BY <4>1, <4>2, <4>3, <4>4, <4>5
    <3> QED BY <1>3, <3>1, <3>2
  <2>3. \A i \in 1..MaxDownloads, d \in Cells :
           Waits(r, i, d) => /\ Waits(p, i, d) /\ d \notin {c}
                             /\ r.ops[i].url = p.ops[i].url
    BY <1>5, <1>6 DEF Placed, Waits
  <2> QED BY <2>1, <2>2, <2>3 DEF PlacesOf
<1>8. LoadsEnd(r, p, {c})
  BY <1>3 DEF LoadsEnd
<1>9. DownloadsEnd(r, p)
  BY <1>1 DEF DownloadsEnd, UrlsOK
<1>10. {c} \in SUBSET Cells
  BY <1>4
<1>11. Fit(r)
  BY <1>7, <1>8, <1>9, <1>10, FewerLoads
<1>12. NoPlace(r, c)
  BY <1>4, <1>7, Placeless
<1> QED BY <1>11, <1>12 DEF c, b

(* The block at the head of the main queue answers a load under way.       *)
LEMMA FoundHead ==
  ASSUME NEW p, Fit(p), p.main # <<>>, Head(p.main).kind = "found"
  PROVE  LET c == Head(p.main).cell
         IN  /\ c \in Cells /\ p.cell[c].stage = "answer" /\ p.cell[c].url \in Users
             /\ Tail(p.main) \in Seq(Blocks)
<1> DEFINE b == Head(p.main)
<1>1. p \in Pics /\ p.main \in Seq(Blocks) /\ UrlsOK(p) /\ PlacesOK(p)
  BY PicsFields DEF Fit
<1>2. Tail(p.main) \in Seq(Blocks) /\ b = p.main[1] /\ b \in Blocks /\ 1 \in 1..Len(p.main)
  BY <1>1, TailPicked
<1>3. b.kind = "found"
  OBVIOUS
<1> HIDE DEF b
<1>4. b.cell \in Cells /\ Found(p, 1, b.cell)
  BY <1>2, <1>3, BlockFields DEF Found
<1>5. p.cell[b.cell].stage = "answer"
  BY <1>1, <1>2, <1>4 DEF PlacesOK, Placed
<1>6. p.cell[b.cell].url \in Users
  BY <1>1, <1>4, <1>5 DEF UrlsOK
<1> QED BY <1>2, <1>4, <1>5, <1>6 DEF b

(* The load is to join a download of its URL, or starts one in a free      *)
(* operation.                                                              *)
LEMMA DownloadFit ==
  ASSUME NEW p \in Pics, NEW c \in Cells, NEW url \in Users, p.cell[c].url = url,
         Joins(p, url) \/ FreeOps(p) # {},
         NEW q, Fit(q), NoPlace(q, c), q.io = p.io, q.main = p.main, q.ops = p.ops,
         q.operationOf = p.operationOf, \A d \in Cells \ {c} : q.cell[d] = p.cell[d]
  PROVE  LET r == Download(p, c, url)
         IN  /\ Fit(r) /\ \A d \in Cells : /\ r.cell[d].user = p.cell[d].user
                                            /\ r.cell[d].url = p.cell[d].url
                                            /\ r.cell[d].image = p.cell[d].image
             /\ Joins(p, url) => Joined(r, c)
<1> DEFINE r == Download(p, c, url)
           cell == [p.cell EXCEPT ![c] = [p.cell[c] EXCEPT !.stage = "download"]]
           new == Least(FreeOps(p))
           op == [url |-> url, waiting |-> {c}, called |-> {}, phase |-> "running"]
           started == [p.ops EXCEPT ![new] = op]
           entered == [p.operationOf EXCEPT ![url] = new]
<1>1. /\ p.cell \in [Cells -> CellStates] /\ p.ops \in [1..MaxDownloads -> Operations]
      /\ p.operationOf \in [Users -> 0..MaxDownloads] /\ Whole(p)
      /\ UrlsOK(q)
  BY PicsFields DEF Fit
<1>2. /\ cell \in [Cells -> CellStates] /\ cell[c].stage = "download" /\ cell[c].url = url
      /\ \A d \in Cells : cell[d].user = p.cell[d].user /\ cell[d].url = p.cell[d].url
                          /\ cell[d].image = p.cell[d].image
      /\ \A d \in Cells \ {c} : cell[d] = q.cell[d]
  BY <1>1 DEF CellStates
<1>3. CASE Joins(p, url)
  <2>1. r = [p EXCEPT !.cell = cell]
    BY <1>3 DEF Download
  <2> HIDE DEF cell, r
  <2>2. /\ r.cell = cell /\ r.ops = p.ops /\ r.io = p.io /\ r.main = p.main
        /\ r.operationOf = p.operationOf /\ r.cache = p.cache /\ r.failed = p.failed
        /\ Whole(r)
    <3>1. Whole(r)
      BY <1>1, <2>1, StaysWhole
    <3> QED BY <1>1, <2>1, <3>1 DEF Whole
  <2>3. r \in Pics
    BY <1>1, <1>2, <2>2, PicsFields, PicsFrom
  <2>4. NoPlace(r, c)
    BY <2>2 DEF NoPlace, Asks, Found, Loaded, Waits
  <2>5. Placed(r, c) /\ Once(r, c)
    BY <2>4 DEF Placed, Once, NoPlace
  <2>6. UrlsOK(r)
    <3>1. ASSUME NEW d \in Cells, r.cell[d].stage # "none"  PROVE r.cell[d].url \in Users
      BY <1>1, <1>2, <2>2, <3>1 DEF UrlsOK
    <3> QED BY <1>1, <2>2, <3>1 DEF UrlsOK
  <2>7. \A d \in Cells \ {c} : Stays(r, q, d)
    BY <1>2, <2>2 DEF Stays, Asks, Found, Loaded, Waits
  <2>8. Fit(r)
    <3>1. {c} \in SUBSET Cells /\ \A d \in {c} : Placed(r, d) /\ Once(r, d)
      BY <2>5
    <3> QED BY <2>3, <2>6, <2>7, <3>1, OthersStay
  <2>9. Joined(r, c)
    BY <1>2, <1>3, <2>2, <2>4 DEF Joined, Joins
  <2> QED BY <1>2, <2>2, <2>8, <2>9 DEF r
<1>4. CASE ~Joins(p, url)
  <2>1. r = [p EXCEPT !.cell = cell, !.ops = started, !.operationOf = entered]
    <3>1. r = [p EXCEPT !.cell[c].stage = "download",
                        !.ops[new] = [url |-> url, waiting |-> {c}, called |-> {},
                                      phase |-> "running"],
                        !.operationOf[url] = new]
      BY <1>4 DEF Download
    <3> HIDE DEF new
    <3> QED BY <3>1
  <2>2. new \in 1..MaxDownloads /\ p.ops[new].phase = "free"
    <3> DEFINE F == FreeOps(p)
    <3>1. F \subseteq 1..MaxDownloads /\ F # {} /\ \A j \in F : p.ops[j].phase = "free"
      BY <1>1, <1>4 DEF FreeOps
    <3>2. IsFiniteSet(1..MaxDownloads)
      BY SizesAssumption, FS_Interval
    <3> HIDE DEF F
    <3>3. IsFiniteSet(F)
      BY <3>1, <3>2, FS_Subset
    <3>5. F \subseteq Nat
      BY <3>1
    <3>4. Least(F) \in F
      BY <3>1, <3>3, <3>5, LeastOf
    <3> QED BY <3>1, <3>4 DEF F
  <2> HIDE DEF cell, r, new
  <2>3. op \in Operations /\ op.url = url /\ op.waiting = {c} /\ op.phase = "running"
    BY DEF Operations, Phases, Pictures
  <2> HIDE DEF op
  <2>4. /\ started \in [1..MaxDownloads -> Operations] /\ started[new] = op
        /\ \A j \in 1..MaxDownloads : j # new => started[j] = p.ops[j]
    BY <1>1, <2>2, <2>3
  <2>5. /\ entered \in [Users -> 0..MaxDownloads] /\ entered[url] = new
        /\ \A u \in Users : u # url => entered[u] = p.operationOf[u]
    <3>1. new \in 0..MaxDownloads
      BY <2>2
    <3> QED BY <1>1, <3>1
  <2> HIDE DEF started, entered
  <2>6. /\ r.cell = cell /\ r.ops = started /\ r.operationOf = entered
        /\ r.io = p.io /\ r.main = p.main /\ r.cache = p.cache /\ r.failed = p.failed
        /\ Whole(r)
    <3> DEFINE e == [p EXCEPT !.cell = cell]
               f == [e EXCEPT !.ops = started]
    <3>1. Whole(e) /\ r = [f EXCEPT !.operationOf = entered]
      BY <1>1, <2>1, StaysWhole
    <3> HIDE DEF e
    <3>2. Whole(f)
      BY <3>1, StaysWhole
    <3> HIDE DEF f
    <3>3. Whole(r)
      BY <3>1, <3>2, StaysWhole
    <3> QED BY <1>1, <2>1, <3>3 DEF Whole
  <2>7. r \in Pics
    BY <1>2, <2>4, <2>5, <2>6, PicsFields, PicsFrom
  <2>8. UrlsOK(r)
    <3>1. ASSUME NEW d \in Cells, r.cell[d].stage # "none"  PROVE r.cell[d].url \in Users
      BY <1>1, <1>2, <2>6, <3>1 DEF UrlsOK
    <3>2. ASSUME NEW j \in 1..MaxDownloads, r.ops[j].phase # "free"
          PROVE  r.ops[j].url \in Users
      BY <1>1, <2>3, <2>4, <2>6, <3>2 DEF UrlsOK
    <3>3. ASSUME NEW u \in Users, r.operationOf[u] # 0
          PROVE  /\ r.ops[r.operationOf[u]].phase # "free"
                 /\ r.ops[r.operationOf[u]].url = u
      <4>1. CASE u = url
        BY <2>3, <2>4, <2>5, <2>6, <4>1
      <4>2. CASE u # url
        <5>1. /\ r.operationOf[u] = p.operationOf[u]
              /\ p.ops[p.operationOf[u]].phase # "free" /\ p.ops[p.operationOf[u]].url = u
          BY <1>1, <2>5, <2>6, <3>3, <4>2 DEF UrlsOK
        <5>2. p.operationOf[u] \in 1..MaxDownloads
          BY <1>1, <3>3, <5>1, SizesAssumption
        <5> QED BY <2>2, <2>4, <2>6, <5>1, <5>2
      <4> QED BY <4>1, <4>2
    <3> QED BY <3>1, <3>2, <3>3 DEF UrlsOK
  <2>9. Fit(r)
    <3>1. \A d \in r.ops[new].waiting \ {c} : /\ d \in q.ops[new].waiting
                                             /\ r.ops[new].url = q.ops[new].url
      BY <2>3, <2>4, <2>6
    <3>2. \A j \in 1..MaxDownloads : j # new => r.ops[j] = q.ops[j]
      BY <2>4, <2>6
    <3>3. /\ r.cell[c].stage = "download" /\ r.cell[c].url = r.ops[new].url
          /\ \A d \in Cells \ {c} : r.cell[d] = q.cell[d]
      BY <1>2, <2>3, <2>4, <2>6
    <3>4. r.io = q.io /\ r.main = q.main
      BY <2>6
    <3> QED BY <2>2, <2>7, <2>8, <3>1, <3>2, <3>3, <3>4, AddWaiter
  <2> QED BY <1>2, <1>4, <2>6, <2>9 DEF r
<1> QED BY <1>3, <1>4

LEMMA RunFoundFit == IInv /\ RunFound => PicsStep /\ JoinsOK'
<1> SUFFICES ASSUME IInv, RunFound PROVE PicsStep /\ JoinsOK'
  OBVIOUS
<1> DEFINE b == Head(pics.main)
           c == b.cell
           url == pics.cell[c].url
           main == Tail(pics.main)
           rest == Rest
           shown == Shows(rest, c, url)
           loads == Download(rest, c, url)
<1>1. /\ Fit(pics) /\ pics \in Pics /\ Whole(pics)
      /\ pics.cell \in [Cells -> CellStates]
  BY PicsFields DEF IInv, Fit
<1>2. pics.main # <<>> /\ b.kind = "found"
  BY DEF RunFound
<1>3. /\ c \in Cells /\ pics.cell[c].stage = "answer" /\ url \in Users
      /\ main \in Seq(Blocks)
  BY <1>1, <1>2, FoundHead
<1>4. /\ b.hit => pics' = shown
      /\ ~b.hit => /\ pics' = loads
                   /\ Joins(pics, url) \/ FreeOps(pics) # {}
      /\ joining' = IF ~b.hit /\ Joins(pics, url) THEN {c} ELSE {}
  BY DEF RunFound
<1>5. rest = [pics EXCEPT !.main = main]
  BY DEF Rest
<1>6. \A r : /\ r.main = main /\ r.io = pics.io /\ r.ops = pics.ops
             /\ r.operationOf = pics.operationOf
             /\ r.cell[c].stage = "none" /\ \A d \in Cells \ {c} : r.cell[d] = pics.cell[d]
             /\ r \in Pics
             => Fit(r) /\ NoPlace(r, c)
  BY <1>1, <1>2, TakeFound
<1> HIDE DEF b, c, main, rest
<1>7. /\ rest.cell = pics.cell /\ rest.ops = pics.ops /\ rest.io = pics.io
      /\ rest.main = main /\ rest.operationOf = pics.operationOf
      /\ rest.cache = pics.cache /\ rest.failed = pics.failed /\ Whole(rest)
  <2>1. Whole(rest)
    BY <1>1, <1>5, StaysWhole
  <2> QED BY <1>1, <1>5, <2>1 DEF Whole
<1>8. rest \in Pics
  BY <1>1, <1>3, <1>7, PicsFields, PicsFrom
<1>9. CASE b.hit
  <2> DEFINE cell == [rest.cell EXCEPT ![c] =
                        [rest.cell[c] EXCEPT !.stage = "none", !.image = url]]
  <2>1. pics' = [rest EXCEPT !.cell = cell]
    <3>1. shown = [rest EXCEPT !.cell = cell]
      BY DEF Shows
    <3> QED BY <1>4, <1>9, <3>1
  <2>2. url \in Pictures
    BY <1>3 DEF Pictures
  <2> HIDE DEF url
  <2>3. /\ cell \in [Cells -> CellStates] /\ cell[c].stage = "none"
        /\ cell[c].image = url /\ cell[c].url = pics.cell[c].url
        /\ cell[c].user = pics.cell[c].user
        /\ \A d \in Cells \ {c} : cell[d] = pics.cell[d]
    BY <1>1, <1>3, <1>7, <2>2 DEF CellStates
  <2> HIDE DEF cell
  <2>4. /\ pics'.cell = cell /\ pics'.ops = pics.ops /\ pics'.io = pics.io
        /\ pics'.main = main /\ pics'.operationOf = pics.operationOf
        /\ pics'.cache = pics.cache /\ pics'.failed = pics.failed /\ Whole(pics')
    <3>1. Whole(pics')
      BY <1>7, <2>1, StaysWhole
    <3> QED BY <1>7, <2>1, <3>1 DEF Whole
  <2>5. pics' \in Pics
    BY <1>1, <1>3, <2>3, <2>4, PicsFields, PicsFrom
  <2>6. Fit(pics')
    BY <1>6, <2>3, <2>4, <2>5
  <2>7. \A d \in Cells : Dressed(pics'.cell[d]) /\ pics'.cell[d].user = pics.cell[d].user
    <3>1. \A d \in Cells : Dressed(pics.cell[d])
      BY DEF IInv
    <3> QED BY <1>3, <2>3, <2>4, <3>1 DEF Dressed, url
  <2>8. JoinsOK'
    BY <1>4, <1>9 DEF JoinsOK
  <2> QED BY <2>6, <2>7, <2>8 DEF PicsStep
<1>10. CASE ~b.hit
  <2> DEFINE off == [pics.cell EXCEPT ![c] = [pics.cell[c] EXCEPT !.stage = "none"]]
             between == [rest EXCEPT !.cell = off]
  <2>1. /\ off \in [Cells -> CellStates] /\ off[c].stage = "none"
        /\ \A d \in Cells \ {c} : off[d] = pics.cell[d]
    BY <1>1, <1>3 DEF CellStates
  <2> HIDE DEF off
  <2>2. /\ between.cell = off /\ between.ops = pics.ops /\ between.io = pics.io
        /\ between.main = main /\ between.operationOf = pics.operationOf
        /\ between.cache = pics.cache /\ between.failed = pics.failed /\ Whole(between)
    <3>1. Whole(between)
      BY <1>7, StaysWhole
    <3> QED BY <1>7, <3>1 DEF Whole
  <2> HIDE DEF between
  <2>3. between \in Pics
    BY <1>1, <1>3, <2>1, <2>2, PicsFields, PicsFrom
  <2>4. Fit(between) /\ NoPlace(between, c)
    BY <1>6, <2>1, <2>2, <2>3
  <2>5. Joins(rest, url) \/ FreeOps(rest) # {}
    BY <1>4, <1>7, <1>10 DEF Joins, FreeOps
  <2>6. /\ rest.cell[c].url = url /\ between.io = rest.io /\ between.main = rest.main
        /\ between.ops = rest.ops /\ between.operationOf = rest.operationOf
        /\ \A d \in Cells \ {c} : between.cell[d] = rest.cell[d]
    BY <1>7, <2>1, <2>2
  <2>7. /\ Fit(loads)
        /\ \A d \in Cells : /\ loads.cell[d].user = rest.cell[d].user
                            /\ loads.cell[d].url = rest.cell[d].url
                            /\ loads.cell[d].image = rest.cell[d].image
        /\ Joins(rest, url) => Joined(loads, c)
    <3> HIDE DEF url
    <3> QED BY <1>3, <1>8, <2>4, <2>5, <2>6, DownloadFit
  <2>8. pics' = loads
    BY <1>4, <1>10
  <2>9. Joins(pics, url) = Joins(rest, url)
    BY <1>7 DEF Joins
  <2>10. JoinsOK'
    <3> HIDE DEF url
    <3>1. joining' \subseteq {c}
      BY <1>4
    <3>2. c \in joining' => Joins(rest, url)
      BY <1>4, <2>9
    <3>3. c \in joining' => Joined(pics', c)
      BY <2>7, <2>8, <3>2
    <3> QED BY <1>3, <3>1, <3>3 DEF JoinsOK
  <2>11. \A d \in Cells : /\ pics'.cell[d].user = pics.cell[d].user
                          /\ pics'.cell[d].url = pics.cell[d].url
                          /\ pics'.cell[d].image = pics.cell[d].image
    BY <1>7, <2>7, <2>8
  <2>12. \A d \in Cells : Dressed(pics'.cell[d])
    BY <2>11 DEF IInv, Dressed
  <2>13. Fit(pics')
    BY <2>7, <2>8
  <2> QED BY <2>10, <2>11, <2>12, <2>13 DEF PicsStep
<1> QED BY <1>9, <1>10

(* The callback joins the download it was meant for, whatever that has     *)
(* done meanwhile.                                                         *)
LEMMA AddHandlersFit == ASSUME NEW c \in Cells
                        PROVE  IInv /\ AddHandlers(c) => PicsStep
<1> SUFFICES ASSUME IInv, AddHandlers(c) PROVE PicsStep
  OBVIOUS
<1> DEFINE url == pics.cell[c].url
           old == pics.operationOf[url]
           op == [pics.ops[old] EXCEPT !.waiting = pics.ops[old].waiting \cup {c}]
           ops == [pics.ops EXCEPT ![old] = op]
<1>1. /\ Fit(pics) /\ pics \in Pics /\ Whole(pics) /\ UrlsOK(pics)
      /\ pics.ops \in [1..MaxDownloads -> Operations]
      /\ pics.operationOf \in [Users -> 0..MaxDownloads]
  BY PicsFields DEF IInv, Fit
<1>2. /\ c \in joining /\ pics' = [pics EXCEPT !.ops = ops]
  BY DEF AddHandlers
<1>3. NoPlace(pics, c) /\ pics.cell[c].stage = "download" /\ old # 0
  BY <1>2 DEF IInv, JoinsOK, Joined
<1>4. url \in Users
  BY <1>1, <1>3 DEF UrlsOK
<1>5. old \in 1..MaxDownloads /\ pics.ops[old].url = url /\ pics.ops[old] \in Operations
  <2>1. old \in 0..MaxDownloads
    BY <1>1, <1>4
  <2>2. old \in 1..MaxDownloads
    BY <1>3, <2>1, SizesAssumption
  <2> QED BY <1>1, <1>3, <1>4, <2>2 DEF UrlsOK
<1> HIDE DEF url, old
<1>6. /\ op \in Operations /\ op.waiting = pics.ops[old].waiting \cup {c}
      /\ op.url = url /\ op.phase = pics.ops[old].phase
  BY <1>5 DEF Operations
<1> HIDE DEF op
<1>7. /\ ops \in [1..MaxDownloads -> Operations] /\ ops[old] = op
      /\ \A j \in 1..MaxDownloads : j # old => ops[j] = pics.ops[j]
  BY <1>1, <1>5, <1>6
<1> HIDE DEF ops
<1>8. /\ pics'.cell = pics.cell /\ pics'.ops = ops /\ pics'.io = pics.io
      /\ pics'.main = pics.main /\ pics'.operationOf = pics.operationOf
      /\ pics'.cache = pics.cache /\ pics'.failed = pics.failed /\ Whole(pics')
  <2>1. Whole(pics')
    BY <1>1, <1>2, StaysWhole
  <2> QED BY <1>1, <1>2, <2>1 DEF Whole
<1>9. pics' \in Pics
  BY <1>1, <1>7, <1>8, PicsFields, PicsFrom
<1>10. UrlsOK(pics')
  <2>1. \A j \in 1..MaxDownloads : /\ pics'.ops[j].phase = pics.ops[j].phase
                                   /\ pics'.ops[j].url = pics.ops[j].url
    BY <1>5, <1>6, <1>7, <1>8
  <2>2. \A u \in Users : pics.operationOf[u] # 0 => pics.operationOf[u] \in 1..MaxDownloads
    BY <1>1, SizesAssumption
  <2> QED BY <1>1, <1>8, <2>1, <2>2 DEF UrlsOK
<1>11. Fit(pics')
  <2>1. \A d \in pics'.ops[old].waiting \ {c} :
           d \in pics.ops[old].waiting /\ pics'.ops[old].url = pics.ops[old].url
    BY <1>5, <1>6, <1>7, <1>8
  <2>2. \A j \in 1..MaxDownloads : j # old => pics'.ops[j] = pics.ops[j]
    BY <1>7, <1>8
  <2>3. pics'.cell[c].stage = "download" /\ pics'.cell[c].url = pics'.ops[old].url
    BY <1>3, <1>6, <1>7, <1>8 DEF url
  <2>4. \A d \in Cells \ {c} : pics'.cell[d] = pics.cell[d]
    BY <1>8
  <2> QED BY <1>1, <1>3, <1>5, <1>8, <1>9, <1>10, <2>1, <2>2, <2>3, <2>4, AddWaiter
<1> QED BY <1>8, <1>11 DEF PicsStep, IInv

LEMMA CallFit ==
  ASSUME NEW i \in 1..MaxDownloads, NEW result \in Results
  PROVE  IInv /\ CallCompletionBlocks(i, result) => PicsStep /\ JoinsStay
<1> SUFFICES ASSUME IInv, CallCompletionBlocks(i, result) PROVE PicsStep /\ JoinsStay
  OBVIOUS
<1> DEFINE W == pics.ops[i].waiting
           url == pics.ops[i].url
           block == [kind |-> "loaded", result |-> result, url |-> url, cells |-> W]
           op == [pics.ops[i] EXCEPT !.waiting = {}, !.called = pics.ops[i].waiting,
                                     !.phase = "calling"]
           ops == [pics.ops EXCEPT ![i] = op]
           main == Append(pics.main, block)
           n == Len(pics.main) + 1
<1>1. /\ Fit(pics) /\ pics \in Pics /\ Whole(pics) /\ UrlsOK(pics)
      /\ pics.ops \in [1..MaxDownloads -> Operations] /\ pics.main \in Seq(Blocks)
      /\ pics.operationOf \in [Users -> 0..MaxDownloads]
  BY PicsFields DEF IInv, Fit
<1>2. pics.ops[i].phase = "running" /\ pics' = [pics EXCEPT !.ops = ops, !.main = main]
  <2>1. pics' = [pics EXCEPT !.ops[i] = op, !.main = main]
    BY DEF CallCompletionBlocks
  <2> HIDE DEF op, main
  <2> QED BY <2>1 DEF CallCompletionBlocks
<1>3. url \in Users /\ W \in SUBSET Cells
  BY <1>1, <1>2 DEF UrlsOK, Operations
<1>4. op \in Operations /\ op.url = url /\ op.waiting = {} /\ op.phase = "calling"
  BY <1>1 DEF Operations, Phases
<1> HIDE DEF op
<1>5. /\ ops \in [1..MaxDownloads -> Operations] /\ ops[i] = op
      /\ \A j \in 1..MaxDownloads : j # i => ops[j] = pics.ops[j]
  BY <1>1, <1>4
<1> HIDE DEF ops
<1>6. block \in Blocks /\ block.kind = "loaded" /\ block.url = url /\ block.cells = W
  BY <1>3 DEF Blocks
<1> HIDE DEF block
<1>7. /\ main \in Seq(Blocks) /\ Len(main) = n /\ main[n] = block
      /\ \A j \in 1..Len(pics.main) : main[j] = pics.main[j]
      /\ Len(pics.main) \in Nat
  BY <1>1, <1>6, AppendProperties, LenProperties
<1>8. \A j \in 1..Len(main) : j = n \/ j \in 1..Len(pics.main)
  BY <1>7
<1> HIDE DEF main, n
<1>9. /\ pics'.cell = pics.cell /\ pics'.ops = ops /\ pics'.io = pics.io
      /\ pics'.main = main /\ pics'.operationOf = pics.operationOf
      /\ pics'.cache = pics.cache /\ pics'.failed = pics.failed /\ Whole(pics')
  <2> DEFINE e == [pics EXCEPT !.ops = ops]
  <2>1. Whole(e) /\ pics' = [e EXCEPT !.main = main]
    BY <1>1, <1>2, StaysWhole
  <2> HIDE DEF e
  <2>2. Whole(pics')
    BY <2>1, StaysWhole
  <2> QED BY <1>1, <1>2, <2>2 DEF Whole
<1>10. pics' \in Pics
  BY <1>1, <1>5, <1>7, <1>9, PicsFields, PicsFrom
<1>11. UrlsOK(pics')
  <2>1. \A j \in 1..MaxDownloads : /\ pics'.ops[j].url = pics.ops[j].url
                                  /\ (pics'.ops[j].phase # "free") = (pics.ops[j].phase # "free")
    BY <1>2, <1>4, <1>5, <1>9
  <2>2. \A u \in Users : pics.operationOf[u] # 0 => pics.operationOf[u] \in 1..MaxDownloads
    BY <1>1, SizesAssumption
  <2>3. \A j \in 1..MaxDownloads : pics'.ops[j].phase # "free" => pics'.ops[j].url \in Users
    BY <1>1, <2>1 DEF UrlsOK
  <2>4. ASSUME NEW u \in Users, pics'.operationOf[u] # 0
        PROVE  /\ pics'.ops[pics'.operationOf[u]].phase # "free"
               /\ pics'.ops[pics'.operationOf[u]].url = u
    <3>1. /\ pics'.operationOf[u] = pics.operationOf[u]
          /\ pics.operationOf[u] \in 1..MaxDownloads
      BY <1>9, <2>2, <2>4
    <3>2. /\ pics.ops[pics.operationOf[u]].phase # "free"
          /\ pics.ops[pics.operationOf[u]].url = u
      BY <1>1, <2>4, <3>1 DEF UrlsOK
    <3> QED BY <2>1, <3>1, <3>2
  <2> QED BY <1>1, <1>9, <2>3, <2>4 DEF UrlsOK
<1>12. ASSUME NEW d \in Cells \ W
       PROVE  Stays(pics', pics, d)
  <2>1. \A j \in 1..MaxDownloads :
           Waits(pics', j, d) => Waits(pics, j, d) /\ pics'.ops[j].url = pics.ops[j].url
    BY <1>4, <1>5, <1>9 DEF Waits
  <2>2. \A j \in 1..Len(main) :
           /\ Found(pics', j, d) => j \in 1..Len(pics.main) /\ Found(pics, j, d)
           /\ Loaded(pics', j, d) => /\ j \in 1..Len(pics.main) /\ Loaded(pics, j, d)
                                     /\ pics'.main[j].url = pics.main[j].url
    BY <1>6, <1>7, <1>8, <1>9 DEF Found, Loaded
  <2> QED BY <1>9, <2>1, <2>2 DEF Stays, Asks
<1>13. ASSUME NEW c \in W
       PROVE  Placed(pics', c) /\ Once(pics', c)
  <2>1. c \in Cells /\ Waits(pics, i, c)
    BY <1>3 DEF Waits
  <2>2. Placed(pics, c) /\ Once(pics, c)
    BY <1>1, <2>1 DEF Fit, PlacesOK, OnePlace
  <2>3. pics.cell[c].stage = "download" /\ pics.cell[c].url = url
    BY <2>1, <2>2 DEF Placed
  <2>4. \A j \in 1..Len(pics'.io) : ~Asks(pics', j, c)
    BY <1>9, <2>2, <2>3 DEF Placed, Asks
  <2>5. \A j \in 1..Len(pics.main) : ~Found(pics, j, c) /\ ~Loaded(pics, j, c)
    BY <2>1, <2>2, <2>3 DEF Placed, Once
  <2>6. \A j \in 1..Len(pics'.main) : ~Found(pics', j, c) /\ (Loaded(pics', j, c) => j = n)
    BY <1>6, <1>7, <1>8, <1>9, <2>5 DEF Found, Loaded
  <2>7. \A j \in 1..MaxDownloads : ~Waits(pics', j, c)
    BY <1>4, <1>5, <1>9, <2>1, <2>2 DEF Once, Waits
  <2>8. Placed(pics', c)
    BY <1>6, <1>7, <1>9, <2>3, <2>4, <2>6, <2>7 DEF Placed
  <2>9. Once(pics', c)
    BY <2>4, <2>6, <2>7 DEF Once
  <2> QED BY <2>8, <2>9
<1>14. Fit(pics')
  BY <1>1, <1>3, <1>10, <1>11, <1>12, <1>13, OthersStay
<1>15. JoinsStay
  <2>1. \A c \in Cells : Joined(pics, c) => c \notin W
    BY DEF Joined, NoPlace, Waits
  <2> QED BY <1>9, <1>12, <2>1, JoinedStays DEF JoinsStay
<1> QED BY <1>9, <1>14, <1>15 DEF PicsStep, IInv

LEMMA DoneFit ==
  ASSUME NEW i \in 1..MaxDownloads
  PROVE  IInv /\ Done(i) => PicsStep /\ JoinsStay
<1> SUFFICES ASSUME IInv, Done(i) PROVE PicsStep /\ JoinsStay
  OBVIOUS
<1> DEFINE op == Ended(pics.ops[i])
           ops == [pics.ops EXCEPT ![i] = op]
<1>1. /\ Fit(pics) /\ pics \in Pics /\ Whole(pics) /\ UrlsOK(pics)
      /\ pics.ops \in [1..MaxDownloads -> Operations]
      /\ pics.operationOf \in [Users -> 0..MaxDownloads]
  BY PicsFields DEF IInv, Fit
<1>2. pics.ops[i].phase = "calling" /\ pics' = [pics EXCEPT !.ops = ops]
  BY DEF Done
<1>3. /\ op \in Operations /\ op.url = pics.ops[i].url /\ op.waiting = {}
      /\ op.phase = "finished"
  BY <1>1 DEF Ended, Operations, Phases
<1> HIDE DEF op
<1>4. /\ ops \in [1..MaxDownloads -> Operations] /\ ops[i] = op
      /\ \A j \in 1..MaxDownloads : j # i => ops[j] = pics.ops[j]
  BY <1>1, <1>3
<1> HIDE DEF ops
<1>5. /\ pics'.cell = pics.cell /\ pics'.ops = ops /\ pics'.io = pics.io
      /\ pics'.main = pics.main /\ pics'.operationOf = pics.operationOf
      /\ pics'.cache = pics.cache /\ pics'.failed = pics.failed /\ Whole(pics')
  <2>1. Whole(pics')
    BY <1>1, <1>2, StaysWhole
  <2> QED BY <1>1, <1>2, <2>1 DEF Whole
<1>6. pics' \in Pics
  BY <1>1, <1>4, <1>5, PicsFields, PicsFrom
<1>7. UrlsOK(pics')
  <2>1. \A j \in 1..MaxDownloads : /\ pics'.ops[j].url = pics.ops[j].url
                                  /\ (pics'.ops[j].phase # "free") = (pics.ops[j].phase # "free")
    BY <1>2, <1>3, <1>4, <1>5
  <2>2. \A u \in Users : pics.operationOf[u] # 0 => pics.operationOf[u] \in 1..MaxDownloads
    BY <1>1, SizesAssumption
  <2>3. \A j \in 1..MaxDownloads : pics'.ops[j].phase # "free" => pics'.ops[j].url \in Users
    BY <1>1, <2>1 DEF UrlsOK
  <2>4. ASSUME NEW u \in Users, pics'.operationOf[u] # 0
        PROVE  /\ pics'.ops[pics'.operationOf[u]].phase # "free"
               /\ pics'.ops[pics'.operationOf[u]].url = u
    <3>1. /\ pics'.operationOf[u] = pics.operationOf[u]
          /\ pics.operationOf[u] \in 1..MaxDownloads
      BY <1>5, <2>2, <2>4
    <3>2. /\ pics.ops[pics.operationOf[u]].phase # "free"
          /\ pics.ops[pics.operationOf[u]].url = u
      BY <1>1, <2>4, <3>1 DEF UrlsOK
    <3> QED BY <2>1, <3>1, <3>2
  <2> QED BY <1>1, <1>5, <2>3, <2>4 DEF UrlsOK
<1>8. ASSUME NEW d \in Cells
      PROVE  Stays(pics', pics, d)
  <2>1. \A j \in 1..MaxDownloads :
           Waits(pics', j, d) => Waits(pics, j, d) /\ pics'.ops[j].url = pics.ops[j].url
    BY <1>3, <1>4, <1>5 DEF Waits
  <2> QED BY <1>5, <2>1 DEF Stays, Asks, Found, Loaded
<1>9. {} \in SUBSET Cells /\ Cells \ {} = Cells
  OBVIOUS
<1>10. Fit(pics')
  BY <1>1, <1>6, <1>7, <1>8, <1>9, OthersStay
<1>11. JoinsStay
  BY <1>5, <1>8, JoinedStays DEF JoinsStay
<1> QED BY <1>5, <1>10, <1>11 DEF PicsStep, IInv

LEMMA CompletedFit ==
  ASSUME NEW i \in 1..MaxDownloads
  PROVE  IInv /\ Completed(i) => PicsStep
<1> SUFFICES ASSUME IInv, Completed(i) PROVE PicsStep
  OBVIOUS
<1> DEFINE url == pics.ops[i].url
           ops == [pics.ops EXCEPT ![i] = NoOperation]
           entered == [pics.operationOf EXCEPT ![url] = 0]
<1>1. /\ Fit(pics) /\ pics \in Pics /\ Whole(pics) /\ UrlsOK(pics)
      /\ pics.ops \in [1..MaxDownloads -> Operations]
      /\ pics.operationOf \in [Users -> 0..MaxDownloads]
  BY PicsFields DEF IInv, Fit
<1>2. /\ pics.ops[i].phase = "finished"
      /\ pics' = [pics EXCEPT !.ops = ops, !.operationOf = entered]
  BY DEF Completed
<1>3. url \in Users
  BY <1>1, <1>2 DEF UrlsOK
<1> HIDE DEF url
<1>4. /\ NoOperation \in Operations /\ NoOperation.waiting = {}
      /\ NoOperation.phase = "free"
  BY DEF NoOperation, Operations, Phases, Pictures
<1>5. /\ ops \in [1..MaxDownloads -> Operations] /\ ops[i] = NoOperation
      /\ \A j \in 1..MaxDownloads : j # i => ops[j] = pics.ops[j]
  BY <1>1, <1>4
<1>6. /\ entered \in [Users -> 0..MaxDownloads] /\ entered[url] = 0
      /\ \A u \in Users : u # url => entered[u] = pics.operationOf[u]
  <2>1. 0 \in 0..MaxDownloads
    BY SizesAssumption
  <2> QED BY <1>1, <1>3, <2>1
<1> HIDE DEF ops, entered
<1>7. /\ pics'.cell = pics.cell /\ pics'.ops = ops /\ pics'.io = pics.io
      /\ pics'.main = pics.main /\ pics'.operationOf = entered
      /\ pics'.cache = pics.cache /\ pics'.failed = pics.failed /\ Whole(pics')
  <2> DEFINE e == [pics EXCEPT !.ops = ops]
  <2>1. Whole(e) /\ pics' = [e EXCEPT !.operationOf = entered]
    BY <1>1, <1>2, StaysWhole
  <2> HIDE DEF e
  <2>2. Whole(pics')
    BY <2>1, StaysWhole
  <2> QED BY <1>1, <1>2, <2>2 DEF Whole
<1>8. pics' \in Pics
  BY <1>1, <1>5, <1>6, <1>7, PicsFields, PicsFrom
<1>9. UrlsOK(pics')
  <2>1. ASSUME NEW u \in Users, pics'.operationOf[u] # 0
        PROVE  /\ pics'.ops[pics'.operationOf[u]].phase # "free"
               /\ pics'.ops[pics'.operationOf[u]].url = u
    <3>1. u # url /\ pics'.operationOf[u] = pics.operationOf[u]
      BY <1>6, <1>7, <2>1
    <3>2. pics.operationOf[u] \in 1..MaxDownloads
      BY <1>1, <2>1, <3>1, SizesAssumption
    <3>3. /\ pics.ops[pics.operationOf[u]].phase # "free"
          /\ pics.ops[pics.operationOf[u]].url = u
      BY <1>1, <2>1, <3>1 DEF UrlsOK
    <3>4. pics.operationOf[u] # i
      BY <3>1, <3>3 DEF url
    <3> QED BY <1>5, <1>7, <3>1, <3>2, <3>3, <3>4
  <2>2. \A j \in 1..MaxDownloads : pics'.ops[j].phase # "free" => pics'.ops[j].url \in Users
    BY <1>1, <1>4, <1>5, <1>7 DEF UrlsOK
  <2> QED BY <1>1, <1>7, <2>1, <2>2 DEF UrlsOK
<1>10. ASSUME NEW d \in Cells
       PROVE  Stays(pics', pics, d)
  <2>1. \A j \in 1..MaxDownloads :
           Waits(pics', j, d) => Waits(pics, j, d) /\ pics'.ops[j].url = pics.ops[j].url
    BY <1>4, <1>5, <1>7 DEF Waits
  <2> QED BY <1>7, <2>1 DEF Stays, Asks, Found, Loaded
<1>11. {} \in SUBSET Cells /\ Cells \ {} = Cells
  OBVIOUS
<1>12. Fit(pics')
  BY <1>1, <1>8, <1>9, <1>10, <1>11, OthersStay
<1> QED BY <1>7, <1>12 DEF PicsStep, IInv

(* The block with the outcome of a download is taken from the main queue.  *)
LEMMA TakeLoaded ==
  ASSUME NEW p, Fit(p), p.main # <<>>, Head(p.main).kind = "loaded", NEW r \in Pics,
         r.main = Tail(p.main), r.io = p.io, r.ops = p.ops,
         r.operationOf = p.operationOf,
         \A c \in Head(p.main).cells : r.cell[c].stage = "none",
         \A c \in Cells \ Head(p.main).cells : r.cell[c] = p.cell[c]
  PROVE  Fit(r)
<1> DEFINE b == Head(p.main)
           C == b.cells
           main == Tail(p.main)
<1>1. p \in Pics /\ p.main \in Seq(Blocks) /\ UrlsOK(p)
  BY PicsFields DEF Fit
<1>2. /\ Picked(main, p.main, 2..Len(p.main))
      /\ b = p.main[1] /\ b \in Blocks /\ 1 \in 1..Len(p.main)
  BY <1>1, TailPicked
<1>3. b.kind = "loaded" /\ r.main = main /\ (\A c \in C : r.cell[c].stage = "none")
      /\ \A c \in Cells \ C : r.cell[c] = p.cell[c]
  OBVIOUS
<1> HIDE DEF b, main
<1>4. C \in SUBSET Cells /\ \A c \in C : Loaded(p, 1, c)
  BY <1>2, <1>3, BlockFields DEF Loaded
<1> HIDE DEF C
<1>5. ASSUME NEW c \in C
      PROVE  Placed(p, c) /\ Once(p, c) /\ p.cell[c].stage = "download"
  <2>1. Placed(p, c) /\ Once(p, c)
    BY <1>4 DEF Fit, PlacesOK, OnePlace
  <2> QED BY <1>2, <1>4, <2>1 DEF Placed
<1>6. PlacesOf(r, p, C)
  <2>1. \E h \in [1..Len(r.io) -> 1..Len(p.io)] :
           /\ \A i \in 1..Len(r.io) : /\ r.io[i].cell = p.io[h[i]].cell
                                      /\ r.io[i].cell \notin C
           /\ \A i, j \in 1..Len(r.io) : h[i] = h[j] => i = j
    <3> DEFINE h == [i \in 1..Len(p.io) |-> i]
    <3>1. h \in [1..Len(r.io) -> 1..Len(p.io)] /\ \A i \in 1..Len(r.io) : h[i] = i
      OBVIOUS
    <3>2. \A i \in 1..Len(p.io) : p.io[i].cell \notin C
      BY <1>5 DEF Placed, Asks
    <3> HIDE DEF h
    <3> QED BY <3>1, <3>2
  <2>2. \E h \in [1..Len(r.main) -> 1..Len(p.main)] :
           /\ \A i \in 1..Len(r.main), d \in Cells :
                 /\ Found(r, i, d) => Found(p, h[i], d) /\ d \notin C
                 /\ Loaded(r, i, d) => /\ Loaded(p, h[i], d) /\ d \notin C
                                       /\ r.main[i].url = p.main[h[i]].url
           /\ \A i, j \in 1..Len(r.main) : h[i] = h[j] => i = j
    <3>1. PICK h \in [1..Len(main) -> 1..Len(p.main)] :
             /\ \A i \in 1..Len(main) : h[i] \in 2..Len(p.main) /\ main[i] = p.main[h[i]]
             /\ \A i, j \in 1..Len(main) : h[i] = h[j] => i = j
      BY <1>2 DEF Picked
    <3>2. ASSUME NEW i \in 1..Len(main), NEW d \in Cells
          PROVE  /\ Found(r, i, d) => Found(p, h[i], d) /\ d \notin C
                 /\ Loaded(r, i, d) => /\ Loaded(p, h[i], d) /\ d \notin C
                                       /\ r.main[i].url = p.main[h[i]].url
      <4>0. \A k \in 2..Len(p.main) : k # 1
        OBVIOUS
      <4>1. h[i] \in 1..Len(p.main) /\ h[i] # 1 /\ r.main[i] = p.main[h[i]]
        BY <1>3, <3>1, <4>0
      <4>2. Found(r, i, d) => Found(p, h[i], d)
        BY <4>1 DEF Found
      <4>3. Loaded(r, i, d) => Loaded(p, h[i], d)
        BY <4>1 DEF Loaded
      <4>4. d \in C => ~Found(p, h[i], d)
        BY <1>5, <4>1 DEF Placed
      <4>5. d \in C => ~Loaded(p, h[i], d)
        BY <1>2, <1>4, <1>5, <4>1 DEF Once
      <4> QED BY <4>1, <4>2, <4>3, <4>4, <4>5
    <3> QED BY <1>3, <3>1, <3>2
  <2>3. ASSUME NEW i \in 1..MaxDownloads, NEW d \in Cells, Waits(r, i, d)
        PROVE  Waits(p, i, d) /\ d \notin C /\ r.ops[i].url = p.ops[i].url
    <3>1. Waits(p, i, d)
      BY <2>3 DEF Waits
    <3>2. d \notin C
      BY <1>2, <1>4, <1>5, <3>1 DEF Once
    <3> QED BY <3>1, <3>2
  <2> QED BY <2>1, <2>2, <2>3 DEF PlacesOf
<1>7. LoadsEnd(r, p, C)
  BY <1>3 DEF LoadsEnd
<1>8. DownloadsEnd(r, p)
  BY <1>1 DEF DownloadsEnd, UrlsOK
<1> QED BY <1>4, <1>6, <1>7, <1>8, FewerLoads

(* The outcome is for cells that load its URL.                             *)
LEMMA LoadedHead ==
  ASSUME NEW p, Fit(p), p.main # <<>>, Head(p.main).kind = "loaded"
  PROVE  LET b == Head(p.main)
         IN  /\ b.url \in Users /\ b.cells \in SUBSET Cells
             /\ \A c \in b.cells : p.cell[c].url = b.url
             /\ Tail(p.main) \in Seq(Blocks)
<1> DEFINE b == Head(p.main)
<1>1. p \in Pics /\ p.main \in Seq(Blocks) /\ PlacesOK(p)
  BY PicsFields DEF Fit
<1>2. Tail(p.main) \in Seq(Blocks) /\ b = p.main[1] /\ b \in Blocks /\ 1 \in 1..Len(p.main)
  BY <1>1, TailPicked
<1>3. b.kind = "loaded"
  OBVIOUS
<1> HIDE DEF b
<1>4. b.url \in Users /\ b.cells \in SUBSET Cells
  BY <1>2, <1>3, BlockFields
<1>5. \A c \in b.cells : Loaded(p, 1, c)
  BY <1>2, <1>3 DEF Loaded
<1>6. \A c \in b.cells : p.cell[c].url = b.url
  BY <1>1, <1>2, <1>4, <1>5 DEF PlacesOK, Placed
<1> QED BY <1>2, <1>4, <1>6 DEF b

LEMMA RunLoadedFit == IInv /\ RunLoaded => PicsStep
<1> SUFFICES ASSUME IInv, RunLoaded PROVE PicsStep
  OBVIOUS
<1> DEFINE b == Head(pics.main)
           main == Tail(pics.main)
           done(c) == [pics.cell[c] EXCEPT !.stage = "none",
                          !.image = IF b.result = "image" THEN b.url ELSE @]
           cell == [c \in Cells |-> IF c \notin b.cells THEN pics.cell[c] ELSE done(c)]
           cache == [pics.cache EXCEPT ![b.url] = IF b.result = "image" /\ b.cells # {}
                                                 THEN "memory" ELSE @]
           failed == IF b.result = "blocked" /\ b.cells # {}
                     THEN pics.failed \cup {b.url} ELSE pics.failed
<1>1. /\ Fit(pics) /\ pics \in Pics /\ Whole(pics)
      /\ pics.cell \in [Cells -> CellStates] /\ pics.failed \in SUBSET Users
      /\ pics.cache \in [Users -> {"none", "disk", "memory"}]
  BY PicsFields DEF IInv, Fit
<1>2. pics.main # <<>> /\ b.kind = "loaded"
  BY DEF RunLoaded
<1>3. /\ b.url \in Users /\ b.cells \in SUBSET Cells
      /\ \A c \in b.cells : pics.cell[c].url = b.url
      /\ main \in Seq(Blocks)
  BY <1>1, <1>2, LoadedHead
<1>4. \A r : /\ r.main = main /\ r.io = pics.io /\ r.ops = pics.ops
             /\ r.operationOf = pics.operationOf
             /\ (\A c \in b.cells : r.cell[c].stage = "none")
             /\ (\A c \in Cells \ b.cells : r.cell[c] = pics.cell[c])
             /\ r \in Pics
             => Fit(r)
  BY <1>1, <1>2, TakeLoaded
<1>5. pics' = [pics EXCEPT !.main = main, !.cell = cell, !.cache = cache,
                           !.failed = failed]
  <2>1. pics' = [Rest EXCEPT !.cell = cell,
                             !.cache[b.url] = IF b.result = "image" /\ b.cells # {}
                                              THEN "memory" ELSE @,
                             !.failed = IF b.result = "blocked" /\ b.cells # {}
                                        THEN @ \cup {b.url} ELSE @]
    BY DEF RunLoaded
  <2>2. Rest = [pics EXCEPT !.main = main]
    BY DEF Rest
  <2> HIDE DEF cell, b, main
  <2> QED BY <2>1, <2>2
<1> HIDE DEF b, main
<1>6. ASSUME NEW c \in b.cells
      PROVE  /\ done(c) \in CellStates /\ done(c).stage = "none"
             /\ done(c).image \in {pics.cell[c].image, b.url}
             /\ done(c).user = pics.cell[c].user /\ done(c).url = pics.cell[c].url
  <2>1. pics.cell[c] \in CellStates /\ b.url \in Pictures
    BY <1>1, <1>3 DEF Pictures
  <2> QED BY <2>1 DEF CellStates
<1> HIDE DEF done
<1>7. /\ cell \in [Cells -> CellStates]
      /\ \A c \in b.cells : cell[c] = done(c)
      /\ \A c \in Cells \ b.cells : cell[c] = pics.cell[c]
  BY <1>1, <1>3, <1>6
<1>8. cache \in [Users -> {"none", "disk", "memory"}] /\ failed \in SUBSET Users
  BY <1>1, <1>3
<1> HIDE DEF cell, cache, failed
<1>9. /\ pics'.cell = cell /\ pics'.ops = pics.ops /\ pics'.io = pics.io
      /\ pics'.main = main /\ pics'.operationOf = pics.operationOf
      /\ pics'.cache = cache /\ pics'.failed = failed /\ Whole(pics')
  <2> DEFINE p1 == [pics EXCEPT !.main = main]
             p2 == [p1 EXCEPT !.cell = cell]
             p3 == [p2 EXCEPT !.cache = cache]
             p4 == [p3 EXCEPT !.failed = failed]
  <2>1. pics' = p4
    BY <1>5
  <2>2. Whole(p1)
    BY <1>1, StaysWhole
  <2> HIDE DEF p1
  <2>3. Whole(p2)
    BY <2>2, StaysWhole
  <2> HIDE DEF p2
  <2>4. Whole(p3)
    BY <2>3, StaysWhole
  <2> HIDE DEF p3
  <2>5. Whole(p4)
    BY <2>4, StaysWhole
  <2> HIDE DEF p4
  <2> QED BY <1>1, <1>5, <2>1, <2>5 DEF Whole
<1>10. pics' \in Pics
  BY <1>1, <1>3, <1>7, <1>8, <1>9, PicsFields, PicsFrom
<1>11. Fit(pics')
  BY <1>4, <1>6, <1>7, <1>9, <1>10
<1>12. \A c \in Cells : Dressed(pics'.cell[c]) /\ pics'.cell[c].user = pics.cell[c].user
  <2>1. \A c \in Cells : Dressed(pics.cell[c])
    BY DEF IInv
  <2>2. ASSUME NEW c \in b.cells
        PROVE  Dressed(pics'.cell[c]) /\ pics'.cell[c].user = pics.cell[c].user
    BY <1>3, <1>6, <1>7, <1>9, <2>1 DEF Dressed
  <2>3. ASSUME NEW c \in Cells \ b.cells
        PROVE  Dressed(pics'.cell[c]) /\ pics'.cell[c].user = pics.cell[c].user
    BY <1>7, <1>9, <2>1
  <2> QED BY <2>2, <2>3
<1> QED BY <1>11, <1>12 DEF PicsStep

LEMMA FitOwned ==
  ASSUME NEW p, Fit(p)
  PROVE  Owned(p)
<1>1. /\ p.io \in Seq(Questions) /\ p.main \in Seq(Blocks)
      /\ p.ops \in [1..MaxDownloads -> Operations] /\ PlacesOK(p)
  BY PicsFields DEF Fit
<1>2. ASSUME NEW i \in DOMAIN p.io
      PROVE  p.cell[p.io[i].cell].stage = "query"
  <2>0. i \in 1..Len(p.io) /\ p.io[i] \in Questions
    BY <1>1, LenProperties, ElementOfSeq
  <2>1. i \in 1..Len(p.io) /\ p.io[i].cell \in Cells
    BY <2>0 DEF Questions
  <2> QED BY <1>1, <2>1 DEF PlacesOK, Placed, Asks
<1>3. ASSUME NEW i \in DOMAIN p.main
      PROVE  /\ p.main[i].kind = "found" => p.cell[p.main[i].cell].stage = "answer"
             /\ p.main[i].kind = "loaded" => \A c \in p.main[i].cells :
                   p.cell[c].stage = "download" /\ p.cell[c].url = p.main[i].url
  <2>1. i \in 1..Len(p.main) /\ p.main[i] \in Blocks
    BY <1>1, LenProperties, ElementOfSeq
  <2>2. ASSUME p.main[i].kind = "found"
        PROVE  p.cell[p.main[i].cell].stage = "answer"
    <3>1. p.main[i].cell \in Cells
      BY <2>1, <2>2, BlockFields
    <3>2. Found(p, i, p.main[i].cell)
      BY <2>2 DEF Found
    <3> QED BY <1>1, <2>1, <3>1, <3>2 DEF PlacesOK, Placed
  <2>3. ASSUME p.main[i].kind = "loaded", NEW c \in p.main[i].cells
        PROVE  p.cell[c].stage = "download" /\ p.cell[c].url = p.main[i].url
    <3>1. c \in Cells
      BY <2>1, <2>3, BlockFields
    <3>2. Loaded(p, i, c)
      BY <2>3 DEF Loaded
    <3> QED BY <1>1, <2>1, <3>1, <3>2 DEF PlacesOK, Placed
  <2> QED BY <2>2, <2>3
<1>4. ASSUME NEW i \in DOMAIN p.ops, NEW c \in p.ops[i].waiting
      PROVE  p.cell[c].stage = "download" /\ p.cell[c].url = p.ops[i].url
  <2>1. i \in 1..MaxDownloads /\ c \in Cells
    BY <1>1 DEF Operations
  <2>2. Waits(p, i, c)
    BY DEF Waits
  <2> QED BY <1>1, <2>1, <2>2 DEF PlacesOK, Placed
<1> QED BY <1>2, <1>3, <1>4 DEF Owned

-----------------------------------------------------------------------------
(***************************************************************************)
(* The table.                                                              *)
(***************************************************************************)

(* Rows and cells fit a list.                                              *)
RowsFit(list, k, rows, rest, cell) ==
  LET filled == {c \in Cells : rows[c] # 0}
  IN  /\ {rows[c] : c \in filled} \cup rest = Window(list, k)
      /\ \A c \in filled : /\ rows[c] \notin rest
                           /\ cell[c].user = list[rows[c]]
                           /\ \A d \in filled \ {c} : rows[c] # rows[d]

LEMMA RowsTrueFit ==
  RowsTrue <=> /\ RowsFit(List(users, filtered, text), top, row, todo, pics.cell)
               /\ filtered \in {Filter(users, text), <<>>}
BY DEF RowsTrue, RowsFit

(* A list on screen is no longer than the directory.                       *)
Listed(list) == list \in Seq(Users) /\ Len(list) \in 0..Len(Directory)

LEMMA FilterListed ==
  ASSUME NEW list, Listed(list), NEW t
  PROVE  Listed(Filter(list, t))
<1> DEFINE I == {i \in DOMAIN list : list[i] \in Hits[t]}
           n == Len(list)
<1>1. n \in Nat /\ DOMAIN list = 1..n
  BY LenProperties DEF Listed
<1>2. I \in SUBSET DOMAIN list /\ I \subseteq 1..n
  BY <1>1
<1>3. Filter(list, t) = Select(list, I)
  BY DEF Filter
<1> HIDE DEF I, n
<1>4. Select(list, I) \in Seq(Users)
  BY <1>2, Selected DEF Listed
<1>5. IsFiniteSet(1..n) /\ Cardinality(1..n) = n
  BY <1>1, FS_Interval
<1>6. Cardinality(I) \in Nat /\ Cardinality(I) <= n
  BY <1>2, <1>5, FS_Subset, FS_CardinalityType
<1>7. Len(Select(list, I)) = Cardinality(I)
  BY <1>6 DEF Select
<1>8. Len(Directory) \in Nat
  BY UsersAssumption, LenProperties
<1> QED BY <1>1, <1>3, <1>4, <1>6, <1>7, <1>8 DEF Listed, n

LEMMA ListListed ==
  ASSUME NEW all \in {<<>>, Directory}, NEW t, NEW found \in {Filter(all, t), <<>>},
         NEW u
  PROVE  Listed(all) /\ Listed(found) /\ Listed(List(all, found, u))
<1>1. Listed(<<>>) /\ Listed(Directory)
  <2>1. <<>> \in Seq(Users) /\ Len(<<>>) = 0
    OBVIOUS
  <2>2. Len(Directory) \in Nat
    BY UsersAssumption, LenProperties
  <2> QED BY <2>1, <2>2, UsersAssumption DEF Listed
<1>2. Listed(all)
  BY <1>1
<1>3. Listed(found)
  BY <1>1, <1>2, FilterListed
<1> QED BY <1>2, <1>3 DEF List

LEMMA WindowInside ==
  ASSUME NEW list, Listed(list), NEW k \in Nat \ {0}
  PROVE  /\ Window(list, k) \subseteq 1..Len(list)
         /\ Window(list, k) \subseteq 1..Len(Directory)
<1>1. Height \in Nat /\ Len(list) \in Nat /\ Len(Directory) \in Nat
      /\ Len(list) <= Len(Directory)
  BY SizesAssumption, UsersAssumption, LenProperties, FS_CardinalityType DEF Listed
<1> QED BY <1>1 DEF Window

LEMMA ClampPositive ==
  ASSUME NEW list, Listed(list), NEW k \in Nat \ {0}
  PROVE  Clamp(list, k) \in Nat \ {0}
<1>1. Height \in Nat /\ Len(list) \in Nat
  BY SizesAssumption, UsersAssumption, LenProperties, FS_CardinalityType DEF Listed
<1> QED BY <1>1 DEF Clamp

(* Show leaves rows that fit, if the cells that stay fit.                  *)
LEMMA ShowFits ==
  ASSUME NEW list, Listed(list), NEW k \in Nat \ {0},
         NEW rows \in [Cells -> 0..Len(Directory)], Show(list, k, rows),
         NEW cell,
         \A c \in Cells : rows[c] # 0 =>
            /\ rows[c] \in Window(list, k)
            /\ cell[c].user = list[rows[c]]
            /\ \A d \in Cells \ {c} : rows[c] # rows[d]
  PROVE  /\ top' \in Nat \ {0} /\ row' \in [Cells -> 0..Len(Directory)]
         /\ todo' \subseteq 1..Len(Directory)
         /\ RowsFit(list, top', row', todo', cell)
<1>1. /\ top' = k /\ row' = rows
      /\ todo' = Window(list, k) \ {rows[c] : c \in Cells}
  BY DEF Show
<1>2. /\ Window(list, k) \subseteq 1..Len(Directory) /\ 0 \notin Window(list, k)
  <2>1. 0 \notin 1..Len(Directory)
    BY UsersAssumption, LenProperties
  <2> QED BY <2>1, WindowInside
<1>3. RowsFit(list, k, rows, todo', cell)
  <2> DEFINE filled == {c \in Cells : rows[c] # 0}
  <2>1. {rows[c] : c \in filled} \cup todo' = Window(list, k)
    BY <1>1, <1>2
  <2>2. \A c \in filled : /\ rows[c] \notin todo'
                          /\ cell[c].user = list[rows[c]]
                          /\ \A d \in filled \ {c} : rows[c] # rows[d]
    BY <1>1
  <2> QED BY <2>1, <2>2 DEF RowsFit
<1> QED BY <1>1, <1>2, <1>3

LEMMA ReloadFits ==
  ASSUME NEW list, Listed(list), top \in Nat \ {0}, Reload(list), NEW cell
  PROVE  /\ top' \in Nat \ {0} /\ row' \in [Cells -> 0..Len(Directory)]
         /\ todo' \subseteq 1..Len(Directory)
         /\ RowsFit(list, top', row', todo', cell)
<1> DEFINE k == Clamp(list, top)
           rows == [c \in Cells |-> 0]
<1>1. k \in Nat \ {0}
  BY ClampPositive
<1>2. Show(list, k, rows)
  BY DEF Reload
<1>3. rows \in [Cells -> 0..Len(Directory)] /\ \A c \in Cells : rows[c] = 0
  <2>1. 0 \in 0..Len(Directory)
    BY UsersAssumption, LenProperties
  <2> QED BY <2>1
<1> HIDE DEF k, rows
<1> QED BY <1>1, <1>2, <1>3, ShowFits

(* The list on screen.                                                     *)
OnScreen == List(users, filtered, text)

LEMMA IInvList ==
  ASSUME IInv
  PROVE  Listed(users) /\ Listed(filtered) /\ Listed(OnScreen)
<1>1. users \in {<<>>, Directory} /\ filtered \in {Filter(users, text), <<>>}
  BY RowsTrueFit DEF IInv, TypeOK
<1> QED BY <1>1, ListListed DEF OnScreen

(* What a step of the table has to do.                                     *)
TableStep ==
  /\ users' \in {<<>>, Directory} /\ text' \in Texts
  /\ filtered' \in {Filter(users', text'), <<>>}
  /\ top' \in Nat \ {0} /\ row' \in [Cells -> 0..Len(Directory)]
  /\ todo' \subseteq 1..Len(Directory)
  /\ RowsFit(OnScreen', top', row', todo', pics'.cell)

LEMMA FetchUsersTable == IInv /\ FetchUsers => TableStep /\ pics' = pics
<1> SUFFICES ASSUME IInv, FetchUsers PROVE TableStep /\ pics' = pics
  OBVIOUS
<1> DEFINE list == List(Directory, filtered, text)
<1>1. /\ users = <<>> /\ users' = Directory /\ text' = text /\ filtered' = filtered
      /\ pics' = pics /\ Reload(list)
  BY DEF FetchUsers
<1>2. /\ text \in Texts /\ top \in Nat \ {0} /\ filtered \in {Filter(users, text), <<>>}
  BY RowsTrueFit DEF IInv, TypeOK
<1>3. filtered = <<>>
  <2>1. Len(users) = 0 /\ users \in Seq(Users)
    BY <1>1
  <2>2. Listed(users)
    BY IInvList
  <2> DEFINE I == {i \in DOMAIN users : users[i] \in Hits[text]}
  <2>3. I = {}
    BY <2>1
  <2>4. Filter(users, text) = Select(users, I)
    BY DEF Filter
  <2> HIDE DEF I
  <2>5. Cardinality({}) = 0
    BY FS_EmptySet
  <2>6. Filter(users, text) = <<>>
    BY <2>3, <2>4, <2>5 DEF Select
  <2> QED BY <1>2, <2>6
<1>4. Listed(list) /\ OnScreen' = list
  <2>1. filtered \in {Filter(Directory, text), <<>>}
    BY <1>3
  <2>2. Listed(List(Directory, filtered, text))
    BY <2>1, ListListed
  <2> QED BY <1>1, <2>2 DEF OnScreen
<1> HIDE DEF list
<1>5. /\ top' \in Nat \ {0} /\ row' \in [Cells -> 0..Len(Directory)]
      /\ todo' \subseteq 1..Len(Directory)
      /\ RowsFit(list, top', row', todo', pics'.cell)
  BY <1>1, <1>2, <1>4, ReloadFits
<1> QED BY <1>1, <1>2, <1>3, <1>4, <1>5 DEF TableStep

LEMMA SearchTable ==
  ASSUME NEW t \in Texts
  PROVE  IInv /\ UpdateSearchResults(t) => TableStep /\ pics' = pics
<1> SUFFICES ASSUME IInv, UpdateSearchResults(t) PROVE TableStep /\ pics' = pics
  OBVIOUS
<1> DEFINE list == List(users, filtered', t)
<1>1. /\ users' = users /\ text' = t /\ filtered' = Filter(users, t)
      /\ pics' = pics /\ Reload(list)
  BY DEF UpdateSearchResults
<1>2. users \in {<<>>, Directory} /\ top \in Nat \ {0}
  BY DEF IInv, TypeOK
<1>3. Listed(list) /\ OnScreen' = list
  <2>1. filtered' \in {Filter(users, t), <<>>}
    BY <1>1
  <2>2. Listed(List(users, filtered', t))
    BY <1>2, <2>1, ListListed
  <2> QED BY <1>1, <2>2 DEF OnScreen
<1> HIDE DEF list
<1>4. /\ top' \in Nat \ {0} /\ row' \in [Cells -> 0..Len(Directory)]
      /\ todo' \subseteq 1..Len(Directory)
      /\ RowsFit(list, top', row', todo', pics'.cell)
  BY <1>1, <1>2, <1>3, ReloadFits
<1> QED BY <1>1, <1>2, <1>3, <1>4 DEF TableStep

LEMMA ScrollTable ==
  ASSUME NEW k \in 1..Len(Directory)
  PROVE  IInv /\ Scroll(k) => TableStep /\ pics' = pics
<1> SUFFICES ASSUME IInv, Scroll(k) PROVE TableStep /\ pics' = pics
  OBVIOUS
<1> DEFINE list == List(users, filtered, text)
           rows == [c \in Cells |-> IF row[c] \in Window(list, k) THEN row[c] ELSE 0]
<1>1. /\ users' = users /\ text' = text /\ filtered' = filtered /\ pics' = pics
      /\ Show(list, k, rows)
  BY DEF Scroll
<1>2. /\ users \in {<<>>, Directory} /\ text \in Texts
      /\ row \in [Cells -> 0..Len(Directory)]
  BY DEF IInv, TypeOK
<1>3. /\ filtered \in {Filter(users, text), <<>>}
      /\ RowsFit(list, top, row, todo, pics.cell)
  BY RowsTrueFit DEF IInv
<1>4. Listed(list) /\ OnScreen' = list
  BY <1>1, IInvList DEF OnScreen
<1> HIDE DEF list
<1>5. rows \in [Cells -> 0..Len(Directory)]
  <2>1. 0 \in 0..Len(Directory)
    BY UsersAssumption, LenProperties
  <2> QED BY <1>2, <2>1
<1>6. \A c \in Cells : row[c] # 0 => /\ pics.cell[c].user = list[row[c]]
                                    /\ \A d \in Cells \ {c} : row[c] # row[d]
  BY <1>3 DEF RowsFit
<1>7. \A c \in Cells : rows[c] # 0 =>
         /\ rows[c] \in Window(list, k)
         /\ pics'.cell[c].user = list[rows[c]]
         /\ \A d \in Cells \ {c} : rows[c] # rows[d]
  BY <1>1, <1>6
<1> HIDE DEF rows
<1>8. k \in Nat \ {0}
  OBVIOUS
<1>9. /\ top' \in Nat \ {0} /\ row' \in [Cells -> 0..Len(Directory)]
      /\ todo' \subseteq 1..Len(Directory)
      /\ RowsFit(list, top', row', todo', pics'.cell)
  BY <1>1, <1>4, <1>5, <1>7, <1>8, ShowFits
<1> QED BY <1>1, <1>2, <1>3, <1>4, <1>9 DEF TableStep

LEMMA CellTable ==
  ASSUME NEW c \in Cells
  PROVE  IInv /\ CellForRow(c) =>
            /\ TableStep /\ Fit(pics')
            /\ \A d \in Cells : Dressed(pics'.cell[d])
<1> SUFFICES ASSUME IInv, CellForRow(c)
             PROVE  /\ TableStep /\ Fit(pics')
                    /\ \A d \in Cells : Dressed(pics'.cell[d])
  OBVIOUS
<1> DEFINE list == List(users, filtered, text)
           r == Least(todo)
           user == list[r]
<1>1. /\ users' = users /\ text' = text /\ filtered' = filtered /\ top' = top
      /\ todo # {} /\ row[c] = 0 /\ row' = [row EXCEPT ![c] = r]
      /\ todo' = todo \ {r} /\ pics' = Configure(pics, c, user)
  BY DEF CellForRow
<1>2. /\ users \in {<<>>, Directory} /\ text \in Texts /\ top \in Nat \ {0}
      /\ row \in [Cells -> 0..Len(Directory)] /\ todo \subseteq 1..Len(Directory)
      /\ Fit(pics) /\ \A d \in Cells : Dressed(pics.cell[d])
  BY DEF IInv, TypeOK
<1>3. /\ filtered \in {Filter(users, text), <<>>}
      /\ RowsFit(list, top, row, todo, pics.cell)
  BY RowsTrueFit DEF IInv
<1>4. Listed(list) /\ OnScreen' = list
  BY <1>1, IInvList DEF OnScreen
<1> HIDE DEF list
<1>5. r \in todo
  <2>1. Len(Directory) \in Nat
    BY UsersAssumption, LenProperties
  <2>2. IsFiniteSet(1..Len(Directory))
    BY <2>1, FS_Interval
  <2>3. IsFiniteSet(todo)
    BY <1>2, <2>2, FS_Subset
  <2>4. todo \subseteq Nat
    BY <1>2
  <2> QED BY <1>1, <2>3, <2>4, LeastOf
<1> HIDE DEF r
<1>6. r \in Window(list, top) /\ r \in 1..Len(list) /\ r \in 1..Len(Directory)
  <2>1. r \in Window(list, top)
    BY <1>3, <1>5 DEF RowsFit
  <2> QED BY <1>2, <1>4, <2>1, WindowInside
<1>7. user \in Users
  <2>1. list \in Seq(Users)
    BY <1>4 DEF Listed
  <2> QED BY <1>6, <2>1, ElementOfSeq
<1> HIDE DEF user
<1>8. /\ Fit(pics') /\ Dressed(pics'.cell[c]) /\ pics'.cell[c].user = user
      /\ \A d \in Cells \ {c} : pics'.cell[d] = pics.cell[d]
  BY <1>1, <1>2, <1>7, ConfigureFit
<1>9. /\ row' \in [Cells -> 0..Len(Directory)] /\ row'[c] = r
      /\ \A d \in Cells \ {c} : row'[d] = row[d]
      /\ r # 0
  <2>1. \A n \in 1..Len(Directory) : n \in 0..Len(Directory) /\ n # 0
    OBVIOUS
  <2>2. r \in 0..Len(Directory) /\ r # 0
    BY <1>6, <2>1
  <2> QED BY <1>1, <1>2, <2>2
<1>10. RowsFit(list, top', row', todo', pics'.cell)
  <2> DEFINE filled == {d \in Cells : row[d] # 0}
             now == {d \in Cells : row'[d] # 0}
  <2>1. /\ {row[d] : d \in filled} \cup todo = Window(list, top)
        /\ \A d \in filled : /\ row[d] \notin todo
                             /\ pics.cell[d].user = list[row[d]]
                             /\ \A e \in filled \ {d} : row[d] # row[e]
    BY <1>3 DEF RowsFit
  <2>2. now = filled \cup {c} /\ c \notin filled
    BY <1>1, <1>9
  <2>3. \A d \in filled : d \in Cells /\ d # c /\ row'[d] = row[d]
    BY <1>9, <2>2
  <2> HIDE DEF filled, now
  <2>4. {row'[d] : d \in now} \cup todo' = Window(list, top)
    <3>1. {row'[d] : d \in now} = {row[d] : d \in filled} \cup {r}
      BY <1>9, <2>2, <2>3
    <3> QED BY <1>1, <1>5, <2>1, <3>1
  <2>5. ASSUME NEW d \in now
        PROVE  /\ row'[d] \notin todo'
               /\ pics'.cell[d].user = list[row'[d]]
               /\ \A e \in now \ {d} : row'[d] # row'[e]
    <3>1. CASE d = c
      <4>1. row'[d] \notin todo' /\ pics'.cell[d].user = list[row'[d]]
        BY <1>1, <1>8, <1>9, <3>1 DEF user
      <4>2. \A e \in now \ {d} : row'[d] # row'[e]
        BY <1>5, <1>9, <2>1, <2>2, <2>3, <3>1
      <4> QED BY <4>1, <4>2
    <3>2. CASE d # c
      <4>1. d \in filled /\ row'[d] = row[d] /\ pics'.cell[d] = pics.cell[d] /\ row[d] # r
        BY <1>5, <1>8, <2>1, <2>2, <2>3, <3>2
      <4>2. row'[d] \notin todo' /\ pics'.cell[d].user = list[row'[d]]
        BY <1>1, <2>1, <4>1
      <4>3. \A e \in now \ {d} : row'[d] # row'[e]
        BY <1>9, <2>1, <2>2, <2>3, <4>1
      <4> QED BY <4>2, <4>3
    <3> QED BY <3>1, <3>2
  <2> QED BY <1>1, <2>4, <2>5 DEF RowsFit, now
<1>11. \A d \in Cells : Dressed(pics'.cell[d])
  BY <1>2, <1>8
<1>12. todo' \subseteq 1..Len(Directory)
  BY <1>1, <1>2
<1>13. TableStep
  BY <1>1, <1>2, <1>3, <1>4, <1>9, <1>10, <1>12 DEF TableStep
<1> QED BY <1>8, <1>11, <1>13

-----------------------------------------------------------------------------
(***************************************************************************)
(* The theorems.                                                           *)
(***************************************************************************)

LEMMA InitInv == Init => IInv
<1> SUFFICES ASSUME Init PROVE IInv
  OBVIOUS
<1>1. /\ users = <<>> /\ text = "" /\ filtered = <<>> /\ top = 1 /\ todo = {}
      /\ row = [c \in Cells |-> 0] /\ joining = {} /\ missed = {} /\ moves = 0
      /\ failures = 0
  BY DEF Init
<1>2. /\ pics.cell = [c \in Cells |-> [user |-> Nobody, image |-> Nobody,
                                      url |-> Nobody, stage |-> "none"]]
      /\ pics.ops = [i \in 1..MaxDownloads |-> NoOperation]
      /\ pics.operationOf = [u \in Users |-> 0]
      /\ pics.cache = [u \in Users |-> "none"]
      /\ pics.io = <<>> /\ pics.failed = {} /\ pics.main = <<>> /\ Whole(pics)
  BY DEF Init, Whole
<1>3. /\ NoOperation \in Operations /\ NoOperation.waiting = {}
      /\ NoOperation.phase = "free"
  BY DEF NoOperation, Operations, Phases, Pictures
<1>4. /\ pics.cell \in [Cells -> CellStates]
      /\ \A c \in Cells : pics.cell[c].stage = "none" /\ pics.cell[c].user = Nobody
  BY <1>2 DEF CellStates, Pictures
<1>5. pics.ops \in [1..MaxDownloads -> Operations]
      /\ \A i \in 1..MaxDownloads : pics.ops[i] = NoOperation
  BY <1>2, <1>3
<1>6. pics.operationOf \in [Users -> 0..MaxDownloads]
      /\ \A u \in Users : pics.operationOf[u] = 0
  <2>1. 0 \in 0..MaxDownloads
    BY SizesAssumption
  <2> QED BY <1>2, <2>1
<1>7. Len(pics.io) = 0 /\ Len(pics.main) = 0
      /\ pics.io \in Seq(Questions) /\ pics.main \in Seq(Blocks)
  BY <1>2
<1>8. pics \in Pics
  <2>1. pics.failed \in SUBSET Users /\ pics.cache \in [Users -> {"none", "disk", "memory"}]
    BY <1>2
  <2>2. Whole(pics)
    BY <1>2
  <2> QED BY <1>4, <1>5, <1>6, <1>7, <2>1, <2>2, PicsFrom
<1>9. Fit(pics)
  <2>1. \A c \in Cells : Placed(pics, c) /\ Once(pics, c)
    BY <1>3, <1>5, <1>7 DEF Placed, Once, Waits
  <2>2. UrlsOK(pics)
    BY <1>3, <1>4, <1>5, <1>6 DEF UrlsOK
  <2> QED BY <1>8, <2>1, <2>2 DEF Fit, PlacesOK, OnePlace
<1>10. OnScreen = <<>> /\ Listed(<<>>)
  <2>1. OnScreen = <<>>
    BY <1>1 DEF OnScreen, List, InSearchMode
  <2> QED BY <2>1, ListListed
<1>11. RowsTrue
  <2>1. Window(<<>>, 1) = {}
    <3>1. Window(<<>>, 1) \subseteq 1..Len(<<>>)
      BY <1>10, WindowInside
    <3> QED BY <3>1
  <2>2. \A c \in Cells : row[c] = 0
    BY <1>1
  <2>3. RowsFit(OnScreen, top, row, todo, pics.cell)
    BY <1>1, <1>10, <2>1, <2>2 DEF RowsFit
  <2> QED BY <1>1, <2>3, RowsTrueFit DEF OnScreen
<1>12. TypeOK
  <2>1. 0 \in 0..Len(Directory) /\ 0 \in 0..MaxMoves /\ 0 \in 0..MaxFailures
    BY UsersAssumption, SizesAssumption, LenProperties
  <2>2. row \in [Cells -> 0..Len(Directory)]
    <3>1. row = [c \in Cells |-> 0]
      BY <1>1
    <3> QED BY <2>1, <3>1
  <2>3. text \in Texts
    BY <1>1, SearchAssumption
  <2>4. filtered \in Seq(Users)
    <3>1. <<>> \in Seq(Users)
      OBVIOUS
    <3> QED BY <1>1, <3>1
  <2>5. Owned(pics)
    BY <1>9, FitOwned
  <2>6. top \in Nat \ {0} /\ users \in {<<>>, Directory} /\ todo \subseteq 1..Len(Directory)
        /\ missed \subseteq Cells /\ moves \in 0..MaxMoves /\ failures \in 0..MaxFailures
        /\ joining \subseteq Cells
    <3>1. /\ top = 1 /\ users = <<>> /\ todo = {} /\ missed = {} /\ moves = 0
          /\ failures = 0 /\ joining = {}
      BY <1>1
    <3>2. 1 \in Nat \ {0}
      OBVIOUS
    <3>3. top \in Nat \ {0} /\ users \in {<<>>, Directory}
      BY <3>1, <3>2
    <3>4. todo \subseteq 1..Len(Directory) /\ missed \subseteq Cells /\ joining \subseteq Cells
      BY <3>1
    <3>5. moves \in 0..MaxMoves /\ failures \in 0..MaxFailures
      BY <2>1, <3>1
    <3> QED BY <3>3, <3>4, <3>5
  <2> QED BY <1>8, <2>2, <2>3, <2>4, <2>5, <2>6 DEF TypeOK
<1>13. \A c \in Cells : Dressed(pics.cell[c])
  <2>1. \A c \in Cells : pics.cell[c] = [user |-> Nobody, image |-> Nobody,
                                         url |-> Nobody, stage |-> "none"]
    BY <1>2
  <2> QED BY <2>1 DEF Dressed
<1>14. JoinsOK
  BY <1>1 DEF JoinsOK
<1> QED BY <1>9, <1>11, <1>12, <1>13, <1>14 DEF IInv

(* The counters, and the loads that joined a download too late.            *)
LEMMA CountsStep ==
  IInv /\ Next => /\ missed' \subseteq Cells /\ moves' \in 0..MaxMoves
                  /\ failures' \in 0..MaxFailures
<1> SUFFICES ASSUME IInv, Next
             PROVE  /\ missed' \subseteq Cells /\ moves' \in 0..MaxMoves
                    /\ failures' \in 0..MaxFailures
  OBVIOUS
<1>1. /\ missed \subseteq Cells /\ moves \in 0..MaxMoves /\ failures \in 0..MaxFailures
      /\ MaxMoves \in Nat /\ MaxFailures \in Nat
  BY SizesAssumption DEF IInv, TypeOK
<1>2. \/ missed' = missed
      \/ \E c \in Cells : AddHandlers(c)
      \/ \E c \in Cells : CellForRow(c)
  BY DEF Next, FetchUsers, UpdateSearchResults, Scroll, Move, MemoryWarning, RunBlock,
         RunFound, RunLoaded, ReadDisk, CallCompletionBlocks, Done, Completed, UI
<1>3. missed' \subseteq Cells
  <2>1. CASE \E c \in Cells : AddHandlers(c)
    BY <1>1, <2>1 DEF AddHandlers
  <2>2. CASE \E c \in Cells : CellForRow(c)
    BY <1>1, <2>2 DEF CellForRow
  <2> QED BY <1>1, <1>2, <2>1, <2>2
<1>4. moves' \in 0..MaxMoves
  <2>1. moves' = moves \/ Move
    BY DEF Next, FetchUsers, UpdateSearchResults, Scroll, CellForRow, MemoryWarning,
           RunBlock, RunFound, RunLoaded, AddHandlers, ReadDisk, CallCompletionBlocks,
           Done, Completed, UI
  <2> QED BY <1>1, <2>1 DEF Move
<1>5. failures' \in 0..MaxFailures
  <2>1. \/ failures' = failures
        \/ failures' = failures + 1 /\ failures < MaxFailures
    BY DEF Next, FetchUsers, UpdateSearchResults, Scroll, CellForRow, MemoryWarning,
           RunBlock, RunFound, RunLoaded, AddHandlers, ReadDisk, CallCompletionBlocks,
           Done, Completed, UI
  <2> QED BY <1>1, <2>1
<1> QED BY <1>3, <1>4, <1>5

(* The main queue does nothing else while it is about to add a callback.   *)
LEMMA JoinsStep == IInv /\ Next => JoinsOK'
<1> SUFFICES ASSUME IInv, Next PROVE JoinsOK'
  OBVIOUS
<1>1. CASE joining' = {}
  BY <1>1 DEF JoinsOK
<1>2. CASE joining' = joining /\ JoinsStay
  <2>1. \A c \in joining : c \in Cells /\ Joined(pics, c)
    BY DEF IInv, JoinsOK
  <2> QED BY <1>2, <2>1 DEF JoinsOK, JoinsStay
<1>3. CASE RunFound
  BY <1>3, RunFoundFit
<1>4. ReadDisk => joining' = joining /\ JoinsStay
  BY ReadDiskFit DEF ReadDisk
<1>5. ASSUME NEW i \in 1..MaxDownloads
      PROVE  /\ \A result \in Results :
                   CallCompletionBlocks(i, result) => joining' = joining /\ JoinsStay
             /\ Done(i) => joining' = joining /\ JoinsStay
  BY CallFit, DoneFit DEF CallCompletionBlocks, Done
<1>6. \/ joining' = {} \/ RunFound \/ ReadDisk
      \/ \E i \in 1..MaxDownloads : Done(i) \/ \E result \in Results :
                                       CallCompletionBlocks(i, result)
  BY DEF Next, FetchUsers, UpdateSearchResults, Scroll, CellForRow, MemoryWarning,
         RunBlock, RunLoaded, AddHandlers, Completed, Move, MainQueue
<1> QED BY <1>1, <1>2, <1>3, <1>4, <1>5, <1>6

(* Once the lists and the cells are right, so is the invariant.            *)
LEMMA FromParts ==
  /\ TableStep /\ Fit(pics') /\ (\A c \in Cells : Dressed(pics'.cell[c]))
  /\ missed' \subseteq Cells /\ moves' \in 0..MaxMoves /\ failures' \in 0..MaxFailures
  /\ JoinsOK'
  => IInv'
<1> SUFFICES ASSUME TableStep, Fit(pics'), \A c \in Cells : Dressed(pics'.cell[c]),
                    missed' \subseteq Cells, moves' \in 0..MaxMoves,
                    failures' \in 0..MaxFailures, JoinsOK'
             PROVE  IInv'
  OBVIOUS
<1>1. Listed(filtered')
  BY ListListed DEF TableStep
<1>2. Owned(pics') /\ pics' \in Pics
  BY FitOwned DEF Fit
<1>3. TypeOK'
  BY <1>1, <1>2 DEF TypeOK, TableStep, Listed, JoinsOK
<1>4. RowsTrue'
  BY DEF RowsTrue, RowsFit, TableStep, OnScreen
<1> QED BY <1>3, <1>4 DEF IInv

LEMMA StepInv == IInv /\ [Next]_vars => IInv'
<1> SUFFICES ASSUME IInv, [Next]_vars PROVE IInv'
  OBVIOUS
<1>1. CASE UNCHANGED vars
  BY <1>1 DEF vars, IInv, TypeOK, RowsTrue, JoinsOK
<1>2. CASE Next
  <2>1. /\ missed' \subseteq Cells /\ moves' \in 0..MaxMoves
        /\ failures' \in 0..MaxFailures /\ JoinsOK'
    BY <1>2, CountsStep, JoinsStep
  <2>2. Fit(pics) /\ \A c \in Cells : Dressed(pics.cell[c])
    BY DEF IInv
  <2>3. TableStep /\ pics' = pics => IInv'
    <3> HAVE TableStep /\ pics' = pics
    <3>1. Fit(pics') /\ \A c \in Cells : Dressed(pics'.cell[c])
      BY <2>2
    <3> QED BY <2>1, <3>1, FromParts
  <2>4. PicsStep /\ UNCHANGED UI => IInv'
    <3> HAVE PicsStep /\ UNCHANGED UI
    <3>1. Fit(pics') /\ \A c \in Cells : Dressed(pics'.cell[c])
      BY DEF PicsStep
    <3>2. TableStep
      <4>1. /\ users' = users /\ text' = text /\ filtered' = filtered /\ top' = top
            /\ row' = row /\ todo' = todo
        BY DEF UI
      <4>2. RowsFit(OnScreen, top, row, todo, pics.cell)
        BY RowsTrueFit DEF IInv, OnScreen
      <4>3. RowsFit(OnScreen', top', row', todo', pics'.cell)
        BY <4>1, <4>2 DEF RowsFit, OnScreen, PicsStep
      <4>4. /\ users \in {<<>>, Directory} /\ text \in Texts /\ top \in Nat \ {0}
            /\ row \in [Cells -> 0..Len(Directory)] /\ todo \subseteq 1..Len(Directory)
            /\ filtered \in {Filter(users, text), <<>>}
        BY RowsTrueFit DEF IInv, TypeOK
      <4> QED BY <4>1, <4>3, <4>4 DEF TableStep
    <3> QED BY <2>1, <3>1, <3>2, FromParts
  <2>5. CASE FetchUsers
    BY <2>3, <2>5, FetchUsersTable
  <2>6. CASE \E t \in Texts : UpdateSearchResults(t)
    BY <2>3, <2>6, SearchTable
  <2>7. CASE \E k \in 1..Len(Directory) : Scroll(k)
    BY <2>3, <2>7, ScrollTable
  <2>8. CASE \E c \in Cells : CellForRow(c)
    BY <2>1, <2>8, CellTable, FromParts
  <2>9. CASE MemoryWarning
    BY <2>4, <2>9, MemoryWarningFit DEF MemoryWarning
  <2>10. CASE RunFound
    BY <2>4, <2>10, RunFoundFit DEF RunFound
  <2>11. CASE RunLoaded
    BY <2>4, <2>11, RunLoadedFit DEF RunLoaded
  <2>12. CASE ReadDisk
    BY <2>4, <2>12, ReadDiskFit DEF ReadDisk
  <2>13. CASE \E i \in 1..MaxDownloads : \E result \in Results :
                CallCompletionBlocks(i, result)
    BY <2>4, <2>13, CallFit DEF CallCompletionBlocks
  <2>14. CASE \E i \in 1..MaxDownloads : Done(i)
    BY <2>4, <2>14, DoneFit DEF Done
  <2>15. CASE \E i \in 1..MaxDownloads : Completed(i)
    BY <2>4, <2>15, CompletedFit DEF Completed
  <2>16. CASE \E c \in Cells : AddHandlers(c)
    BY <2>4, <2>16, AddHandlersFit DEF AddHandlers
  <2> QED BY <1>2, <2>5, <2>6, <2>7, <2>8, <2>9, <2>10, <2>11, <2>12, <2>13, <2>14,
             <2>15, <2>16 DEF Next, RunBlock
<1> QED BY <1>1, <1>2

(* IInv holds in every state of the list of users.                         *)
THEOREM UserListInvariance == Spec => []IInv
BY InitInv, StepInv, PTL DEF Spec

(* Every question to the disk, every block of the main queue and every     *)
(* callback of a download is for the load that its cell has under way      *)
(* (sd_cancelCurrentImageLoad, dg_cancel).                                 *)
THEOREM LoadsAreOwned == Spec => []TypeOK
<1>1. IInv => TypeOK
  BY DEF IInv
<1> QED BY <1>1, UserListInvariance, PTL

(* The rows on screen, the cells and the list agree, whatever the order of *)
(* fetchUsers, searches and scrolls (cellForRowAt, updateSearchResults).   *)
THEOREM RowsAreTrue == Spec => []RowsTrue
<1>1. IInv => RowsTrue
  BY DEF IInv
<1> QED BY <1>1, UserListInvariance, PTL

(* A cell used again never shows the picture that its last user had asked  *)
(* for (UserCell.configure, sd_setImage).                                  *)
THEOREM PicturesAreRight == Spec => []RightPicture
<1>1. IInv => RightPicture
  BY DEF IInv, Dressed, RightPicture
<1> QED BY <1>1, UserListInvariance, PTL
=============================================================================
