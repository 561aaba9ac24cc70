--------------------------- MODULE EmbeddingProofs ---------------------------
(***************************************************************************)
(* Proofs about Embedding, for any number of texts and any batch sizes,    *)
(* with responses in any order.                                            *)
(*                                                                         *)
(* Sorting is counting: the rank of an item is the number of items up to   *)
(* it, ranks are one-to-one, and on a finite set a one-to-one map of it to *)
(* itself reaches everything.  So sorting permutes the vectors, and where  *)
(* the response is complete it puts the batch in order (FaithfulSorted).   *)
(* The invariant says which texts have been sent (SentInv), what the       *)
(* response at hand is (DataInv) and, for complete responses, which        *)
(* vectors have been gathered (AllInv).                                    *)
(***************************************************************************)
EXTENDS Embedding, FiniteSetTheorems, FunctionTheorems, SequenceTheorems, TLAPS

-----------------------------------------------------------------------------
(* Sorting by index. *)

(* The items of d that come no later than item k. *)
UpTo(d, k) == {m \in DOMAIN d : \/ d[m].index < d[k].index
                                \/ d[m].index = d[k].index /\ m <= k}

(* The n items of d have an integer index each, and no two the same. *)
Distinct(d, n) ==
  /\ DOMAIN d = 1..n
  /\ \A k \in 1..n : d[k].index \in Int
  /\ \A a, b \in 1..n : d[a].index = d[b].index => a = b

LEMMA UpToOfDistinct ==
  ASSUME NEW n \in Nat, NEW d, Distinct(d, n), NEW k \in 1..n
  PROVE  UpTo(d, k) = {m \in 1..n : d[m].index <= d[k].index}
BY DEF UpTo, Distinct

LEMMA RankIsCardinality == \A d, k : Rank(d, k) = Cardinality(UpTo(d, k))
BY DEF Rank, UpTo

(* Every place is that of some item. *)
LEMMA RanksOnto ==
  ASSUME NEW n \in Nat, NEW d, Distinct(d, n)
  PROVE  \A r \in 1..n : \E k \in 1..n : Rank(d, k) = r
<1>. DEFINE rank == [k \in 1..n |-> Rank(d, k)]
<1>1. IsFiniteSet(1..n) /\ Cardinality(1..n) = n
  BY FS_Interval
<1>2. ASSUME NEW k \in 1..n
      PROVE  /\ UpTo(d, k) \in SUBSET (1..n) /\ k \in UpTo(d, k)
             /\ IsFiniteSet(UpTo(d, k)) /\ Rank(d, k) \in 1..n
  <2>1. UpTo(d, k) \in SUBSET (1..n) /\ k \in UpTo(d, k)
    BY UpToOfDistinct DEF Distinct
  <2>2. IsFiniteSet(UpTo(d, k)) /\ Rank(d, k) <= n
    BY <1>1, <2>1, FS_Subset, RankIsCardinality
  <2>3. Rank(d, k) \in Nat
    BY <2>2, FS_CardinalityType, RankIsCardinality
  <2>4. Rank(d, k) # 0
    BY <2>1, <2>2, FS_EmptySet, RankIsCardinality
  <2>. QED  BY <2>1, <2>2, <2>3, <2>4
<1>3. ASSUME NEW a \in 1..n, NEW b \in 1..n, d[a].index < d[b].index
      PROVE  Rank(d, a) # Rank(d, b)
  <2>1. UpTo(d, a) \subseteq UpTo(d, b) /\ b \notin UpTo(d, a)
    <3>1. \A m \in 1..n : d[m].index \in Int
      BY DEF Distinct
    <3>2. /\ UpTo(d, a) = {m \in 1..n : d[m].index <= d[a].index}
          /\ UpTo(d, b) = {m \in 1..n : d[m].index <= d[b].index}
      BY UpToOfDistinct
    <3>3. \A m \in 1..n : d[m].index <= d[a].index => d[m].index <= d[b].index
      BY <1>3, <3>1
    <3>4. ~(d[b].index <= d[a].index)
      BY <1>3, <3>1
    <3>. QED  BY <3>2, <3>3, <3>4
  <2>2. UpTo(d, a) # UpTo(d, b)
    BY <1>2, <2>1
  <2>3. Cardinality(UpTo(d, b)) # Cardinality(UpTo(d, a))
    BY <1>2, <2>1, <2>2, FS_Subset
  <2>. QED  BY <2>3, RankIsCardinality
<1>4. \A a, b \in 1..n : rank[a] = rank[b] => a = b
  <2>. SUFFICES ASSUME NEW a \in 1..n, NEW b \in 1..n, Rank(d, a) = Rank(d, b)
                PROVE  a = b
    OBVIOUS
  <2>1. /\ d[a].index \in Int /\ d[b].index \in Int
        /\ d[a].index = d[b].index => a = b
    BY DEF Distinct
  <2>2. ~(d[a].index < d[b].index) /\ ~(d[b].index < d[a].index)
    BY <1>3
  <2>. QED  BY <2>1, <2>2
<1>5. rank \in Injection(1..n, 1..n)
  BY <1>2, <1>4, Fun_IsInj
<1>6. rank \in Surjection(1..n, 1..n)
  BY <1>1, <1>5, FS_Injection
<1>7. \A k \in 1..n : rank[k] = Rank(d, k)
  OBVIOUS
<1>. HIDE DEF rank
<1>8. \A r \in 1..n : \E k \in 1..n : rank[k] = r
  BY <1>6, Fun_SurjectionProperties
<1>. QED  BY <1>7, <1>8

(* Place r of the sorted vectors has that of the item with rank r. *)
LEMMA SortedTakes ==
  ASSUME NEW n \in Nat, NEW d, Distinct(d, n)
  PROVE  \A r \in 1..n : \E k \in 1..n :
           Rank(d, k) = r /\ SortedVectors(d)[r] = d[k].vector
<1>1. DOMAIN d = 1..n
  BY DEF Distinct
<1>2. ASSUME NEW r \in 1..n
      PROVE  \E k \in 1..n : Rank(d, k) = r /\ SortedVectors(d)[r] = d[k].vector
  <2>. DEFINE c == CHOOSE k \in 1..n : Rank(d, k) = r
  <2>1. c \in 1..n /\ Rank(d, c) = r
    BY RanksOnto
  <2>2. SortedVectors(d)[r] = d[c].vector
    BY <1>1 DEF SortedVectors
  <2>. QED  BY <2>1, <2>2
<1>. QED  BY <1>2

(* Sorting keeps the number of the vectors, and whose they are. *)
LEMMA SortedPermutes ==
  ASSUME NEW n \in Nat, NEW d, Distinct(d, n), NEW V,
         \A k \in 1..n : d[k].vector \in V
  PROVE  SortedVectors(d) \in Seq(V) /\ Len(SortedVectors(d)) = n
<1>1. DOMAIN SortedVectors(d) = 1..n
  BY DEF SortedVectors, Distinct
<1>2. SortedVectors(d) \in [1..n -> V]
  <2>1. \A r \in 1..n : SortedVectors(d)[r] \in V
    BY SortedTakes
  <2>2. SortedVectors(d) = [r \in 1..n |-> SortedVectors(d)[r]]
    BY DEF SortedVectors, Distinct
  <2>. QED  BY <2>1, <2>2
<1>3. SortedVectors(d) \in Seq(V)
  BY <1>2, SeqDef
<1>4. Len(SortedVectors(d)) = n
  <2>1. Len(SortedVectors(d)) \in Nat /\ 1..n = 1..Len(SortedVectors(d))
    BY <1>1, <1>3, LenProperties
  <2>. QED  BY <2>1
<1>. QED  BY <1>3, <1>4

-----------------------------------------------------------------------------
(* Responses. *)

(* The texts of a batch. *)
LEMMA BatchIsInterval ==
  ASSUME texts \in Nat, i \in Nat, size \in Nat, i < texts
  PROVE  \E n \in Nat :
           /\ Batch = (i + 1)..(i + n) /\ IsFiniteSet(Batch) /\ Cardinality(Batch) = n
           /\ n <= size /\ i + n <= texts /\ (n = size \/ i + n = texts)
<1>. DEFINE n == IF i + size <= texts THEN size ELSE texts - i
<1>1. n \in Nat /\ n <= size /\ i + n <= texts /\ (n = size \/ i + n = texts)
  OBVIOUS
<1>2. Batch = (i + 1)..(i + n)
  BY DEF Batch
<1>. HIDE DEF n
<1>3. IsFiniteSet((i + 1)..(i + n))
      /\ Cardinality((i + 1)..(i + n)) = IF i + 1 > i + n THEN 0 ELSE (i + n) - (i + 1) + 1
  BY <1>1, FS_Interval
<1>4. Cardinality(Batch) = n
  BY <1>1, <1>2, <1>3
<1>. QED  BY <1>1, <1>2, <1>3, <1>4

ItemsOf(p) == [k \in DOMAIN p |-> Item(p[k] - i - 1, p[k])]

LEMMA ResponseItems ==
  ASSUME i \in Nat, NEW b \in SUBSET Nat, IsFiniteSet(b), NEW d \in ResponsesTo(b)
  PROVE  \E n \in Nat : \E p \in [1..n -> b] :
           /\ d = [k \in 1..n |-> Item(p[k] - i - 1, p[k])]
           /\ \A x, y \in 1..n : p[x] = p[y] => x = y
           /\ n <= Cardinality(b)
           /\ Faithful => n = Cardinality(b)
<1>1. PICK S \in SUBSET b : \E p \in Orders(S) :
        /\ d = [k \in DOMAIN p |-> Item(p[k] - i - 1, p[k])]
        /\ Faithful => S = b
  BY DEF ResponsesTo
<1>2. PICK p \in Orders(S) :
        /\ d = [k \in DOMAIN p |-> Item(p[k] - i - 1, p[k])]
        /\ Faithful => S = b
  BY <1>1
<1>. DEFINE n == Cardinality(S)
<1>3. n \in Nat /\ n <= Cardinality(b)
  BY FS_Subset, FS_CardinalityType
<1>4. /\ p \in [1..n -> S] /\ DOMAIN p = 1..n
      /\ \A x, y \in 1..n : p[x] = p[y] => x = y
  BY DEF Orders
<1>. HIDE DEF n
<1>5. p \in [1..n -> b]
  BY <1>4
<1>6. Faithful => n = Cardinality(b)
  BY <1>2 DEF n
<1>. QED  BY <1>2, <1>3, <1>4, <1>5, <1>6

(* A response has one item for each of some texts of the batch. *)
LEMMA ResponseDistinct ==
  ASSUME i \in Nat, NEW b \in SUBSET Nat, NEW n \in Nat, NEW p \in [1..n -> b],
         NEW d, d = [k \in 1..n |-> Item(p[k] - i - 1, p[k])],
         \A x, y \in 1..n : p[x] = p[y] => x = y
  PROVE  /\ Distinct(d, n)
         /\ \A k \in 1..n : d[k].vector = p[k] /\ d[k].index = p[k] - i - 1
<1>1. \A k \in 1..n : d[k].vector = p[k] /\ d[k].index = p[k] - i - 1
  BY DEF Item
<1>2. \A k \in 1..n : p[k] \in Nat
  OBVIOUS
<1>3. DOMAIN d = 1..n
  OBVIOUS
<1>4. \A k \in 1..n : d[k].index \in Int
  BY <1>1, <1>2
<1>5. ASSUME NEW x \in 1..n, NEW y \in 1..n, d[x].index = d[y].index
      PROVE  x = y
  <2>1. p[x] - i - 1 = p[y] - i - 1 /\ p[x] \in Nat /\ p[y] \in Nat
    BY <1>1, <1>2, <1>5
  <2>2. p[x] = p[y]
    BY <2>1
  <2>. QED  BY <2>2
<1>. QED  BY <1>1, <1>3, <1>4, <1>5 DEF Distinct

(* The response d has the n items that p names of the batch b. *)
Answers(d, n, p, b) ==
  /\ p \in [1..n -> b]
  /\ \A x, y \in 1..n : p[x] = p[y] => x = y
  /\ Distinct(d, n)
  /\ \A k \in 1..n : d[k].vector = p[k] /\ d[k].index = p[k] - i - 1

(* A faithful response, sorted, has the texts of the batch in order. *)
LEMMA FaithfulSorted ==
  ASSUME i \in Nat, NEW n \in Nat, NEW p, NEW d, Answers(d, n, p, (i + 1)..(i + n))
  PROVE  \A r \in 1..n : SortedVectors(d)[r] = i + r
<1>. DEFINE b == (i + 1)..(i + n)
<1>1. /\ p \in [1..n -> b]
      /\ \A x, y \in 1..n : p[x] = p[y] => x = y
  BY DEF Answers
<1>2. Distinct(d, n)
  BY DEF Answers
<1>3. \A k \in 1..n : d[k].vector = p[k] /\ d[k].index = p[k] - i - 1
  BY DEF Answers
<1>4. b \in SUBSET Nat
  OBVIOUS
<1>5. IsFiniteSet(b) /\ IsFiniteSet(1..n) /\ Cardinality(b) = n /\ Cardinality(1..n) = n
  <2>1. Cardinality(b) = IF i + 1 > i + n THEN 0 ELSE (i + n) - (i + 1) + 1
    BY FS_Interval
  <2>2. Cardinality(b) = n
    BY <2>1
  <2>. QED  BY <2>2, FS_Interval
<1>6. p \in [1..n -> b] /\ \A m \in 1..n : p[m] \in b
  BY <1>1
<1>7. \A v \in b : v \in Nat /\ v - i \in 1..n
  OBVIOUS
<1>. HIDE DEF b
<1>8. \A v \in b : \E k \in 1..n : p[k] = v
  <2>1. p \in Injection(1..n, b)
    BY <1>1, Fun_IsInj
  <2>2. p \in Surjection(1..n, b)
    BY <1>5, <2>1, FS_Injection
  <2>. QED  BY <2>2, Fun_SurjectionProperties
<1>9. \A k \in 1..n :
         UpTo(d, k) = {m \in 1..n : d[m].index <= d[k].index}
  BY <1>2, UpToOfDistinct
<1>10. ASSUME NEW k \in 1..n
      PROVE  Rank(d, k) = p[k] - i
  <2>. DEFINE U == UpTo(d, k)
              h == p[k] - i
              g == [m \in U |-> p[m] - i]
  <2>1. \A m \in 1..n : p[m] \in Nat /\ p[m] - i \in 1..n
    BY <1>6, <1>7
  <2>2. h \in 1..n /\ h \in Nat
    BY <2>1
  <2>3. U = {m \in 1..n : p[m] <= p[k]}
    <3>1. U = {m \in 1..n : d[m].index <= d[k].index}
      BY <1>9
    <3>2. ASSUME NEW m \in 1..n
          PROVE  d[m].index <= d[k].index <=> p[m] <= p[k]
      <4>1. d[m].index = p[m] - i - 1 /\ d[k].index = p[k] - i - 1
        BY <1>3
      <4>2. p[m] \in Nat /\ p[k] \in Nat
        BY <2>1
      <4>3. \A x, y \in Nat : x - i - 1 <= y - i - 1 <=> x <= y
        OBVIOUS
      <4>4. p[m] - i - 1 <= p[k] - i - 1 <=> p[m] <= p[k]
        BY <4>2, <4>3
      <4>. QED  BY <4>1, <4>4, Zenon
    <3>. QED  BY <3>1, <3>2
  <2>4. \A m \in U : m \in 1..n /\ p[m] \in Nat /\ p[m] - i \in 1..h
    <3>. SUFFICES ASSUME NEW m \in U
                  PROVE  m \in 1..n /\ p[m] \in Nat /\ p[m] - i \in 1..h
      OBVIOUS
    <3>1. m \in 1..n /\ p[m] <= p[k]
      BY <2>3
    <3>2. p[m] \in Nat /\ p[k] \in Nat /\ p[m] - i \in 1..n
      BY <2>1, <3>1
    <3>. QED  BY <3>1, <3>2
  <2>5. g \in [U -> 1..h]
    BY <2>4
  <2>6. \A x, y \in U : g[x] = g[y] => x = y
    <3>. SUFFICES ASSUME NEW x \in U, NEW y \in U, g[x] = g[y]
                  PROVE  x = y
      OBVIOUS
    <3>1. p[x] - i = p[y] - i
      OBVIOUS
    <3>2. p[x] = p[y]
      BY <2>4, <3>1
    <3>. QED  BY <1>1, <2>4, <3>2
  <2>7. ASSUME NEW t \in 1..h
        PROVE  \E m \in U : g[m] = t
    <3>1. i + t \in b
      BY <2>2 DEF b
    <3>2. PICK m \in 1..n : p[m] = i + t
      BY <1>8, <3>1
    <3>3. p[m] <= p[k] /\ p[m] - i = t
      BY <2>1, <3>2
    <3>. QED  BY <2>3, <3>3
  <2>. HIDE DEF g, U, h
  <2>8. g \in Bijection(U, 1..h)
    BY <2>5, <2>6, <2>7, Fun_IsBij
  <2>9. ExistsBijection(1..h, U)
    BY <2>8, Fun_ExistsBij, Fun_ExistsBijSymmetric
  <2>10. Cardinality(U) = h
    BY <2>2, <2>9, FS_CountingElements
  <2>. QED  BY <2>10, RankIsCardinality DEF U, h
<1>11. \A r \in 1..n : \E k \in 1..n :
         Rank(d, k) = r /\ SortedVectors(d)[r] = d[k].vector
  BY <1>2, SortedTakes
<1>12. ASSUME NEW r \in 1..n
      PROVE  SortedVectors(d)[r] = i + r
  <2>1. PICK k \in 1..n : Rank(d, k) = r /\ SortedVectors(d)[r] = d[k].vector
    BY <1>11
  <2>2. p[k] \in Nat /\ r = p[k] - i /\ SortedVectors(d)[r] = p[k]
    BY <1>6, <1>7, <1>3, <1>10, <2>1
  <2>. QED  BY <2>2
<1>. QED  BY <1>12

-----------------------------------------------------------------------------
(* The inductive invariant. *)

InLoop == pc \in {"loop", "posted", "replied"}
Gone == IF pc \in {"posted", "replied"} THEN i + size ELSE i
Reached == IF Gone <= texts THEN Gone ELSE texts
Progress ==
  /\ method \in {"embed", "embed_batch"}
  /\ texts \in 0..MaxTexts
  /\ size \in BatchSizes
  /\ pc \in {"idle", "loop", "posted", "replied", "done"}
  /\ outcome \in {"none", "returned", "EmbeddingError", "other exception"}
  /\ i \in Nat
  /\ i = 0 \/ (size > 0 /\ i < texts + size)
  /\ InLoop => size > 0
  /\ pc \in {"posted", "replied"} => i < texts
  /\ pc = "idle" => i = 0
  /\ pc # "done" => outcome = "none"
SentInv ==
  /\ sent \in [1..MaxTexts -> Nat]
  /\ pc # "done" => SentUpTo(Reached)
  /\ pc = "done" =>
       \E n \in 0..texts :
         SentUpTo(n) /\ (outcome = "returned" => n = IF size > 0 THEN texts ELSE 0)
DataInv ==
  /\ pc = "replied" => data \in ResponsesTo(Batch)
  /\ pc # "replied" => data = <<>>
  /\ all \in Seq(1..MaxTexts)
AllInv ==
  /\ \A j \in 1..Len(all) : all[j] = j
  /\ pc = "idle" => all = <<>>
  /\ InLoop => Len(all) = IF i <= texts THEN i ELSE texts
  /\ outcome = "returned" /\ size > 0 => Len(all) = texts

-----------------------------------------------------------------------------

(* The numbers the arithmetic below is about. *)
LEMMA Numbers ==
  ASSUME Progress
  PROVE  /\ texts \in Nat /\ MaxTexts \in Nat /\ texts <= MaxTexts
         /\ size \in Int /\ i \in Nat /\ 1..texts \subseteq 1..MaxTexts
<1>1. MaxTexts \in Nat /\ \A z \in BatchSizes : z \in Int
  BY EmbeddingAssumption
<1>2. texts \in 0..MaxTexts /\ size \in BatchSizes /\ i \in Nat
  BY DEF Progress
<1>3. texts \in Nat /\ texts <= MaxTexts
  BY <1>1, <1>2
<1>4. size \in Int
  BY <1>1, <1>2
<1>. QED  BY <1>1, <1>2, <1>3, <1>4

LEMMA BatchMembers ==
  ASSUME Progress, NEW j \in 1..MaxTexts
  PROVE  j \in Batch <=> j <= texts /\ i < j /\ j <= i + size
<1>1. texts \in Nat /\ j \in Nat /\ j >= 1
  BY Numbers
<1>2. j \in 1..texts <=> j <= texts
  BY <1>1
<1>. QED  BY <1>2 DEF Batch

LEMMA ResponseAnswers ==
  ASSUME i \in Nat, NEW b \in SUBSET Nat, IsFiniteSet(b), NEW d \in ResponsesTo(b)
  PROVE  \E n \in Nat : \E p : Answers(d, n, p, b) /\ (Faithful => n = Cardinality(b))
<1>1. PICK n \in Nat : \E p \in [1..n -> b] :
        /\ d = [k \in 1..n |-> Item(p[k] - i - 1, p[k])]
        /\ \A x, y \in 1..n : p[x] = p[y] => x = y
        /\ Faithful => n = Cardinality(b)
  BY ResponseItems
<1>2. PICK p \in [1..n -> b] :
        /\ d = [k \in 1..n |-> Item(p[k] - i - 1, p[k])]
        /\ \A x, y \in 1..n : p[x] = p[y] => x = y
        /\ Faithful => n = Cardinality(b)
  BY <1>1
<1>3. d = [k \in 1..n |-> Item(p[k] - i - 1, p[k])]
  BY <1>2
<1>4. \A x, y \in 1..n : p[x] = p[y] => x = y
  BY <1>2
<1>5. /\ Distinct(d, n)
      /\ \A k \in 1..n : d[k].vector = p[k] /\ d[k].index = p[k] - i - 1
  BY <1>3, <1>4, ResponseDistinct
<1>6. Answers(d, n, p, b)
  BY <1>4, <1>5, Zenon DEF Answers
<1>7. Faithful => n = Cardinality(b)
  BY <1>2
<1>. QED  BY <1>6, <1>7

(* The present batch, and the response to it. *)
LEMMA ResponseSorted ==
  ASSUME Progress, pc = "replied", data \in ResponsesTo(Batch)
  PROVE  \E n \in Nat :
           /\ SortedVectors(data) \in Seq(1..texts) /\ Len(SortedVectors(data)) = n
           /\ Faithful => /\ n = IF i + size <= texts THEN size ELSE texts - i
                          /\ \A r \in 1..n : SortedVectors(data)[r] = i + r
           /\ Distinct(data, n)
           /\ \A k \in 1..n : data[k].vector \in Batch
                              /\ data[k].index = data[k].vector - i - 1
<1>1. /\ texts \in Nat /\ i \in Nat /\ size \in Nat /\ i < texts /\ size > 0
  BY Numbers DEF Progress, InLoop
<1>2. PICK m \in Nat :
        /\ Batch = (i + 1)..(i + m) /\ IsFiniteSet(Batch) /\ Cardinality(Batch) = m
        /\ m <= size /\ i + m <= texts /\ (m = size \/ i + m = texts)
  BY <1>1, BatchIsInterval
<1>3. Batch \in SUBSET Nat /\ Batch \subseteq 1..texts
  BY <1>1 DEF Batch
<1>4. IsFiniteSet(Batch)
  BY <1>2
<1>5. i \in Nat
  BY <1>1
<1>6. PICK n \in Nat : \E p : Answers(data, n, p, Batch) /\ (Faithful => n = Cardinality(Batch))
  BY <1>3, <1>4, <1>5, ResponseAnswers, Zenon
<1>7. PICK p : Answers(data, n, p, Batch) /\ (Faithful => n = Cardinality(Batch))
  BY <1>6, Zenon
<1>8. /\ Distinct(data, n) /\ p \in [1..n -> Batch]
      /\ \A k \in 1..n : data[k].vector = p[k] /\ data[k].index = p[k] - i - 1
  BY <1>7 DEF Answers
<1>9. \A k \in 1..n : p[k] \in Batch /\ p[k] \in 1..texts
  BY <1>3, <1>8
<1>10. \A k \in 1..n : data[k].vector \in 1..texts
  BY <1>8, <1>9
<1>11. Distinct(data, n)
  BY <1>8
<1>12. SortedVectors(data) \in Seq(1..texts) /\ Len(SortedVectors(data)) = n
  BY <1>10, <1>11, SortedPermutes, Zenon
<1>13. ASSUME Faithful
      PROVE  /\ n = IF i + size <= texts THEN size ELSE texts - i
             /\ \A r \in 1..n : SortedVectors(data)[r] = i + r
  <2>1. n = m
    BY <1>2, <1>7, <1>13
  <2>2. Answers(data, n, p, (i + 1)..(i + n))
    BY <1>2, <1>7, <2>1
  <2>3. \A r \in 1..n : SortedVectors(data)[r] = i + r
    BY <1>5, <2>2, FaithfulSorted
  <2>4. n = IF i + size <= texts THEN size ELSE texts - i
    BY <1>1, <1>2, <2>1
  <2>. QED  BY <2>3, <2>4
<1>14. \A k \in 1..n : data[k].vector \in Batch
                       /\ data[k].index = data[k].vector - i - 1
  BY <1>8, <1>9
<1>. QED  BY <1>11, <1>12, <1>13, <1>14

LEMMA ProgressStep ==
  ASSUME Progress, [Next]_vars
  PROVE  Progress'
<1>1. /\ texts \in Nat /\ i \in Nat /\ size \in Int /\ MaxTexts \in Nat
  BY Numbers
<1>. USE DEF Progress, InLoop
<1>2. CASE UNCHANGED vars
  BY <1>2 DEF vars
<1>3. CASE Call
  BY <1>1, <1>3 DEF Call, HandBack, Leave
<1>4. CASE Post
  BY <1>1, <1>4 DEF Post
<1>5. CASE Reply
  BY <1>1, <1>5 DEF Reply
<1>6. CASE PostFails \/ ReplyMalformed
  BY <1>1, <1>6 DEF PostFails, ReplyMalformed, Leave
<1>7. CASE Extend
  BY <1>1, <1>7 DEF Extend
<1>8. CASE Return
  BY <1>1, <1>8 DEF Return, HandBack, Leave
<1>. QED  BY <1>2, <1>3, <1>4, <1>5, <1>6, <1>7, <1>8 DEF Next

LEMMA SentStep ==
  ASSUME Progress, SentInv, [Next]_vars
  PROVE  SentInv'
<1>1. /\ texts \in Nat /\ i \in Nat /\ size \in Int /\ MaxTexts \in Nat
      /\ texts <= MaxTexts
  BY Numbers
<1>2. sent \in [1..MaxTexts -> Nat]
  BY DEF SentInv
<1>3. pc # "done" => SentUpTo(Reached) /\ Reached \in 0..texts
  BY <1>1 DEF SentInv, Reached, Gone, Progress, InLoop
<1>4. ASSUME UNCHANGED sent, NEW n
      PROVE  SentUpTo(n)' <=> SentUpTo(n)
  BY <1>4 DEF SentUpTo
<1>5. CASE UNCHANGED vars
  <2>1. UNCHANGED <<texts, size, pc, i, sent, outcome>>
    BY <1>5 DEF vars
  <2>. QED  BY <2>1 DEF SentInv, SentUpTo, Reached, Gone
<1>6. CASE Call \/ PostFails \/ ReplyMalformed \/ Return
  <2>1. UNCHANGED <<texts, size, i, sent>> /\ pc # "done"
    BY <1>6 DEF Call, PostFails, ReplyMalformed, Return
  <2>2. CASE pc' = "done"
    <3>1. SentUpTo(Reached) /\ Reached \in 0..texts
      BY <1>3, <2>1
    <3>2. outcome' = "returned" => Reached = IF size > 0 THEN texts ELSE 0
      BY <1>1, <1>6, <2>1, <2>2
      DEF Call, PostFails, ReplyMalformed, Return, HandBack, Leave, Reached, Gone,
          Progress, InLoop
    <3>. DEFINE n == Reached
    <3>. HIDE DEF n
    <3>3. SentUpTo(n) /\ n \in 0..texts
          /\ (outcome' = "returned" => n = IF size > 0 THEN texts ELSE 0)
      BY <3>1, <3>2 DEF n
    <3>. QED  BY <1>2, <2>1, <2>2, <3>3 DEF SentInv, SentUpTo
  <2>3. CASE pc' # "done"
    <3>1. pc = "idle" /\ pc' = "loop"
      BY <1>6, <2>3 DEF Call, PostFails, ReplyMalformed, Return, HandBack, Leave
    <3>. QED  BY <1>2, <1>3, <2>1, <2>3, <3>1 DEF SentInv, SentUpTo, Reached, Gone
  <2>. QED  BY <2>2, <2>3
<1>7. CASE Post
  <2>1. size > 0 /\ pc = "loop" /\ pc' = "posted" /\ i < texts
    BY <1>7 DEF Post, Progress, InLoop
  <2>2. UNCHANGED <<texts, size, i>>
    BY <1>7 DEF Post
  <2>3. sent' \in [1..MaxTexts -> Nat]
    BY <1>2, <1>7 DEF Post
  <2>4. ASSUME NEW j \in 1..MaxTexts
        PROVE  sent'[j] = IF j <= Reached' THEN 1 ELSE 0
    <3>1. j \in Batch <=> j <= texts /\ i < j /\ j <= i + size
      BY BatchMembers
    <3>2. sent[j] = IF j <= i THEN 1 ELSE 0
      BY <1>1, <1>3, <2>1 DEF SentUpTo, Reached, Gone
    <3>3. sent'[j] = IF j \in Batch THEN sent[j] + 1 ELSE sent[j]
      BY <1>7 DEF Post
    <3>4. Reached' = IF i + size <= texts THEN i + size ELSE texts
      BY <2>1, <2>2 DEF Reached, Gone
    <3>5. j \in Nat
      OBVIOUS
    <3>. QED  BY <1>1, <2>1, <3>1, <3>2, <3>3, <3>4, <3>5
  <2>5. SentUpTo(Reached)'
    BY <2>4 DEF SentUpTo
  <2>. QED  BY <2>1, <2>3, <2>5 DEF SentInv
<1>8. CASE Reply \/ Extend
  <2>1. UNCHANGED <<texts, size, sent>> /\ pc # "done" /\ pc' # "done"
    BY <1>8 DEF Reply, Extend
  <2>2. Reached' = Reached
    BY <1>1, <1>8 DEF Reply, Extend, Reached, Gone
  <2>. QED  BY <1>2, <1>3, <2>1, <2>2 DEF SentInv, SentUpTo
<1>. QED  BY <1>5, <1>6, <1>7, <1>8 DEF Next

LEMMA DataStep ==
  ASSUME Progress, DataInv, [Next]_vars
  PROVE  DataInv'
<1>. USE DEF DataInv
<1>1. CASE UNCHANGED vars
  BY <1>1 DEF vars, ResponsesTo, Orders, Batch
<1>2. CASE Call \/ Post \/ PostFails \/ ReplyMalformed \/ Return
  BY <1>2 DEF Progress, Call, Post, PostFails, ReplyMalformed, Return, HandBack, Leave
<1>3. CASE Reply
  <2>1. UNCHANGED <<texts, size, i, all>> /\ pc' = "replied" /\ data' \in ResponsesTo(Batch)
    BY <1>3 DEF Reply
  <2>2. ResponsesTo(Batch)' = ResponsesTo(Batch)
    BY <2>1 DEF ResponsesTo, Orders, Batch
  <2>3. data' \in ResponsesTo(Batch)'
    BY <2>1, <2>2
  <2>4. (data \in ResponsesTo(Batch))'
    BY <2>3
  <2>. QED  BY <2>1, <2>4
<1>4. CASE Extend
  <2>1. PICK n \in Nat : SortedVectors(data) \in Seq(1..texts)
    BY <1>4, ResponseSorted DEF Extend
  <2>2. 1..texts \subseteq 1..MaxTexts
    BY Numbers
  <2>3. SortedVectors(data) \in Seq(1..MaxTexts)
    BY <2>1, <2>2, SeqMonotonic
  <2>4. all \o SortedVectors(data) \in Seq(1..MaxTexts)
    BY <2>3, ConcatProperties
  <2>. QED  BY <1>4, <2>4 DEF Extend
<1>. QED  BY <1>1, <1>2, <1>3, <1>4 DEF Next

LEMMA AllStep ==
  ASSUME Progress, DataInv, AllInv, Faithful, [Next]_vars
  PROVE  AllInv'
<1>1. /\ texts \in Nat /\ i \in Nat /\ size \in Int
      /\ all \in Seq(1..MaxTexts) /\ Len(all) \in Nat
  BY Numbers, LenProperties DEF DataInv
<1>2. CASE UNCHANGED vars
  BY <1>2 DEF vars, AllInv, InLoop
<1>3. CASE Call
  <2>1. all = <<>> /\ i = 0 /\ UNCHANGED <<texts, size, i, all>>
    BY <1>3 DEF Call, Progress, AllInv
  <2>2. Len(all) = 0
    BY <2>1
  <2>3. pc' \in {"loop", "done"}
    BY <1>3 DEF Call, HandBack, Leave
  <2>4. outcome' = "returned" /\ size > 0 => texts = 0
    BY <1>1, <1>3 DEF Call, HandBack, Leave, Progress
  <2>. QED  BY <1>1, <2>1, <2>2, <2>3, <2>4 DEF AllInv, InLoop
<1>4. CASE Post \/ Reply
  BY <1>4 DEF Post, Reply, Progress, AllInv, InLoop
<1>5. CASE PostFails \/ ReplyMalformed
  BY <1>5 DEF PostFails, ReplyMalformed, HandBack, Leave, Progress, AllInv, InLoop
<1>6. CASE Return
  <2>1. /\ pc = "loop" /\ i >= texts /\ pc' = "done"
        /\ UNCHANGED <<texts, size, i, all>>
    BY <1>6 DEF Return, HandBack, Leave
  <2>2. Len(all) = texts
    BY <1>1, <2>1 DEF AllInv, InLoop
  <2>. QED  BY <1>1, <2>1, <2>2 DEF AllInv, InLoop
<1>7. CASE Extend
  <2>. DEFINE v == SortedVectors(data)
  <2>1. pc = "replied" /\ i < texts /\ size > 0 /\ outcome = "none"
    BY <1>7 DEF Extend, Progress, InLoop
  <2>2. PICK n \in Nat :
          /\ v \in Seq(1..texts) /\ Len(v) = n
          /\ n = IF i + size <= texts THEN size ELSE texts - i
          /\ \A r \in 1..n : v[r] = i + r
    BY <2>1, ResponseSorted DEF DataInv
  <2>3. Len(all) = i
    BY <1>1, <2>1 DEF AllInv, InLoop
  <2>4. \A j \in 1..i : all[j] = j
    BY <2>3 DEF AllInv
  <2>5. all' = all \o v /\ i' = i + size /\ pc' = "loop" /\ UNCHANGED <<texts, size, outcome>>
    BY <1>7 DEF Extend
  <2>. HIDE DEF v
  <2>6. v \in Seq(1..MaxTexts)
    <3>1. 1..texts \subseteq 1..MaxTexts
      BY Numbers
    <3>. QED  BY <2>2, <3>1, SeqMonotonic
  <2>7. /\ Len(all \o v) = i + n
        /\ \A j \in 1..(i + n) : (all \o v)[j] = IF j <= i THEN all[j] ELSE v[j - i]
    <3>1. Len(all \o v) = Len(all) + Len(v)
      BY <1>1, <2>6, ConcatProperties
    <3>2. \A j \in 1..(Len(all) + Len(v)) :
            (all \o v)[j] = IF j <= Len(all) THEN all[j] ELSE v[j - Len(all)]
      BY <1>1, <2>6, ConcatProperties
    <3>. QED  BY <2>2, <2>3, <3>1, <3>2
  <2>8. ASSUME NEW j \in 1..(i + n)
        PROVE  (all \o v)[j] = j
    <3>1. CASE j <= i
      BY <1>1, <2>4, <2>7, <3>1
    <3>2. CASE ~(j <= i)
      <4>1. j - i \in 1..n /\ i + (j - i) = j
        BY <1>1, <2>2, <3>2
      <4>. QED  BY <2>2, <2>7, <3>2, <4>1
    <3>. QED  BY <3>1, <3>2
  <2>9. i + n = IF i + size <= texts THEN i + size ELSE texts
    BY <1>1, <2>1, <2>2
  <2>. HIDE DEF v
  <2>10. Len(all') = i + n /\ \A j \in 1..(i + n) : all'[j] = j
    BY <2>5, <2>7, <2>8
  <2>11. i' <= texts => i + n = i'
    BY <2>5, <2>9
  <2>12. ~(i' <= texts) => i + n = texts
    BY <2>5, <2>9
  <2>. QED  BY <2>1, <2>5, <2>10, <2>11, <2>12 DEF AllInv, InLoop
<1>. QED  BY <1>2, <1>3, <1>4, <1>5, <1>6, <1>7 DEF Next

IInv == Progress /\ SentInv /\ DataInv /\ (Faithful => AllInv)

LEMMA IInvInvariant == Spec => []IInv
<1>1. Init => IInv
  <2>. SUFFICES ASSUME Init  PROVE IInv
    OBVIOUS
  <2>1. texts \in Nat /\ MaxTexts \in Nat /\ i = 0 /\ pc = "idle"
    BY EmbeddingAssumption DEF Init
  <2>2. SentInv
    <3>1. sent = [j \in 1..MaxTexts |-> 0] /\ Reached = 0
      BY <2>1 DEF Init, Reached, Gone
    <3>. QED  BY <2>1, <3>1 DEF SentInv, SentUpTo
  <2>. QED  BY <2>1, <2>2 DEF Init, IInv, Progress, InLoop, DataInv, AllInv
<1>2. IInv /\ [Next]_vars => IInv'
  BY ProgressStep, SentStep, DataStep, AllStep DEF IInv
<1>. QED  BY <1>1, <1>2, PTL DEF Spec

(* Every variable has its type, whether or not responses are complete. *)
THEOREM EmbeddingTyped == Spec => []TypeOK
<1>1. IInv => TypeOK
  <2>. SUFFICES ASSUME IInv  PROVE TypeOK
    OBVIOUS
  <2>1. texts \in Nat /\ MaxTexts \in Nat /\ size \in Int /\ i \in Nat
    BY Numbers DEF IInv
  <2>2. i \in 0..(MaxTexts + size) \cup {0}
    <3>1. texts <= MaxTexts
      BY Numbers DEF IInv
    <3>2. i = 0 \/ (size > 0 /\ i < texts + size)
      BY DEF IInv, Progress
    <3>. QED  BY <2>1, <3>1, <3>2
  <2>3. ASSUME NEW k \in DOMAIN data
        PROVE  data[k].index \in 0..(size - 1) /\ data[k].vector \in 1..texts
    <3>1. CASE pc = "replied"
      <4>1. PICK n \in Nat :
              /\ Distinct(data, n)
              /\ \A m \in 1..n : data[m].vector \in Batch
                                 /\ data[m].index = data[m].vector - i - 1
        BY <3>1, ResponseSorted DEF IInv, DataInv
      <4>2. k \in 1..n
        BY <4>1 DEF Distinct
      <4>3. data[k].vector \in Batch /\ data[k].index = data[k].vector - i - 1
        BY <4>1, <4>2
      <4>. QED  BY <2>1, <4>3 DEF Batch
    <3>2. CASE pc # "replied"
      BY <3>2 DEF IInv, DataInv
    <3>. QED  BY <3>1, <3>2
  <2>. QED  BY <2>2, <2>3 DEF TypeOK, IInv, Progress, SentInv, DataInv
<1>. QED  BY <1>1, IInvInvariant, PTL

(* With complete responses in any order, the vectors gathered are those of  *)
(* the first texts, each at its place, and on return those of all, for any  *)
(* number of texts and any batch size.                                      *)
THEOREM EmbeddingAligned == Faithful => (Spec => []VectorsAligned)
<1>. SUFFICES ASSUME Faithful  PROVE Spec => []VectorsAligned
  OBVIOUS
<1>1. IInv => VectorsAligned
  BY DEF IInv, AllInv, VectorsAligned
<1>. QED  BY <1>1, IInvInvariant, PTL

(* A batch that is sent is not empty and no larger than batch_size; the     *)
(* texts sent are the first ones, each once, in every call; and a call that *)
(* returns has sent them all, or none where batch_size is not positive.     *)
THEOREM EmbeddingSendsOnce == Spec => []EachTextSentOnce
<1>1. IInv => EachTextSentOnce
  <2>. SUFFICES ASSUME IInv  PROVE EachTextSentOnce
    OBVIOUS
  <2>1. texts \in Nat /\ size \in Int /\ i \in Nat
    BY Numbers DEF IInv
  <2>2. ASSUME pc = "posted"
        PROVE  Batch # {} /\ Cardinality(Batch) <= size
    <3>1. i < texts /\ size \in Nat /\ size > 0
      BY <2>1, <2>2 DEF IInv, Progress, InLoop
    <3>2. i + 1 \in Batch
      BY <2>1, <3>1 DEF Batch
    <3>. QED  BY <2>1, <3>1, <3>2, BatchIsInterval
  <2>3. CASE pc # "done"
    <3>1. outcome = "none"
      BY <2>3 DEF IInv, Progress
    <3>2. Reached \in 0..texts
      BY <2>1, <2>3 DEF IInv, Progress, InLoop, Reached, Gone
    <3>3. SentUpTo(Reached)
      BY <2>3 DEF IInv, SentInv
    <3>. QED  BY <2>2, <3>1, <3>2, <3>3 DEF EachTextSentOnce
  <2>4. CASE pc = "done"
    BY <2>2, <2>4 DEF EachTextSentOnce, IInv, SentInv
  <2>. QED  BY <2>3, <2>4
<1>. QED  BY <1>1, IInvInvariant, PTL
=============================================================================
