----------------------------- MODULE FunnelProofs -----------------------------
(***************************************************************************)
(* Proofs about TuneFunnel, for all tunings, rigs and scores: a profile    *)
(* rests on a measurement that succeeded, however many runs it took, and   *)
(* the best of few viable configurations is never lost on the way.         *)
(***************************************************************************)
EXTENDS TuneFunnel, SequenceTheorems, FiniteSetTheorems, WellFoundedInduction, TLAPS

-------------------------------------------------------------------------------
(* Orders.                                                                 *)

(* Some natural numbers have a least one.                                  *)
LEMMA LeastNumber ==
  ASSUME NEW T \in SUBSET Nat, T # {}
  PROVE  \E m \in T : \A k \in T : m <= k
<1> DEFINE R == OpToRel(<, Nat)
<1>1. \A a, b \in Nat : <<a, b>> \in R <=> a < b
  BY DEF OpToRel
<1>2. PICK m \in T : \A k \in T : ~(<<k, m>> \in R)
  BY WFMin, NatLessThanWellFounded
<1>3. \A k \in T : ~(k < m)
  BY <1>1, <1>2
<1> HIDE DEF R
<1>4. \A k \in T : m <= k
  <2> TAKE k \in T
  <2>1. k \in Nat /\ m \in Nat /\ ~(k < m)
    BY <1>2, <1>3
  <2> QED
    BY <2>1
<1> QED
  BY <1>2, <1>4

(* The keys that are compared: tuples of one length.                       *)
Tuples(n) == [1 .. n -> Int]

(* Of two that differ, one precedes.                                       *)
LEMMA PrecedesTotal ==
  ASSUME NEW n \in Nat, NEW a \in Tuples(n), NEW b \in Tuples(n), a # b
  PROVE  Precedes(a, b) \/ Precedes(b, a)
<1> DEFINE T == {k \in 1 .. n : a[k] # b[k]}
<1>1. T \in SUBSET Nat /\ T # {}
  BY DEF Tuples
<1>2. PICK m \in T : \A k \in T : m <= k
  BY <1>1, LeastNumber
<1>3. m \in 1 .. n /\ a[m] # b[m] /\ a[m] \in Int /\ b[m] \in Int
  BY <1>2 DEF Tuples
<1>4. \A k \in 1 .. m - 1 : a[k] = b[k]
  <2> TAKE k \in 1 .. m - 1
  <2>1. k \in 1 .. n /\ ~(m <= k)
    BY <1>3
  <2> QED
    BY <1>2, <2>1
<1>5. DOMAIN a = 1 .. n /\ DOMAIN b = 1 .. n
  BY DEF Tuples
<1>6. a[m] < b[m] \/ b[m] < a[m]
  BY <1>3
<1>7. CASE a[m] < b[m]
  BY <1>3, <1>4, <1>5, <1>7 DEF Precedes
<1>8. CASE b[m] < a[m]
  BY <1>3, <1>4, <1>5, <1>8 DEF Precedes
<1> QED
  BY <1>6, <1>7, <1>8

(* What precedes what precedes, precedes.                                  *)
LEMMA PrecedesTransitive ==
  ASSUME NEW n \in Nat, NEW a \in Tuples(n), NEW b \in Tuples(n), NEW c \in Tuples(n),
         Precedes(a, b), Precedes(b, c)
  PROVE  Precedes(a, c)
<1>1. DOMAIN a = 1 .. n /\ DOMAIN b = 1 .. n
  BY DEF Tuples
<1>2. PICK k \in 1 .. n : a[k] < b[k] /\ \A m \in 1 .. k - 1 : a[m] = b[m]
  BY <1>1 DEF Precedes
<1>3. PICK l \in 1 .. n : b[l] < c[l] /\ \A m \in 1 .. l - 1 : b[m] = c[m]
  BY <1>1 DEF Precedes
<1>4. \A m \in 1 .. n : a[m] \in Int /\ b[m] \in Int /\ c[m] \in Int
  BY DEF Tuples
<1>5. CASE k <= l
  <2>1. b[k] <= c[k]
    <3>1. k = l \/ k \in 1 .. l - 1
      BY <1>5
    <3> QED
      BY <1>3, <1>4, <3>1
  <2>2. a[k] < c[k]
    BY <1>2, <1>4, <2>1
  <2>3. \A m \in 1 .. k - 1 : a[m] = c[m]
    BY <1>2, <1>3, <1>5
  <2> QED
    BY <1>1, <2>2, <2>3 DEF Precedes
<1>6. CASE l < k
  <2>1. a[l] = b[l]
    BY <1>2, <1>6
  <2>2. a[l] < c[l]
    BY <1>3, <1>4, <2>1
  <2>3. \A m \in 1 .. l - 1 : a[m] = c[m]
    BY <1>2, <1>3, <1>6
  <2> QED
    BY <1>1, <2>2, <2>3 DEF Precedes
<1> QED
  BY <1>5, <1>6

(* Nothing precedes itself.                                                *)
LEMMA PrecedesIrreflexive ==
  ASSUME NEW n \in Nat, NEW a \in Tuples(n)
  PROVE  ~Precedes(a, a)
<1>1. \A k \in 1 .. n : ~(a[k] < a[k])
  BY DEF Tuples
<1> QED
  BY <1>1 DEF Precedes, Tuples

(* R puts the elements of S one after the other.                           *)
Orders(R, S) ==
  /\ \A i \in S : <<i, i>> \notin R
  /\ \A i, j \in S : i # j => <<i, j>> \in R \/ <<j, i>> \in R
  /\ \A i, j, k \in S : <<i, j>> \in R /\ <<j, k>> \in R => <<i, k>> \in R

(* The rank of every element of S: how many of S come before it in R.      *)
Ranks(R, S) == {<<Cardinality({j \in S : <<j, i>> \in R}), i>> : i \in S}

(* list has the elements of S, each at the place that its rank tells.      *)
Lists(list, R, S) ==
  /\ Cardinality(S) \in Nat /\ list \in [1 .. Cardinality(S) -> S]
  /\ \A k \in 1 .. Cardinality(S) : Cardinality({j \in S : <<j, list[k]>> \in R}) = k - 1
  /\ \A i \in S : \E k \in 1 .. Cardinality(S) :
       list[k] = i /\ k = Cardinality({j \in S : <<j, i>> \in R}) + 1

(* InOrder does, if ranks tell in which order.                             *)
LEMMA InOrderLists ==
  ASSUME NEW S, IsFiniteSet(S), NEW R, Orders(R, S)
  PROVE  Lists(InOrder(S, Ranks(R, S)), R, S)
<1> DEFINE lower(i) == {j \in S : <<j, i>> \in R}
           rank == [i \in S |-> Cardinality(lower(i))]
           N == Cardinality(S)
           list == InOrder(S, Ranks(R, S))
<1>1. N \in Nat
  BY FS_CardinalityType
<1>2. \A i \in S : rank[i] \in 0 .. N - 1
  <2> TAKE i \in S
  <2>1. IsFiniteSet(lower(i)) /\ Cardinality(lower(i)) <= N
    BY FS_Subset
  <2>2. Cardinality(lower(i)) # N
    <3>1. lower(i) # S
      BY DEF Orders
    <3> QED
      BY <3>1, FS_Subset
  <2>3. Cardinality(lower(i)) \in Nat
    BY <2>1, FS_CardinalityType
  <2> QED
    BY <1>1, <2>1, <2>2, <2>3
<1>3. \A i, j \in S : rank[i] = rank[j] => i = j
  <2>1. ASSUME NEW i \in S, NEW j \in S, <<i, j>> \in R PROVE rank[i] # rank[j]
    <3>1. lower(i) \subseteq lower(j)
      BY <2>1 DEF Orders
    <3>2. i \in lower(j) /\ i \notin lower(i)
      BY <2>1 DEF Orders
    <3>3. IsFiniteSet(lower(j))
      BY FS_Subset
    <3>4. Cardinality(lower(i)) # Cardinality(lower(j))
      BY <3>1, <3>2, <3>3, FS_Subset
    <3> QED
      BY <3>4
  <2> QED
    BY <2>1 DEF Orders
<1>4. rank \in Injection(S, 0 .. N - 1)
  BY <1>2, <1>3 DEF Injection, IsInjective
<1>5. rank \in Surjection(S, 0 .. N - 1)
  <2>1. IsFiniteSet(0 .. N - 1) /\ Cardinality(0 .. N - 1) = N
    BY <1>1, FS_Interval
  <2> HIDE DEF rank
  <2> QED
    BY <1>4, <2>1, FS_Injection
<1>6. \A r \in 0 .. N - 1 : \E i \in S : rank[i] = r
  BY <1>5 DEF Surjection
<1>7. \A r : \A i \in S : <<r, i>> \in Ranks(R, S) <=> r = rank[i]
  BY DEF Ranks
<1>8. list = [k \in 1 .. N |-> CHOOSE i \in S : <<k - 1, i>> \in Ranks(R, S)]
  BY DEF InOrder
<1>9. \A k \in 1 .. N : list[k] \in S /\ rank[list[k]] = k - 1
  <2> TAKE k \in 1 .. N
  <2>1. k - 1 \in 0 .. N - 1
    BY <1>1
  <2>2. \E i \in S : <<k - 1, i>> \in Ranks(R, S)
    BY <1>6, <1>7, <2>1
  <2>3. list[k] = CHOOSE i \in S : <<k - 1, i>> \in Ranks(R, S)
    BY <1>8
  <2>4. list[k] \in S /\ <<k - 1, list[k]>> \in Ranks(R, S)
    BY <2>2, <2>3
  <2> QED
    BY <1>7, <2>4
<1>10. \A i \in S : \E k \in 1 .. N : list[k] = i /\ k = rank[i] + 1
  <2> TAKE i \in S
  <2> DEFINE k == rank[i] + 1
  <2>1. k \in 1 .. N /\ k - 1 = rank[i]
    BY <1>1, <1>2
  <2> HIDE DEF rank, k
  <2>2. list[k] = i
    BY <1>3, <1>9, <2>1
  <2> QED
    BY <2>1, <2>2 DEF k
<1>11. \A i \in S : rank[i] = Cardinality({j \in S : <<j, i>> \in R})
  OBVIOUS
<1> HIDE DEF rank, list
<1>12. list \in [1 .. N -> S]
  BY <1>8, <1>9
<1> QED
  BY <1>1, <1>9, <1>10, <1>11, <1>12 DEF Lists, list

(* Numbers are ordered.                                                    *)
LEMMA AscendingLists ==
  ASSUME NEW S \in SUBSET Int, IsFiniteSet(S)
  PROVE  /\ Ascending(S) \in Seq(S)
         /\ Len(Ascending(S)) = Cardinality(S)
         /\ \A k, l \in DOMAIN Ascending(S) : Ascending(S)[k] = Ascending(S)[l] => k = l
         /\ \A i \in S : \E k \in DOMAIN Ascending(S) :
              Ascending(S)[k] = i /\ k = Cardinality({j \in S : j < i}) + 1
<1> DEFINE R == {p \in S \X S : p[1] < p[2]}
<1>1. \A i, j \in S : <<i, j>> \in R <=> i < j
  OBVIOUS
<1>2. Ascending(S) = InOrder(S, Ranks(R, S))
  <2>1. \A i \in S : {j \in S : <<j, i>> \in R} = {j \in S : j < i}
    OBVIOUS
  <2> HIDE DEF R
  <2>2. Ranks(R, S) = {<<Cardinality({j \in S : j < i}), i>> : i \in S}
    BY <2>1 DEF Ranks
  <2> QED
    BY <2>2 DEF Ascending
<1> HIDE DEF R
<1>3. Orders(R, S)
  BY <1>1 DEF Orders
<1> DEFINE list == InOrder(S, Ranks(R, S))
<1>4. /\ Cardinality(S) \in Nat /\ list \in [1 .. Cardinality(S) -> S]
      /\ \A k \in 1 .. Cardinality(S) : Cardinality({j \in S : <<j, list[k]>> \in R}) = k - 1
      /\ \A i \in S : \E k \in 1 .. Cardinality(S) :
           list[k] = i /\ k = Cardinality({j \in S : <<j, i>> \in R}) + 1
  <2>1. Lists(list, R, S)
    BY <1>3, InOrderLists
  <2> HIDE DEF list
  <2> QED
    BY <2>1 DEF Lists
<1> HIDE DEF list
<1>5. list \in Seq(S) /\ Len(list) = Cardinality(S) /\ DOMAIN list = 1 .. Cardinality(S)
  BY <1>4, SeqDef
<1>6. ASSUME NEW k \in 1 .. Cardinality(S), NEW l \in 1 .. Cardinality(S), list[k] = list[l]
      PROVE  k = l
  <2>1. k - 1 = l - 1
    BY <1>4, <1>6
  <2> QED
    BY <1>4, <2>1
<1>7. \A i \in S : {j \in S : <<j, i>> \in R} = {j \in S : j < i}
  BY <1>1
<1>8. \A i \in S : \E k \in 1 .. Cardinality(S) :
        list[k] = i /\ k = Cardinality({j \in S : j < i}) + 1
  BY <1>4, <1>7
<1> QED
  BY <1>2, <1>5, <1>6, <1>8 DEF list

(* Keys are, with indices to decide between equal ones.                    *)
LEMMA RankedLists ==
  ASSUME NEW n \in Nat, NEW keys, NEW S \in SUBSET Int, IsFiniteSet(S),
         \A i \in S : keys[i] \in Tuples(n)
  PROVE  /\ Ranked(S, keys) \in Seq(S)
         /\ Len(Ranked(S, keys)) = Cardinality(S)
         /\ \A i \in S : \E k \in DOMAIN Ranked(S, keys) : Ranked(S, keys)[k] = i
         /\ \A i \in S : ~Before(keys, i, Ranked(S, keys)[1])
<1> DEFINE R == {p \in S \X S : Before(keys, p[1], p[2])}
<1>1. \A i, j \in S : <<i, j>> \in R <=> Before(keys, i, j)
  OBVIOUS
<1>2. Ranked(S, keys) = InOrder(S, Ranks(R, S))
  <2>1. \A i \in S : {j \in S : <<j, i>> \in R} = {j \in S : Before(keys, j, i)}
    OBVIOUS
  <2> HIDE DEF R
  <2>2. Ranks(R, S) = {<<Cardinality({j \in S : Before(keys, j, i)}), i>> : i \in S}
    BY <2>1 DEF Ranks
  <2> QED
    BY <2>2 DEF Ranked
<1> HIDE DEF R
<1>3. Orders(R, S)
  <2>1. ASSUME NEW i \in S PROVE ~Before(keys, i, i)
    BY <2>1, PrecedesIrreflexive DEF Before
  <2>2. ASSUME NEW i \in S, NEW j \in S, i # j PROVE Before(keys, i, j) \/ Before(keys, j, i)
    <3>1. i < j \/ j < i
      BY <2>2
    <3> QED
      BY <2>2, <3>1, PrecedesTotal DEF Before
  <2>3. ASSUME NEW i \in S, NEW j \in S, NEW k \in S, Before(keys, i, j), Before(keys, j, k)
        PROVE  Before(keys, i, k)
    <3>1. CASE keys[i] = keys[j] \/ keys[j] = keys[k]
      BY <2>3, <3>1 DEF Before
    <3>2. CASE Precedes(keys[i], keys[j]) /\ Precedes(keys[j], keys[k])
      BY <3>2, PrecedesTransitive DEF Before
    <3> QED
      BY <2>3, <3>1, <3>2 DEF Before
  <2> QED
    BY <1>1, <2>1, <2>2, <2>3 DEF Orders
<1> DEFINE list == InOrder(S, Ranks(R, S))
<1>4. /\ Cardinality(S) \in Nat /\ list \in [1 .. Cardinality(S) -> S]
      /\ \A k \in 1 .. Cardinality(S) : Cardinality({j \in S : <<j, list[k]>> \in R}) = k - 1
      /\ \A i \in S : \E k \in 1 .. Cardinality(S) :
           list[k] = i /\ k = Cardinality({j \in S : <<j, i>> \in R}) + 1
  <2>1. Lists(list, R, S)
    BY <1>3, InOrderLists
  <2> HIDE DEF list
  <2> QED
    BY <2>1 DEF Lists
<1> HIDE DEF list
<1>5. list \in Seq(S) /\ Len(list) = Cardinality(S) /\ DOMAIN list = 1 .. Cardinality(S)
  BY <1>4, SeqDef
<1>6. \A i \in S : \E k \in 1 .. Cardinality(S) : list[k] = i
  BY <1>4
<1>7. ASSUME NEW i \in S PROVE ~Before(keys, i, list[1])
  <2> DEFINE lower == {j \in S : <<j, list[1]>> \in R}
  <2>1. 1 \in 1 .. Cardinality(S)
    BY <1>4, <1>6, <1>7
  <2>2. Cardinality(lower) = 0 /\ list[1] \in S
    BY <1>4, <2>1
  <2>3. lower = {}
    BY <2>2, FS_EmptySet, FS_Subset
  <2> QED
    BY <1>1, <1>7, <2>2, <2>3
<1> QED
  BY <1>2, <1>5, <1>6, <1>7 DEF list

-------------------------------------------------------------------------------
(* Selections. Every selection of rows out of R is of rows out of R.       *)

(* The start of a list.                                                    *)
LEMMA FirstKeeps ==
  ASSUME NEW S, NEW s \in Seq(S), NEW limit \in Nat
  PROVE  /\ First(s, limit) \in Seq(S)
         /\ Len(First(s, limit)) = Least(limit, Len(s))
         /\ \A k \in 1 .. Len(First(s, limit)) : First(s, limit)[k] = s[k]
<1> DEFINE n == Least(limit, Len(s))
<1>1. n \in Nat /\ n <= Len(s)
  BY LenProperties DEF Least
<1>2. \A i \in 1 .. n : s[i] \in S
  BY <1>1, ElementOfSeq
<1> HIDE DEF n
<1>3. /\ SubSeq(s, 1, n) \in Seq(S) /\ Len(SubSeq(s, 1, n)) = n
      /\ \A i \in 1 .. n : SubSeq(s, 1, n)[i] = s[i]
  BY <1>1, <1>2
<1> QED
  BY <1>3 DEF First, n

(* The rows of some indices.                                               *)
LEMMA PickKeeps ==
  ASSUME NEW S, NEW rows \in Seq(S), NEW indices \in Seq(DOMAIN rows)
  PROVE  /\ Pick(rows, indices) \in Seq(S)
         /\ Len(Pick(rows, indices)) = Len(indices)
<1>1. /\ DOMAIN indices = 1 .. Len(indices) /\ Len(indices) \in Nat
      /\ \A k \in 1 .. Len(indices) : indices[k] \in DOMAIN rows
  BY LenProperties, ElementOfSeq
<1>2. \A i \in DOMAIN rows : rows[i] \in S
  BY LenProperties, ElementOfSeq
<1>3. Pick(rows, indices) \in [1 .. Len(indices) -> S]
  BY <1>1, <1>2 DEF Pick
<1> QED
  BY <1>1, <1>3, SeqDef

(* The elements that differ, no more than the limit.                       *)
LEMMA DistinctKeeps ==
  ASSUME NEW S, NEW s \in Seq(S), NEW limit \in Nat
  PROVE  FirstDistinct(s, limit) \in Seq(S) /\ Len(FirstDistinct(s, limit)) <= limit
<1> DEFINE new == {i \in DOMAIN s : \A j \in 1 .. i - 1 : s[j] # s[i]}
<1>1. DOMAIN s = 1 .. Len(s) /\ Len(s) \in Nat
  BY LenProperties
<1>2. IsFiniteSet(DOMAIN s)
  BY <1>1, FS_Interval
<1>3. new \in SUBSET Int /\ IsFiniteSet(new) /\ new \subseteq DOMAIN s
  BY <1>1, <1>2, FS_Subset
<1> HIDE DEF new
<1>4. Ascending(new) \in Seq(new)
  BY <1>3, AscendingLists
<1>5. Ascending(new) \in Seq(DOMAIN s)
  BY <1>3, <1>4, SeqMonotonic
<1> DEFINE picked == Pick(s, Ascending(new))
<1>6. picked \in Seq(S) /\ Len(picked) \in Nat
  BY <1>5, PickKeeps, LenProperties
<1> HIDE DEF picked
<1>7. First(picked, limit) \in Seq(S) /\ Len(First(picked, limit)) <= limit
  BY <1>6, FirstKeeps DEF Least
<1> QED
  BY <1>7 DEF FirstDistinct, new, picked

(* Rows with the data that selections look at.                             *)
Scored(R) ==
  \A row \in R : /\ row.score \in Int
                 /\ row.config.tier \in {"f16", "q8_0", "q4_0"}
                 /\ row.config.placement.split \in Nat

(* The indices of a list are finitely many numbers.                        *)
LEMMA Indices ==
  ASSUME NEW S, NEW s \in Seq(S)
  PROVE  /\ DOMAIN s = 1 .. Len(s) /\ Len(s) \in Nat /\ DOMAIN s \in SUBSET Int
         /\ IsFiniteSet(DOMAIN s) /\ Cardinality(DOMAIN s) = Len(s)
         /\ \A i \in DOMAIN s : s[i] \in S
<1>1. DOMAIN s = 1 .. Len(s) /\ Len(s) \in Nat
  BY LenProperties
<1> QED
  BY <1>1, FS_Interval, ElementOfSeq

(* Some indices, in the order of their keys.                               *)
LEMMA RankedIndices ==
  ASSUME NEW R, NEW rows \in Seq(R), NEW n \in Nat, NEW keys, NEW S \in SUBSET DOMAIN rows,
         \A i \in S : keys[i] \in Tuples(n)
  PROVE  /\ Ranked(S, keys) \in Seq(DOMAIN rows)
         /\ S # {} => Ranked(S, keys)[1] \in S
<1>1. IsFiniteSet(S) /\ S \in SUBSET Int
  BY Indices, FS_Subset
<1>2. /\ Ranked(S, keys) \in Seq(S) /\ Len(Ranked(S, keys)) = Cardinality(S)
      /\ Cardinality(S) \in Nat /\ (Cardinality(S) = 0 <=> S = {})
  BY <1>1, RankedLists, FS_CardinalityType, FS_EmptySet
<1>3. Ranked(S, keys) \in Seq(DOMAIN rows)
  BY <1>2, SeqMonotonic
<1>4. ASSUME S # {} PROVE Ranked(S, keys)[1] \in S
  BY <1>2, <1>4, ElementOfSeq
<1> QED
  BY <1>3, <1>4

(* Speeds are keys.                                                        *)
LEMMA SpeedKeys ==
  ASSUME NEW R, Scored(R), NEW rows \in Seq(R)
  PROVE  /\ DOMAIN Speed(rows) = DOMAIN rows
         /\ \A i \in DOMAIN rows : Speed(rows)[i] \in Tuples(1)
<1>1. \A i \in DOMAIN rows : rows[i].score \in Int
  BY Indices DEF Scored
<1>2. \A i \in DOMAIN rows : <<0 - rows[i].score>> \in Tuples(1)
  BY <1>1 DEF Tuples
<1> QED
  BY <1>2 DEF Speed

(* The leaders of a list are on it.                                        *)
LEMMA LeadersKeep ==
  ASSUME NEW R, Scored(R), NEW rows \in Seq(R), NEW group
  PROVE  Leaders(rows, group) \in Seq(DOMAIN rows)
<1> DEFINE like(i) == {j \in DOMAIN rows : group[j] = group[i]}
           firsts == {i \in DOMAIN rows : \A j \in like(i) : i <= j}
           heads == Ascending(firsts)
           leader(i) == Ranked(like(i), Speed(rows))[1]
<1>1. firsts \in SUBSET Int /\ IsFiniteSet(firsts) /\ firsts \subseteq DOMAIN rows
  BY Indices, FS_Subset
<1> HIDE DEF firsts
<1>2. heads \in Seq(firsts)
  BY <1>1, AscendingLists
<1>3. /\ Len(heads) \in Nat /\ DOMAIN heads = 1 .. Len(heads)
      /\ \A k \in 1 .. Len(heads) : heads[k] \in DOMAIN rows
  BY <1>1, <1>2, LenProperties, ElementOfSeq
<1> HIDE DEF heads
<1>4. ASSUME NEW i \in DOMAIN rows PROVE leader(i) \in DOMAIN rows
  <2>1. like(i) \in SUBSET DOMAIN rows /\ like(i) # {}
    OBVIOUS
  <2>2. \A j \in like(i) : Speed(rows)[j] \in Tuples(1)
    BY SpeedKeys
  <2> HIDE DEF like
  <2>3. Ranked(like(i), Speed(rows))[1] \in like(i)
    BY <2>1, <2>2, RankedIndices
  <2> QED
    BY <2>1, <2>3
<1>5. \A k \in 1 .. Len(heads) : leader(heads[k]) \in DOMAIN rows
  BY <1>3, <1>4
<1> HIDE DEF leader
<1>6. [k \in 1 .. Len(heads) |-> leader(heads[k])] \in [1 .. Len(heads) -> DOMAIN rows]
  BY <1>5
<1>7. [k \in 1 .. Len(heads) |-> leader(heads[k])] \in Seq(DOMAIN rows)
  BY <1>3, <1>6, SeqDef
<1>8. Leaders(rows, group) = [k \in DOMAIN heads |-> leader(heads[k])]
  BY DEF Leaders, leader, heads, firsts
<1> QED
  BY <1>3, <1>7, <1>8

(* What stratified_select keeps was on the list, and is no more than the   *)
(* limit.                                                                  *)
LEMMA StratifiedKeeps ==
  ASSUME NEW R, Scored(R), NEW rows \in Seq(R), NEW limit \in Nat
  PROVE  /\ StratifiedSelect(rows, limit) \in Seq(R)
         /\ Len(StratifiedSelect(rows, limit)) <= limit
<1> DEFINE families == [i \in DOMAIN rows |-> Family(rows[i].config)]
           tiers == [i \in DOMAIN rows |-> Tier(rows[i].config)]
           modes == [i \in DOMAIN rows |-> Flash(rows[i].config)]
           wanted == Leaders(rows, families) \o Leaders(rows, tiers)
                       \o Leaders(rows, modes) \o BySpeed(rows)
<1>1. BySpeed(rows) \in Seq(DOMAIN rows)
  BY SpeedKeys, RankedIndices DEF BySpeed, Sorted
<1> HIDE DEF families, tiers, modes
<1>2. /\ Leaders(rows, families) \in Seq(DOMAIN rows)
      /\ Leaders(rows, tiers) \in Seq(DOMAIN rows)
      /\ Leaders(rows, modes) \in Seq(DOMAIN rows)
  BY LeadersKeep
<1>3. wanted \in Seq(DOMAIN rows)
  BY <1>1, <1>2, ConcatProperties
<1> HIDE DEF wanted
<1> DEFINE list == FirstDistinct(wanted, limit)
<1>4. list \in Seq(DOMAIN rows) /\ Len(list) <= limit
  BY <1>3, DistinctKeeps
<1> HIDE DEF list
<1>5. Pick(rows, list) \in Seq(R) /\ Len(Pick(rows, list)) <= limit
  BY <1>4, PickKeeps
<1> QED
  BY <1>5 DEF StratifiedSelect, list, wanted, families, tiers, modes

(* Room is a key.                                                          *)
LEMMA RoomKeys ==
  ASSUME NEW R, Scored(R), NEW rows \in Seq(R)
  PROVE  /\ DOMAIN Room(rows) = DOMAIN rows
         /\ \A i \in DOMAIN rows : Room(rows)[i] \in Tuples(3)
<1>1. ASSUME NEW i \in DOMAIN rows PROVE Room(rows)[i] \in Tuples(3)
  <2>1. /\ rows[i].score \in Int /\ Efficiency(rows[i].config) \in Int
        /\ CapacityClass(rows[i].config) \in Int
    BY Indices DEF Scored, Efficiency, CapacityClass
  <2>2. <<0 - Efficiency(rows[i].config), 0 - CapacityClass(rows[i].config),
          0 - rows[i].score>> \in Tuples(3)
    BY <2>1 DEF Tuples
  <2> QED
    BY <2>2 DEF Room
<1> QED
  BY <1>1 DEF Room

(* What is added is on the list.                                           *)
LEMMA AddKeeps ==
  ASSUME NEW R, Scored(R), NEW rows \in Seq(R), NEW limit \in Nat,
         NEW kept \in Seq(DOMAIN rows), NEW S \in SUBSET DOMAIN rows
  PROVE  /\ Add(rows, limit, kept, S) \in Seq(DOMAIN rows)
         /\ AddElsewhere(rows, limit, kept, S) \in Seq(DOMAIN rows)
         /\ AddMissing(rows, limit, kept, S) \in Seq(DOMAIN rows)
<1>1. ASSUME NEW T \in SUBSET DOMAIN rows
      PROVE  Add(rows, limit, kept, T) \in Seq(DOMAIN rows)
  <2>1. T \ ToSet(kept) \in SUBSET DOMAIN rows
    OBVIOUS
  <2>2. Ranked(T \ ToSet(kept), Room(rows)) \in Seq(DOMAIN rows)
    BY <2>1, RoomKeys, RankedIndices
  <2>3. First(Ranked(T \ ToSet(kept), Room(rows)), 1) \in Seq(DOMAIN rows)
    BY <2>2, FirstKeeps
  <2> QED
    BY <2>3, ConcatProperties DEF Add
<1>2. AddElsewhere(rows, limit, kept, S) \in Seq(DOMAIN rows)
  <2> DEFINE used == {Family(rows[i].config) : i \in ToSet(kept)}
             elsewhere == {i \in S \ ToSet(kept) : Family(rows[i].config) \notin used}
             T == IF elsewhere = {} THEN S ELSE elsewhere
  <2>1. T \in SUBSET DOMAIN rows
    OBVIOUS
  <2>2. AddElsewhere(rows, limit, kept, S) = Add(rows, limit, kept, T)
    BY DEF AddElsewhere
  <2> QED
    BY <1>1, <2>1, <2>2
<1>3. AddMissing(rows, limit, kept, S) \in Seq(DOMAIN rows)
  BY <1>1 DEF AddMissing
<1> QED
  BY <1>1, <1>2, <1>3

(* What max_context_select keeps was on the list.                          *)
LEMMA MaxContextKeeps ==
  ASSUME NEW R, Scored(R), NEW rows \in Seq(R), NEW limit \in Nat
  PROVE  MaxContextSelect(rows, limit) \in Seq(R)
<1> DEFINE ofTier(tier) == {i \in DOMAIN rows : rows[i].config.tier = tier}
           multi == {i \in DOMAIN rows : Multi(rows[i].config)}
           splits == {i \in DOMAIN rows : Split(rows[i].config)}
           q4 == Add(rows, limit, <<>>, ofTier("q4_0"))
           q8 == AddElsewhere(rows, limit, q4, ofTier("q8_0"))
           split == AddMissing(rows, limit, q8, splits)
           single == AddMissing(rows, limit, split, DOMAIN rows \ multi)
           f16 == AddElsewhere(rows, limit, single, ofTier("f16"))
<1>1. /\ ofTier("q4_0") \in SUBSET DOMAIN rows /\ ofTier("q8_0") \in SUBSET DOMAIN rows
      /\ ofTier("f16") \in SUBSET DOMAIN rows /\ splits \in SUBSET DOMAIN rows
      /\ DOMAIN rows \ multi \in SUBSET DOMAIN rows
  OBVIOUS
<1> HIDE DEF ofTier, multi, splits
<1>2. q4 \in Seq(DOMAIN rows)
  BY <1>1, EmptySeq, AddKeeps
<1> HIDE DEF q4
<1>3. q8 \in Seq(DOMAIN rows)
  BY <1>1, <1>2, AddKeeps
<1> HIDE DEF q8
<1>4. split \in Seq(DOMAIN rows)
  BY <1>1, <1>3, AddKeeps
<1> HIDE DEF split
<1>5. single \in Seq(DOMAIN rows)
  BY <1>1, <1>4, AddKeeps
<1> HIDE DEF single
<1>6. f16 \in Seq(DOMAIN rows)
  BY <1>1, <1>5, AddKeeps
<1> HIDE DEF f16
<1>7. ByRoom(rows) \in Seq(DOMAIN rows)
  BY RoomKeys, RankedIndices DEF ByRoom, Sorted
<1>8. f16 \o ByRoom(rows) \in Seq(DOMAIN rows)
  BY <1>6, <1>7, ConcatProperties
<1>9. Pick(rows, FirstDistinct(f16 \o ByRoom(rows), limit)) \in Seq(R)
  BY <1>8, DistinctKeeps, PickKeeps
<1> QED
  BY <1>9 DEF MaxContextSelect, ofTier, multi, splits, q4, q8, split, single, f16

(* Some of the keys of an integer each, as many as there are rows.         *)
LEMMA SortedKeeps ==
  ASSUME NEW R, NEW rows \in Seq(R), NEW n \in Nat, NEW keys, DOMAIN keys = DOMAIN rows,
         \A i \in DOMAIN rows : keys[i] \in Tuples(n)
  PROVE  /\ Pick(rows, Sorted(keys)) \in Seq(R)
         /\ Len(Pick(rows, Sorted(keys))) = Len(rows)
<1>1. IsFiniteSet(DOMAIN rows) /\ DOMAIN rows \in SUBSET Int /\ Cardinality(DOMAIN rows) = Len(rows)
  BY Indices
<1>2. Sorted(keys) \in Seq(DOMAIN rows) /\ Len(Sorted(keys)) = Len(rows)
  BY <1>1, RankedLists DEF Sorted
<1> QED
  BY <1>2, PickKeeps

(* Names are integers here.                                                *)
LEMMA Names ==
  ASSUME NEW R, Scored(R), NEW row \in R
  PROVE  FamilyName(row.config) \in Int /\ TierName(row.config) \in Int
BY DEF Scored, FamilyName, TierName

(* The fastest are all the rows, in another order.                         *)
LEMMA FastestKeeps ==
  ASSUME NEW R, Scored(R), NEW rows \in Seq(R)
  PROVE  Fastest(rows) \in Seq(R) /\ Len(Fastest(rows)) = Len(rows)
<1> DEFINE keys == [i \in DOMAIN rows |-> <<0 - rows[i].score, FamilyName(rows[i].config),
                                            TierName(rows[i].config)>>]
<1>1. ASSUME NEW i \in DOMAIN rows PROVE keys[i] \in Tuples(3)
  <2>1. rows[i] \in R
    BY Indices
  <2>2. rows[i].score \in Int /\ FamilyName(rows[i].config) \in Int /\ TierName(rows[i].config) \in Int
    BY <2>1, Names DEF Scored
  <2>3. <<0 - rows[i].score, FamilyName(rows[i].config), TierName(rows[i].config)>> \in Tuples(3)
    BY <2>2 DEF Tuples
  <2> QED
    BY <2>3
<1>2. DOMAIN keys = DOMAIN rows
  OBVIOUS
<1>3. Fastest(rows) = Pick(rows, Sorted(keys))
  BY DEF Fastest
<1> HIDE DEF keys
<1> QED
  BY <1>1, <1>2, <1>3, SortedKeeps

-------------------------------------------------------------------------------
(* Lists without repetitions.                                              *)

(* Such a list is as long as it has elements.                              *)
LEMMA DistinctLength ==
  ASSUME NEW S, NEW s \in Seq(S), IsInjective(s)
  PROVE  IsFiniteSet(ToSet(s)) /\ Cardinality(ToSet(s)) = Len(s)
<1>1. DOMAIN s = 1 .. Len(s) /\ Len(s) \in Nat
  BY LenProperties
<1>2. ExistsBijection(1 .. Len(s), ToSet(s))
  BY <1>1 DEF ExistsBijection, Bijection, Injection, Surjection, ToSet, IsInjective
<1>3. IsFiniteSet(1 .. Len(s)) /\ Cardinality(1 .. Len(s)) = Len(s)
  BY <1>1, FS_Interval
<1> QED
  BY <1>2, <1>3, FS_Bijection

(* The elements of lists.                                                  *)
LEMMA Elements ==
  ASSUME NEW S, NEW s \in Seq(S), NEW t \in Seq(S), IsInjective(s), IsInjective(t),
         ToSet(s) \cap ToSet(t) = {}
  PROVE  /\ ToSet(s) \subseteq S /\ ToSet(s \o t) = ToSet(s) \cup ToSet(t)
         /\ IsInjective(s \o t)
<1>1. /\ s \o t \in Seq(S) /\ Len(s \o t) = Len(s) + Len(t)
      /\ Len(s) \in Nat /\ Len(t) \in Nat
      /\ DOMAIN s = 1 .. Len(s) /\ DOMAIN t = 1 .. Len(t)
      /\ DOMAIN (s \o t) = 1 .. Len(s) + Len(t)
      /\ \A i \in 1 .. Len(s) + Len(t) :
           (s \o t)[i] = IF i <= Len(s) THEN s[i] ELSE t[i - Len(s)]
      /\ \A i \in DOMAIN s : s[i] \in S
  BY ConcatProperties, LenProperties, ElementOfSeq
<1> DEFINE st == s \o t
<1> HIDE DEF st
<1>2. \A i \in DOMAIN s : i \in DOMAIN st /\ st[i] = s[i]
  BY <1>1 DEF st
<1>3. \A i \in DOMAIN t : i + Len(s) \in DOMAIN st /\ st[i + Len(s)] = t[i]
  <2> TAKE i \in DOMAIN t
  <2>1. /\ i + Len(s) \in 1 .. Len(s) + Len(t) /\ ~(i + Len(s) <= Len(s))
        /\ i + Len(s) - Len(s) = i
    BY <1>1
  <2> QED
    BY <1>1, <2>1 DEF st
<1>4. \A i \in DOMAIN st : \/ i \in DOMAIN s /\ st[i] = s[i]
                           \/ i - Len(s) \in DOMAIN t /\ st[i] = t[i - Len(s)]
  <2> TAKE i \in DOMAIN st
  <2>1. i \in 1 .. Len(s) + Len(t)
    BY <1>1 DEF st
  <2>2. CASE i <= Len(s)
    BY <1>1, <2>1, <2>2 DEF st
  <2>3. CASE ~(i <= Len(s))
    <3>1. i - Len(s) \in 1 .. Len(t)
      BY <1>1, <2>1, <2>3
    <3> QED
      BY <1>1, <2>1, <2>3, <3>1 DEF st
  <2> QED
    BY <2>2, <2>3
<1>5. ToSet(st) = ToSet(s) \cup ToSet(t)
  BY <1>2, <1>3, <1>4 DEF ToSet
<1>6. IsInjective(st)
  <2> SUFFICES ASSUME NEW k \in DOMAIN st, NEW l \in DOMAIN st, st[k] = st[l] PROVE k = l
    BY DEF IsInjective
  <2>1. k \in Int /\ l \in Int
    BY <1>1 DEF st
  <2>2. CASE k \in DOMAIN s /\ st[k] = s[k] /\ l \in DOMAIN s /\ st[l] = s[l]
    BY <2>2 DEF IsInjective
  <2>3. CASE /\ k - Len(s) \in DOMAIN t /\ st[k] = t[k - Len(s)]
             /\ l - Len(s) \in DOMAIN t /\ st[l] = t[l - Len(s)]
    <3>1. k - Len(s) = l - Len(s)
      BY <2>3 DEF IsInjective
    <3> QED
      BY <1>1, <2>1, <3>1
  <2>4. ~(st[k] \in ToSet(s) /\ st[l] \in ToSet(t)) /\ ~(st[k] \in ToSet(t) /\ st[l] \in ToSet(s))
    OBVIOUS
  <2> QED
    BY <1>4, <2>2, <2>3, <2>4 DEF ToSet
<1> QED
  BY <1>1, <1>5, <1>6 DEF st, ToSet

(* The start of such a list is one.                                        *)
LEMMA FirstDiffers ==
  ASSUME NEW S, NEW s \in Seq(S), IsInjective(s), NEW limit \in Nat
  PROVE  IsInjective(First(s, limit))
<1> DEFINE short == First(s, limit)
<1>1. /\ short \in Seq(S) /\ Len(short) = Least(limit, Len(s))
      /\ \A k \in 1 .. Len(short) : short[k] = s[k]
  BY FirstKeeps
<1>2. Len(s) \in Nat /\ DOMAIN s = 1 .. Len(s) /\ DOMAIN short = 1 .. Len(short)
  BY <1>1, LenProperties
<1> HIDE DEF short
<1>3. DOMAIN short \subseteq DOMAIN s
  BY <1>1, <1>2 DEF Least
<1>4. IsInjective(short)
  BY <1>1, <1>2, <1>3 DEF IsInjective
<1> QED
  BY <1>4 DEF short

(* FirstDistinct is one, and it is not empty if there is anything.         *)
LEMMA DistinctDiffers ==
  ASSUME NEW S, NEW s \in Seq(S), NEW limit \in Nat
  PROVE  /\ IsInjective(FirstDistinct(s, limit))
         /\ s # <<>> /\ limit > 0 => FirstDistinct(s, limit) # <<>>
<1> DEFINE new == {i \in DOMAIN s : \A j \in 1 .. i - 1 : s[j] # s[i]}
           list == Pick(s, Ascending(new))
<1>1. DOMAIN s = 1 .. Len(s) /\ Len(s) \in Nat /\ IsFiniteSet(DOMAIN s) /\ DOMAIN s \in SUBSET Int
  BY Indices
<1>2. new \in SUBSET Int /\ IsFiniteSet(new) /\ new \subseteq DOMAIN s
  BY <1>1, FS_Subset
<1>3. \A i, j \in new : s[i] = s[j] => i = j
  <2> SUFFICES ASSUME NEW i \in new, NEW j \in new, s[i] = s[j] PROVE i = j
    OBVIOUS
  <2>1. i \in 1 .. Len(s) /\ j \in 1 .. Len(s) /\ j \notin 1 .. i - 1 /\ i \notin 1 .. j - 1
    BY <1>1
  <2> QED
    BY <1>1, <2>1
<1>4. s # <<>> => 1 \in new
  <2>1. s # <<>> => 1 \in DOMAIN s
    BY <1>1, EmptySeq
  <2> QED
    BY <2>1
<1> HIDE DEF new
<1>5. /\ Ascending(new) \in Seq(new) /\ Len(Ascending(new)) = Cardinality(new)
      /\ IsInjective(Ascending(new))
  BY <1>2, AscendingLists DEF IsInjective
<1>6. Ascending(new) \in Seq(DOMAIN s)
  BY <1>2, <1>5, SeqMonotonic
<1>7. list \in Seq(S) /\ Len(list) = Cardinality(new)
  BY <1>5, <1>6, PickKeeps
<1>8. IsInjective(list)
  <2>1. \A k \in DOMAIN Ascending(new) : Ascending(new)[k] \in new
    BY <1>5, LenProperties, ElementOfSeq
  <2> QED
    BY <1>3, <1>5, <2>1 DEF IsInjective, Pick
<1>9. s # <<>> => Len(list) > 0
  BY <1>2, <1>4, <1>7, FS_CardinalityType, FS_EmptySet
<1> HIDE DEF list
<1> DEFINE short == First(list, limit)
<1>10. /\ short \in Seq(S) /\ Len(short) = Least(limit, Len(list))
       /\ \A k \in 1 .. Len(short) : short[k] = list[k]
  BY <1>7, FirstKeeps
<1>11. Len(list) \in Nat /\ DOMAIN list = 1 .. Len(list) /\ DOMAIN short = 1 .. Len(short)
  BY <1>7, <1>10, LenProperties
<1> HIDE DEF short
<1>12. DOMAIN short \subseteq DOMAIN list
  BY <1>10, <1>11 DEF Least
<1>13. IsInjective(short)
  BY <1>7, <1>8, FirstDiffers DEF short
<1>14. s # <<>> /\ limit > 0 => short # <<>>
  BY <1>9, <1>10, <1>11, EmptySeq DEF Least
<1>15. FirstDistinct(s, limit) = short
  BY DEF FirstDistinct, short, list, new
<1> QED
  BY <1>13, <1>14, <1>15

(* A sorted list is one of its indices.                                    *)
LEMMA SortedDiffers ==
  ASSUME NEW R, NEW rows \in Seq(R), NEW n \in Nat, NEW keys, DOMAIN keys = DOMAIN rows,
         \A i \in DOMAIN rows : keys[i] \in Tuples(n)
  PROVE  /\ Sorted(keys) \in Seq(DOMAIN rows) /\ Len(Sorted(keys)) = Len(rows)
         /\ IsInjective(Sorted(keys)) /\ ToSet(Sorted(keys)) = DOMAIN rows
         /\ \A i \in DOMAIN rows : ~Before(keys, i, Sorted(keys)[1])
<1> DEFINE list == Sorted(keys)
           D == DOMAIN rows
<1>1. /\ D = 1 .. Len(rows) /\ Len(rows) \in Nat /\ IsFiniteSet(D)
      /\ D \in SUBSET Int /\ Cardinality(D) = Len(rows)
  BY Indices
<1>2. /\ list \in Seq(D) /\ Len(list) = Len(rows)
      /\ \A i \in D : \E k \in DOMAIN list : list[k] = i
      /\ \A i \in D : ~Before(keys, i, list[1])
  <2>1. Sorted(keys) = Ranked(D, keys)
    BY DEF Sorted
  <2> DEFINE ranked == Ranked(D, keys)
  <2>2. \A i \in D : keys[i] \in Tuples(n)
    OBVIOUS
  <2> HIDE DEF D, ranked
  <2>4. \A m \in Nat : \A of : \A T \in SUBSET Int :
          IsFiniteSet(T) /\ (\A i \in T : of[i] \in Tuples(m)) =>
            /\ Ranked(T, of) \in Seq(T) /\ Len(Ranked(T, of)) = Cardinality(T)
            /\ \A i \in T : \E k \in DOMAIN Ranked(T, of) : Ranked(T, of)[k] = i
            /\ \A i \in T : ~Before(of, i, Ranked(T, of)[1])
    BY RankedLists
  <2>3. /\ ranked \in Seq(D) /\ Len(ranked) = Cardinality(D)
        /\ \A i \in D : \E k \in DOMAIN ranked : ranked[k] = i
        /\ \A i \in D : ~Before(keys, i, ranked[1])
    <3>1. IsFiniteSet(D) /\ D \in SUBSET Int
      BY <1>1
    <3> QED
      BY <2>2, <2>4, <3>1, Zenon DEF ranked
  <2> QED
    BY <1>1, <2>1, <2>3 DEF ranked
<1> HIDE DEF list
<1>3. DOMAIN list = D /\ list \in [D -> D]
  BY <1>1, <1>2, LenProperties
<1>4. list \in Surjection(D, D)
  BY <1>2, <1>3 DEF Surjection
<1>5. list \in Injection(D, D)
  BY <1>1, <1>4, FS_SurjSameCardinalityImpliesInj
<1>6. IsInjective(list)
  BY <1>3, <1>5 DEF Injection, IsInjective
<1>7. ToSet(list) = D
  BY <1>2, <1>3 DEF ToSet
<1> QED
  BY <1>2, <1>6, <1>7 DEF list

(* What is appended is taken from the front of what is left.               *)
LEMMA LineMoves ==
  ASSUME NEW S, NEW s \in Seq(S), NEW t \in Seq(S), t # <<>>
  PROVE  Append(s, Head(t)) \o Tail(t) = s \o t
<1>1. /\ Head(t) = t[1] /\ Head(t) \in S /\ Tail(t) \in Seq(S) /\ Len(Tail(t)) = Len(t) - 1
      /\ \A i \in 1 .. Len(Tail(t)) : Tail(t)[i] = t[i + 1]
  BY HeadTailProperties
<1>2. Len(s) \in Nat /\ Len(t) \in Nat \ {0}
  BY LenProperties, EmptySeq
<1> DEFINE more == Append(s, Head(t))
<1>3. /\ more \in Seq(S) /\ Len(more) = Len(s) + 1
      /\ \A i \in 1 .. Len(s) + 1 : more[i] = IF i <= Len(s) THEN s[i] ELSE Head(t)
  BY <1>1, <1>2, AppendProperties
<1> HIDE DEF more
<1>4. /\ more \o Tail(t) \in Seq(S) /\ Len(more \o Tail(t)) = Len(s) + Len(t)
      /\ \A i \in 1 .. Len(s) + Len(t) : (more \o Tail(t))[i] =
           IF i <= Len(s) + 1 THEN more[i] ELSE Tail(t)[i - (Len(s) + 1)]
  <2>1. Len(more) + Len(Tail(t)) = Len(s) + Len(t)
    BY <1>1, <1>2, <1>3
  <2>2. /\ more \o Tail(t) \in Seq(S) /\ Len(more \o Tail(t)) = Len(more) + Len(Tail(t))
        /\ \A i \in 1 .. Len(more) + Len(Tail(t)) : (more \o Tail(t))[i] =
             IF i <= Len(more) THEN more[i] ELSE Tail(t)[i - Len(more)]
    BY <1>1, <1>3, ConcatProperties
  <2> QED
    BY <1>3, <2>1, <2>2
<1>5. /\ s \o t \in Seq(S) /\ Len(s \o t) = Len(s) + Len(t)
      /\ \A i \in 1 .. Len(s) + Len(t) : (s \o t)[i] =
           IF i <= Len(s) THEN s[i] ELSE t[i - Len(s)]
  BY ConcatProperties
<1>6. \A i \in 1 .. Len(s) + Len(t) : (more \o Tail(t))[i] = (s \o t)[i]
  <2> TAKE i \in 1 .. Len(s) + Len(t)
  <2>1. CASE i <= Len(s)
    <3>1. i \in 1 .. Len(s) + 1 /\ i <= Len(s) + 1
      BY <1>2, <2>1
    <3> QED
      BY <1>3, <1>4, <1>5, <2>1, <3>1
  <2>2. CASE i = Len(s) + 1
    <3>1. i \in 1 .. Len(s) + 1 /\ i <= Len(s) + 1 /\ ~(i <= Len(s)) /\ i - Len(s) = 1
      BY <1>2, <2>2
    <3> QED
      BY <1>1, <1>3, <1>4, <1>5, <3>1
  <2>3. CASE i > Len(s) + 1
    <3>1. /\ ~(i <= Len(s) + 1) /\ ~(i <= Len(s)) /\ i - (Len(s) + 1) \in 1 .. Len(Tail(t))
          /\ i - (Len(s) + 1) + 1 = i - Len(s)
      BY <1>1, <1>2, <2>3
    <3> QED
      BY <1>1, <1>4, <1>5, <3>1
  <2>4. i <= Len(s) \/ i = Len(s) + 1 \/ i > Len(s) + 1
    BY <1>2
  <2> QED
    BY <2>1, <2>2, <2>3, <2>4
<1> QED
  BY <1>4, <1>5, <1>6, SeqEqual DEF more

-------------------------------------------------------------------------------
(* What a tune starts with.                                                *)

(* The arguments and the machine are among those that are given.           *)
Given == tuning \in Tunings /\ rig \in Rigs

(* The types of KV cache there are.                                        *)
LEMMA Tiers == ToSet(FullTiers) = {"f16", "q8_0", "q4_0"}
<1>1. DOMAIN FullTiers = {1, 2, 3}
  BY DEF FullTiers
<1>2. FullTiers[1] = "f16" /\ FullTiers[2] = "q8_0" /\ FullTiers[3] = "q4_0"
  BY DEF FullTiers
<1> QED
  BY <1>1, <1>2 DEF ToSet

(* Configurations and rows have the data that selections look at.          *)
LEMMA MeasuredScored == ASSUME Given PROVE Scored(Measured)
<1>1. \A p \in DOMAIN rig.fits : p.split \in Nat
  BY FunnelAssumption DEF Given
<1> QED
  BY <1>1, Tiers DEF Scored, Measured, Configs

(* What a budget allows are numbers.                                       *)
LEMMA Limits ==
  ASSUME Given
  PROVE  /\ Budget.loads \in Nat /\ Budget.startup \in Nat /\ Budget.smoke \in Nat
         /\ Budget.coarse \in Nat /\ Budget.finalists \in Nat /\ Budget.seeds \in Nat
         /\ Budget.frontiers.capacity \in Nat
         /\ Budget.frontiers[IF Capacity THEN "capacity" ELSE tuning.objective] \in Nat
         /\ tuning.finalists \in Nat /\ tuning.maximum \in Nat /\ tuning.maximum > 1
<1>1. /\ tuning.objective \in Objectives /\ tuning.budget \in Budgets
      /\ tuning.finalists \in Nat \ {0} /\ tuning.maximum \in Nat \ {0, 1}
  BY FunnelAssumption DEF Given
<1>2. tuning.maximum > 1
  BY <1>1
<1>3. CASE tuning.budget = "quick"
  BY <1>1, <1>2, <1>3 DEF Budget, Plan, Objectives, Capacity
<1>4. CASE tuning.budget = "normal"
  BY <1>1, <1>2, <1>4 DEF Budget, Plan, Objectives, Capacity
<1>5. CASE tuning.budget = "thorough"
  BY <1>1, <1>2, <1>5 DEF Budget, Plan, Objectives, Capacity
<1> QED
  BY <1>1, <1>3, <1>4, <1>5 DEF Budgets

(* The candidates of some placements.                                      *)
Loads(P) == [placement : P, tier : {"f16", "q8_0", "q4_0"}, flash : {"on"}]

(* The candidates of some placements with one type of KV cache are loads.  *)
LEMMA OfCandidates ==
  ASSUME NEW P, NEW places \in Seq(P), NEW tier \in {"f16", "q8_0", "q4_0"}, NEW tiers
  PROVE  Of(places, tier, tiers) \in Seq(Loads(P))
<1>1. /\ DOMAIN places = 1 .. Len(places) /\ Len(places) \in Nat
      /\ \A i \in DOMAIN places : places[i] \in P
  BY Indices
<1>2. \A i \in 1 .. Len(places) : Candidate(places[i], tier) \in Loads(P)
  BY <1>1 DEF Candidate, Loads
<1>3. [i \in DOMAIN places |-> Candidate(places[i], tier)] \in [1 .. Len(places) -> Loads(P)]
  BY <1>1, <1>2
<1>4. [i \in DOMAIN places |-> Candidate(places[i], tier)] \in Seq(Loads(P))
  BY <1>1, <1>3, SeqDef
<1> QED
  BY <1>4, EmptySeq DEF Of

(* They differ if the placements do.                                       *)
LEMMA OfDiffer ==
  ASSUME NEW P, NEW places \in Seq(P), IsInjective(places), NEW tier, NEW tiers
  PROVE  /\ IsInjective(Of(places, tier, tiers))
         /\ \A load \in ToSet(Of(places, tier, tiers)) : load.tier = tier
<1> DEFINE loads == [i \in DOMAIN places |-> Candidate(places[i], tier)]
<1>1. IsInjective(loads) /\ \A load \in ToSet(loads) : load.tier = tier
  <2>1. \A i \in DOMAIN loads : loads[i].placement = places[i] /\ loads[i].tier = tier
    BY DEF Candidate
  <2> HIDE DEF loads
  <2>2. DOMAIN loads = DOMAIN places
    BY DEF loads
  <2> QED
    BY <2>1, <2>2 DEF IsInjective, ToSet
<1>2. IsInjective(<<>>) /\ ToSet(<<>>) = {}
  BY DEF IsInjective, ToSet
<1> QED
  BY <1>1, <1>2 DEF Of

(* The candidates a tune for speed starts with are loads, which differ.    *)
LEMMA PerformanceCandidates ==
  ASSUME NEW P, NEW places \in Seq(P), IsInjective(places), NEW tiers, NEW limit \in Nat
  PROVE  /\ PerformanceAnchors(places, tiers, limit) \in Seq(Loads(P))
         /\ IsInjective(PerformanceAnchors(places, tiers, limit))
<1> DEFINE C == Loads(P)
           f16 == Of(places, "f16", tiers)
           q8 == Of(places, "q8_0", tiers)
           q4 == Of(places, "q4_0", tiers)
<1>1. f16 \in Seq(C) /\ q8 \in Seq(C) /\ q4 \in Seq(C)
  BY OfCandidates
<1>2. /\ IsInjective(f16) /\ IsInjective(q8) /\ IsInjective(q4)
      /\ \A load \in ToSet(f16) : load.tier = "f16"
      /\ \A load \in ToSet(q8) : load.tier = "q8_0"
      /\ \A load \in ToSet(q4) : load.tier = "q4_0"
  BY OfDiffer
<1> HIDE DEF C, f16, q8, q4
<1>3. ToSet(f16) \cap ToSet(q8) = {} /\ (ToSet(f16) \cup ToSet(q8)) \cap ToSet(q4) = {}
  BY <1>2
<1>4. f16 \o q8 \in Seq(C) /\ IsInjective(f16 \o q8) /\ ToSet(f16 \o q8) = ToSet(f16) \cup ToSet(q8)
  BY <1>1, <1>2, <1>3, ConcatProperties, Elements
<1>5. f16 \o q8 \o q4 \in Seq(C) /\ IsInjective(f16 \o q8 \o q4)
  <2> DEFINE two == f16 \o q8
  <2>1. two \in Seq(C) /\ IsInjective(two) /\ ToSet(two) \cap ToSet(q4) = {}
    BY <1>3, <1>4
  <2> HIDE DEF two
  <2>2. two \o q4 \in Seq(C) /\ IsInjective(two \o q4)
    BY <1>1, <1>2, <2>1, ConcatProperties, Elements
  <2> QED
    BY <2>2 DEF two
<1>6. First(f16 \o q8 \o q4, limit) \in Seq(C) /\ IsInjective(First(f16 \o q8 \o q4, limit))
  BY <1>5, FirstKeeps, FirstDiffers
<1> QED
  BY <1>6 DEF PerformanceAnchors, C, f16, q8, q4

(* The first of some placements, as a list.                                *)
LEMMA FirstOfPlaces ==
  ASSUME NEW P, NEW places \in Seq(P), NEW S \in SUBSET DOMAIN places
  PROVE  Pick(places, First(Ascending(S), 1)) \in Seq(P)
<1>1. S \in SUBSET Int /\ IsFiniteSet(S)
  BY Indices, FS_Subset
<1>2. Ascending(S) \in Seq(S)
  BY <1>1, AscendingLists
<1>3. Ascending(S) \in Seq(DOMAIN places)
  BY <1>2, SeqMonotonic
<1>4. First(Ascending(S), 1) \in Seq(DOMAIN places)
  BY <1>3, FirstKeeps
<1> QED
  BY <1>4, PickKeeps

(* The candidates a tune for a large context starts with are too.          *)
LEMMA CapacityCandidates ==
  ASSUME NEW P, NEW placements \in Seq(P), NEW tiers, NEW limit \in Nat
  PROVE  /\ MaxContextAnchors(placements, tiers, limit) \in Seq(Loads(P))
         /\ IsInjective(MaxContextAnchors(placements, tiers, limit))
<1> DEFINE C == Loads(P)
           one == {i \in DOMAIN placements : Cardinality(placements[i].devices) <= 1}
           split == {i \in DOMAIN placements : placements[i].split # 0}
           first(S) == Pick(placements, First(Ascending(S), 1))
           primary == IF one \ split = {} THEN First(placements, 1) ELSE first(one \ split)
           explicit == first(split)
           auto == first(DOMAIN placements \ (one \cup split))
           of(places, tier) == Of(places, tier, tiers)
           all == of(primary, "f16") \o of(primary, "q8_0") \o of(primary, "q4_0")
                    \o of(explicit, "q4_0") \o of(explicit, "q8_0") \o of(auto, "q4_0")
                    \o of(placements, "q4_0") \o of(placements, "q8_0") \o of(placements, "f16")
<1>1. /\ one \ split \in SUBSET DOMAIN placements /\ split \in SUBSET DOMAIN placements
      /\ DOMAIN placements \ (one \cup split) \in SUBSET DOMAIN placements
  OBVIOUS
<1> HIDE DEF one, split
<1>2. primary \in Seq(P) /\ explicit \in Seq(P) /\ auto \in Seq(P)
  BY <1>1, FirstOfPlaces, FirstKeeps
<1> HIDE DEF primary, explicit, auto, first
<1>3. /\ of(primary, "f16") \in Seq(C) /\ of(primary, "q8_0") \in Seq(C)
      /\ of(primary, "q4_0") \in Seq(C) /\ of(explicit, "q4_0") \in Seq(C)
      /\ of(explicit, "q8_0") \in Seq(C) /\ of(auto, "q4_0") \in Seq(C)
      /\ of(placements, "q4_0") \in Seq(C) /\ of(placements, "q8_0") \in Seq(C)
      /\ of(placements, "f16") \in Seq(C)
  BY <1>2, OfCandidates
<1> HIDE DEF of, C
<1>4. all \in Seq(C)
  BY <1>3, ConcatProperties
<1> HIDE DEF all
<1>5. FirstDistinct(all, limit) \in Seq(C) /\ IsInjective(FirstDistinct(all, limit))
  BY <1>4, DistinctKeeps, DistinctDiffers
<1> QED
  BY <1>5 DEF MaxContextAnchors, all, of, C, auto, explicit, primary, first, one, split

(* Anchors are configurations that differ, with flash attention and, on    *)
(* GPUs, all layers.                                                       *)
LEMMA AnchorsTyped ==
  ASSUME Given
  PROVE  /\ Anchors \in Seq(Configs) /\ IsInjective(Anchors)
         /\ \A c \in ToSet(Anchors) : /\ c.flash = "on"
                                      /\ tuning.cuda => c.ngl = tuning.maximum
<1> DEFINE P == DOMAIN rig.fits
           configs == Variants(tuning.objective, tuning.budget, tuning.placements, tuning.tiers)
           cpu == [placement |-> NoDevices, tier |-> "f16", flash |-> "on", ngl |-> 0]
<1>1. tuning.placements \in Seq(P) /\ IsInjective(tuning.placements) /\ NoDevices \in P
  BY FunnelAssumption DEF Given
<1>2. Plan(tuning.budget).loads \in Nat
  BY Limits DEF Budget
<1>3. configs \in Seq(Loads(P)) /\ IsInjective(configs)
  BY <1>1, <1>2, PerformanceCandidates, CapacityCandidates DEF Variants
<1> HIDE DEF configs
<1>4. /\ DOMAIN configs = 1 .. Len(configs) /\ Len(configs) \in Nat
      /\ \A i \in DOMAIN configs : configs[i] \in Loads(P)
  BY <1>3, Indices
<1>5. \A i \in DOMAIN configs : Offload(configs[i], tuning.maximum) \in Configs
  <2> TAKE i \in DOMAIN configs
  <2>1. tuning.maximum \in 0 .. tuning.maximum
    BY Limits
  <2> QED
    BY <1>4, <2>1, Tiers DEF Offload, Configs, Loads
<1>6. [i \in DOMAIN configs |-> Offload(configs[i], tuning.maximum)] \in Seq(Configs)
  <2>1. [i \in DOMAIN configs |-> Offload(configs[i], tuning.maximum)]
          \in [1 .. Len(configs) -> Configs]
    BY <1>4, <1>5
  <2> QED
    BY <1>4, <2>1, SeqDef
<1>7. cpu \in Configs
  <2>1. 0 \in 0 .. tuning.maximum
    BY Limits
  <2> QED
    BY <1>1, <2>1, Tiers DEF Configs
<1>8. <<cpu>> \in Seq(Configs)
  BY <1>7
<1>9. CASE tuning.cuda
  <2> DEFINE full == [i \in DOMAIN configs |-> Offload(configs[i], tuning.maximum)]
  <2>1. Anchors = full
    BY <1>9 DEF Anchors, configs
  <2>2. IsInjective(full)
    <3> SUFFICES ASSUME NEW i \in DOMAIN configs, NEW j \in DOMAIN configs, full[i] = full[j]
                 PROVE  configs[i] = configs[j]
      BY <1>3 DEF IsInjective
    <3>1. /\ full[i].placement = configs[i].placement /\ full[i].tier = configs[i].tier
          /\ full[i].flash = configs[i].flash
          /\ full[j].placement = configs[j].placement /\ full[j].tier = configs[j].tier
          /\ full[j].flash = configs[j].flash
      BY DEF Offload
    <3>2. configs[i] \in Loads(P) /\ configs[j] \in Loads(P)
      BY <1>4
    <3> QED
      BY <3>1, <3>2 DEF Loads
  <2>3. \A i \in DOMAIN full : full[i].flash = "on" /\ full[i].ngl = tuning.maximum
    BY <1>4 DEF Offload, Loads
  <2> HIDE DEF full
  <2> QED
    BY <1>6, <2>1, <2>2, <2>3 DEF full, ToSet
<1>10. CASE ~tuning.cuda
  <2>1. Anchors = <<cpu>>
    BY <1>10 DEF Anchors
  <2>2. IsInjective(<<cpu>>) /\ ToSet(<<cpu>>) = {cpu}
    BY DEF IsInjective, ToSet
  <2>3. cpu.flash = "on"
    OBVIOUS
  <2> QED
    BY <1>8, <1>10, <2>1, <2>2, <2>3
<1> QED
  BY <1>9, <1>10, FunnelAssumption DEF Given

(* The configurations of rows.                                             *)
LEMMA RowsTyped ==
  ASSUME NEW R \in SUBSET Measured, NEW rows \in Seq(R)
  PROVE  Rows(rows) \in Seq(Configs) /\ Len(Rows(rows)) = Len(rows)
<1>1. /\ DOMAIN rows = 1 .. Len(rows) /\ Len(rows) \in Nat
      /\ \A i \in DOMAIN rows : rows[i] \in Measured
  BY Indices
<1>2. \A i \in 1 .. Len(rows) : rows[i].config \in Configs
  BY <1>1 DEF Measured
<1>3. Rows(rows) \in [1 .. Len(rows) -> Configs]
  BY <1>1, <1>2 DEF Rows
<1> QED
  BY <1>1, <1>3, SeqDef

(* Seeds are some of the anchors, no more than the budget allows.          *)
LEMMA SeedsTyped ==
  ASSUME Given
  PROVE  /\ Seeds \in Seq(Configs) /\ Len(Seeds) <= Budget.seeds
         /\ ToSet(Seeds) \subseteq ToSet(Anchors)
<1> DEFINE R == {m \in Measured : m.config \in ToSet(Anchors)}
           rows == [i \in DOMAIN Anchors |->
                      [config |-> Anchors[i], score |-> Efficiency(Anchors[i])]]
           keys == [i \in DOMAIN rows |-> <<0 - rows[i].score, FamilyName(Anchors[i])>>]
<1>1. /\ DOMAIN Anchors = 1 .. Len(Anchors) /\ Len(Anchors) \in Nat
      /\ \A i \in DOMAIN Anchors : Anchors[i] \in Configs
  BY AnchorsTyped, Indices
<1>2. \A i \in DOMAIN Anchors : Efficiency(Anchors[i]) \in Int
  BY <1>1, Tiers DEF Configs, Efficiency
<1>3. rows \in [1 .. Len(Anchors) -> R]
  BY <1>1, <1>2 DEF Measured, ToSet
<1>4. rows \in Seq(R) /\ DOMAIN rows = DOMAIN Anchors
  <2> HIDE DEF R
  <2> QED
    BY <1>1, <1>3, SeqDef
<1>5. \A i \in DOMAIN rows : keys[i] \in Tuples(2)
  <2> TAKE i \in DOMAIN rows
  <2>1. rows[i] \in Measured /\ rows[i].config = Anchors[i]
    BY <1>3, <1>4, <1>1
  <2>2. rows[i].score \in Int /\ FamilyName(Anchors[i]) \in Int
    BY <2>1, MeasuredScored, Names DEF Measured
  <2> HIDE DEF rows
  <2>3. <<0 - rows[i].score, FamilyName(Anchors[i])>> \in Tuples(2)
    BY <2>2 DEF Tuples
  <2> QED
    BY <2>3
<1>6. DOMAIN keys = DOMAIN rows
  OBVIOUS
<1>7. PartialSeeds(Anchors, Budget.seeds) = StratifiedSelect(Pick(rows, Sorted(keys)), Budget.seeds)
  BY DEF PartialSeeds
<1> DEFINE efficient == Pick(rows, Sorted(keys))
           kept == StratifiedSelect(efficient, Budget.seeds)
<1> HIDE DEF rows, keys
<1>8. R \in SUBSET Measured /\ Scored(R)
  BY MeasuredScored DEF Scored
<1>9. \A m \in R : m.config \in ToSet(Anchors)
  OBVIOUS
<1> HIDE DEF R
<1>10. efficient \in Seq(R)
  BY <1>4, <1>5, <1>6, SortedKeeps
<1> HIDE DEF efficient
<1>11. kept \in Seq(R) /\ Len(kept) <= Budget.seeds
  BY <1>8, <1>10, Limits, StratifiedKeeps
<1>12. Seeds = Rows(kept)
  BY <1>7 DEF Seeds, efficient
<1> HIDE DEF kept
<1>13. Rows(kept) \in Seq(Configs) /\ Len(Rows(kept)) <= Budget.seeds
  BY <1>8, <1>11, RowsTyped
<1>14. ToSet(Rows(kept)) \subseteq ToSet(Anchors)
  BY <1>9, <1>11, Indices DEF ToSet, Rows
<1> QED
  BY <1>12, <1>13, <1>14

-------------------------------------------------------------------------------
(* The search for layers.                                                  *)

(* A search in one of some phases stays between 0 and all the layers.      *)
Search(s, phases) ==
  /\ s \in [phase : phases, low : 0 .. tuning.maximum, high : Int, maximum : {tuning.maximum},
            seed : 0 .. tuning.maximum, budget : Int, seen : SUBSET Int]
  /\ s.high <= tuning.maximum
  /\ s.phase = "halve" => s.low < s.high

(* The phases of a search for layers that ask for one more test.           *)
Asking == {"top", "seed", "halve", "last"}
Phases == Asking \cup {"end"}

(* A new search asks for a number of layers that there is.                 *)
LEMMA NewSearchTyped == ASSUME Given, NEW where PROVE Search(NewSearch(where), Asking)
<1>1. tuning.maximum \in Nat /\ tuning.maximum > 1
  BY Limits
<1>2. tuning.maximum - 1 \in 0 .. tuning.maximum /\ 0 \in 0 .. tuning.maximum
  BY <1>1
<1> QED
  BY <1>1, <1>2 DEF NewSearch, BoundedLayers, Search, Asking

(* It asks for a number of layers that there is.                           *)
LEMMA LayersTyped ==
  ASSUME Given, NEW s, Search(s, Asking)
  PROVE  Layers(s) \in 0 .. tuning.maximum
<1>1. tuning.maximum \in Nat
  BY Limits
<1>2. ASSUME s.phase = "halve" PROVE Middle(s) \in 0 .. tuning.maximum
  BY <1>1, <1>2 DEF Search, Middle
<1> QED
  BY <1>1, <1>2 DEF Search, Asking, Layers

(* A search that settles where to go on stays a search.                    *)
LEMMA SettleTyped ==
  ASSUME Given, NEW s, Search([s EXCEPT !.phase = "top"], Phases),
         s = [s EXCEPT !.phase = s.phase]
  PROVE  Search(Settle(s), Phases)
BY DEF Search, Settle, Phases, Asking

(* The answer leads to a search, or to its end.                            *)
LEMMA TestedTyped ==
  ASSUME Given, NEW s, Search(s, Asking), NEW ok \in BOOLEAN
  PROVE  Search(Tested(s, ok), Phases)
<1> DEFINE n == Layers(s)
           told == [s EXCEPT !.seen = @ \cup {n}]
<1>1. n \in 0 .. tuning.maximum /\ tuning.maximum \in Nat
  BY LayersTyped, Limits
<1> HIDE DEF n
<1>2. told.seen \subseteq Int
  BY <1>1 DEF Search
<1>3. Search(told, Phases)
  BY <1>1 DEF Search, Phases, Asking
<1>4. CASE s.phase = "top" /\ ok
  <2>1. Tested(s, ok) = [told EXCEPT !.phase = "end"]
    BY <1>4 DEF Tested, n
  <2> QED
    BY <1>3, <2>1 DEF Search, Phases, Asking
<1>5. CASE s.phase = "top" /\ ~ok
  <2> DEFINE below == [told EXCEPT !.high = s.maximum - 1]
  <2>1. Tested(s, ok) = IF s.seed # 0 /\ 1 < s.budget
                        THEN [below EXCEPT !.phase = "seed"] ELSE Settle(below)
    BY <1>5 DEF Tested, n
  <2> HIDE DEF told
  <2>2. s.maximum - 1 \in Int /\ s.maximum - 1 <= tuning.maximum
    BY <1>1 DEF Search
  <2>3. ASSUME NEW phase \in {"seed", "top"} PROVE Search([below EXCEPT !.phase = phase], Phases)
    BY <1>3, <2>2 DEF Search, Phases, Asking
  <2>4. below = [below EXCEPT !.phase = below.phase]
    BY <1>3 DEF Search
  <2> HIDE DEF below
  <2> QED
    BY <2>1, <2>3, <2>4, SettleTyped
<1>6. ASSUME NEW low \in 0 .. tuning.maximum, NEW high \in Int, high <= tuning.maximum,
             Tested(s, ok) = Settle([told EXCEPT !.low = low, !.high = high])
      PROVE  Search(Tested(s, ok), Phases)
  <2> DEFINE next == [told EXCEPT !.low = low, !.high = high]
  <2>1. Search([next EXCEPT !.phase = "top"], Phases)
    BY <1>1, <1>3, <1>6 DEF Search, Phases, Asking
  <2>2. next = [next EXCEPT !.phase = next.phase]
    BY <1>3 DEF Search
  <2> HIDE DEF next
  <2>3. Search(Settle(next), Phases)
    BY <2>1, <2>2, SettleTyped
  <2> QED
    BY <1>6, <2>3 DEF next
<1>7. CASE s.phase \in {"seed", "halve"}
  <2>1. s.high \in Int /\ s.low \in 0 .. tuning.maximum /\ s.high <= tuning.maximum
    BY DEF Search
  <2>2. told = [told EXCEPT !.low = s.low] /\ told = [told EXCEPT !.high = s.high]
    BY DEF Search
  <2>3. CASE ok
    <3>1. Tested(s, ok) = Settle([told EXCEPT !.low = n])
      BY <1>7, <2>3 DEF Tested, n
    <3>2. [told EXCEPT !.low = n] = [told EXCEPT !.low = n, !.high = s.high]
      BY DEF Search
    <3> QED
      BY <1>1, <1>6, <2>1, <3>1, <3>2
  <2>4. CASE ~ok
    <3>1. \E high \in {n - 1, Least(s.high, n - 1)} : Tested(s, ok) = Settle([told EXCEPT !.high = high])
      BY <1>7, <2>4 DEF Tested, n
    <3>2. \A high \in {n - 1, Least(s.high, n - 1)} : high \in Int /\ high <= tuning.maximum
      BY <1>1, <2>1 DEF Least
    <3>3. PICK high \in Int : /\ high <= tuning.maximum
                              /\ Tested(s, ok) = Settle([told EXCEPT !.high = high])
      <4> HIDE DEF told
      <4> QED
        BY <3>1, <3>2
    <3>4. [told EXCEPT !.high = high] = [told EXCEPT !.low = s.low, !.high = high]
      BY DEF Search
    <3> QED
      BY <1>6, <2>1, <3>3, <3>4
  <2> QED
    BY <2>3, <2>4
<1>8. CASE s.phase = "last"
  <2>1. Tested(s, ok) = [told EXCEPT !.phase = "end"]
    BY <1>8 DEF Tested, n
  <2> QED
    BY <1>3, <2>1 DEF Search, Phases, Asking
<1> QED
  BY <1>4, <1>5, <1>7, <1>8 DEF Search, Asking

-------------------------------------------------------------------------------
(* The invariant.                                                          *)

(* What the rows of a stage have to rest on.                               *)
Kept(m) ==
  ~RetryFailed /\ (Capacity \/ stage \in {"validate", "frontier"}) => Backed(m)

(* The rows that the current stage may go on with.                         *)
Good == {m \in Measured : Kept(m)}

(* The parts of the invariant: the stage of the tune, ...                  *)
Staged ==
  /\ stage \in Stages
  /\ Capacity => stage \notin {"coarse", "target", "validate"}
  /\ stage = "frontier" => passed # <<>>

(* ... what it still has to test, ...                                      *)
Working ==
  /\ todo \in Seq(Configs) /\ again \in BOOLEAN /\ admitted \subseteq Configs
  /\ Search(search, Asking)

(* ... the rows of the cache, ...                                          *)
Recorded == \A k \in DOMAIN table : k[1] \in Configs /\ table[k] \in Results

(* ... the frontiers found so far, ...                                     *)
Charted == \A c \in DOMAIN frontiers : c \in Configs /\ frontiers[c] \in Nat

(* ... what was lost and how often the tune was run, ...                   *)
Counted ==
  /\ late \in BOOLEAN /\ losses \in 0 .. rig.losses
  /\ session \in 1 .. MaxSessions

(* ... and the profile.                                                    *)
Profiled == profile.session \in 0 .. session /\ ProfileWasValidated

(* What holds throughout: a row that a stage keeps rests on a row of the   *)
(* table where that matters, and the table keeps what it rests on.         *)
Inv ==
  /\ Given /\ Staged /\ Working /\ passed \in Seq(Good)
  /\ Recorded /\ Charted /\ Counted /\ Profiled

(* The invariant says what the properties do.                              *)
LEMMA InvSuffices == Inv => TypeOK /\ ProfileWasValidated
<1> SUFFICES ASSUME Inv PROVE TypeOK
  BY DEF Inv, Profiled
<1>1. passed \in Seq(Measured)
  <2>1. Good \subseteq Measured
    BY DEF Good
  <2> QED
    BY <2>1, SeqMonotonic DEF Inv
<1>2. Layers(search) \in 0 .. tuning.maximum
  BY LayersTyped DEF Inv, Working
<1> QED
  BY <1>1, <1>2 DEF Inv, TypeOK, Staged, Working, Recorded, Charted, Counted, Profiled

-------------------------------------------------------------------------------
(* The table.                                                              *)

(* A row that is kept is the one that is found.                            *)
LEMMA KeepRow ==
  ASSUME NEW key, NEW r, Keep(key, r)
  PROVE  \A k : Row(k)' = IF k = key THEN r ELSE Row(k)
<1>1. DOMAIN table' = DOMAIN table \cup {key}
  BY DEF Keep
<1>2. \A k \in DOMAIN table' : table'[k] = IF k = key THEN r ELSE table[k]
  BY DEF Keep
<1> QED
  BY <1>1, <1>2 DEF Row

(* A row that is kept is of a configuration of this rig.                   *)
LEMMA KeepRecorded ==
  ASSUME Given, UNCHANGED args, Recorded, NEW c \in Configs, NEW kind, NEW r \in Results,
         Keep(Key(c, kind), r)
  PROVE  Recorded'
<1>1. Configs' = Configs /\ Results' = Results
  BY DEF args, Configs, Results
<1>2. DOMAIN table' = DOMAIN table \cup {Key(c, kind)}
  BY DEF Keep
<1>3. \A k \in DOMAIN table' : table'[k] = IF k = Key(c, kind) THEN r ELSE table[k]
  BY DEF Keep
<1>4. Key(c, kind)[1] = c
  BY DEF Key
<1> QED
  BY <1>1, <1>2, <1>3, <1>4 DEF Recorded

(* What is overwritten did not succeed.                                    *)
Replaces(c, kind, r) ==
  Keep(Key(c, kind), r) /\ (kind = "static-rejection" \/ ~Reusable(Key(c, kind)))

(* So what a choice rests on stays, unless failures are to be retried.     *)
LEMMA BackingStays ==
  ASSUME UNCHANGED args, ~RetryFailed,
         UNCHANGED table \/ \E c, kind, r : Replaces(c, kind, r)
  PROVE  \A m : Backed(m) => Backed(m)'
<1>1. Capacity' = Capacity
  BY DEF args, Capacity
<1>2. ASSUME NEW c, NEW kind, kind # "static-rejection", Row(Key(c, kind)).status = "ok"
      PROVE  Row(Key(c, kind))' = Row(Key(c, kind))
  <2>1. CASE UNCHANGED table
    BY <2>1 DEF Row
  <2>2. ASSUME NEW d, NEW which, NEW r, Replaces(d, which, r)
        PROVE  Row(Key(c, kind))' = Row(Key(c, kind))
    <3>1. Key(c, kind) # Key(d, which)
      BY <1>2, <2>2 DEF Replaces, Key, Reusable, Transient
    <3> QED
      BY <2>2, <3>1, KeepRow DEF Replaces
  <2> QED
    BY <2>1, <2>2
<1>3. TAKE m
<1>4. HAVE Backed(m)
<1> QED
  BY <1>1, <1>2, <1>4 DEF Backed

(* The same of the rows of a stage, and of the profile.                    *)
LEMMA GoodStays ==
  ASSUME UNCHANGED args,
         UNCHANGED table \/ \E c, kind, r : Replaces(c, kind, r),
         Capacity \/ stage' \notin {"validate", "frontier"} \/ stage' = stage
  PROVE  Good \subseteq Good'
<1>1. Capacity' = Capacity /\ Measured' = Measured
  BY DEF args, Capacity, Measured, Configs
<1>2. ~RetryFailed => \A m : Backed(m) => Backed(m)'
  BY BackingStays
<1>3. \A m : Kept(m) => Kept(m)'
  BY <1>1, <1>2 DEF Kept
<1> QED
  BY <1>1, <1>3 DEF Good

(* A step that leaves the profile alone and replaces no row that succeeded *)
(* leaves it well founded, and a later run of the tune does too.           *)
LEMMA ProfileStays ==
  ASSUME Profiled, Counted, UNCHANGED <<args, profile>>, session' \in {session, session + 1},
         UNCHANGED table \/ \E c, kind, r : Replaces(c, kind, r)
  PROVE  Profiled'
<1>1. profile.session \in 0 .. session'
  BY DEF Profiled, Counted
<1>2. ASSUME profile.session # 0, ~RetryFailed PROVE Backed(profile)'
  <2>1. Backed(profile)
    BY <1>2 DEF Profiled, ProfileWasValidated
  <2>2. ASSUME NEW m, m = profile PROVE Backed(profile)'
    <3>1. Backed(m)'
      BY <1>2, <2>1, <2>2, BackingStays
    <3>2. profile' = m
      BY <2>2
    <3> QED
      BY <3>1, <3>2 DEF Backed
  <2> QED
    BY <2>2
<1> QED
  BY <1>1, <1>2 DEF Profiled, ProfileWasValidated

-------------------------------------------------------------------------------
(* Measurements.                                                           *)

(* What is measured is a configuration.                                    *)
LEMMA ConfigTyped ==
  ASSUME Given, Working, todo # <<>>
  PROVE  /\ Head(todo) \in Configs /\ Tail(todo) \in Seq(Configs)
         /\ Config \in Configs /\ Alternate(Config) \in Configs
<1>1. Head(todo) \in Configs /\ Tail(todo) \in Seq(Configs)
  BY HeadTailProperties DEF Working
<1>2. \A c \in Configs : Alternate(c) \in Configs
  BY DEF Configs, Alternate
<1>3. Layers(search) \in 0 .. tuning.maximum
  BY LayersTyped DEF Working
<1>4. [Head(todo) EXCEPT !.ngl = Layers(search)] \in Configs
  BY <1>1, <1>3 DEF Configs
<1>5. Config \in {Alternate(Head(todo)), [Head(todo) EXCEPT !.ngl = Layers(search)], Head(todo)}
  BY DEF Config, Layered
<1> QED
  BY <1>1, <1>2, <1>4, <1>5

(* Trials have results.                                                    *)
LEMMA ResultsTyped ==
  ASSUME Given, NEW c \in Configs, NEW kind
  PROVE  Definitive(c, kind) \in Results /\ Losable(kind) \subseteq Results
<1>1. Rate(c, kind) \in Int
  <2>1. /\ rig.shallow \in [DOMAIN rig.fits -> Int] /\ rig.deep \in [DOMAIN rig.fits -> Int]
        /\ rig.relief \in Int
    BY FunnelAssumption DEF Given
  <2>2. c.placement \in DOMAIN rig.fits /\ c.ngl \in Int
    BY DEF Configs
  <2>3. rig.shallow[c.placement] \in Int /\ rig.deep[c.placement] \in Int
    BY <2>1, <2>2
  <2> DEFINE smoke == {"startup", "coarse", "coarse-server", "partial-feasibility",
                       "partial-diagnostic"}
             rate == IF kind \in smoke THEN rig.shallow ELSE rig.deep
             more == IF c.ngl < tuning.maximum THEN rig.relief ELSE 0
  <2>4. rate[c.placement] \in Int
    BY <2>3
  <2>5. more \in Int
    BY <2>1
  <2>6. Rate(c, kind) = rate[c.placement] + more
    BY DEF Rate
  <2> HIDE DEF rate, more
  <2> QED
    BY <2>4, <2>5, <2>6
<1>2. Fits(c) \in BOOLEAN
  BY DEF Fits
<1>3. Ok(Rate(c, kind), Fits(c)) \in Results
  BY <1>1, <1>2 DEF Ok, Results
<1>4. \A status \in {"failed", "unsupported", "timeout", "lost", "interrupted"} :
        Failure(status) \in Results
  BY DEF Failure, Results, Transient
<1> QED
  BY <1>3, <1>4 DEF Definitive, Losable

(* Rows have, if they are reused.                                          *)
LEMMA ReusableTyped ==
  ASSUME Recorded, NEW key, Reusable(key)
  PROVE  Row(key) \in Results
BY DEF Recorded, Reusable, Row, Failure

(* The result of a step, which may be a new row of the stage.              *)
LEMMA UseTyped ==
  ASSUME Inv, Measuring, UNCHANGED args, NEW r \in Results, Use(r),
         Good \subseteq Good',
         Passes(r) => [config |-> Config, score |-> r.score] \in Good'
  PROVE  Staged' /\ Working' /\ passed' \in Seq(Good)' /\ Charted'
<1> USE DEF Inv
<1>1. Configs' = Configs /\ Capacity' = Capacity /\ tuning' = tuning
  BY DEF args, Configs, Capacity
<1>2. /\ Head(todo) \in Configs /\ Tail(todo) \in Seq(Configs)
      /\ Config \in Configs /\ Alternate(Config) \in Configs
  BY ConfigTyped DEF Measuring
<1>3. stage' = stage /\ frontiers' = frontiers /\ stage # "frontier"
  BY DEF Use, Measuring
<1>4. admitted' \subseteq Configs /\ again' \in BOOLEAN
  <2>1. admitted' \subseteq admitted \cup {Config, Alternate(Config)}
    BY DEF Use
  <2>2. again' \in BOOLEAN
    BY DEF Use, Retries
  <2> QED
    BY <1>2, <2>1, <2>2 DEF Working
<1>5. todo' \in Seq(Configs) /\ Search(search', Asking)
  <2>1. CASE Layered
    <3> DEFINE next == Tested(search, r.status = "ok")
    <3>1. Sought(r.status = "ok")
      BY <2>1 DEF Use
    <3>2. Search(next, Phases)
      BY TestedTyped DEF Working
    <3>3. next.phase # "end" => Search(next, Asking)
      <4> HIDE DEF next
      <4> QED
        BY <3>2 DEF Search, Phases
    <3>4. \E where : search' = IF next.phase = "end" THEN NewSearch(where) ELSE next
      BY <3>1 DEF Sought
    <3>5. todo' = IF next.phase = "end" THEN Tail(todo) ELSE todo
      BY <3>1 DEF Sought
    <3> HIDE DEF next
    <3> QED
      BY <1>2, <3>3, <3>4, <3>5, NewSearchTyped DEF Working
  <2>2. CASE ~Layered
    BY <1>2, <2>2 DEF Use, Working
  <2> QED
    BY <2>1, <2>2
<1>6. passed' \in Seq(Good)'
  <2>1. passed \in Seq(Good')
    BY SeqMonotonic
  <2>2. passed' = passed \/ (Passes(r) /\ passed' = Append(passed, [config |-> Config, score |-> r.score]))
    BY DEF Use
  <2> QED
    BY <2>1, <2>2, AppendProperties
<1>7. Search(search, Asking)'
  BY <1>1, <1>5 DEF Search
<1> QED
  BY <1>1, <1>3, <1>4, <1>5, <1>6, <1>7 DEF Staged, Working, Charted

(* The row that a stage keeps rests on the row of the table.               *)
LEMMA PassesGood ==
  ASSUME Inv, Measuring, UNCHANGED <<args, stage>>, NEW r \in Results, Passes(r),
         \A key : key = Key(Config, Kind) => Row(key)' = r
  PROVE  [config |-> Config, score |-> r.score] \in Good'
<1> DEFINE m == [config |-> Config, score |-> r.score]
<1> USE DEF Inv
<1>1. Capacity' = Capacity /\ Measured' = Measured /\ r.status = "ok" /\ stage # "diagnose"
  BY DEF args, Capacity, Measured, Configs, Passes
<1>2. m \in Measured
  BY ConfigTyped DEF Measuring, Measured, Results
<1>3. ASSUME NEW c, c = Config PROVE ~RetryFailed /\ Capacity => Backed([config |-> c, score |-> r.score])'
  <2> SUFFICES ASSUME Capacity
               PROVE  \E kind \in {"startup", "partial-feasibility"} : Row(Key(c, kind))'.status = "ok"
    BY <1>1 DEF Backed
  <2>1. stage \in {"startup", "fallback"}
    BY <1>1 DEF Measuring, Staged
  <2>2. Kind \in {"startup", "partial-feasibility"}
    BY <2>1 DEF Kind
  <2>3. \A kind : kind = Kind => Row(Key(c, kind))' = r
    BY <1>3
  <2> QED
    BY <1>1, <2>2, <2>3
<1>4. ASSUME NEW c, c = Config, ~Capacity, stage = "validate"
      PROVE  Backed([config |-> c, score |-> r.score])'
  <2>1. Kind = "validate"
    BY <1>4 DEF Kind
  <2>2. \A kind : kind = Kind => Row(Key(c, kind))' = r
    BY <1>4
  <2>3. Row(Key(c, "validate"))' = r
    BY <2>1, <2>2
  <2> QED
    BY <1>1, <1>4, <2>3 DEF Backed
<1>5. stage # "frontier" /\ stage' = stage
  BY DEF Measuring
<1>6. ASSUME NEW x, x = m PROVE x \in Good'
  <2>1. ASSUME NEW c, c = Config PROVE Kept([config |-> c, score |-> r.score])'
    BY <1>1, <1>3, <1>4, <1>5, <2>1 DEF Kept
  <2>2. PICK c : c = Config
    OBVIOUS
  <2>3. x = [config |-> c, score |-> r.score]
    BY <1>6, <2>2
  <2> QED
    BY <1>1, <1>2, <1>6, <2>1, <2>2, <2>3 DEF Good
<1> QED
  BY <1>6

-------------------------------------------------------------------------------
(* Steps of a stage.                                                       *)

(* A test that fails keeps the rows that the stage has.                    *)
LEMMA FailTyped ==
  ASSUME Inv, Fail, UNCHANGED args, Good \subseteq Good'
  PROVE  Staged' /\ Working' /\ passed' \in Seq(Good)' /\ Charted'
<1> USE DEF Inv
<1>1. Configs' = Configs /\ tuning' = tuning /\ UNCHANGED <<todo, again, passed, search, admitted, frontiers>>
  BY DEF args, Configs, Fail
<1>2. passed' \in Seq(Good)'
  BY <1>1, SeqMonotonic
<1>3. Staged'
  BY DEF Fail, Staged, Stages
<1>4. Search(search, Asking)'
  BY <1>1 DEF Working, Search
<1> QED
  BY <1>1, <1>2, <1>3, <1>4 DEF Working, Charted

(* The table stays as it is.                                               *)
LEMMA TableStays ==
  ASSUME Inv, UNCHANGED <<args, table, profile>>, session' = session
  PROVE  Given' /\ Recorded' /\ Profiled'
<1>1. Given' /\ Configs' = Configs /\ Results' = Results
  BY DEF Inv, Given, args, Configs, Results
<1>2. Recorded'
  BY <1>1 DEF Inv, Recorded
<1> QED
  BY <1>1, <1>2, ProfileStays DEF Inv

(* ... or a row that did not succeed is replaced.                          *)
LEMMA TableReplaces ==
  ASSUME Inv, UNCHANGED <<args, profile>>, session' = session,
         NEW c \in Configs, NEW kind, NEW r \in Results, Replaces(c, kind, r)
  PROVE  Given' /\ Recorded' /\ Profiled'
<1>1. Given'
  BY DEF Inv, Given, args
<1>2. Recorded'
  BY KeepRecorded DEF Inv, Replaces
<1> QED
  BY <1>1, <1>2, ProfileStays DEF Inv

(* A run that ends with an error.                                          *)
LEMMA Ends == ASSUME Inv, OutOfTime \/ Unmappable \/ Interrupt \/ Die PROVE Inv'
<1>1. Fail /\ UNCHANGED <<args, late, session, losses, profile>>
  BY DEF OutOfTime, Unmappable, Interrupt, Die
<1>2. Counted'
  BY <1>1 DEF Inv, Counted, args
<1>3. stage' \notin {"validate", "frontier"}
  BY <1>1 DEF Fail
<1>4. CASE UNCHANGED table
  BY <1>1, <1>2, <1>3, <1>4, GoodStays, FailTyped, TableStays DEF Inv
<1>5. ASSUME Measuring, ~Reusable(Key(Config, Kind)), Keep(Key(Config, Kind), Failure("interrupted"))
      PROVE  Inv'
  <2>1. Failure("interrupted") \in Results
    BY DEF Failure, Results, Transient
  <2>2. Config \in Configs
    BY <1>5, ConfigTyped DEF Inv, Measuring
  <2>3. Replaces(Config, Kind, Failure("interrupted"))
    BY <1>5 DEF Replaces
  <2> QED
    BY <1>1, <1>2, <1>3, <2>1, <2>2, <2>3, GoodStays, FailTyped, TableReplaces DEF Inv
<1> QED
  BY <1>4, <1>5 DEF OutOfTime, Unmappable, Interrupt, Die

(* A row that is reused.                                                   *)
LEMMA Reuses == ASSUME Inv, Reuse PROVE Inv'
<1>1. /\ Measuring /\ Reusable(Key(Config, Kind)) /\ Use(Row(Key(Config, Kind)))
      /\ UNCHANGED <<args, late, session, table, losses, profile>>
  BY DEF Reuse
<1>2. stage' = stage
  BY <1>1 DEF Use
<1>3. Counted'
  BY <1>1 DEF Inv, Counted, args
<1>4. PICK r : r = Row(Key(Config, Kind))
  OBVIOUS
<1>5. r \in Results
  BY <1>1, <1>4, ReusableTyped DEF Inv
<1>6. \A key : Row(key)' = Row(key)
  BY <1>1 DEF Row
<1>7. Passes(r) => [config |-> Config, score |-> r.score] \in Good'
  BY <1>1, <1>2, <1>4, <1>5, <1>6, PassesGood
<1>8. Good \subseteq Good'
  BY <1>1, <1>2, GoodStays
<1> QED
  BY <1>1, <1>3, <1>4, <1>5, <1>7, <1>8, UseTyped, TableStays DEF Inv

(* A trial.                                                                *)
LEMMA Executes == ASSUME Inv, Execute PROVE Inv'
<1>1. /\ Measuring /\ ~Reusable(Key(Config, Kind))
      /\ UNCHANGED <<args, late, session, profile>>
  BY DEF Execute
<1>2. PICK r \in {Definitive(Config, Kind)} \cup
                   (IF losses < rig.losses THEN Losable(Kind) ELSE {}) :
         /\ Use(r) /\ Keep(Key(Config, Kind), r)
         /\ losses' = IF r.status \in {"timeout", "lost"} THEN losses + 1 ELSE losses
  BY DEF Execute
<1>3. Config \in Configs
  BY <1>1, ConfigTyped DEF Inv, Measuring
<1>4. r \in Results
  BY <1>2, <1>3, ResultsTyped DEF Inv
<1>5. stage' = stage
  BY <1>2 DEF Use
<1>6. Counted'
  <2>1. losses' \in {losses, losses + 1} /\ (losses' = losses + 1 => losses < rig.losses)
    <3>1. Definitive(Config, Kind).status \notin {"timeout", "lost"}
      BY DEF Definitive, Ok, Failure
    <3> QED
      BY <1>2, <3>1
  <2>2. rig.losses \in Nat
    BY FunnelAssumption DEF Inv, Given
  <2>3. losses' \in 0 .. rig.losses
    BY <2>1, <2>2 DEF Inv, Counted
  <2> QED
    BY <1>1, <2>3 DEF Inv, Counted, args
<1>7. Replaces(Config, Kind, r)
  BY <1>1, <1>2 DEF Replaces
<1>8. Good \subseteq Good'
  BY <1>1, <1>5, <1>7, GoodStays
<1>9. \A key : key = Key(Config, Kind) => Row(key)' = r
  BY <1>2, KeepRow
<1>10. Passes(r) => [config |-> Config, score |-> r.score] \in Good'
  BY <1>1, <1>4, <1>5, <1>9, PassesGood
<1> QED
  BY <1>1, <1>2, <1>3, <1>4, <1>6, <1>7, <1>8, <1>10, UseTyped, TableReplaces DEF Inv

(* A placement that cannot be mapped.                                      *)
LEMMA Rejects == ASSUME Inv, StaticReject PROVE Inv'
<1>1. /\ Measuring /\ Keep(Key(Config, "static-rejection"), Failure("unsupported"))
      /\ todo' = Tail(todo) /\ stage # "frontier"
      /\ UNCHANGED <<args, stage, again, passed, search, admitted, frontiers,
                     late, session, losses, profile>>
  BY DEF StaticReject, Measuring
<1>2. Config \in Configs /\ Tail(todo) \in Seq(Configs)
  BY <1>1, ConfigTyped DEF Inv, Measuring
<1>3. Failure("unsupported") \in Results
  BY DEF Failure, Results
<1>4. Replaces(Config, "static-rejection", Failure("unsupported"))
  BY <1>1 DEF Replaces
<1>5. Good \subseteq Good'
  BY <1>1, <1>4, GoodStays
<1>6. passed' \in Seq(Good)'
  BY <1>1, <1>5, SeqMonotonic DEF Inv
<1>7. Configs' = Configs /\ tuning' = tuning
  BY <1>1 DEF args, Configs
<1>8. Staged' /\ Charted' /\ Counted'
  BY <1>1, <1>7 DEF Inv, Staged, Charted, Counted, args, Capacity
<1>9. Working'
  BY <1>1, <1>2, <1>7 DEF Inv, Working, Search
<1> QED
  BY <1>1, <1>2, <1>3, <1>4, <1>6, <1>8, <1>9, TableReplaces DEF Inv

(* Full offload is refused.                                                *)
LEMMA Refuses == ASSUME Inv, RefuseFull PROVE Inv'
<1>1. /\ stage = "diagnose" /\ todo # <<>> /\ Sought(FALSE)
      /\ UNCHANGED <<args, stage, again, passed, admitted, frontiers,
                     late, session, table, losses, profile>>
  BY DEF RefuseFull
<1> DEFINE next == Tested(search, FALSE)
<1>2. Search(next, Phases)
  BY TestedTyped DEF Inv, Working
<1>3. \E where : search' = IF next.phase = "end" THEN NewSearch(where) ELSE next
  BY <1>1 DEF Sought
<1>4. todo' \in {todo, Tail(todo)}
  BY <1>1 DEF Sought
<1> HIDE DEF next
<1>5. next.phase # "end" => Search(next, Asking)
  BY <1>2 DEF Search, Phases
<1>6. Search(search', Asking)
  BY <1>3, <1>5, NewSearchTyped DEF Inv
<1>7. Configs' = Configs /\ tuning' = tuning
  BY <1>1 DEF args, Configs
<1>8. Search(search, Asking)' /\ todo' \in Seq(Configs)
  BY <1>1, <1>4, <1>6, <1>7, ConfigTyped DEF Search, Inv, Working
<1>9. Good \subseteq Good'
  BY <1>1, GoodStays
<1>10. passed' \in Seq(Good)'
  BY <1>1, <1>9, SeqMonotonic DEF Inv
<1>11. Staged' /\ Charted' /\ Counted'
  BY <1>1, <1>7 DEF Inv, Staged, Charted, Counted, args, Capacity
<1>12. Working'
  BY <1>1, <1>7, <1>8 DEF Inv, Working
<1> QED
  BY <1>1, <1>10, <1>11, <1>12, TableStays DEF Inv

(* The context search of a candidate.                                      *)
LEMMA Searches == ASSUME Inv, Frontier \/ StopSearching PROVE Inv'
<1>1. /\ stage = "frontier" /\ todo # <<>> /\ todo' \in {Tail(todo), <<>>}
      /\ UNCHANGED <<args, stage, again, passed, search, admitted, session, table, profile>>
  BY DEF Frontier, StopSearching
<1>2. Configs' = Configs /\ tuning' = tuning /\ rig' = rig
  BY <1>1 DEF args, Configs
<1>3. Head(todo) \in Configs /\ todo' \in Seq(Configs)
  BY <1>1, ConfigTyped, EmptySeq DEF Inv
<1>4. Safe(Head(todo)) \in Nat
  <2>1. rig.safe \in [DOMAIN rig.fits -> [ToSet(FullTiers) -> Nat]]
    BY FunnelAssumption DEF Inv, Given
  <2> QED
    BY <1>3, <2>1 DEF Safe, Configs
<1>5. Charted'
  <2>1. CASE UNCHANGED frontiers
    BY <1>2, <2>1 DEF Inv, Charted
  <2>2. CASE Frontier
    <3>1. PICK found \in 0 .. Safe(Head(todo)) :
             frontiers' = [c \in DOMAIN frontiers \cup {Head(todo)} |->
                             IF c = Head(todo) THEN found ELSE frontiers[c]]
      BY <2>2 DEF Frontier
    <3>2. DOMAIN frontiers' = DOMAIN frontiers \cup {Head(todo)} /\ found \in Nat
      BY <1>4, <3>1
    <3>3. \A c \in DOMAIN frontiers' : frontiers'[c] = IF c = Head(todo) THEN found ELSE frontiers[c]
      BY <3>1
    <3> QED
      BY <1>2, <1>3, <3>2, <3>3 DEF Inv, Charted
  <2> QED
    BY <2>1, <2>2 DEF StopSearching
<1>6. Counted'
  <2>1. rig.losses \in Nat
    BY FunnelAssumption DEF Inv, Given
  <2>2. losses' = losses \/ (losses < rig.losses /\ losses' = losses + 1)
    BY DEF Frontier, StopSearching
  <2>3. losses' \in 0 .. rig.losses
    BY <2>1, <2>2 DEF Inv, Counted
  <2>4. late' \in {late, TRUE}
    BY DEF Frontier, StopSearching
  <2> QED
    BY <1>1, <1>2, <2>3, <2>4 DEF Inv, Counted
<1>7. Good \subseteq Good'
  BY <1>1, GoodStays
<1>8. passed' \in Seq(Good)'
  BY <1>1, <1>7, SeqMonotonic DEF Inv
<1>9. Staged'
  BY <1>1, <1>2 DEF Inv, Staged, Capacity
<1>10. Working'
  BY <1>1, <1>2, <1>3 DEF Inv, Working, Search
<1> QED
  BY <1>1, <1>5, <1>6, <1>8, <1>9, <1>10, TableStays DEF Inv

(* The deadline passes.                                                    *)
LEMMA Expires == ASSUME Inv, Deadline \/ UNCHANGED vars PROVE Inv'
<1>1. UNCHANGED <<args, run, session, table, losses, profile>> /\ late' \in {late, TRUE}
  BY DEF Deadline, vars
<1>2. Configs' = Configs /\ tuning' = tuning /\ rig' = rig
  BY <1>1 DEF args, Configs
<1>3. UNCHANGED <<stage, todo, again, passed, search, admitted, frontiers>>
  BY <1>1 DEF run
<1>4. Good \subseteq Good'
  BY <1>1, <1>3, GoodStays
<1>5. passed' \in Seq(Good)'
  BY <1>3, <1>4, SeqMonotonic DEF Inv
<1>6. Staged' /\ Charted' /\ Counted' /\ Working'
  BY <1>1, <1>2, <1>3 DEF Inv, Staged, Charted, Counted, Working, Search, Capacity
<1> QED
  BY <1>1, <1>5, <1>6, TableStays DEF Inv

-------------------------------------------------------------------------------
(* From stage to stage.                                                    *)

(* Rows that a tune for a large context may go on with, ...                *)
Sound == {m \in Measured : ~RetryFailed /\ Capacity => Backed(m)}
(* ... and rows that may compete in a choice of winners.                   *)
Solid == {m \in Measured : ~RetryFailed => Backed(m)}

(* What a stage does not change as it ends.                                *)
Still == UNCHANGED <<args, again, frontiers, late, session, table, losses, profile>>

(* A stage begins with rows that are good for it.                          *)
LEMMA Enters ==
  ASSUME Inv, Still, admitted' \subseteq Configs,
         NEW where \in Stages, NEW configs \in Seq(Configs), NEW rows \in Seq(Sound),
         Enter(where, configs, rows),
         Capacity => where \notin {"coarse", "target", "validate"},
         where = "frontier" => rows # <<>>,
         where \in {"validate", "frontier"} => rows \in Seq(Solid)
  PROVE  Inv'
<1>1. /\ stage' = where /\ todo' = configs /\ passed' = rows
      /\ search' = NewSearch(where)
  BY DEF Enter
<1>2. Configs' = Configs /\ tuning' = tuning /\ rig' = rig /\ Capacity' = Capacity
  BY DEF Still, args, Configs, Capacity
<1>3. \A m : Backed(m)' <=> Backed(m)
  BY DEF Still, args, Backed, Row, Capacity
<1>4. Sound \subseteq Good' \/ where \in {"validate", "frontier"}
  BY <1>1, <1>2, <1>3 DEF Sound, Good, Kept, Measured
<1>5. Solid \subseteq Good'
  BY <1>1, <1>2, <1>3 DEF Solid, Good, Kept, Measured
<1>6. passed' \in Seq(Good)'
  BY <1>1, <1>4, <1>5, SeqMonotonic
<1>7. Staged'
  BY <1>1, <1>2 DEF Staged
<1>8. Search(search, Asking)'
  BY <1>1, <1>2, NewSearchTyped DEF Inv, Search
<1>9. Working'
  BY <1>1, <1>2, <1>8 DEF Still, Inv, Working
<1>10. Charted' /\ Counted'
  BY <1>2 DEF Still, Inv, Charted, Counted
<1> QED
  BY <1>6, <1>7, <1>9, <1>10, TableStays DEF Inv, Still

(* Sound and solid rows can be selected from.                              *)
LEMMA Selectable ==
  ASSUME Given
  PROVE  /\ Scored(Sound) /\ Scored(Solid) /\ Solid \subseteq Sound
         /\ Sound \in SUBSET Measured /\ Solid \in SUBSET Measured
         /\ <<>> \in Seq(Sound) /\ <<>> \in Seq(Solid) /\ <<>> \in Seq(Configs)
         /\ Capacity => Sound = Solid
BY MeasuredScored DEF Scored, Sound, Solid

(* How many contexts are to be searched is a number.                       *)
LEMMA DesiredTyped ==
  ASSUME Given, NEW R, NEW rows \in Seq(R)
  PROVE  Desired(rows) \in Nat
<1>1. Len(rows) \in Nat
  BY LenProperties
<1> QED
  BY <1>1, Limits DEF Desired, Least

(* The candidates of the last choice are rows of the list.                 *)
LEMMA CandidatesKeep ==
  ASSUME Given, NEW R, Scored(R), NEW rows \in Seq(R)
  PROVE  Candidates(rows) \in Seq(R)
<1>1. Desired(rows) \in Nat /\ Len(rows) \in Nat
  BY DesiredTyped, LenProperties
<1>2. Least(Desired(rows), Len(rows)) \in Nat
  BY <1>1 DEF Least
<1> QED
  BY <1>1, <1>2, FirstKeeps, MaxContextKeeps DEF Candidates

(* The invariant survives the choice among the rows: a winner is solid.    *)
LEMMA Competes ==
  ASSUME Inv, Still, admitted' = admitted, NEW rows \in Seq(Solid), Compete(rows)
  PROVE  Inv'
<1> DEFINE winners == Fastest(rows)
<1>1. Given /\ admitted' \subseteq Configs
  BY DEF Inv, Working
<1>2. CASE rows = <<>>
  <2>1. Enter("failed", <<>>, <<>>)
    BY <1>2 DEF Compete
  <2>2. "failed" \in Stages
    BY DEF Stages
  <2> QED
    BY <1>1, <2>1, <2>2, Selectable, Enters
<1>3. CASE rows # <<>>
  <2>1. winners \in Seq(Solid) /\ Len(winners) = Len(rows)
    BY <1>1, Selectable, FastestKeeps
  <2>2. winners # <<>>
    BY <1>3, <2>1, EmptySeq
  <2>3. Enter("frontier", Rows(Candidates(winners)), winners)
    BY <1>3 DEF Compete
  <2> HIDE DEF winners
  <2>4. Candidates(winners) \in Seq(Solid)
    BY <1>1, <2>1, Selectable, CandidatesKeep
  <2>5. Rows(Candidates(winners)) \in Seq(Configs)
    BY <1>1, <2>4, Selectable, RowsTyped
  <2>6. winners \in Seq(Sound)
    BY <1>1, <2>1, Selectable, SeqMonotonic
  <2>7. "frontier" \in Stages
    BY DEF Stages
  <2> QED
    BY <1>1, <2>1, <2>2, <2>3, <2>5, <2>6, <2>7, Enters
<1> QED
  BY <1>2, <1>3

(* ... the step to the target depth, ...                                   *)
LEMMA Targets ==
  ASSUME Inv, Still, admitted' = admitted, NEW ranked \in Seq(Sound), Target(ranked)
  PROVE  Inv'
<1>1. Given /\ admitted' \subseteq Configs
  BY DEF Inv, Working
<1>2. CASE ranked = <<>>
  <2>1. Enter("failed", <<>>, <<>>)
    BY <1>2 DEF Target
  <2>2. "failed" \in Stages
    BY DEF Stages
  <2> QED
    BY <1>1, <2>1, <2>2, Selectable, Enters
<1>3. CASE ranked # <<>> /\ ~Capacity
  <2>1. Enter("target", Rows(ranked), <<>>)
    BY <1>3 DEF Target
  <2>2. "target" \in Stages
    BY DEF Stages
  <2>3. Rows(ranked) \in Seq(Configs)
    BY <1>1, Selectable, RowsTyped
  <2> QED
    BY <1>1, <1>3, <2>1, <2>2, <2>3, Selectable, Enters
<1>4. CASE ranked # <<>> /\ Capacity
  <2> DEFINE limit == Least(tuning.finalists, Budget.frontiers.capacity)
  <2>1. limit \in Nat
    BY <1>1, Limits DEF Least
  <2>2. Compete(MaxContextSelect(ranked, limit))
    BY <1>4 DEF Target
  <2> HIDE DEF limit
  <2>3. MaxContextSelect(ranked, limit) \in Seq(Sound)
    BY <1>1, <2>1, Selectable, MaxContextKeeps
  <2>4. Sound = Solid
    BY <1>1, <1>4, Selectable
  <2> QED
    BY <2>2, <2>3, <2>4, Competes
<1> QED
  BY <1>2, <1>3, <1>4

(* ... the fallback to partial offloading, ...                             *)
LEMMA Partials ==
  ASSUME Inv, Still, admitted' = admitted, NEW ranked \in Seq(Sound), Partial(ranked)
  PROVE  Inv'
<1>1. Given /\ admitted' \subseteq Configs
  BY DEF Inv, Working
<1>2. ASSUME NEW where \in {"fallback", "diagnose"}, Enter(where, Seeds, ranked)
      PROVE  Inv'
  <2>1. where \in Stages /\ where \notin {"coarse", "target", "validate", "frontier"}
    BY <1>2 DEF Stages
  <2> QED
    BY <1>1, <1>2, <2>1, SeedsTyped, Enters
<1> QED
  BY <1>2, Targets DEF Partial

(* Every stage comes to its end.                                           *)
LEMMA SelectKeeps ==
  ASSUME Given, NEW R, Scored(R), NEW rows \in Seq(R), NEW planned \in Nat
  PROVE  /\ Select(rows, planned) \in Seq(R)
         /\ StartupLimit(planned, rows) \in Nat
<1>1. Select(rows, planned) \in Seq(R)
  BY StratifiedKeeps, MaxContextKeeps DEF Select
<1>2. Len(rows) \in Nat
  BY LenProperties
<1> QED
  BY <1>1, <1>2, Limits DEF StartupLimit, Most, Least

(* ... the end of any stage, ...                                           *)
LEMMA StageEnds == ASSUME Inv, EndStage PROVE Inv'
<1>1. Given /\ Still /\ admitted' = admitted /\ admitted' \subseteq Configs
  BY DEF EndStage, Still, Inv, Working
<1>2. Good \subseteq Sound /\ (stage = "validate" => Good \subseteq Solid)
  BY DEF Good, Kept, Sound, Solid
<1>3. passed \in Seq(Sound) /\ (stage = "validate" => passed \in Seq(Solid))
  BY <1>2, SeqMonotonic DEF Inv
<1>4. CASE EndStartup
  <2> DEFINE rows == Select(passed, StartupLimit(Budget.startup, passed))
             smoke == Select(rows, StartupLimit(Budget.smoke, rows))
  <2>1. rows \in Seq(Sound)
    BY <1>1, <1>3, Selectable, Limits, SelectKeeps
  <2> HIDE DEF rows
  <2>2. smoke \in Seq(Sound)
    BY <1>1, <2>1, Selectable, Limits, SelectKeeps
  <2>3. IF Capacity THEN Partial(smoke) ELSE Enter("coarse", Rows(smoke), <<>>)
    BY <1>4 DEF EndStartup, rows
  <2> HIDE DEF smoke
  <2>4. CASE Capacity
    BY <1>1, <2>2, <2>3, <2>4, Partials
  <2>5. CASE ~Capacity
    <3>1. Rows(smoke) \in Seq(Configs) /\ "coarse" \in Stages
      BY <1>1, <2>2, Selectable, RowsTyped DEF Stages
    <3> QED
      BY <1>1, <2>3, <2>5, <3>1, Selectable, Enters
  <2> QED
    BY <2>4, <2>5
<1>5. StratifiedSelect(passed, Budget.coarse) \in Seq(Sound)
  BY <1>1, <1>3, Selectable, Limits, StratifiedKeeps
<1>6. CASE EndCoarse
  BY <1>1, <1>5, <1>6, Partials DEF EndCoarse
<1>7. CASE EndDiagnose
  BY <1>1, <1>3, <1>7, Targets DEF EndDiagnose
<1>8. CASE EndFallback
  BY <1>1, <1>5, <1>8, Targets DEF EndFallback
<1>9. CASE EndTarget
  <2> DEFINE limit == Least(tuning.finalists, Budget.finalists)
             kept == StratifiedSelect(passed, limit)
  <2>1. limit \in Nat
    BY <1>1, Limits DEF Least
  <2>2. stage = "target" /\ Enter("validate", Rows(kept), <<>>)
    BY <1>9 DEF EndTarget
  <2> HIDE DEF limit
  <2>3. kept \in Seq(Sound)
    BY <1>1, <1>3, <2>1, Selectable, StratifiedKeeps
  <2> HIDE DEF kept
  <2>4. Rows(kept) \in Seq(Configs) /\ "validate" \in Stages /\ ~Capacity
    BY <1>1, <2>2, <2>3, Selectable, RowsTyped DEF Stages, Inv, Staged
  <2> QED
    BY <1>1, <2>2, <2>4, Selectable, Enters
<1>10. CASE EndValidate
  BY <1>1, <1>3, <1>10, Competes DEF EndValidate
<1> QED
  BY <1>4, <1>6, <1>7, <1>8, <1>9, <1>10 DEF EndStage

(* ... and its begin.                                                      *)
LEMMA Begins == ASSUME Inv, Begin PROVE Inv'
<1>1. Given /\ Still /\ Enter("startup", Anchors, <<>>)
  BY DEF Begin, Still, Inv
<1>2. Anchors \in Seq(Configs) /\ "startup" \in Stages
  BY <1>1, AnchorsTyped DEF Stages
<1>3. \A i \in DOMAIN Anchors : Anchors[i] \in Configs
  BY <1>2, Indices
<1>4. admitted' \subseteq Configs
  BY <1>3 DEF Begin, ToSet
<1> QED
  BY <1>1, <1>2, <1>4, Selectable, Enters

-------------------------------------------------------------------------------
(* The choice.                                                             *)

(* The choice is one of the rows that compete.                             *)
LEMMA WinnerKeeps ==
  ASSUME Given, Charted, NEW R, Scored(R), passed \in Seq(R), passed # <<>>
  PROVE  Winner \in R
<1> DEFINE candidates == Candidates(passed)
           searched == {i \in DOMAIN candidates : candidates[i].config \in DOMAIN frontiers}
           balanced == IF candidates = <<>> THEN passed ELSE candidates
           safe(row) == IF Found(row.config) = 0 THEN rig.base ELSE Found(row.config)
           roomy == [i \in searched |-> <<0 - Found(candidates[i].config), 0 - candidates[i].score>>]
           weight(row) == <<0 - safe(row) * Fourth(row.score), 0 - safe(row), 0 - row.score,
                            0 - FamilyName(row.config)>>
           balance == [i \in DOMAIN balanced |-> weight(balanced[i])]
<1>1. \A config : Found(config) \in Int
  BY DEF Found, Charted
<1>2. candidates \in Seq(R)
  BY CandidatesKeep
<1>3. passed[1] \in R
  BY EmptySeq, ElementOfSeq
<1>4. Winner = IF Capacity /\ searched # {} THEN candidates[Sorted(roomy)[1]]
               ELSE IF tuning.objective = "balanced" THEN balanced[Sorted(balance)[1]]
               ELSE passed[1]
  BY DEF Winner
<1>5. searched \subseteq DOMAIN candidates /\ DOMAIN roomy = searched
  OBVIOUS
<1>6. \A i \in searched : roomy[i] \in Tuples(2)
  <2> TAKE i \in searched
  <2>1. candidates[i].score \in Int
    BY <1>2, Indices DEF Scored
  <2> HIDE DEF candidates
  <2>2. <<0 - Found(candidates[i].config), 0 - candidates[i].score>> \in Tuples(2)
    BY <1>1, <2>1 DEF Tuples
  <2> QED
    BY <2>2
<1>7. balanced \in Seq(R) /\ balanced # <<>>
  BY <1>2
<1>8. DOMAIN balance = DOMAIN balanced /\ DOMAIN balanced # {}
  <2>1. DOMAIN balance = DOMAIN balanced
    OBVIOUS
  <2> HIDE DEF balanced, balance
  <2>2. Len(balanced) \in Nat \ {0} /\ DOMAIN balanced = 1 .. Len(balanced)
    BY <1>7, EmptySeq, LenProperties
  <2>3. 1 \in DOMAIN balanced
    BY <2>2
  <2> QED
    BY <2>1, <2>3
<1>9. \A i \in DOMAIN balanced : balance[i] \in Tuples(4)
  <2> TAKE i \in DOMAIN balanced
  <2>1. PICK row \in R : row = balanced[i]
    BY <1>7, Indices
  <2>2. safe(row) \in Int
    <3>1. rig.base \in Int
      BY FunnelAssumption DEF Given
    <3> QED
      BY <1>1, <3>1
  <2>3. row.score \in Int /\ FamilyName(row.config) \in Int
    BY Names DEF Scored
  <2>4. Fourth(row.score) \in Int
    BY <2>3 DEF Fourth
  <2> HIDE DEF safe
  <2>5. safe(row) * Fourth(row.score) \in Int
    BY <2>2, <2>4
  <2>6. weight(row) \in Tuples(4)
    BY <2>2, <2>3, <2>5 DEF Tuples
  <2> HIDE DEF weight, balanced
  <2> QED
    BY <2>1, <2>6
<1> HIDE DEF candidates, searched, balanced, roomy, balance
<1>10. ASSUME searched # {} PROVE candidates[Sorted(roomy)[1]] \in R
  <2>1. Sorted(roomy)[1] \in searched
    BY <1>2, <1>5, <1>6, <1>10, RankedIndices DEF Sorted
  <2> QED
    BY <1>2, <1>5, <2>1, Indices
<1>11. balanced[Sorted(balance)[1]] \in R
  <2>1. Sorted(balance)[1] \in DOMAIN balanced
    BY <1>7, <1>8, <1>9, RankedIndices DEF Sorted
  <2> QED
    BY <1>7, <2>1, Indices
<1> QED
  BY <1>3, <1>4, <1>10, <1>11

(* It rests on what its row rests on.                                      *)
LEMMA Writes == ASSUME Inv, Write PROVE Inv'
<1>1. /\ stage = "frontier" /\ stage' = "done" /\ profile' = Result
      /\ UNCHANGED <<args, todo, again, passed, search, admitted, frontiers,
                     late, session, table, losses>>
  BY DEF Write
<1>2. Given' /\ Configs' = Configs /\ Results' = Results /\ tuning' = tuning
      /\ rig' = rig /\ Capacity' = Capacity
  BY <1>1 DEF Inv, Given, args, Configs, Results, Capacity
<1>3. Recorded' /\ Charted' /\ Counted'
  BY <1>1, <1>2 DEF Inv, Recorded, Charted, Counted
<1>4. Working' /\ Staged'
  BY <1>1, <1>2 DEF Inv, Working, Search, Staged, Stages
<1>5. Good \subseteq Good' /\ Good \subseteq Solid
  BY <1>1, GoodStays DEF Good, Kept, Solid
<1>6. passed \in Seq(Good)' /\ passed \in Seq(Solid)
  BY <1>5, SeqMonotonic DEF Inv
<1>7. Winner \in Solid
  BY <1>1, <1>6, Selectable, WinnerKeeps DEF Inv, Staged
<1>8. Profiled'
  <2>1. profile'.session \in 0 .. session'
    BY <1>1 DEF Result, Inv, Counted
  <2>2. ASSUME ~RetryFailed PROVE Backed(profile)'
    <3>1. PICK m : m = Winner
      OBVIOUS
    <3>2. Backed(m) /\ profile'.config = m.config /\ profile'.score = m.score
      BY <1>1, <1>7, <2>2, <3>1 DEF Result, Solid
    <3>3. \A key : Row(key)' = Row(key)
      BY <1>1 DEF Row
    <3> QED
      BY <1>2, <3>2, <3>3 DEF Backed
  <2> QED
    BY <2>1, <2>2 DEF Profiled, ProfileWasValidated
<1> QED
  BY <1>1, <1>2, <1>3, <1>4, <1>6, <1>8 DEF Inv

(* The tuner is started again.                                             *)
LEMMA Restarts == ASSUME Inv, Restart PROVE Inv'
<1>1. /\ session' = session + 1 /\ session < MaxSessions
      /\ stage' = "begin" /\ todo' = <<>> /\ again' = FALSE /\ passed' = <<>>
      /\ search' = NewSearch("begin") /\ admitted' = {} /\ frontiers' = <<>> /\ late' = FALSE
      /\ UNCHANGED <<args, table, losses, profile>>
  BY DEF Restart
<1>2. Given' /\ Configs' = Configs /\ Results' = Results /\ tuning' = tuning
      /\ rig' = rig /\ Capacity' = Capacity
  BY <1>1 DEF Inv, Given, args, Configs, Results, Capacity
<1>3. Recorded'
  BY <1>1, <1>2 DEF Inv, Recorded
<1>4. DOMAIN frontiers' = {}
  BY <1>1
<1>5. Charted'
  BY <1>4 DEF Charted
<1>6. Counted'
  <2>1. session' \in 1 .. MaxSessions
    BY <1>1, FunnelAssumption DEF Inv, Counted
  <2> QED
    BY <1>1, <1>2, <2>1 DEF Inv, Counted
<1>7. Search(search, Asking)'
  BY <1>1, <1>2, NewSearchTyped DEF Inv, Search
<1>8. Working' /\ Staged'
  <2>1. \A S : <<>> \in Seq(S)
    BY EmptySeq
  <2>2. Working'
    BY <1>1, <1>7, <2>1 DEF Working
  <2>3. Staged'
    BY <1>1 DEF Staged, Stages
  <2> QED
    BY <2>2, <2>3
<1>9. passed' \in Seq(Good)'
  BY <1>1
<1>10. Profiled'
  BY <1>1, ProfileStays DEF Inv
<1> QED
  BY <1>2, <1>3, <1>5, <1>6, <1>8, <1>9, <1>10 DEF Inv

(* A tune starts in the invariant ...                                      *)
LEMMA Starts == Init => Inv
<1> SUFFICES ASSUME Init PROVE Inv
  OBVIOUS
<1>1. Given
  BY DEF Init, Given
<1>2. DOMAIN table = {} /\ DOMAIN frontiers = {}
  BY DEF Init
<1>3. Recorded /\ Charted
  BY <1>2 DEF Recorded, Charted
<1>4. Counted
  <2>1. rig.losses \in Nat /\ MaxSessions \in Nat \ {0}
    BY <1>1, FunnelAssumption DEF Given
  <2>2. 0 \in 0 .. rig.losses /\ 1 \in 1 .. MaxSessions
    BY <2>1
  <2> QED
    BY <2>2 DEF Init, Counted
<1>5. Working
  <2>1. todo \in Seq(Configs) /\ again \in BOOLEAN /\ admitted \subseteq Configs
    BY EmptySeq, Zenon DEF Init
  <2>2. Search(search, Asking)
    BY <1>1, NewSearchTyped DEF Init
  <2> QED
    BY <2>1, <2>2 DEF Working
<1>6. Staged
  BY DEF Init, Staged, Stages
<1>7. Profiled
  BY DEF Init, Profiled, ProfileWasValidated, NoResult
<1>8. passed \in Seq(Good)
  BY DEF Init
<1> QED
  BY <1>1, <1>3, <1>4, <1>5, <1>6, <1>7, <1>8 DEF Inv

(* ... and every step keeps it.                                            *)
LEMMA Steps == Inv /\ [Next]_vars => Inv'
<1> SUFFICES ASSUME Inv, [Next]_vars PROVE Inv'
  OBVIOUS
<1>1. CASE Work
  BY <1>1, Ends, Reuses, Executes, Rejects, Refuses, Searches DEF Work
<1>2. CASE Begin
  BY <1>2, Begins
<1>3. CASE EndStage
  BY <1>3, StageEnds
<1>4. CASE Write
  BY <1>4, Writes
<1>5. CASE Interrupt \/ Die
  BY <1>5, Ends
<1>6. CASE Restart
  BY <1>6, Restarts
<1>7. CASE Deadline \/ UNCHANGED vars
  BY <1>7, Expires
<1> QED
  BY <1>1, <1>2, <1>3, <1>4, <1>5, <1>6, <1>7 DEF Next, Exhausted

(* The invariant holds throughout.                                         *)
LEMMA Invariance == Spec => []Inv
BY Starts, Steps, PTL DEF Spec

(* TuneFunnel's variables keep their types: only configurations of this    *)
(* rig are measured, with no more layers than there are, and rows are of   *)
(* configurations, whatever the search for layers and the selections do.   *)
THEOREM FunnelTypeCorrect == Spec => []TypeOK
<1>1. Inv => TypeOK
  BY InvSuffices
<1> QED
  BY <1>1, Invariance, PTL

(* A profile rests on a row that succeeded and is still in the cache: on   *)
(* the validation by a server with the score that decided, or, if the aim  *)
(* is a large context, on a start. No selection invents a row, and no      *)
(* later run, crash, deadline or transient failure takes that row away.    *)
THEOREM ProfileCorrect == Spec => []ProfileWasValidated
<1>1. Inv => ProfileWasValidated
  BY InvSuffices
<1> QED
  BY <1>1, Invariance, PTL

-------------------------------------------------------------------------------
(* Variety.                                                                *)

(* FirstDistinct has the start of a list, if that has no repetitions and   *)
(* there is room for it.                                                   *)
LEMMA DistinctStarts ==
  ASSUME NEW S, NEW p \in Seq(S), NEW q \in Seq(S), NEW limit \in Nat,
         IsInjective(p), Len(p) <= limit
  PROVE  \A k \in DOMAIN p : /\ k \in DOMAIN FirstDistinct(p \o q, limit)
                             /\ FirstDistinct(p \o q, limit)[k] = p[k]
<1> DEFINE s == p \o q
           new == {i \in DOMAIN s : \A j \in 1 .. i - 1 : s[j] # s[i]}
           picked == Pick(s, Ascending(new))
<1>1. /\ s \in Seq(S) /\ Len(s) = Len(p) + Len(q) /\ Len(p) \in Nat /\ Len(q) \in Nat
      /\ DOMAIN p = 1 .. Len(p)
      /\ \A i \in DOMAIN p : s[i] = p[i]
  BY ConcatProperties, LenProperties
<1> HIDE DEF s
<1>2. DOMAIN s = 1 .. Len(s) /\ IsFiniteSet(DOMAIN s)
  BY <1>1, Indices
<1>3. new \in SUBSET Int /\ IsFiniteSet(new) /\ new \subseteq DOMAIN s
  BY <1>2, FS_Subset
<1>4. \A i \in DOMAIN p : i \in new
  <2> TAKE i \in DOMAIN p
  <2>1. i \in DOMAIN s
    BY <1>1, <1>2
  <2>2. ASSUME NEW j \in 1 .. i - 1 PROVE s[j] # s[i]
    <3>1. j \in DOMAIN p /\ j # i
      BY <1>1, <2>2
    <3> QED
      BY <1>1, <3>1 DEF IsInjective
  <2> QED
    BY <2>1, <2>2
<1> HIDE DEF new
<1>5. /\ Ascending(new) \in Seq(new)
      /\ \A i \in new : \E k \in DOMAIN Ascending(new) :
           Ascending(new)[k] = i /\ k = Cardinality({j \in new : j < i}) + 1
  BY <1>3, AscendingLists
<1>6. \A i \in DOMAIN p : i \in DOMAIN Ascending(new) /\ Ascending(new)[i] = i
  <2> TAKE i \in DOMAIN p
  <2>1. {j \in new : j < i} = 1 .. i - 1
    <3>1. \A j \in new : j \in Nat /\ j >= 1
      BY <1>1, <1>2, <1>3
    <3>2. \A j \in 1 .. i - 1 : j \in new
      BY <1>1, <1>4
    <3> QED
      BY <1>1, <3>1, <3>2
  <2>2. Cardinality(1 .. i - 1) = i - 1
    <3>1. i \in Nat /\ i >= 1 /\ i - 1 \in Int
      BY <1>1
    <3> QED
      BY <3>1, FS_Interval
  <2>3. Cardinality({j \in new : j < i}) + 1 = i
    <3>1. Cardinality({j \in new : j < i}) = i - 1
      BY <2>1, <2>2, Zenon
    <3>2. i \in Int
      BY <1>1
    <3> QED
      BY <3>1, <3>2
  <2> QED
    BY <1>4, <1>5, <2>3
<1>7. Ascending(new) \in Seq(DOMAIN s)
  BY <1>3, <1>5, SeqMonotonic
<1>8. picked \in Seq(S) /\ Len(picked) = Len(Ascending(new))
  BY <1>1, <1>7, PickKeeps
<1>9. \A i \in DOMAIN p : i \in 1 .. Len(picked) /\ picked[i] = p[i]
  <2> TAKE i \in DOMAIN p
  <2>1. DOMAIN Ascending(new) = 1 .. Len(Ascending(new))
    BY <1>7, LenProperties
  <2>2. picked[i] = s[Ascending(new)[i]]
    BY <1>6 DEF Pick
  <2> QED
    BY <1>1, <1>6, <1>8, <2>1, <2>2
<1> HIDE DEF picked
<1>10. /\ First(picked, limit) \in Seq(S)
       /\ Len(First(picked, limit)) = Least(limit, Len(picked))
       /\ \A k \in 1 .. Len(First(picked, limit)) : First(picked, limit)[k] = picked[k]
  BY <1>8, FirstKeeps
<1>11. DOMAIN First(picked, limit) = 1 .. Len(First(picked, limit)) /\ Len(picked) \in Nat
  BY <1>8, <1>10, LenProperties
<1>12. \A k \in DOMAIN p : /\ k \in DOMAIN First(picked, limit)
                           /\ First(picked, limit)[k] = p[k]
  <2> TAKE k \in DOMAIN p
  <2>1. k \in 1 .. Least(limit, Len(picked))
    BY <1>1, <1>9, <1>11 DEF Least
  <2> QED
    BY <1>9, <1>10, <1>11, <2>1
<1>13. FirstDistinct(s, limit) = First(picked, limit)
  BY DEF FirstDistinct, picked, new
<1> QED
  BY <1>12, <1>13 DEF s

(* There are no more leaders than groups, they differ, and each is at      *)
(* least as fast as the other rows of its group.                           *)
LEMMA LeadersLead ==
  ASSUME NEW R, Scored(R), NEW rows \in Seq(R), NEW group
  PROVE  /\ IsInjective(Leaders(rows, group))
         /\ Len(Leaders(rows, group)) <= Cardinality({group[i] : i \in DOMAIN rows})
         /\ \A i \in DOMAIN rows : \E k \in DOMAIN Leaders(rows, group) :
              LET j == Leaders(rows, group)[k]
              IN  j \in DOMAIN rows /\ group[j] = group[i] /\ rows[j].score >= rows[i].score
         /\ \A k \in DOMAIN Leaders(rows, group), i \in DOMAIN rows :
              LET j == Leaders(rows, group)[k]
              IN  group[i] = group[j] => ~Before(Speed(rows), i, j)
<1> DEFINE like(i) == {j \in DOMAIN rows : group[j] = group[i]}
           firsts == {i \in DOMAIN rows : \A j \in like(i) : i <= j}
           heads == Ascending(firsts)
           leader(i) == Ranked(like(i), Speed(rows))[1]
           leaders == Leaders(rows, group)
           groups == {group[i] : i \in DOMAIN rows}
<1>1. /\ DOMAIN rows = 1 .. Len(rows) /\ Len(rows) \in Nat /\ IsFiniteSet(DOMAIN rows)
      /\ \A i \in DOMAIN rows : rows[i].score \in Int
  BY Indices DEF Scored
<1>2. firsts \in SUBSET Int /\ IsFiniteSet(firsts) /\ firsts \subseteq DOMAIN rows
  BY <1>1, FS_Subset
<1>3. ASSUME NEW i \in DOMAIN rows
      PROVE  /\ leader(i) \in like(i)
             /\ \A j \in like(i) : rows[leader(i)].score >= rows[j].score
             /\ \A j \in like(i) : ~Before(Speed(rows), j, leader(i))
  <2>1. like(i) \in SUBSET DOMAIN rows /\ like(i) # {}
    OBVIOUS
  <2>2. \A j \in like(i) : Speed(rows)[j] \in Tuples(1)
    BY SpeedKeys
  <2>3. like(i) \in SUBSET Int /\ IsFiniteSet(like(i))
    BY <1>1, FS_Subset
  <2> HIDE DEF like
  <2>4. leader(i) \in like(i)
    BY <2>1, <2>2, RankedIndices
  <2>5. ASSUME NEW j \in like(i) PROVE rows[leader(i)].score >= rows[j].score
    <3> DEFINE l == leader(i)
    <3>1. ~Before(Speed(rows), j, l)
      BY <2>2, <2>3, <2>5, RankedLists
    <3> HIDE DEF l
    <3>2. l \in DOMAIN rows /\ j \in DOMAIN rows
      BY <2>1, <2>4 DEF l
    <3>3. Speed(rows)[j] = <<0 - rows[j].score>> /\ Speed(rows)[l] = <<0 - rows[l].score>>
      BY <3>2 DEF Speed
    <3>4. ~Precedes(<<0 - rows[j].score>>, <<0 - rows[l].score>>)
      BY <3>1, <3>3 DEF Before
    <3>5. ~(0 - rows[j].score < 0 - rows[l].score)
      <4> SUFFICES ASSUME 0 - rows[j].score < 0 - rows[l].score PROVE FALSE
        OBVIOUS
      <4>1. 1 \in DOMAIN <<0 - rows[j].score>> /\ 1 .. 1 - 1 = {}
        OBVIOUS
      <4> QED
        BY <3>4, <4>1 DEF Precedes
    <3>6. rows[l].score >= rows[j].score
      BY <1>1, <3>2, <3>5
    <3> QED
      BY <3>6 DEF l
  <2>6. \A j \in like(i) : ~Before(Speed(rows), j, leader(i))
    BY <2>2, <2>3, RankedLists
  <2> QED
    BY <2>4, <2>5, <2>6
<1>4. \A i \in DOMAIN rows : \E h \in firsts : group[h] = group[i]
  <2> TAKE i \in DOMAIN rows
  <2>1. like(i) \in SUBSET Nat /\ like(i) # {}
    BY <1>1
  <2>2. PICK h \in like(i) : \A j \in like(i) : h <= j
    <3> HIDE DEF like
    <3> QED
      BY <2>1, LeastNumber
  <2>3. like(h) = like(i)
    OBVIOUS
  <2> QED
    BY <2>2, <2>3
<1>5. \A h, g \in firsts : group[h] = group[g] => h = g
  <2> SUFFICES ASSUME NEW h \in firsts, NEW g \in firsts, group[h] = group[g] PROVE h = g
    OBVIOUS
  <2>1. h <= g /\ g <= h
    OBVIOUS
  <2>2. h \in Int /\ g \in Int
    BY <1>2
  <2> QED
    BY <2>1, <2>2
<1>6. Cardinality(firsts) <= Cardinality(groups)
  <2> DEFINE f == [i \in DOMAIN rows |-> group[i]]
             g == [i \in firsts |-> group[i]]
  <2>1. f \in Surjection(DOMAIN rows, groups)
    BY DEF Surjection
  <2>2. IsFiniteSet(groups)
    <3> HIDE DEF f, groups
    <3> QED
      BY <1>1, <2>1, FS_Surjection
  <2>3. g \in Injection(firsts, groups)
    BY <1>2, <1>5 DEF Injection, IsInjective
  <2> HIDE DEF g, groups
  <2> QED
    BY <2>2, <2>3, FS_Injection
<1> HIDE DEF firsts
<1>7. /\ heads \in Seq(firsts) /\ Len(heads) = Cardinality(firsts) /\ IsInjective(heads)
      /\ \A i \in firsts : \E k \in DOMAIN heads : heads[k] = i
  BY <1>2, AscendingLists DEF IsInjective
<1>8. DOMAIN heads = 1 .. Len(heads) /\ \A k \in DOMAIN heads : heads[k] \in firsts
  BY <1>7, LenProperties, ElementOfSeq
<1> HIDE DEF heads
<1>9. leaders = [k \in DOMAIN heads |-> leader(heads[k])]
  BY DEF Leaders, heads, firsts
<1>10. DOMAIN leaders = DOMAIN heads /\ Len(leaders) = Len(heads)
  <2>1. leaders \in Seq(DOMAIN rows)
    BY LeadersKeep
  <2>2. DOMAIN leaders = DOMAIN heads
    BY <1>9
  <2>3. DOMAIN leaders = 1 .. Len(leaders) /\ Len(leaders) \in Nat /\ Len(heads) \in Nat
    BY <1>7, <2>1, LenProperties
  <2> HIDE DEF leaders
  <2> QED
    BY <1>8, <2>2, <2>3
<1>11. \A k \in DOMAIN heads : leaders[k] \in DOMAIN rows /\ group[leaders[k]] = group[heads[k]]
  <2> TAKE k \in DOMAIN heads
  <2>1. leaders[k] = leader(heads[k]) /\ heads[k] \in DOMAIN rows
    BY <1>2, <1>8, <1>9
  <2>2. leader(heads[k]) \in like(heads[k])
    BY <1>3, <2>1
  <2> HIDE DEF leaders, leader
  <2> QED
    BY <2>1, <2>2
<1>12. IsInjective(leaders)
  <2> SUFFICES ASSUME NEW k \in DOMAIN heads, NEW l \in DOMAIN heads, leaders[k] = leaders[l]
               PROVE  k = l
    BY <1>10 DEF IsInjective
  <2>1. group[heads[k]] = group[heads[l]]
    BY <1>11
  <2>2. heads[k] = heads[l]
    BY <1>5, <1>8, <2>1
  <2> QED
    BY <1>7, <2>2 DEF IsInjective
<1>13. ASSUME NEW i \in DOMAIN rows
       PROVE  \E k \in DOMAIN leaders : /\ leaders[k] \in DOMAIN rows
                                        /\ group[leaders[k]] = group[i]
                                        /\ rows[leaders[k]].score >= rows[i].score
  <2>1. PICK h \in firsts : group[h] = group[i]
    BY <1>4
  <2>2. PICK k \in DOMAIN heads : heads[k] = h
    BY <1>7
  <2>3. i \in like(h) /\ h \in DOMAIN rows
    BY <1>2, <2>1
  <2>4. leaders[k] = leader(h)
    BY <1>9, <2>2
  <2>5. rows[leader(h)].score >= rows[i].score
    BY <1>3, <2>3
  <2> QED
    BY <1>10, <1>11, <2>1, <2>2, <2>4, <2>5
<1>14. ASSUME NEW k \in DOMAIN leaders, NEW i \in DOMAIN rows, group[i] = group[leaders[k]]
       PROVE  ~Before(Speed(rows), i, leaders[k])
  <2>1. heads[k] \in DOMAIN rows /\ leaders[k] = leader(heads[k])
    BY <1>2, <1>8, <1>9, <1>10
  <2>2. i \in like(heads[k])
    BY <1>10, <1>11, <1>14
  <2> QED
    BY <1>3, <2>1, <2>2
<1> HIDE DEF leaders
<1> QED
  BY <1>6, <1>7, <1>10, <1>12, <1>13, <1>14 DEF leaders, groups

(* Lists one after the other.                                              *)
LEMMA FourLists ==
  ASSUME NEW S, NEW a \in Seq(S), NEW b \in Seq(S), NEW c \in Seq(S), NEW d \in Seq(S)
  PROVE  /\ a \o b \o c \o d = a \o (b \o (c \o d))
         /\ a \o b \o c \o d \in Seq(S) /\ b \o (c \o d) \in Seq(S)
<1> DEFINE ab == a \o b
           cd == c \o d
<1>1. ab \in Seq(S) /\ cd \in Seq(S) /\ b \o cd \in Seq(S)
  BY ConcatProperties
<1>2. ab \o cd = a \o (b \o cd)
  <2> HIDE DEF cd
  <2> QED
    BY <1>1, ConcatAssociative
<1>3. (ab \o c) \o d = ab \o cd
  <2> HIDE DEF ab
  <2> QED
    BY <1>1, ConcatAssociative
<1>4. ab \o cd \in Seq(S)
  <2> HIDE DEF ab, cd
  <2> QED
    BY <1>1, ConcatProperties
<1> QED
  BY <1>1, <1>2, <1>3, <1>4

(* stratified_select keeps variety: of every family, its fastest row is    *)
(* kept or one as fast, if there is a place for each family.               *)
THEOREM FamiliesKept ==
  ASSUME NEW R, Scored(R), NEW rows \in Seq(R), NEW limit \in Nat
  PROVE  KeepsFamilies(rows, limit, StratifiedSelect(rows, limit))
<1> DEFINE families == [i \in DOMAIN rows |-> Family(rows[i].config)]
           tiers == [i \in DOMAIN rows |-> Tier(rows[i].config)]
           modes == [i \in DOMAIN rows |-> Flash(rows[i].config)]
           leaders == Leaders(rows, families)
           ofTiers == Leaders(rows, tiers)
           ofModes == Leaders(rows, modes)
           fast == BySpeed(rows)
           others == ofTiers \o (ofModes \o fast)
           wanted == leaders \o ofTiers \o ofModes \o fast
           kept == FirstDistinct(wanted, limit)
<1> SUFFICES ASSUME Cardinality({Family(rows[i].config) : i \in DOMAIN rows}) <= limit,
                    NEW i \in DOMAIN rows
             PROVE  \E j \in DOMAIN StratifiedSelect(rows, limit) :
                      /\ Family(StratifiedSelect(rows, limit)[j].config) = Family(rows[i].config)
                      /\ StratifiedSelect(rows, limit)[j].score >= rows[i].score
  BY DEF KeepsFamilies
<1>1. CASE Len(rows) <= limit
  <2>1. StratifiedSelect(rows, limit) = rows /\ rows[i].score >= rows[i].score
    BY <1>1, Indices DEF StratifiedSelect, Scored
  <2> QED
    BY <2>1
<1>2. CASE ~(Len(rows) <= limit)
  <2>1. {families[k] : k \in DOMAIN rows} = {Family(rows[k].config) : k \in DOMAIN rows}
    OBVIOUS
  <2>2. \A k \in DOMAIN rows : families[k] = Family(rows[k].config)
    OBVIOUS
  <2> HIDE DEF families, tiers, modes
  <2>3. /\ leaders \in Seq(DOMAIN rows) /\ ofTiers \in Seq(DOMAIN rows)
        /\ ofModes \in Seq(DOMAIN rows) /\ fast \in Seq(DOMAIN rows)
    BY LeadersKeep, SpeedKeys, RankedIndices DEF BySpeed, Sorted
  <2>4. /\ others \in Seq(DOMAIN rows) /\ wanted = leaders \o others
        /\ wanted \in Seq(DOMAIN rows)
    <3> HIDE DEF leaders, ofTiers, ofModes, fast
    <3>1. /\ leaders \o ofTiers \o ofModes \o fast = leaders \o (ofTiers \o (ofModes \o fast))
          /\ leaders \o ofTiers \o ofModes \o fast \in Seq(DOMAIN rows)
          /\ ofTiers \o (ofModes \o fast) \in Seq(DOMAIN rows)
      BY <2>3, FourLists, Zenon
    <3> QED
      BY <3>1
  <2>5. PICK k \in DOMAIN leaders : /\ leaders[k] \in DOMAIN rows
                                    /\ families[leaders[k]] = families[i]
                                    /\ rows[leaders[k]].score >= rows[i].score
    BY LeadersLead
  <2>6. IsInjective(leaders) /\ Len(leaders) <= limit
    <3>1. Len(leaders) <= Cardinality({families[l] : l \in DOMAIN rows})
      BY LeadersLead
    <3>2. Len(leaders) \in Nat /\ Cardinality({families[l] : l \in DOMAIN rows}) <= limit
      BY <2>1, <2>3, LenProperties
    <3>3. Cardinality({families[l] : l \in DOMAIN rows}) \in Nat
      <4> DEFINE groups == {families[l] : l \in DOMAIN rows}
                 f == [l \in DOMAIN rows |-> families[l]]
      <4>1. f \in Surjection(DOMAIN rows, groups)
        BY DEF Surjection
      <4> HIDE DEF f, groups
      <4>2. IsFiniteSet(groups)
        BY <4>1, Indices, FS_Surjection
      <4> QED
        BY <4>2, FS_CardinalityType DEF groups
    <3> QED
      BY <3>1, <3>2, <3>3, LeadersLead
  <2> HIDE DEF leaders, ofTiers, ofModes, fast, others, wanted
  <2>7. k \in DOMAIN kept /\ kept[k] = leaders[k]
    BY <2>3, <2>4, <2>5, <2>6, DistinctStarts
  <2>8. StratifiedSelect(rows, limit) = Pick(rows, kept)
    BY <1>2 DEF StratifiedSelect, wanted, leaders, ofTiers, ofModes, fast, families, tiers, modes
  <2> HIDE DEF kept
  <2>9. k \in DOMAIN Pick(rows, kept) /\ Pick(rows, kept)[k] = rows[leaders[k]]
    BY <2>7 DEF Pick
  <2> QED
    BY <2>2, <2>5, <2>8, <2>9
<1> QED
  BY <1>1, <1>2

(* A choice goes on: next has what kept has and one more of S at most; it  *)
(* has one of S if there is room and more of S is left.                    *)
Goes(rows, limit, kept, next, S, more) ==
  /\ next \in Seq(DOMAIN rows) /\ IsInjective(next)
  /\ Len(next) <= limit /\ Len(next) <= Len(kept) + 1
  /\ ToSet(kept) \subseteq ToSet(next) /\ ToSet(next) \subseteq ToSet(kept) \cup S
  /\ Len(kept) < limit /\ more # {} => ToSet(next) \cap S # {}

(* Add chooses one more of S if there is room and one is left, ...         *)
LEMMA AddGoes ==
  ASSUME NEW R, Scored(R), NEW rows \in Seq(R), NEW limit \in Nat,
         NEW kept \in Seq(DOMAIN rows), IsInjective(kept), Len(kept) <= limit,
         NEW S \in SUBSET DOMAIN rows
  PROVE  Goes(rows, limit, kept, Add(rows, limit, kept, S), S, S \ ToSet(kept))
<1> DEFINE more == S \ ToSet(kept)
           ranked == Ranked(more, Room(rows))
           one == First(ranked, 1)
<1>1. Len(kept) \in Nat
  BY LenProperties
<1>2. CASE Len(kept) >= limit
  <2>1. Add(rows, limit, kept, S) = kept
    BY <1>2 DEF Add
  <2> QED
    BY <1>1, <1>2, <2>1 DEF Goes
<1>3. CASE ~(Len(kept) >= limit)
  <2>1. more \in SUBSET DOMAIN rows /\ IsFiniteSet(more) /\ more \in SUBSET Int
    BY Indices, FS_Subset
  <2>2. \A i \in more : Room(rows)[i] \in Tuples(3)
    BY RoomKeys
  <2> HIDE DEF more
  <2>3. ranked \in Seq(more) /\ Len(ranked) = Cardinality(more)
    <3>1. \A n \in Nat : \A keys : \A T \in SUBSET Int :
            IsFiniteSet(T) /\ (\A i \in T : keys[i] \in Tuples(n)) =>
              Ranked(T, keys) \in Seq(T) /\ Len(Ranked(T, keys)) = Cardinality(T)
      BY RankedLists
    <3>2. IsFiniteSet(more) /\ more \in SUBSET Int /\ 3 \in Nat
      BY <2>1
    <3> HIDE DEF ranked
    <3>3. \A keys : (\A i \in more : keys[i] \in Tuples(3)) =>
              Ranked(more, keys) \in Seq(more) /\ Len(Ranked(more, keys)) = Cardinality(more)
      BY <3>1, <3>2
    <3>4. Ranked(more, Room(rows)) \in Seq(more)
            /\ Len(Ranked(more, Room(rows))) = Cardinality(more)
      BY <2>2, <3>3
    <3> QED
      BY <3>4 DEF ranked
  <2>4. more # {} => ranked[1] \in more /\ Cardinality(more) # 0
    BY <2>1, <2>2, RankedIndices, FS_EmptySet
  <2>5. Len(ranked) \in Nat
    BY <2>3, LenProperties
  <2> HIDE DEF ranked
  <2>6. /\ one \in Seq(more) /\ Len(one) = Least(1, Len(ranked))
        /\ \A k \in 1 .. Len(one) : one[k] = ranked[k]
    BY <2>3, FirstKeeps
  <2> HIDE DEF one
  <2>7. /\ Len(one) \in 0 .. 1 /\ DOMAIN one = 1 .. Len(one)
        /\ more # {} => 1 \in DOMAIN one
    <3>1. DOMAIN one = 1 .. Len(one) /\ Len(one) \in Nat
      BY <2>6, LenProperties
    <3>2. Len(one) = IF 1 < Len(ranked) THEN 1 ELSE Len(ranked)
      BY <2>6 DEF Least
    <3>3. \A x, y \in Nat :
            x = (IF 1 < y THEN 1 ELSE y) => x \in 0 .. 1 /\ (y # 0 => x = 1)
      OBVIOUS
    <3>4. Len(one) \in 0 .. 1 /\ (Len(ranked) # 0 => Len(one) = 1)
      BY <2>5, <3>1, <3>2, <3>3, Zenon
    <3>5. more # {} => Len(ranked) # 0
      BY <2>3, <2>4
    <3>6. Len(one) = 1 => 1 \in DOMAIN one
      BY <3>1
    <3> QED
      BY <3>1, <3>4, <3>5, <3>6
  <2>8. IsInjective(one)
    BY <2>7 DEF IsInjective
  <2>9. ToSet(one) \subseteq more
    BY <2>6, ElementOfSeq, LenProperties DEF ToSet
  <2>10. more # {} => ToSet(one) # {}
    BY <2>7 DEF ToSet
  <2>11. one \in Seq(DOMAIN rows)
    BY <2>1, <2>6, SeqMonotonic
  <2>12. ToSet(kept) \cap ToSet(one) = {} /\ more \subseteq S
    BY <2>9 DEF more
  <2>13. /\ ToSet(kept \o one) = ToSet(kept) \cup ToSet(one) /\ IsInjective(kept \o one)
    BY <2>8, <2>11, <2>12, Elements
  <2>14. kept \o one \in Seq(DOMAIN rows) /\ Len(kept \o one) = Len(kept) + Len(one)
    BY <2>11, ConcatProperties
  <2>15. Len(kept) + Len(one) <= limit /\ Len(kept) + Len(one) <= Len(kept) + 1
    BY <1>1, <1>3, <2>7
  <2>16. Add(rows, limit, kept, S) = kept \o one
    BY <1>3 DEF Add, one, ranked, more
  <2>17. Goes(rows, limit, kept, kept \o one, S, more)
    <3> DEFINE next == kept \o one
    <3>1. next \in Seq(DOMAIN rows) /\ IsInjective(next) /\ Len(next) <= limit /\ Len(next) <= Len(kept) + 1
      BY <2>13, <2>14, <2>15
    <3>2. ToSet(next) = ToSet(kept) \cup ToSet(one)
      BY <2>13
    <3> HIDE DEF next
    <3> QED
      BY <2>9, <2>10, <2>12, <3>1, <3>2 DEF Goes, next
  <2> QED
    BY <2>16, <2>17 DEF more
<1> QED
  BY <1>2, <1>3

(* ... and so does AddElsewhere, whatever placements are used, ...         *)
LEMMA ElsewhereGoes ==
  ASSUME NEW R, Scored(R), NEW rows \in Seq(R), NEW limit \in Nat,
         NEW kept \in Seq(DOMAIN rows), IsInjective(kept), Len(kept) <= limit,
         NEW S \in SUBSET DOMAIN rows
  PROVE  Goes(rows, limit, kept, AddElsewhere(rows, limit, kept, S), S, S \ ToSet(kept))
<1> DEFINE used == {Family(rows[i].config) : i \in ToSet(kept)}
           elsewhere == {i \in S \ ToSet(kept) : Family(rows[i].config) \notin used}
           next == AddElsewhere(rows, limit, kept, S)
<1>1. CASE elsewhere = {}
  <2>1. next = Add(rows, limit, kept, S)
    BY <1>1 DEF AddElsewhere
  <2> QED
    BY <2>1, AddGoes
<1>2. CASE elsewhere # {}
  <2>1. next = Add(rows, limit, kept, elsewhere)
    BY <1>2 DEF AddElsewhere
  <2>2. elsewhere \in SUBSET DOMAIN rows /\ elsewhere \ ToSet(kept) = elsewhere /\ elsewhere \subseteq S
    OBVIOUS
  <2> HIDE DEF elsewhere, next
  <2>3. Goes(rows, limit, kept, next, elsewhere, elsewhere)
    BY <2>1, <2>2, AddGoes
  <2>4. Goes(rows, limit, kept, next, S, S \ ToSet(kept))
    BY <1>2, <2>2, <2>3 DEF Goes
  <2> QED
    BY <2>4 DEF next
<1> QED
  BY <1>1, <1>2

(* ... and AddMissing sees to it that one of S is chosen.                  *)
LEMMA MissingGoes ==
  ASSUME NEW R, Scored(R), NEW rows \in Seq(R), NEW limit \in Nat,
         NEW kept \in Seq(DOMAIN rows), IsInjective(kept), Len(kept) <= limit,
         NEW S \in SUBSET DOMAIN rows
  PROVE  Goes(rows, limit, kept, AddMissing(rows, limit, kept, S), S, S)
<1>1. CASE ToSet(kept) \cap S # {}
  <2>1. AddMissing(rows, limit, kept, S) = kept /\ Len(kept) \in Nat
    BY <1>1, LenProperties DEF AddMissing
  <2> QED
    BY <1>1, <2>1 DEF Goes
<1>2. CASE ToSet(kept) \cap S = {}
  <2>1. AddMissing(rows, limit, kept, S) = Add(rows, limit, kept, S) /\ S \ ToSet(kept) = S
    BY <1>2 DEF AddMissing
  <2>2. Goes(rows, limit, kept, Add(rows, limit, kept, S), S, S \ ToSet(kept))
    BY AddGoes
  <2> QED
    BY <2>1, <2>2
<1> QED
  BY <1>1, <1>2

(* max_context_select keeps variety: both small KV caches and a tensor     *)
(* split if there are three places, and a single device if there are four, *)
(* when there are any on the list.                                         *)
THEOREM CapacityKept ==
  ASSUME NEW R, Scored(R), NEW rows \in Seq(R), NEW limit \in Nat
  PROVE  KeepsCapacity(rows, limit, MaxContextSelect(rows, limit))
<1> DEFINE final == MaxContextSelect(rows, limit)
           ofTier(tier) == {i \in DOMAIN rows : rows[i].config.tier = tier}
           multi == {i \in DOMAIN rows : Multi(rows[i].config)}
           splits == {i \in DOMAIN rows : Split(rows[i].config)}
           singles == DOMAIN rows \ multi
           q4 == Add(rows, limit, <<>>, ofTier("q4_0"))
           q8 == AddElsewhere(rows, limit, q4, ofTier("q8_0"))
           split == AddMissing(rows, limit, q8, splits)
           single == AddMissing(rows, limit, split, singles)
           f16 == AddElsewhere(rows, limit, single, ofTier("f16"))
           kept == FirstDistinct(f16 \o ByRoom(rows), limit)
<1>1. CASE Len(rows) <= limit
  <2>1. final = rows
    BY <1>1 DEF MaxContextSelect
  <2> HIDE DEF final
  <2> QED
    BY <2>1 DEF KeepsCapacity, Represented, final
<1>2. CASE ~(Len(rows) <= limit)
  <2>1. /\ ofTier("q4_0") \in SUBSET DOMAIN rows /\ ofTier("q8_0") \in SUBSET DOMAIN rows
        /\ ofTier("f16") \in SUBSET DOMAIN rows /\ splits \in SUBSET DOMAIN rows
        /\ singles \in SUBSET DOMAIN rows
        /\ ofTier("q4_0") \cap ofTier("q8_0") = {}
    OBVIOUS
  <2> HIDE DEF ofTier, multi, splits, singles
  <2>2. /\ <<>> \in Seq(DOMAIN rows) /\ IsInjective(<<>>) /\ Len(<<>>) = 0 /\ ToSet(<<>>) = {}
    BY EmptySeq DEF IsInjective, ToSet
  <2>3. Goes(rows, limit, <<>>, q4, ofTier("q4_0"), ofTier("q4_0"))
    <3>1. ofTier("q4_0") \ ToSet(<<>>) = ofTier("q4_0")
      BY <2>2
    <3>2. \A chosen : \A S \in SUBSET DOMAIN rows :
            chosen \in Seq(DOMAIN rows) /\ IsInjective(chosen) /\ Len(chosen) <= limit =>
              Goes(rows, limit, chosen, Add(rows, limit, chosen, S), S, S \ ToSet(chosen))
      BY AddGoes
    <3>3. Len(<<>>) <= limit
      BY <2>2
    <3>4. Goes(rows, limit, <<>>, Add(rows, limit, <<>>, ofTier("q4_0")), ofTier("q4_0"),
               ofTier("q4_0") \ ToSet(<<>>))
      BY <2>1, <2>2, <3>2, <3>3
    <3> QED
      BY <3>1, <3>4
  <2> HIDE DEF q4
  <2>4. /\ q4 \in Seq(DOMAIN rows) /\ IsInjective(q4) /\ Len(q4) <= limit /\ Len(q4) <= 1
        /\ ToSet(q4) \subseteq ofTier("q4_0")
        /\ 0 < limit /\ ofTier("q4_0") # {} => ToSet(q4) \cap ofTier("q4_0") # {}
    BY <2>2, <2>3 DEF Goes
  <2>5. Goes(rows, limit, q4, q8, ofTier("q8_0"), ofTier("q8_0"))
    <3>1. ofTier("q8_0") \ ToSet(q4) = ofTier("q8_0")
      BY <2>1, <2>4
    <3> HIDE DEF q8
    <3>2. Goes(rows, limit, q4, q8, ofTier("q8_0"), ofTier("q8_0") \ ToSet(q4))
      BY <2>1, <2>4, ElsewhereGoes DEF q8
    <3> QED
      BY <3>1, <3>2
  <2> HIDE DEF q8
  <2>6. /\ Len(q4) \in Nat /\ Len(q8) \in Nat /\ Len(q8) <= 2 /\ Len(q8) <= limit
        /\ q8 \in Seq(DOMAIN rows) /\ IsInjective(q8) /\ ToSet(q4) \subseteq ToSet(q8)
        /\ 1 < limit /\ ofTier("q8_0") # {} => ToSet(q8) \cap ofTier("q8_0") # {}
    <3>1. q8 \in Seq(DOMAIN rows)
      BY <2>5 DEF Goes
    <3>2. Len(q4) \in Nat /\ Len(q8) \in Nat
      BY <2>4, <3>1, LenProperties
    <3> QED
      BY <2>4, <2>5, <3>2 DEF Goes
  <2>7. Goes(rows, limit, q8, split, splits, splits)
    BY <2>1, <2>6, MissingGoes
  <2> HIDE DEF split
  <2>8. /\ Len(split) \in Nat /\ Len(split) <= 3 /\ Len(split) <= limit
        /\ split \in Seq(DOMAIN rows) /\ IsInjective(split) /\ ToSet(q8) \subseteq ToSet(split)
        /\ 2 < limit /\ splits # {} => ToSet(split) \cap splits # {}
    <3>1. split \in Seq(DOMAIN rows)
      BY <2>7 DEF Goes
    <3>2. Len(split) \in Nat
      BY <3>1, LenProperties
    <3> QED
      BY <2>6, <2>7, <3>2 DEF Goes
  <2>9. Goes(rows, limit, split, single, singles, singles)
    BY <2>1, <2>8, MissingGoes
  <2> HIDE DEF single
  <2>10. /\ Len(single) <= limit /\ single \in Seq(DOMAIN rows) /\ IsInjective(single)
         /\ ToSet(split) \subseteq ToSet(single)
         /\ 3 < limit /\ singles # {} => ToSet(single) \cap singles # {}
    BY <2>8, <2>9 DEF Goes
  <2>11. Goes(rows, limit, single, f16, ofTier("f16"), ofTier("f16") \ ToSet(single))
    BY <2>1, <2>10, ElsewhereGoes
  <2> HIDE DEF f16
  <2>12. /\ Len(f16) <= limit /\ f16 \in Seq(DOMAIN rows) /\ IsInjective(f16)
         /\ ToSet(single) \subseteq ToSet(f16)
    BY <2>11 DEF Goes
  <2>13. ByRoom(rows) \in Seq(DOMAIN rows)
    BY RoomKeys, RankedIndices DEF ByRoom, Sorted
  <2>14. \A k \in DOMAIN f16 : k \in DOMAIN kept /\ kept[k] = f16[k]
    BY <2>12, <2>13, DistinctStarts
  <2>15. final = Pick(rows, kept)
    BY <1>2 DEF MaxContextSelect, kept, f16, single, singles, split, q8, q4, splits, multi, ofTier
  <2> HIDE DEF kept
  <2>16. \A i \in ToSet(f16) : \E k \in DOMAIN final : final[k] = rows[i]
    BY <2>14, <2>15 DEF Pick, ToSet
  <2>17. /\ limit >= 1 /\ ofTier("q4_0") # {} => ToSet(f16) \cap ofTier("q4_0") # {}
         /\ limit >= 2 /\ ofTier("q8_0") # {} => ToSet(f16) \cap ofTier("q8_0") # {}
         /\ limit >= 3 /\ splits # {} => ToSet(f16) \cap splits # {}
         /\ limit >= 4 /\ singles # {} => ToSet(f16) \cap singles # {}
    BY <2>4, <2>6, <2>8, <2>10, <2>12
  <2> HIDE DEF final
  <2>18. limit >= 1 => Represented(rows, final, LAMBDA c : c.tier = "q4_0")
    BY <2>16, <2>17 DEF Represented, ofTier
  <2>19. limit >= 2 => Represented(rows, final, LAMBDA c : c.tier = "q8_0")
    BY <2>16, <2>17 DEF Represented, ofTier
  <2>20. limit >= 3 => Represented(rows, final, Split)
    BY <2>16, <2>17 DEF Represented, splits
  <2>21. limit >= 4 => Represented(rows, final, LAMBDA c : ~Multi(c))
    BY <2>16, <2>17 DEF Represented, singles, multi
  <2> QED
    BY <2>18, <2>19, <2>20, <2>21 DEF KeepsCapacity, final
<1> QED
  BY <1>1, <1>2

-------------------------------------------------------------------------------
(* The best configurations go on.                                          *)

(* A selection keeps some of the rows, and all if there is a place for all.*)
LEMMA SelectionKeeps ==
  ASSUME NEW R, Scored(R), NEW rows \in Seq(R), NEW limit \in Nat, limit > 0,
         NEW kept, kept = StratifiedSelect(rows, limit) \/ kept = MaxContextSelect(rows, limit)
  PROVE  /\ kept \in Seq(R)
         /\ Len(rows) <= limit => kept = rows
         /\ rows # <<>> => kept # <<>>
<1>1. kept \in Seq(R)
  BY StratifiedKeeps, MaxContextKeeps
<1>2. ASSUME Len(rows) <= limit PROVE kept = rows
  BY <1>2 DEF StratifiedSelect, MaxContextSelect
<1>3. ASSUME NEW a \in Seq(DOMAIN rows), NEW b \in Seq(DOMAIN rows), Len(b) = Len(rows), rows # <<>>
      PROVE  Pick(rows, FirstDistinct(a \o b, limit)) # <<>>
  <2> DEFINE first == FirstDistinct(a \o b, limit)
  <2>1. b # <<>>
    BY <1>3, EmptySeq
  <2>2. a \o b \in Seq(DOMAIN rows) /\ a \o b # <<>>
    BY <2>1, ConcatProperties, ConcatEqualIffEmpty
  <2>3. first \in Seq(DOMAIN rows) /\ first # <<>>
    BY <2>2, DistinctKeeps, DistinctDiffers
  <2> HIDE DEF first
  <2>4. Pick(rows, first) \in Seq(R) /\ Len(Pick(rows, first)) = Len(first)
    BY <2>3, PickKeeps
  <2>5. Len(first) # 0
    BY <2>3, EmptySeq
  <2>6. Pick(rows, first) # <<>>
    BY <2>4, <2>5, EmptySeq
  <2> QED
    BY <2>6 DEF first
<1>4. ASSUME ~(Len(rows) <= limit), rows # <<>> PROVE kept # <<>>
  <2>1. CASE kept = StratifiedSelect(rows, limit)
    <3> DEFINE families == [i \in DOMAIN rows |-> Family(rows[i].config)]
               tiers == [i \in DOMAIN rows |-> Tier(rows[i].config)]
               modes == [i \in DOMAIN rows |-> Flash(rows[i].config)]
               a == Leaders(rows, families)
               b == Leaders(rows, tiers)
               c == Leaders(rows, modes)
               d == BySpeed(rows)
    <3>1. kept = Pick(rows, FirstDistinct(a \o b \o c \o d, limit))
      BY <1>4, <2>1 DEF StratifiedSelect
    <3>2. /\ a \in Seq(DOMAIN rows) /\ b \in Seq(DOMAIN rows) /\ c \in Seq(DOMAIN rows)
      BY LeadersKeep
    <3>3. d \in Seq(DOMAIN rows) /\ Len(d) = Len(rows)
      BY SpeedKeys, SortedDiffers DEF BySpeed
    <3> HIDE DEF a, b, c, d
    <3>4. a \o b \o c \in Seq(DOMAIN rows)
      BY <3>2, ConcatProperties
    <3> QED
      BY <1>3, <1>4, <3>1, <3>3, <3>4
  <2>2. CASE kept = MaxContextSelect(rows, limit)
    <3> DEFINE ofTier(tier) == {i \in DOMAIN rows : rows[i].config.tier = tier}
               multi == {i \in DOMAIN rows : Multi(rows[i].config)}
               splits == {i \in DOMAIN rows : Split(rows[i].config)}
               q4 == Add(rows, limit, <<>>, ofTier("q4_0"))
               q8 == AddElsewhere(rows, limit, q4, ofTier("q8_0"))
               split == AddMissing(rows, limit, q8, splits)
               single == AddMissing(rows, limit, split, DOMAIN rows \ multi)
               f16 == AddElsewhere(rows, limit, single, ofTier("f16"))
    <3>1. kept = Pick(rows, FirstDistinct(f16 \o ByRoom(rows), limit))
      BY <1>4, <2>2 DEF MaxContextSelect
    <3>2. /\ ofTier("q4_0") \in SUBSET DOMAIN rows /\ ofTier("q8_0") \in SUBSET DOMAIN rows
          /\ ofTier("f16") \in SUBSET DOMAIN rows /\ splits \in SUBSET DOMAIN rows
          /\ DOMAIN rows \ multi \in SUBSET DOMAIN rows
      OBVIOUS
    <3>3. <<>> \in Seq(DOMAIN rows)
      BY EmptySeq
    <3> HIDE DEF ofTier, multi, splits
    <3>4. q4 \in Seq(DOMAIN rows)
      BY <3>2, <3>3, AddKeeps
    <3> HIDE DEF q4
    <3>5. q8 \in Seq(DOMAIN rows)
      BY <3>2, <3>4, AddKeeps
    <3> HIDE DEF q8
    <3>6. split \in Seq(DOMAIN rows)
      BY <3>2, <3>5, AddKeeps
    <3> HIDE DEF split
    <3>7. single \in Seq(DOMAIN rows)
      BY <3>2, <3>6, AddKeeps
    <3> HIDE DEF single
    <3>8. f16 \in Seq(DOMAIN rows)
      BY <3>2, <3>7, AddKeeps
    <3> HIDE DEF f16
    <3>9. ByRoom(rows) \in Seq(DOMAIN rows) /\ Len(ByRoom(rows)) = Len(rows)
      BY RoomKeys, SortedDiffers DEF ByRoom
    <3> QED
      BY <1>3, <1>4, <3>1, <3>8, <3>9
  <2> QED
    BY <2>1, <2>2
<1> QED
  BY <1>1, <1>2, <1>4

-------------------------------------------------------------------------------
(* Which configurations are viable.                                        *)

(* What becomes of an anchor: it is tried without flash attention if that  *)
(* is not supported.                                                       *)
Chosen(c) == IF "on" \in rig.flash THEN c ELSE Alternate(c)

(* Whether this works.                                                     *)
Works(c) ==
  /\ c.placement \in rig.mapped /\ Fits(c)
  /\ "on" \in rig.flash \/ ("off" \in rig.flash /\ tuning.flash)

(* The viable configurations are what becomes of the anchors that work.    *)
LEMMA ViableAre ==
  ASSUME Given
  PROVE  /\ Viable = {Chosen(c) : c \in {a \in ToSet(Anchors) : Works(a)}}
         /\ \A a, b \in ToSet(Anchors) : Chosen(a) = Chosen(b) => a = b
         /\ \A a, b \in ToSet(Anchors) : a # Alternate(b)
<1> DEFINE A == ToSet(Anchors)
<1>1. /\ A \subseteq Configs /\ \A c \in A : c.flash = "on"
  BY AnchorsTyped, Indices DEF ToSet
<1> HIDE DEF A
<1>2. \A c \in A : /\ Alternate(c) = [c EXCEPT !.flash = "off"] /\ Alternate(c).flash = "off"
                   /\ Alternate(c).placement = c.placement /\ Fits(Alternate(c)) = Fits(c)
                   /\ c = [Alternate(c) EXCEPT !.flash = "on"]
  BY <1>1 DEF Alternate, Configs, Fits
<1>3. \A a, b \in A : Chosen(a) = Chosen(b) => a = b
  BY <1>2 DEF Chosen
<1>4. \A a, b \in A : a # Alternate(b)
  BY <1>1, <1>2
<1>5. tuning.flash \in BOOLEAN
  BY FunnelAssumption DEF Given
<1>6. ASSUME NEW a \in A, Works(a) PROVE Chosen(a) \in Viable
  <2>1. CASE "on" \in rig.flash
    BY <1>1, <1>6, <2>1 DEF Viable, Chosen, Works, A
  <2>2. CASE "on" \notin rig.flash
    BY <1>2, <1>6, <2>2 DEF Viable, Chosen, Works, A
  <2> QED
    BY <2>1, <2>2
<1>7. ASSUME NEW c \in Viable PROVE \E a \in A : Works(a) /\ c = Chosen(a)
  <2>1. CASE "on" \in rig.flash
    <3>1. c \in A
      BY <1>2, <1>7, <2>1 DEF Viable, A
    <3> QED
      BY <1>7, <2>1, <3>1 DEF Viable, Works, Chosen
  <2>2. CASE "on" \notin rig.flash
    <3>1. PICK a \in A : tuning.flash /\ c = Alternate(a)
      BY <1>1, <1>7, <2>2 DEF Viable, A
    <3> QED
      BY <1>2, <1>7, <2>2, <3>1 DEF Viable, Works, Chosen
  <2> QED
    BY <2>1, <2>2
<1> QED
  BY <1>3, <1>4, <1>6, <1>7 DEF A

(* They are configurations that work as they are; on GPUs, they offload    *)
(* every layer.                                                            *)
LEMMA ViableWork ==
  ASSUME Given, NEW c \in Viable
  PROVE  /\ c \in Configs /\ c.placement \in rig.mapped /\ c.flash \in rig.flash /\ Fits(c)
         /\ tuning.cuda => c.ngl = tuning.maximum
<1>1. /\ \A a \in ToSet(Anchors) : a \in Configs /\ (tuning.cuda => a.ngl = tuning.maximum)
  BY AnchorsTyped, Indices DEF ToSet
<1>2. PICK a \in ToSet(Anchors) : c \in {a, Alternate(a)}
  BY DEF Viable
<1>3. Alternate(a) \in Configs /\ Alternate(a).ngl = a.ngl
  BY <1>1 DEF Alternate, Configs
<1> QED
  BY <1>1, <1>2, <1>3 DEF Viable

(* There are finitely many.                                                *)
LEMMA ViableFinite == ASSUME Given PROVE IsFiniteSet(Viable)
<1>1. IsFiniteSet(ToSet(Anchors))
  BY AnchorsTyped, DistinctLength
<1> DEFINE T == {Chosen(c) : c \in ToSet(Anchors)}
<1>2. IsFiniteSet(T)
  <2> DEFINE f == [c \in ToSet(Anchors) |-> Chosen(c)]
  <2>1. f \in Surjection(ToSet(Anchors), T)
    BY DEF Surjection
  <2> HIDE DEF f, T
  <2> QED
    BY <1>1, <2>1, FS_Surjection
<1>3. Viable \subseteq T
  BY ViableAre
<1> HIDE DEF T
<1> QED
  BY <1>2, <1>3, FS_Subset

-------------------------------------------------------------------------------
(* Lists whose head is dealt with.                                         *)

(* What is left of a list without repetitions.                             *)
LEMMA TailDiffers ==
  ASSUME NEW S, NEW s \in Seq(S), IsInjective(s), s # <<>>
  PROVE  /\ Tail(s) \in Seq(S) /\ IsInjective(Tail(s))
         /\ ToSet(s) = {Head(s)} \cup ToSet(Tail(s)) /\ Head(s) \notin ToSet(Tail(s))
<1>1. /\ Head(s) = s[1] /\ Tail(s) \in Seq(S) /\ Len(Tail(s)) = Len(s) - 1
      /\ \A i \in 1 .. Len(Tail(s)) : Tail(s)[i] = s[i + 1]
  BY HeadTailProperties
<1>2. /\ Len(s) \in Nat \ {0} /\ DOMAIN s = 1 .. Len(s)
  BY LenProperties, EmptySeq
<1> DEFINE t == Tail(s)
<1>3. DOMAIN t = 1 .. Len(s) - 1 /\ \A i \in DOMAIN t : t[i] = s[i + 1]
  BY <1>1, LenProperties
<1> HIDE DEF t
<1>4. \A i \in DOMAIN t : i \in Int /\ i + 1 \in DOMAIN s /\ i + 1 # 1
  BY <1>2, <1>3
<1>5. IsInjective(t)
  <2> SUFFICES ASSUME NEW i \in DOMAIN t, NEW j \in DOMAIN t, t[i] = t[j] PROVE i = j
    BY DEF IsInjective
  <2>1. i + 1 = j + 1
    BY <1>3, <1>4 DEF IsInjective
  <2> QED
    BY <1>4, <2>1
<1>6. 1 \in DOMAIN s
  BY <1>2
<1>7. s[1] \notin ToSet(t)
  BY <1>3, <1>4, <1>6 DEF ToSet, IsInjective
<1>8. \A k \in DOMAIN s : k = 1 \/ (k - 1 \in DOMAIN t /\ t[k - 1] = s[k])
  <2> TAKE k \in DOMAIN s
  <2>1. k = 1 \/ (k - 1 \in 1 .. Len(s) - 1 /\ k - 1 + 1 = k)
    BY <1>2
  <2> QED
    BY <1>3, <2>1
<1>9. ToSet(s) = {s[1]} \cup ToSet(t)
  <2>1. \A x \in ToSet(s) : x = s[1] \/ x \in ToSet(t)
    BY <1>8 DEF ToSet
  <2>2. s[1] \in ToSet(s) /\ \A x \in ToSet(t) : x \in ToSet(s)
    BY <1>3, <1>4, <1>6 DEF ToSet
  <2> QED
    BY <2>1, <2>2
<1> QED
  BY <1>1, <1>5, <1>7, <1>9 DEF t

(* What is left of any list.                                               *)
LEMMA HeadOrTail ==
  ASSUME NEW S, NEW s \in Seq(S), s # <<>>
  PROVE  \A c \in ToSet(s) : c = Head(s) \/ c \in ToSet(Tail(s))
<1> DEFINE t == Tail(s)
<1>1. /\ Head(s) = s[1] /\ t \in Seq(S) /\ Len(t) = Len(s) - 1
      /\ \A i \in 1 .. Len(t) : t[i] = s[i + 1]
  BY HeadTailProperties
<1>2. DOMAIN s = 1 .. Len(s) /\ DOMAIN t = 1 .. Len(t) /\ Len(s) \in Nat
  BY <1>1, LenProperties
<1> HIDE DEF t
<1> SUFFICES ASSUME NEW i \in DOMAIN s PROVE s[i] = Head(s) \/ s[i] \in ToSet(t)
  BY DEF t, ToSet
<1>3. i = 1 \/ (i - 1 \in 1 .. Len(t) /\ i - 1 + 1 = i)
  BY <1>1, <1>2
<1> QED
  BY <1>1, <1>2, <1>3 DEF ToSet

(* One more row.                                                           *)
LEMMA RowsAppend ==
  ASSUME NEW rows \in Seq(Measured), NEW m \in Measured
  PROVE  /\ Rows(Append(rows, m)) = Append(Rows(rows), m.config)
         /\ ToSet(Rows(Append(rows, m))) = ToSet(Rows(rows)) \cup {m.config}
         /\ IsInjective(Rows(rows)) /\ m.config \notin ToSet(Rows(rows)) =>
              IsInjective(Rows(Append(rows, m)))
<1> DEFINE more == Append(rows, m)
           a == Rows(rows)
           b == Rows(more)
<1>1. Len(rows) \in Nat /\ DOMAIN rows = 1 .. Len(rows) /\ m.config \in Configs
  BY LenProperties DEF Measured
<1>2. /\ more \in Seq(Measured) /\ Len(more) = Len(rows) + 1
      /\ \A i \in 1 .. Len(rows) : more[i] = rows[i]
      /\ more[Len(rows) + 1] = m
  BY AppendProperties
<1> HIDE DEF more
<1>3. a \in Seq(Configs) /\ b \in Seq(Configs) /\ Len(a) = Len(rows) /\ Len(b) = Len(rows) + 1
  BY <1>2, RowsTyped
<1>4. DOMAIN a = 1 .. Len(rows) /\ DOMAIN b = 1 .. Len(rows) + 1 /\ DOMAIN more = 1 .. Len(rows) + 1
  BY <1>1, <1>2, <1>3, LenProperties
<1>5. /\ \A i \in 1 .. Len(rows) : i \in DOMAIN b /\ b[i] = a[i] /\ i # Len(rows) + 1
      /\ Len(rows) + 1 \in DOMAIN b /\ b[Len(rows) + 1] = m.config
  <2>1. /\ Len(rows) + 1 \in DOMAIN b
        /\ \A i \in 1 .. Len(rows) : i \in DOMAIN b /\ i # Len(rows) + 1
    BY <1>1, <1>4
  <2> QED
    BY <1>1, <1>2, <1>4, <2>1 DEF Rows
<1>6. \A i \in DOMAIN b : i \in 1 .. Len(rows) \/ i = Len(rows) + 1
  BY <1>1, <1>4
<1> HIDE DEF a, b
<1>7. b = Append(a, m.config)
  <2>1. /\ Append(a, m.config) \in Seq(Configs) /\ Len(Append(a, m.config)) = Len(rows) + 1
        /\ \A i \in 1 .. Len(rows) : Append(a, m.config)[i] = a[i]
        /\ Append(a, m.config)[Len(rows) + 1] = m.config
    BY <1>1, <1>3, AppendProperties
  <2>2. \A i \in 1 .. Len(b) : b[i] = Append(a, m.config)[i]
    BY <1>3, <1>4, <1>5, <1>6, <2>1
  <2> QED
    BY <1>3, <2>1, <2>2, SeqEqual
<1>8. ToSet(b) = ToSet(a) \cup {m.config}
  BY <1>4, <1>5, <1>6 DEF ToSet
<1>9. IsInjective(a) /\ m.config \notin ToSet(a) => IsInjective(b)
  BY <1>4, <1>5, <1>6 DEF IsInjective, ToSet
<1> QED
  BY <1>7, <1>8, <1>9 DEF a, b, more

-------------------------------------------------------------------------------
(* If no trial is lost, the rows of the cache are what the rig says.       *)

Truthful ==
  losses = 0 =>
    \A c, kind : kind # "static-rejection" =>
      Row(Key(c, kind)) \in {Definitive(c, kind), Failure("interrupted"), Failure("none")}

(* No trial is lost on a machine with GPUs.                                *)
Sure == tuning.cuda /\ losses = 0

(* Rows stay true.                                                         *)
LEMMA TruthStays ==
  ASSUME Truthful, Counted, Given, UNCHANGED args, losses' \in {losses, losses + 1},
         \/ UNCHANGED table
         \/ \E c, kind, r :
              /\ Keep(Key(c, kind), r)
              /\ \/ kind = "static-rejection" \/ losses' = losses + 1
                 \/ r \in {Definitive(c, kind), Failure("interrupted")}
  PROVE  Truthful' /\ (losses' = 0 => losses = 0)
<1>1. losses \in Nat
  BY FunnelAssumption DEF Counted, Given
<1>2. losses' = 0 => losses = 0 /\ losses' # losses + 1
  BY <1>1
<1>3. \A c, kind : Definitive(c, kind)' = Definitive(c, kind)
  BY DEF args, Definitive, ByBench, BenchKinds, Fits, Rate
<1>4. CASE UNCHANGED table
  <2>1. \A k : Row(k)' = Row(k)
    BY <1>4 DEF Row
  <2> QED
    BY <1>2, <1>3, <2>1 DEF Truthful
<1>5. CASE \E c, kind, r :
              /\ Keep(Key(c, kind), r)
              /\ \/ kind = "static-rejection" \/ losses' = losses + 1
                 \/ r \in {Definitive(c, kind), Failure("interrupted")}
  <2>1. PICK c, kind, r :
              /\ Keep(Key(c, kind), r)
              /\ \/ kind = "static-rejection" \/ losses' = losses + 1
                 \/ r \in {Definitive(c, kind), Failure("interrupted")}
    BY <1>5
  <2>2. \A k : Row(k)' = IF k = Key(c, kind) THEN r ELSE Row(k)
    BY <2>1, KeepRow
  <2>3. \A d, other : Key(d, other) = Key(c, kind) => d = c /\ other = kind
    BY DEF Key
  <2>4. ASSUME losses' = 0, NEW d, NEW other, other # "static-rejection"
        PROVE  Row(Key(d, other))' \in {Definitive(d, other), Failure("interrupted"), Failure("none")}
    <3>1. CASE Key(d, other) = Key(c, kind)
      <4>1. d = c /\ other = kind /\ Row(Key(d, other))' = r
        BY <2>2, <2>3, <3>1
      <4>2. r \in {Definitive(c, kind), Failure("interrupted")}
        BY <1>2, <2>1, <2>4, <4>1
      <4> QED
        BY <4>1, <4>2
    <3>2. CASE Key(d, other) # Key(c, kind)
      <4>1. Row(Key(d, other))' = Row(Key(d, other))
        BY <2>2, <3>2
      <4> QED
        BY <1>2, <2>4, <4>1 DEF Truthful
    <3> QED
      BY <3>1, <3>2
  <2> QED
    BY <1>2, <1>3, <2>4 DEF Truthful, Failure
<1> QED
  BY <1>4, <1>5

(* A trial and a row answer what the rig says.                             *)
LEMMA Answers ==
  ASSUME Inv, Truthful, Reuse \/ Execute
  PROVE  Truthful' /\ (losses' = 0 => losses = 0 /\ Use(Definitive(Config, Kind)))
<1>1. Given /\ Counted /\ Measuring
  BY DEF Inv, Reuse, Execute
<1>2. \A kind : kind = Kind => kind # "static-rejection"
  BY <1>1 DEF Kind, Measuring
<1>3. CASE Reuse
  <2>1. losses' = losses /\ UNCHANGED table /\ UNCHANGED args
    BY <1>3 DEF Reuse
  <2>2. Truthful' /\ (losses' = 0 => losses = 0)
    BY <1>1, <2>1, TruthStays
  <2>3. losses = 0 => Row(Key(Config, Kind)) \in
                        {Definitive(Config, Kind), Failure("interrupted"), Failure("none")}
    BY <1>2 DEF Truthful
  <2>4. losses = 0 => Row(Key(Config, Kind)) = Definitive(Config, Kind)
    BY <1>3, <2>3 DEF Reuse, Reusable, Transient, Failure
  <2> QED
    BY <1>3, <2>2, <2>4 DEF Reuse
<1>4. CASE Execute
  <2>1. PICK r \in {Definitive(Config, Kind)} \cup Losable(Kind) :
           /\ Use(r) /\ Keep(Key(Config, Kind), r)
           /\ losses' = IF r.status \in {"timeout", "lost"} THEN losses + 1 ELSE losses
    BY <1>4 DEF Execute
  <2>2. r = Definitive(Config, Kind) \/ losses' = losses + 1
    BY <2>1 DEF Losable, Failure
  <2>3. UNCHANGED args /\ losses' \in {losses, losses + 1}
    BY <1>4, <2>1 DEF Execute
  <2>4. \E c, kind, s : /\ Keep(Key(c, kind), s)
                        /\ \/ kind = "static-rejection" \/ losses' = losses + 1
                           \/ s \in {Definitive(c, kind), Failure("interrupted")}
    BY <2>1, <2>2
  <2>5. Truthful' /\ (losses' = 0 => losses = 0)
    BY <1>1, <2>3, <2>4, TruthStays
  <2>6. losses' = 0 => losses' # losses + 1
    BY <2>5
  <2> QED
    BY <2>1, <2>2, <2>5, <2>6
<1> QED
  BY <1>3, <1>4

-------------------------------------------------------------------------------
(* The second invariant.                                                   *)

(* The survey of startup has chosen what works of the anchors it has dealt *)
(* with.                                                                   *)
Surveyed ==
  stage = "startup" /\ Sure =>
    /\ IsInjective(todo) /\ ToSet(todo) \subseteq ToSet(Anchors)
    /\ IsInjective(Rows(passed))
    /\ ToSet(Rows(passed)) = {Chosen(c) : c \in {a \in ToSet(Anchors) \ ToSet(todo) : Works(a)}}
    /\ again => todo # <<>> /\ "on" \notin rig.flash /\ tuning.flash
    /\ \A c \in ToSet(todo) : Alternate(c) \in admitted => again /\ c = Head(todo)

(* A tune begins with nothing.                                             *)
Fresh == stage = "begin" => ~again

(* So few are viable that a place is left for each in every stage.         *)
Few ==
  Cardinality(Viable) <=
    Least(tuning.finalists, IF Capacity THEN Budget.frontiers.capacity ELSE Budget.finalists)

(* Only viable configurations are in line, all of them if they are few.    *)
Lined(line) ==
  /\ line # <<>> /\ ToSet(line) \subseteq Viable
  /\ Few => IsInjective(line) /\ ToSet(line) = Viable

(* Those that a stage has kept, and those that it has still to measure.    *)
Line ==
  IF stage \in {"coarse", "target", "validate"} THEN Rows(passed) \o todo ELSE Rows(passed)

Narrowed ==
  Sure /\ Viable # {} =>
    /\ stage # "fallback"
    /\ stage \in {"coarse", "target", "validate", "diagnose", "frontier"} => Lined(Line)

(* Scores are those of the validation, and the first is the best.          *)
Rated ==
  Sure /\ Viable # {} /\ ~Capacity /\ stage \in {"validate", "frontier"} =>
    \A i \in DOMAIN passed : passed[i].score = Rate(passed[i].config, "validate")

Ordered ==
  stage = "frontier" => \A i \in DOMAIN passed : passed[1].score >= passed[i].score

(* The frontiers that are found in time are the safe ones, ...             *)
Explored ==
  losses = 0 /\ ~late => \A c \in DOMAIN frontiers : frontiers[c] = Safe(c)

(* ... and they are found of all viable configurations, if these are few.  *)
Pursued ==
  Sure /\ Viable # {} /\ Few /\ Capacity /\ Mode # "off" /\ ~late /\ stage = "frontier" =>
    Viable \subseteq ToSet(todo) \cup DOMAIN frontiers

Best ==
  /\ Truthful /\ Surveyed /\ Fresh /\ Narrowed /\ Rated /\ Ordered /\ Explored /\ Pursued
  /\ FastestWins /\ RoomiestWins

(* What is given does not change.                                          *)
LEMMA Constant ==
  ASSUME UNCHANGED args
  PROVE  /\ tuning' = tuning /\ rig' = rig
         /\ Anchors' = Anchors /\ Viable' = Viable /\ Few' = Few /\ Capacity' = Capacity
         /\ Mode' = Mode /\ Budget' = Budget /\ Quick' = Quick
         /\ \A c : Chosen(c)' = Chosen(c) /\ Works(c)' = Works(c) /\ Safe(c)' = Safe(c)
         /\ \A c, kind : Rate(c, kind)' = Rate(c, kind)
         /\ \A line : Lined(line)' = Lined(line)
<1>1. tuning' = tuning /\ rig' = rig
  BY DEF args
<1>2. Anchors' = Anchors
  BY <1>1 DEF Anchors
<1>3. Capacity' = Capacity /\ Budget' = Budget /\ Mode' = Mode /\ Quick' = Quick
  BY <1>1 DEF Capacity, Budget, Mode, Quick
<1>4. \A c : Fits(c)' = Fits(c) /\ Safe(c)' = Safe(c)
  BY <1>1 DEF Fits, Safe
<1>5. \A c : Chosen(c)' = Chosen(c) /\ Works(c)' = Works(c)
  BY <1>1, <1>4 DEF Chosen, Works
<1>6. Viable' = Viable
  BY <1>1, <1>2, <1>4 DEF Viable
<1>7. Few' = Few
  BY <1>1, <1>3, <1>6 DEF Few
<1>8. \A line : Lined(line)' = Lined(line)
  BY <1>6, <1>7 DEF Lined
<1>9. \A c, kind : Rate(c, kind)' = Rate(c, kind)
  BY <1>1 DEF Rate
<1> QED
  BY <1>1, <1>2, <1>3, <1>4, <1>5, <1>6, <1>7, <1>8, <1>9

-------------------------------------------------------------------------------
(* The survey.                                                             *)

(* What startup makes of the head of its list: it tries it again, or is    *)
(* done with it and has kept it if it works.                               *)
LEMMA Surveys ==
  ASSUME Inv, stage = "startup", Sure, Surveyed, Measuring, Mapped,
         NEW r, r = Definitive(Config, Kind)
  PROVE  \/ Retries(r) /\ ~Passes(r) /\ ~again /\ "on" \notin rig.flash /\ tuning.flash
         \/ ~Retries(r) /\ (Passes(r) <=> Works(Head(todo)))
              /\ (Passes(r) => Config = Chosen(Head(todo)))
<1> DEFINE a == Head(todo)
<1>1. todo \in Seq(Configs) /\ todo # <<>> /\ again \in BOOLEAN
  BY DEF Inv, Working, Measuring
<1>2. a \in ToSet(todo) /\ a \in Configs
  BY <1>1, HeadTailProperties, TailDiffers DEF Surveyed
<1>3. a.flash = "on" /\ a \in ToSet(Anchors) /\ tuning.cuda
  BY <1>2, AnchorsTyped DEF Surveyed, Inv, Sure
<1> HIDE DEF a
<1>4. /\ Alternate(a) = [a EXCEPT !.flash = "off"] /\ Alternate(a).flash = "off"
      /\ Alternate(a).placement = a.placement /\ Fits(Alternate(a)) = Fits(a)
  BY <1>2, <1>3 DEF Alternate, Configs, Fits
<1>5. Config = (IF again THEN Alternate(a) ELSE a) /\ Kind = "startup"
  BY DEF Config, Kind, Layered, a
<1>6. r = IF Config.flash \notin rig.flash THEN Failure("unsupported")
          ELSE IF ~Fits(Config) /\ rig.strict THEN Failure("failed")
          ELSE Ok(Rate(Config, "startup"), Fits(Config))
  BY <1>5 DEF Definitive, ByBench, BenchKinds
<1>7. a.placement \in rig.mapped
  BY <1>4, <1>5 DEF Mapped
<1>8. tuning.flash \in BOOLEAN
  BY FunnelAssumption DEF Given, Inv
<1>9. Retries(r) <=> /\ ~again /\ r.status = "unsupported" /\ tuning.flash
                     /\ Alternate(Config) \notin admitted
  BY DEF Retries
<1>10. Passes(r) <=> r.status = "ok" /\ r.full
  BY <1>3 DEF Passes
<1>11. Fits(a) \in BOOLEAN
  BY DEF Fits
<1>12. CASE ~again
  <2>1. Config = a /\ Alternate(a) \notin admitted
    BY <1>2, <1>5, <1>12 DEF Surveyed
  <2>2. CASE "on" \in rig.flash
    <3>1. r = IF ~Fits(a) /\ rig.strict THEN Failure("failed") ELSE Ok(Rate(a, "startup"), Fits(a))
      BY <1>3, <1>6, <2>1, <2>2
    <3>2. r.status # "unsupported" /\ (r.status = "ok" /\ r.full <=> Fits(a))
      BY <1>11, <3>1 DEF Failure, Ok
    <3> QED
      BY <1>7, <1>9, <1>10, <2>1, <2>2, <3>2 DEF Works, Chosen, a
  <2>3. CASE "on" \notin rig.flash
    <3>1. r.status = "unsupported"
      BY <1>3, <1>6, <2>1, <2>3 DEF Failure
    <3> QED
      BY <1>8, <1>9, <1>10, <1>12, <2>1, <2>3, <3>1 DEF Works, a
  <2> QED
    BY <2>2, <2>3
<1>13. CASE again
  <2>1. "on" \notin rig.flash /\ tuning.flash /\ Config = Alternate(a)
    BY <1>5, <1>13 DEF Surveyed
  <2>2. r = IF "off" \notin rig.flash THEN Failure("unsupported")
            ELSE IF ~Fits(a) /\ rig.strict THEN Failure("failed")
            ELSE Ok(Rate(Config, "startup"), Fits(a))
    BY <1>4, <1>6, <2>1
  <2>3. r.status = "ok" /\ r.full <=> "off" \in rig.flash /\ Fits(a)
    BY <1>11, <2>2 DEF Failure, Ok
  <2> QED
    BY <1>7, <1>9, <1>10, <1>13, <2>1, <2>3 DEF Works, Chosen, a
<1> QED
  BY <1>1, <1>12, <1>13

(* The survey goes on.                                                     *)
LEMMA SurveyGoesOn ==
  ASSUME Inv, stage = "startup", Sure, Surveyed, UNCHANGED args, todo # <<>>,
         todo' = Tail(todo), ~again', admitted' = admitted \cup {Head(todo), Alternate(Head(todo))}
                                       \/ admitted' = admitted \cup {Head(todo)}
                                       \/ admitted' = admitted \cup {Alternate(Head(todo))}
                                       \/ admitted' = admitted,
         \/ passed' = passed /\ ~Works(Head(todo))
         \/ /\ Works(Head(todo))
            /\ \E m \in Measured : m.config = Chosen(Head(todo)) /\ passed' = Append(passed, m)
  PROVE  Surveyed'
<1> DEFINE a == Head(todo)
           A == ToSet(Anchors)
           done == {Chosen(c) : c \in {b \in A \ ToSet(todo) : Works(b)}}
           more == {Chosen(c) : c \in {b \in A \ ToSet(Tail(todo)) : Works(b)}}
<1>1. todo \in Seq(Configs) /\ passed \in Seq(Measured) /\ Given
  BY SeqMonotonic DEF Inv, Working, Good
<1>2. /\ IsInjective(todo) /\ ToSet(todo) \subseteq A /\ IsInjective(Rows(passed))
      /\ ToSet(Rows(passed)) = done
      /\ \A c \in ToSet(todo) : Alternate(c) \in admitted => again /\ c = a
  BY DEF Surveyed
<1>3. /\ Tail(todo) \in Seq(Configs) /\ IsInjective(Tail(todo))
      /\ ToSet(todo) = {a} \cup ToSet(Tail(todo)) /\ a \notin ToSet(Tail(todo))
  BY <1>1, <1>2, TailDiffers
<1>4. /\ \A b, c \in A : Chosen(b) = Chosen(c) => b = c
      /\ \A b, c \in A : b # Alternate(c)
  BY <1>1, ViableAre
<1>5. \A b, c \in A : Alternate(b) = Alternate(c) => b = c
  <2>1. \A c \in A : c.flash = "on" /\ c \in Configs
    BY <1>1, AnchorsTyped, Indices DEF ToSet
  <2>2. \A c \in A : c = [Alternate(c) EXCEPT !.flash = "on"]
    BY <2>1 DEF Alternate, Configs
  <2> QED
    BY <2>2
<1>6. a \in A
  BY <1>2, <1>3
<1> HIDE DEF a, A
<1>7. more = IF Works(a) THEN done \cup {Chosen(a)} ELSE done
  <2>1. \A b : b \in A \ ToSet(Tail(todo)) <=> b \in A \ ToSet(todo) \/ b = a
    BY <1>3, <1>6
  <2> QED
    BY <2>1
<1>8. Chosen(a) \notin done
  BY <1>2, <1>3, <1>4, <1>6
<1> HIDE DEF done, more
<1>9. IsInjective(Rows(passed')) /\ ToSet(Rows(passed')) = more
  <2>1. CASE passed' = passed /\ ~Works(a)
    BY <1>2, <1>7, <2>1
  <2>2. CASE Works(a) /\ \E m \in Measured : m.config = Chosen(a) /\ passed' = Append(passed, m)
    <3>1. PICK m \in Measured : m.config = Chosen(a) /\ passed' = Append(passed, m)
      BY <2>2
    <3> QED
      BY <1>1, <1>2, <1>7, <1>8, <2>2, <3>1, RowsAppend
  <2> QED
    BY <2>1, <2>2 DEF a
<1>10. \A c \in ToSet(Tail(todo)) : Alternate(c) \notin admitted'
  <2> TAKE c \in ToSet(Tail(todo))
  <2>1. c \in A /\ c # a /\ Alternate(c) \notin admitted
    BY <1>2, <1>3
  <2>2. Alternate(c) # a /\ Alternate(c) # Alternate(a)
    BY <1>4, <1>5, <1>6, <2>1
  <2> QED
    BY <2>1, <2>2 DEF a
<1>11. A = ToSet(Anchors)' /\ \A c : Chosen(c)' = Chosen(c) /\ Works(c)' = Works(c)
  BY Constant DEF A
<1>12. Rows(passed)' = Rows(passed')
  BY DEF Rows
<1>13. more = {Chosen(c) : c \in {b \in ToSet(Anchors) \ ToSet(todo) : Works(b)}}'
  BY <1>11 DEF more
<1> QED
  BY <1>2, <1>3, <1>9, <1>10, <1>11, <1>12, <1>13 DEF Surveyed

(* The survey's next test, or its rejection of a placement without one.    *)
LEMMA SurveyHolds ==
  ASSUME Inv, Best, Reuse \/ Execute \/ StaticReject
  PROVE  Surveyed'
<1> SUFFICES ASSUME stage' = "startup", Sure' PROVE Surveyed'
  BY DEF Surveyed
<1>1. UNCHANGED <<args, stage>> /\ Measuring
  BY DEF Reuse, Execute, StaticReject, Use
<1>2. losses = 0
  BY Answers DEF Sure, Best, StaticReject
<1>3. stage = "startup" /\ Sure /\ Surveyed /\ todo # <<>>
  BY <1>1, <1>2, Constant DEF Sure, Best, Measuring
<1>4. Head(todo) \in ToSet(todo) /\ Head(todo).flash = "on"
  BY <1>3, TailDiffers, AnchorsTyped DEF Surveyed, Inv, Working
<1>5. CASE Reuse \/ Execute
  <2> DEFINE r == Definitive(Config, Kind)
  <2>1. Use(r) /\ Mapped
    BY <1>3, <1>5, Answers DEF Sure, Best, Reuse, Execute
  <2>2. ~Layered /\ Config = IF again THEN Alternate(Head(todo)) ELSE Head(todo)
    BY <1>3 DEF Layered, Config
  <2>3. r \in Results /\ Config \in Configs
    BY <1>3, ConfigTyped, ResultsTyped DEF Inv
  <2> HIDE DEF r
  <2>4. /\ again' = Retries(r)
        /\ todo' = (IF Retries(r) THEN todo ELSE Tail(todo))
        /\ admitted' = admitted \cup {Config} \cup (IF Retries(r) THEN {Alternate(Config)} ELSE {})
        /\ passed' = IF Passes(r) THEN Append(passed, [config |-> Config, score |-> r.score])
                     ELSE passed
    BY <1>3, <2>1, <2>2 DEF Use
  <2>5. CASE Retries(r) /\ ~Passes(r) /\ ~again /\ "on" \notin rig.flash /\ tuning.flash
    <3>1. /\ again' = TRUE /\ todo' = todo /\ passed' = passed
          /\ admitted' = admitted \cup {Head(todo), Alternate(Head(todo))}
      BY <2>2, <2>4, <2>5
    <3>2. \A c \in ToSet(todo) : Alternate(c) \in admitted' => c = Head(todo)
      <4>1. ToSet(todo) \subseteq ToSet(Anchors) /\ \A c \in ToSet(todo) : Alternate(c) \notin admitted
        BY <1>3, <2>5 DEF Surveyed
      <4>2. \A a, b \in ToSet(Anchors) : a # Alternate(b)
        BY ViableAre DEF Inv
      <4>3. \A c \in ToSet(Anchors) : c \in Configs /\ c.flash = "on"
        BY AnchorsTyped, Indices DEF ToSet, Inv
      <4>4. \A c \in ToSet(Anchors) : c = [Alternate(c) EXCEPT !.flash = "on"]
        BY <4>3 DEF Alternate, Configs
      <4> QED
        BY <1>4, <3>1, <4>1, <4>2, <4>4
    <3>3. Rows(passed)' = Rows(passed)
      BY <3>1 DEF Rows
    <3> QED
      BY <1>1, <1>3, <2>5, <3>1, <3>2, <3>3, Constant DEF Surveyed
  <2>6. CASE ~Retries(r) /\ (Passes(r) <=> Works(Head(todo)))
              /\ (Passes(r) => Config = Chosen(Head(todo)))
    <3>1. /\ ~again' /\ todo' = Tail(todo)
          /\ admitted' = admitted \cup {Config}
      BY <2>4, <2>6
    <3>2. [config |-> Config, score |-> r.score] \in Measured
      BY <2>3 DEF Measured, Results
    <3>3. \/ passed' = passed /\ ~Works(Head(todo))
          \/ /\ Works(Head(todo))
             /\ \E m \in Measured : m.config = Chosen(Head(todo)) /\ passed' = Append(passed, m)
      BY <2>4, <2>6, <3>2
    <3>4. \/ admitted' = admitted \cup {Head(todo)}
          \/ admitted' = admitted \cup {Alternate(Head(todo))}
      BY <2>2, <3>1
    <3> QED
      BY <1>1, <1>3, <3>1, <3>3, <3>4, SurveyGoesOn
  <2>7. Measuring /\ r = Definitive(Config, Kind)
    BY <1>1 DEF r
  <2>8. \A s : s = Definitive(Config, Kind) =>
          \/ Retries(s) /\ ~Passes(s) /\ ~again /\ "on" \notin rig.flash /\ tuning.flash
          \/ ~Retries(s) /\ (Passes(s) <=> Works(Head(todo)))
               /\ (Passes(s) => Config = Chosen(Head(todo)))
    BY <1>3, <2>1, <2>7, Surveys
  <2> QED
    BY <2>5, <2>6, <2>7, <2>8, Zenon
<1>6. CASE StaticReject
  <2>1. ~again /\ ~Mapped /\ todo' = Tail(todo) /\ UNCHANGED <<args, again, passed, admitted>>
    BY <1>6 DEF StaticReject
  <2>2. Config = Head(todo)
    BY <1>3, <2>1 DEF Config, Layered
  <2>3. ~Works(Head(todo))
    BY <2>1, <2>2 DEF Works, Mapped
  <2> QED
    BY <1>3, <2>1, <2>3, SurveyGoesOn
<1> QED
  BY <1>5, <1>6

-------------------------------------------------------------------------------
(* The line moves.                                                         *)

(* A viable configuration passes every later stage, at the latest in the   *)
(* second way.                                                             *)
LEMMA ViablePasses ==
  ASSUME Inv, stage \in {"coarse", "target", "validate"}, Measuring, Head(todo) \in Viable,
         NEW r, r = Definitive(Config, Kind)
  PROVE  /\ Config = Head(todo)
         /\ Passes(r) => ~Retries(r) /\ r.score = Rate(Config, Kind)
         /\ ~Passes(r) => Retries(r) /\ stage # "validate"
<1>1. Config = Head(todo) /\ again \in BOOLEAN /\ tuning.bench \in BOOLEAN
  BY FunnelAssumption DEF Config, Layered, Inv, Working, Given
<1>2. Config.flash \in rig.flash /\ Fits(Config)
  BY <1>1, ViableWork DEF Inv
<1>3. r = IF \/ Kind = "coarse" /\ ~tuning.bench
             \/ ByBench(Kind) /\ ~rig.bench
          THEN Failure("failed") ELSE Ok(Rate(Config, Kind), TRUE)
  BY <1>2 DEF Definitive
<1>4. Passes(r) <=> r.status = "ok"
  BY DEF Passes
<1>5. CASE r = Ok(Rate(Config, Kind), TRUE)
  <2>1. r.status = "ok" /\ r.score = Rate(Config, Kind)
    BY <1>5 DEF Ok
  <2> QED
    BY <1>1, <1>4, <2>1 DEF Retries
<1>6. CASE r # Ok(Rate(Config, Kind), TRUE)
  <2>1. /\ r = Failure("failed")
        /\ (Kind = "coarse" /\ ~tuning.bench) \/ (ByBench(Kind) /\ ~rig.bench)
    BY <1>3, <1>6, Zenon
  <2>2. ~again /\ (stage = "coarse" \/ (stage = "target" /\ tuning.bench))
    BY <1>1, <2>1 DEF ByBench, BenchKinds, Kind
  <2>3. r.status = "failed"
    BY <2>1 DEF Failure
  <2> QED
    BY <1>1, <1>4, <2>2, <2>3 DEF Retries
<1> QED
  BY <1>5, <1>6

(* A test or its answer keeps the line and its scores.                     *)
LEMMA LineHolds ==
  ASSUME Inv, Best, Reuse \/ Execute
  PROVE  Narrowed' /\ Rated'
<1> SUFFICES ASSUME Sure', Viable' # {} PROVE Narrowed' /\ Rated'
  BY DEF Narrowed, Rated
<1> DEFINE r == Definitive(Config, Kind)
<1>1. UNCHANGED args /\ Measuring
  BY DEF Reuse, Execute
<1>2. losses = 0 /\ Use(r)
  BY Answers DEF Sure, Best
<1>3. stage' = stage
  BY <1>2 DEF Use
<1>4. Sure /\ Viable # {} /\ todo # <<>>
  BY <1>1, <1>2, Constant DEF Sure, Measuring
<1>5. /\ stage # "fallback"
      /\ stage \in {"coarse", "target", "validate", "diagnose", "frontier"} => Lined(Line)
      /\ ~Capacity /\ stage \in {"validate", "frontier"} =>
           \A i \in DOMAIN passed : passed[i].score = Rate(passed[i].config, "validate")
  BY <1>4 DEF Best, Narrowed, Rated
<1>6. stage # "frontier" /\ Good \subseteq Measured
  BY <1>1 DEF Measuring, Good
<1>7. todo \in Seq(Configs) /\ passed \in Seq(Measured) /\ again \in BOOLEAN /\ Given
  BY <1>6, SeqMonotonic DEF Inv, Working
<1>8. r \in Results /\ Config \in Configs
  BY <1>4, ConfigTyped, ResultsTyped DEF Inv
<1> HIDE DEF r
<1>9. CASE stage \in {"coarse", "target", "validate"}
  <2> DEFINE m == [config |-> Config, score |-> r.score]
  <2>1. Lined(Rows(passed) \o todo)
    BY <1>5, <1>9 DEF Line
  <2>2. Head(todo) \in Viable
    <3>1. Rows(passed) \in Seq(Configs) /\ Head(todo) = todo[1]
      BY <1>7, <1>4, RowsTyped, HeadTailProperties
    <3>2. DOMAIN Rows(passed) = 1 .. Len(Rows(passed)) /\ Len(Rows(passed)) \in Nat
      BY <3>1, Indices
    <3>3. Len(todo) \in Nat \ {0}
      BY <1>4, <1>7, EmptySeq, LenProperties
    <3>4. /\ Rows(passed) \o todo \in Seq(Configs)
          /\ Len(Rows(passed) \o todo) = Len(Rows(passed)) + Len(todo)
          /\ (Rows(passed) \o todo)[Len(Rows(passed)) + 1] = todo[1]
      BY <1>7, <3>1, <3>2, <3>3, ConcatProperties
    <3>5. Len(Rows(passed)) + 1 \in DOMAIN (Rows(passed) \o todo)
      BY <3>2, <3>3, <3>4, LenProperties
    <3> QED
      BY <2>1, <3>1, <3>4, <3>5 DEF Lined, ToSet
  <2>3. \A s : s = Definitive(Config, Kind) =>
          /\ Config = Head(todo)
          /\ Passes(s) => ~Retries(s) /\ s.score = Rate(Config, Kind)
          /\ ~Passes(s) => Retries(s) /\ stage # "validate"
    BY <1>1, <1>9, <2>2, ViablePasses
  <2>4. /\ Config = Head(todo)
        /\ Passes(r) => ~Retries(r) /\ r.score = Rate(Config, Kind)
        /\ ~Passes(r) => Retries(r) /\ stage # "validate"
    BY <2>3, Zenon DEF r
  <2>5. /\ todo' = (IF Retries(r) THEN todo ELSE Tail(todo))
        /\ passed' = IF Passes(r) THEN Append(passed, m) ELSE passed
    BY <1>2, <1>9 DEF Use, Layered
  <2>6. m \in Measured /\ m.config = Head(todo)
    BY <1>8, <2>4 DEF Measured, Results
  <2> HIDE DEF m
  <2>7. (Rows(passed) \o todo)' = Rows(passed) \o todo
    <3>1. Rows(passed)' = Rows(passed')
      BY DEF Rows
    <3>2. CASE Passes(r)
      <4>1. Rows(passed') = Append(Rows(passed), Head(todo)) /\ todo' = Tail(todo)
        BY <1>7, <2>4, <2>5, <2>6, <3>2, RowsAppend
      <4>2. Rows(passed) \in Seq(Configs)
        BY <1>7, RowsTyped
      <4>3. Append(Rows(passed), Head(todo)) \o Tail(todo) = Rows(passed) \o todo
        BY <1>4, <1>7, <4>2, LineMoves
      <4> QED
        BY <3>1, <4>1, <4>3
    <3>3. CASE ~Passes(r)
      BY <2>4, <2>5, <3>1, <3>3
    <3> QED
      BY <3>2, <3>3
  <2>8. Narrowed'
    <3>1. Lined(Rows(passed) \o todo)'
      BY <1>1, <2>1, <2>7, Constant
    <3> QED
      BY <1>3, <1>9, <3>1 DEF Narrowed, Line
  <2>9. Rated'
    <3> SUFFICES ASSUME ~Capacity, stage = "validate", NEW i \in DOMAIN passed'
                 PROVE  passed'[i].score = Rate(passed'[i].config, "validate")
      BY <1>1, <1>3, <1>9, Constant DEF Rated
    <3>1. Kind = "validate" /\ passed' = Append(passed, m)
      BY <2>4, <2>5 DEF Kind
    <3>2. m.score = Rate(m.config, "validate")
      BY <2>4, <2>5, <3>1 DEF m
    <3>3. /\ Append(passed, m) \in Seq(Measured) /\ Len(passed) \in Nat
          /\ Len(Append(passed, m)) = Len(passed) + 1
          /\ \A k \in 1 .. Len(passed) : Append(passed, m)[k] = passed[k]
          /\ Append(passed, m)[Len(passed) + 1] = m
      BY <1>7, <2>6, AppendProperties, LenProperties
    <3>4. (i \in 1 .. Len(passed) /\ i \in DOMAIN passed) \/ i = Len(passed) + 1
      BY <1>7, <3>1, <3>3, LenProperties
    <3> QED
      BY <1>5, <3>1, <3>2, <3>3, <3>4
  <2> QED
    BY <2>8, <2>9
<1>10. CASE stage = "diagnose"
  <2>1. passed' = passed
    BY <1>2, <1>10 DEF Use, Passes
  <2>2. Rows(passed)' = Rows(passed) /\ Lined(Rows(passed))
    BY <1>5, <1>10, <2>1 DEF Rows, Line
  <2>3. Lined(Rows(passed))'
    BY <1>1, <2>2, Constant
  <2> QED
    BY <1>3, <1>10, <2>3 DEF Narrowed, Rated, Line
<1>11. CASE stage \notin {"coarse", "target", "validate", "diagnose"}
  BY <1>3, <1>5, <1>6, <1>11 DEF Narrowed, Rated
<1> QED
  BY <1>9, <1>10, <1>11

-------------------------------------------------------------------------------
(* No selection takes a place in the line from the few.                    *)

(* The rows of viable configurations.                                      *)
Able == {m \in Measured : m.config \in Viable}

(* The rows of a line.                                                     *)
LEMMA LinedRows ==
  ASSUME Given, NEW rows \in Seq(Measured), Lined(Rows(rows))
  PROVE  /\ rows \in Seq(Able) /\ rows # <<>>
         /\ Few => Len(rows) = Cardinality(Viable)
<1>1. /\ DOMAIN rows = 1 .. Len(rows) /\ Len(rows) \in Nat
      /\ \A i \in DOMAIN rows : rows[i] \in Measured
  BY Indices
<1>2. Rows(rows) \in Seq(Configs) /\ Len(Rows(rows)) = Len(rows)
  BY RowsTyped
<1>3. \A i \in DOMAIN rows : rows[i].config \in Viable
  <2>1. \A i \in DOMAIN rows : rows[i].config \in ToSet(Rows(rows))
    BY DEF Rows, ToSet
  <2> QED
    BY <2>1 DEF Lined
<1>4. rows \in Seq(Able)
  <2>1. rows \in [1 .. Len(rows) -> Able]
    BY <1>1, <1>3, LenProperties DEF Able
  <2> QED
    BY <1>1, <2>1, SeqDef
<1>5. rows # <<>>
  BY <1>2, EmptySeq DEF Lined
<1>6. Few => Len(rows) = Cardinality(Viable)
  BY <1>2, DistinctLength DEF Lined
<1> QED
  BY <1>4, <1>5, <1>6

(* What is selected of a line is one.                                      *)
LEMMA SelectLined ==
  ASSUME Given, NEW rows \in Seq(Measured), Lined(Rows(rows)),
         NEW limit \in Nat, limit > 0, Few => Cardinality(Viable) <= limit,
         NEW kept \in {StratifiedSelect(rows, limit), MaxContextSelect(rows, limit)}
  PROVE  kept \in Seq(Measured) /\ Lined(Rows(kept)) /\ (Few => kept = rows)
<1>1. rows \in Seq(Able) /\ rows # <<>> /\ (Few => Len(rows) = Cardinality(Viable))
  BY LinedRows
<1>2. Able \in SUBSET Measured /\ Scored(Able)
  BY MeasuredScored DEF Able, Scored
<1>3. kept \in Seq(Able) /\ (Len(rows) <= limit => kept = rows) /\ kept # <<>>
  <2>1. rows \in Seq(Able) /\ Scored(Able)
    BY <1>1, <1>2
  <2>2. kept = StratifiedSelect(rows, limit) \/ kept = MaxContextSelect(rows, limit)
    OBVIOUS
  <2>3. kept \in Seq(Able) /\ (Len(rows) <= limit => kept = rows) /\ (rows # <<>> => kept # <<>>)
    BY <2>1, <2>2, SelectionKeeps
  <2> QED
    BY <1>1, <2>3
<1>4. kept \in Seq(Measured) /\ Rows(kept) \in Seq(Configs) /\ Len(Rows(kept)) = Len(kept)
  BY <1>2, <1>3, SeqMonotonic, RowsTyped
<1>5. Rows(kept) # <<>>
  BY <1>3, <1>4, EmptySeq
<1>6. ToSet(Rows(kept)) \subseteq Viable
  <2>1. \A i \in DOMAIN kept : kept[i].config \in Viable
    BY <1>3, Indices DEF Able
  <2> QED
    BY <2>1 DEF ToSet, Rows
<1>7. Few => kept = rows
  BY <1>1, <1>3
<1> QED
  BY <1>4, <1>5, <1>6, <1>7 DEF Lined

(* Every stage has a place for the few.                                    *)
LEMMA Places ==
  ASSUME Given
  PROVE  LET room == IF Capacity THEN Budget.frontiers.capacity ELSE Budget.finalists
             last == Least(tuning.finalists, room)
         IN  /\ last \in Nat /\ last > 0 /\ last <= room
             /\ last <= Budget.startup /\ last <= Budget.smoke /\ last <= Budget.coarse
             /\ Few => Cardinality(Viable) <= last
<1>1. tuning.budget \in Budgets /\ tuning.finalists \in Nat \ {0}
  BY FunnelAssumption DEF Given
<1> DEFINE room == IF Capacity THEN Budget.frontiers.capacity ELSE Budget.finalists
           last == Least(tuning.finalists, room)
<1>2. /\ room \in Nat \ {0} /\ Budget.startup \in Nat /\ Budget.smoke \in Nat
      /\ Budget.coarse \in Nat
      /\ room <= Budget.startup /\ room <= Budget.smoke /\ room <= Budget.coarse
  <2>1. CASE tuning.budget = "quick"
    BY <2>1 DEF Budget, Plan
  <2>2. CASE tuning.budget = "normal"
    BY <2>2 DEF Budget, Plan
  <2>3. CASE tuning.budget = "thorough"
    BY <2>3 DEF Budget, Plan
  <2> QED
    BY <1>1, <2>1, <2>2, <2>3 DEF Budgets
<1>3. Few => Cardinality(Viable) <= last
  BY DEF Few
<1> HIDE DEF room
<1>4. last \in Nat /\ last > 0 /\ last <= room
  BY <1>1, <1>2 DEF Least
<1> HIDE DEF last
<1> QED
  BY <1>2, <1>3, <1>4 DEF room, last

(* The fastest are the rows themselves, the first of them in front.        *)
LEMMA FastestLead ==
  ASSUME Given, NEW rows \in Seq(Measured)
  PROVE  LET winners == Fastest(rows)
         IN  /\ winners \in Seq(Measured) /\ (rows # <<>> => winners # <<>>)
             /\ \A i \in DOMAIN winners : /\ winners[1].score >= winners[i].score
                                          /\ \E k \in DOMAIN rows : winners[i] = rows[k]
             /\ ToSet(Rows(winners)) = ToSet(Rows(rows))
             /\ IsInjective(Rows(rows)) => IsInjective(Rows(winners))
<1> DEFINE winners == Fastest(rows)
           keys == [i \in DOMAIN rows |-> <<0 - rows[i].score, FamilyName(rows[i].config),
                                            TierName(rows[i].config)>>]
           list == Sorted(keys)
<1>1. Scored(Measured) /\ winners \in Seq(Measured) /\ Len(winners) = Len(rows)
  BY MeasuredScored, FastestKeeps
<1>2. ASSUME NEW i \in DOMAIN rows
      PROVE  /\ keys[i] \in Tuples(3) /\ keys[i][1] = 0 - rows[i].score
             /\ rows[i].score \in Int /\ 1 \in DOMAIN keys[i]
  <2>1. rows[i] \in Measured
    BY Indices
  <2>2. rows[i].score \in Int /\ FamilyName(rows[i].config) \in Int /\ TierName(rows[i].config) \in Int
    BY <1>1, <2>1, Names DEF Scored
  <2>3. <<0 - rows[i].score, FamilyName(rows[i].config), TierName(rows[i].config)>> \in Tuples(3)
    BY <2>2 DEF Tuples
  <2> QED
    BY <2>2, <2>3
<1>3. DOMAIN keys = DOMAIN rows
  OBVIOUS
<1>4. winners = Pick(rows, list)
  BY DEF Fastest
<1> HIDE DEF keys
<1>5. /\ list \in Seq(DOMAIN rows) /\ Len(list) = Len(rows)
      /\ IsInjective(list) /\ ToSet(list) = DOMAIN rows
      /\ \A i \in DOMAIN rows : ~Before(keys, i, list[1])
  BY <1>2, <1>3, SortedDiffers
<1> HIDE DEF list, winners
<1>6. /\ DOMAIN rows = 1 .. Len(rows) /\ Len(rows) \in Nat
      /\ DOMAIN list = DOMAIN rows /\ \A k \in DOMAIN list : list[k] \in DOMAIN rows
  BY <1>5, Indices
<1>7. DOMAIN winners = DOMAIN rows /\ \A k \in DOMAIN rows : winners[k] = rows[list[k]]
  BY <1>4, <1>6 DEF Pick
<1>8. ASSUME NEW i \in DOMAIN winners PROVE winners[1].score >= winners[i].score
  <2>1. 1 \in DOMAIN rows
    BY <1>6, <1>7
  <2>2. list[1] \in DOMAIN rows /\ list[i] \in DOMAIN rows
    BY <1>6, <1>7, <2>1
  <2>3. ~Precedes(keys[list[i]], keys[list[1]])
    BY <1>5, <2>2 DEF Before
  <2>4. ~(keys[list[i]][1] < keys[list[1]][1])
    <3>1. 1 \in DOMAIN keys[list[i]] /\ 1 .. 1 - 1 = {}
      BY <1>2, <2>2
    <3> QED
      BY <2>3, <3>1 DEF Precedes
  <2>5. /\ keys[list[i]][1] = 0 - rows[list[i]].score /\ keys[list[1]][1] = 0 - rows[list[1]].score
        /\ rows[list[i]].score \in Int /\ rows[list[1]].score \in Int
    BY <1>2, <2>2
  <2>6. rows[list[1]].score >= rows[list[i]].score
    BY <2>4, <2>5
  <2> QED
    BY <1>7, <2>1, <2>6
<1>9. \A i \in DOMAIN winners : \E k \in DOMAIN rows : winners[i] = rows[k]
  BY <1>6, <1>7
<1>10. /\ DOMAIN Rows(winners) = DOMAIN rows /\ DOMAIN Rows(rows) = DOMAIN rows
       /\ \A k \in DOMAIN rows : /\ Rows(winners)[k] = Rows(rows)[list[k]]
                                 /\ list[k] \in DOMAIN rows
  BY <1>6, <1>7 DEF Rows
<1>11. \A k \in DOMAIN rows : \E i \in DOMAIN rows : list[i] = k
  BY <1>5, <1>6 DEF ToSet
<1>12. ToSet(Rows(winners)) = ToSet(Rows(rows))
  <2>1. ASSUME NEW k \in DOMAIN rows PROVE Rows(winners)[k] \in ToSet(Rows(rows))
    BY <1>10 DEF ToSet
  <2>2. ASSUME NEW k \in DOMAIN rows PROVE Rows(rows)[k] \in ToSet(Rows(winners))
    BY <1>10, <1>11 DEF ToSet
  <2> QED
    BY <1>10, <2>1, <2>2 DEF ToSet
<1>13. IsInjective(Rows(rows)) => IsInjective(Rows(winners))
  BY <1>5, <1>6, <1>10 DEF IsInjective
<1>14. rows # <<>> => winners # <<>>
  BY <1>1, EmptySeq
<1> QED
  BY <1>1, <1>8, <1>9, <1>12, <1>13, <1>14 DEF winners

(* Tuning for a large context searches the contexts of all of the few.     *)
LEMMA CandidatesAll ==
  ASSUME Given, Few, Capacity, Mode # "off", NEW rows \in Seq(Measured),
         Len(rows) = Cardinality(Viable)
  PROVE  Candidates(rows) = rows
<1>1. Len(rows) \in Nat /\ Len(rows) <= Budget.frontiers.capacity
  BY LenProperties, Places, Limits
<1>2. Budget.frontiers.capacity \in Nat /\ tuning.objective = "max-context"
  BY Limits DEF Capacity
<1>3. Desired(rows) \in {Least(Len(rows), Budget.frontiers.capacity), Budget.frontiers.capacity}
  BY <1>2 DEF Desired, Capacity
<1>4. Len(rows) <= Least(Desired(rows), Len(rows))
  BY <1>1, <1>2, <1>3 DEF Least
<1> QED
  BY <1>2, <1>4 DEF Candidates, MaxContextSelect

(* What the end of a stage establishes for the next.                       *)
Onward == Narrowed /\ Rated /\ Ordered /\ Pursued

(* The line of finalists competes.                                         *)
LEMMA CompeteLined ==
  ASSUME Given, Still, NEW rows \in Seq(Measured), Compete(rows),
         Sure /\ Viable # {} =>
           /\ Lined(Rows(rows))
           /\ ~Capacity => \A i \in DOMAIN rows : rows[i].score = Rate(rows[i].config, "validate")
  PROVE  Onward'
<1> DEFINE winners == Fastest(rows)
<1>1. /\ winners \in Seq(Measured) /\ (rows # <<>> => winners # <<>>)
      /\ \A i \in DOMAIN winners : /\ winners[1].score >= winners[i].score
                                   /\ \E k \in DOMAIN rows : winners[i] = rows[k]
      /\ ToSet(Rows(winners)) = ToSet(Rows(rows))
      /\ IsInjective(Rows(rows)) => IsInjective(Rows(winners))
  BY FastestLead
<1>2. IF rows = <<>> THEN Enter("failed", <<>>, <<>>)
      ELSE Enter("frontier", Rows(Candidates(winners)), winners)
  BY DEF Compete
<1> HIDE DEF winners
<1>3. UNCHANGED <<args, losses, late>> /\ (Sure' => Sure) /\ (Sure /\ Viable # {} => rows # <<>>)
  <2>1. UNCHANGED <<args, losses, late>>
    BY DEF Still
  <2>2. Sure /\ Viable # {} => rows # <<>>
    BY LinedRows
  <2> QED
    BY <2>1, <2>2, Constant DEF Sure
<1>4. CASE rows = <<>>
  <2>1. stage' = "failed"
    BY <1>2, <1>4 DEF Enter
  <2> QED
    BY <1>3, <1>4, <2>1, Constant DEF Onward, Narrowed, Rated, Ordered, Pursued
<1>5. CASE rows # <<>>
  <2>1. stage' = "frontier" /\ passed' = winners /\ todo' = Rows(Candidates(winners))
    BY <1>2, <1>5 DEF Enter
  <2>2. Ordered'
    BY <1>1, <2>1 DEF Ordered
  <2>3. Narrowed'
    <3> SUFFICES ASSUME Sure', Viable' # {} PROVE Lined(Rows(passed))'
      BY <2>1 DEF Narrowed, Line
    <3>1. Lined(Rows(rows))
      BY <1>3, Constant
    <3>2. Rows(winners) # <<>>
      BY <1>1, <1>5, RowsTyped, EmptySeq
    <3>3. Lined(Rows(winners))
      BY <1>1, <3>1, <3>2 DEF Lined
    <3>4. Rows(passed)' = Rows(winners)
      BY <2>1 DEF Rows
    <3> QED
      BY <1>3, <3>3, <3>4, Constant
  <2>4. Rated'
    <3> SUFFICES ASSUME Sure', Viable' # {}, ~Capacity', NEW i \in DOMAIN passed'
                 PROVE  (passed[i].score = Rate(passed[i].config, "validate"))'
      BY DEF Rated
    <3>1. PICK k \in DOMAIN rows : passed'[i] = rows[k]
      BY <1>1, <2>1
    <3>2. rows[k].score = Rate(rows[k].config, "validate")
      BY <1>3, Constant
    <3> QED
      BY <1>3, <3>1, <3>2, Constant
  <2>5. Pursued'
    <3> SUFFICES ASSUME Sure', Viable' # {}, Few', Capacity', Mode' # "off"
                 PROVE  Viable' \subseteq ToSet(todo)'
      BY DEF Pursued
    <3>1. Sure /\ Viable # {} /\ Few /\ Capacity /\ Mode # "off" /\ Viable' = Viable
      BY <1>3, Constant
    <3>2. Lined(Rows(winners))
      <4>1. Rows(winners) # <<>>
        BY <1>1, <1>5, RowsTyped, EmptySeq
      <4> QED
        BY <1>1, <3>1, <4>1 DEF Lined
    <3>3. Candidates(winners) = winners
      BY <1>1, <3>1, <3>2, LinedRows, CandidatesAll
    <3>4. todo' = Rows(winners) /\ ToSet(Rows(winners)) = Viable
      BY <2>1, <3>1, <3>2, <3>3 DEF Lined
    <3> QED
      BY <3>1, <3>4
  <2> QED
    BY <2>2, <2>3, <2>4, <2>5 DEF Onward
<1> QED
  BY <1>4, <1>5

(* The next stage takes up the line.                                       *)
LEMMA TakesUp ==
  ASSUME Still, NEW where, NEW line, NEW rows, Enter(where, line, rows),
         where \notin {"fallback", "frontier"}, rows = <<>> \/ where = "diagnose",
         Sure /\ Viable # {} => Lined(IF where = "diagnose" THEN Rows(rows) ELSE line)
  PROVE  Onward'
<1>1. stage' = where /\ todo' = line /\ passed' = rows /\ UNCHANGED <<args, losses>>
  BY DEF Enter, Still
<1>2. Ordered' /\ Pursued' /\ (Sure' => Sure)
  BY <1>1, Constant DEF Ordered, Pursued, Sure
<1>3. Narrowed'
  <2> SUFFICES ASSUME Sure', Viable' # {}, where \in {"coarse", "target", "validate", "diagnose"}
               PROVE  Lined(Line)'
    BY <1>1 DEF Narrowed
  <2>1. Sure /\ Viable # {}
    BY <1>1, <1>2, Constant
  <2>2. Rows(passed)' = Rows(rows)
    BY <1>1 DEF Rows
  <2>3. CASE where = "diagnose"
    BY <1>1, <2>1, <2>2, <2>3, Constant DEF Line
  <2>4. CASE where # "diagnose"
    <3>1. Rows(passed)' = <<>>
      <4>1. DOMAIN rows = {}
        BY <2>4
      <4>2. Rows(rows) = <<>>
        BY <4>1 DEF Rows
      <4> QED
        BY <2>2, <4>2
    <3>2. (Rows(passed) \o todo)' = line
      BY <1>1, <3>1
    <3>3. Line' = line
      BY <1>1, <2>4, <3>2 DEF Line
    <3> QED
      BY <1>1, <2>1, <2>4, <3>3, Constant
  <2> QED
    BY <2>3, <2>4
<1>4. Rated'
  BY <1>1 DEF Rated
<1> QED
  BY <1>2, <1>3, <1>4 DEF Onward

(* The line goes on to the target depth, or competes for a large context.  *)
LEMMA TargetLined ==
  ASSUME Given, Still, NEW ranked \in Seq(Measured), Target(ranked),
         Sure /\ Viable # {} => Lined(Rows(ranked))
  PROVE  Onward'
<1>1. Sure /\ Viable # {} => ranked # <<>>
  BY LinedRows
<1>2. CASE ranked = <<>>
  <2>1. Enter("failed", <<>>, <<>>)
    BY <1>2 DEF Target
  <2> QED
    BY <1>1, <1>2, <2>1, TakesUp
<1>3. CASE ranked # <<>> /\ ~Capacity
  <2>1. Enter("target", Rows(ranked), <<>>)
    BY <1>3 DEF Target
  <2> QED
    BY <2>1, TakesUp
<1>4. CASE ranked # <<>> /\ Capacity
  <2> DEFINE last == Least(tuning.finalists, Budget.frontiers.capacity)
             kept == MaxContextSelect(ranked, last)
  <2>1. Compete(kept)
    BY <1>4 DEF Target
  <2>2. last \in Nat /\ last > 0 /\ (Few => Cardinality(Viable) <= last)
    BY <1>4, Places
  <2>3. kept \in Seq(Measured)
    BY <2>2, MeasuredScored, MaxContextKeeps
  <2>4. Sure /\ Viable # {} => Lined(Rows(kept))
    BY <2>2, SelectLined
  <2> HIDE DEF kept
  <2> QED
    BY <1>4, <2>1, <2>3, <2>4, CompeteLined
<1> QED
  BY <1>2, <1>3, <1>4

(* ... and so it does when partial offload is explored before.             *)
LEMMA PartialLined ==
  ASSUME Given, Still, NEW ranked \in Seq(Measured), Partial(ranked),
         Sure /\ Viable # {} => Lined(Rows(ranked))
  PROVE  Onward'
<1>1. Sure /\ Viable # {} => ranked # <<>>
  BY LinedRows
<1>2. CASE Target(ranked)
  BY <1>2, TargetLined
<1>3. CASE ranked # <<>> /\ Enter("diagnose", Seeds, ranked)
  BY <1>3, TakesUp
<1>4. CASE ranked = <<>> /\ Enter("fallback", Seeds, ranked)
  <2>1. stage' = "fallback" /\ UNCHANGED <<args, losses>> /\ ~(Sure /\ Viable # {})
    BY <1>1, <1>4 DEF Enter, Still
  <2> QED
    BY <2>1, Constant DEF Onward, Narrowed, Rated, Ordered, Pursued, Sure
<1> QED
  BY <1>2, <1>3, <1>4 DEF Partial

(* What startup has chosen in the end is the line.                         *)
LEMMA SurveyLined ==
  ASSUME Inv, Surveyed, stage = "startup", todo = <<>>, Sure, Viable # {}
  PROVE  Lined(Rows(passed))
<1>1. ToSet(todo) = {}
  BY DEF ToSet
<1>2. IsInjective(Rows(passed)) /\ ToSet(Rows(passed)) = Viable
  BY <1>1, ViableAre DEF Surveyed, Inv
<1>3. Rows(passed) # <<>>
  <2> SUFFICES ASSUME Rows(passed) = <<>> PROVE FALSE
    OBVIOUS
  <2>1. ToSet(<<>>) = {}
    BY DEF ToSet
  <2> QED
    BY <1>2, <2>1
<1> QED
  BY <1>2, <1>3 DEF Lined

(* The end of a stage keeps the invariant.                                 *)
LEMMA StageEndsBest == ASSUME Inv, Best, EndStage PROVE Best'
<1>1. Given /\ Still /\ UNCHANGED <<args, table, losses, late, frontiers>> /\ todo = <<>>
  BY DEF EndStage, Still, Inv
<1>2. passed \in Seq(Measured)
  BY SeqMonotonic DEF Inv, Good
<1>3. Sure /\ Viable # {} =>
        /\ stage # "fallback"
        /\ stage \in {"startup", "coarse", "target", "validate", "diagnose"} => Lined(Rows(passed))
  <2> SUFFICES ASSUME Sure, Viable # {}
               PROVE  /\ stage # "fallback"
                      /\ stage \in {"startup", "coarse", "target", "validate", "diagnose"} =>
                           Lined(Rows(passed))
    OBVIOUS
  <2>1. stage = "startup" => Lined(Rows(passed))
    BY <1>1, SurveyLined DEF Best
  <2>2. Rows(passed) \o <<>> = Rows(passed)
    BY <1>2, RowsTyped, ConcatEmptySeq
  <2> QED
    BY <1>1, <2>1, <2>2 DEF Best, Narrowed, Line
<1>4. /\ Budget.startup \in Nat /\ Budget.smoke \in Nat /\ Budget.coarse \in Nat
      /\ Budget.startup > 0 /\ Budget.smoke > 0 /\ Budget.coarse > 0
      /\ Few => /\ Cardinality(Viable) <= Budget.startup
                /\ Cardinality(Viable) <= Budget.smoke
                /\ Cardinality(Viable) <= Budget.coarse
  <2>1. IsFiniteSet(Viable) /\ Cardinality(Viable) \in Nat
    BY <1>1, ViableFinite, FS_CardinalityType
  <2> QED
    BY <1>1, <2>1, Limits, Places
<1>5. Scored(Measured)
  BY <1>1, MeasuredScored
<1>6. ASSUME NEW rows \in Seq(Measured), NEW planned \in Nat, planned > 0,
             Few => Cardinality(Viable) <= planned, Sure /\ Viable # {} => Lined(Rows(rows))
      PROVE  LET kept == Select(rows, StartupLimit(planned, rows))
             IN  kept \in Seq(Measured) /\ (Sure /\ Viable # {} => Lined(Rows(kept)))
  <2> DEFINE limit == StartupLimit(planned, rows)
             kept == Select(rows, limit)
  <2>1. limit \in Nat /\ kept \in Seq(Measured)
    <3>1. kept \in Seq(Measured) /\ limit \in Nat
      <4>1. limit \in Nat
        BY <1>1, <1>5, <1>6, SelectKeeps
      <4>2. kept \in {StratifiedSelect(rows, limit), MaxContextSelect(rows, limit)}
        BY DEF Select
      <4> HIDE DEF limit, kept
      <4> QED
        BY <1>5, <1>6, <4>1, <4>2, StratifiedKeeps, MaxContextKeeps
    <3> QED
      BY <3>1
  <2>2. limit >= planned
    <3>1. \A n \in Nat : Most(planned, n) >= planned
      BY <1>6 DEF Most
    <3>2. Budget.frontiers.capacity + 2 \in Nat /\ Len(rows) \in Nat
      BY <1>1, <1>6, Limits, LenProperties
    <3>3. Least(Len(rows), IF Quick THEN 4 ELSE Budget.frontiers.capacity + 2) \in Nat
      BY <3>2 DEF Least
    <3>4. limit \in {planned, Most(planned, Least(Len(rows), IF Quick THEN 4
                                                  ELSE Budget.frontiers.capacity + 2))}
      BY DEF StartupLimit
    <3> QED
      BY <1>6, <3>1, <3>3, <3>4
  <2>3. IsFiniteSet(Viable) /\ Cardinality(Viable) \in Nat
    BY <1>1, ViableFinite, FS_CardinalityType
  <2>4. kept \in {StratifiedSelect(rows, limit), MaxContextSelect(rows, limit)}
    BY DEF Select
  <2> HIDE DEF limit, kept
  <2>5. limit > 0 /\ (Few => Cardinality(Viable) <= limit)
    BY <1>6, <2>1, <2>2, <2>3
  <2>6. Sure /\ Viable # {} => Lined(Rows(kept))
    <3>1. \A k \in {StratifiedSelect(rows, limit), MaxContextSelect(rows, limit)} :
            Lined(Rows(rows)) => Lined(Rows(k))
      BY <1>1, <1>6, <2>1, <2>5, SelectLined
    <3> QED
      BY <1>6, <2>4, <3>1, Zenon
  <2> QED
    BY <2>1, <2>6 DEF limit, kept
<1>7. ASSUME EndStartup PROVE Onward'
  <2> DEFINE rows == Select(passed, StartupLimit(Budget.startup, passed))
             smoke == Select(rows, StartupLimit(Budget.smoke, rows))
  <2>1. stage = "startup" /\ IF Capacity THEN Partial(smoke) ELSE Enter("coarse", Rows(smoke), <<>>)
    BY <1>7 DEF EndStartup
  <2>2. rows \in Seq(Measured) /\ (Sure /\ Viable # {} => Lined(Rows(rows)))
    BY <1>2, <1>3, <1>4, <1>6, <2>1
  <2> HIDE DEF rows
  <2>3. smoke \in Seq(Measured) /\ (Sure /\ Viable # {} => Lined(Rows(smoke)))
    BY <1>4, <1>6, <2>2
  <2> HIDE DEF smoke
  <2>4. CASE Capacity
    BY <1>1, <2>1, <2>3, <2>4, PartialLined
  <2>5. CASE ~Capacity
    <3>1. Enter("coarse", Rows(smoke), <<>>)
      BY <2>1, <2>5
    <3> QED
      BY <1>1, <2>3, <3>1, TakesUp
  <2> QED
    BY <2>4, <2>5
<1>8. ASSUME NEW limit \in Nat, limit > 0, Few => Cardinality(Viable) <= limit
      PROVE  LET kept == StratifiedSelect(passed, limit)
             IN  /\ kept \in Seq(Measured)
                 /\ Sure /\ Viable # {} /\ stage \in {"coarse", "target"} => Lined(Rows(kept))
  <2>1. StratifiedSelect(passed, limit) \in Seq(Measured)
    BY <1>2, <1>5, <1>8, StratifiedKeeps
  <2>2. ASSUME Sure, Viable # {}, stage \in {"coarse", "target"}
        PROVE  Lined(Rows(StratifiedSelect(passed, limit)))
    BY <1>1, <1>2, <1>3, <1>8, <2>2, SelectLined
  <2> QED
    BY <2>1, <2>2
<1>9. ASSUME EndCoarse \/ EndFallback PROVE Onward'
  <2> DEFINE kept == StratifiedSelect(passed, Budget.coarse)
  <2>1. (stage = "coarse" /\ Partial(kept)) \/ (stage = "fallback" /\ Target(kept))
    BY <1>9 DEF EndCoarse, EndFallback
  <2>2. /\ kept \in Seq(Measured)
        /\ Sure /\ Viable # {} /\ stage \in {"coarse", "target"} => Lined(Rows(kept))
    BY <1>4, <1>8
  <2> HIDE DEF kept
  <2>3. Sure /\ Viable # {} => Lined(Rows(kept))
    BY <1>3, <2>1, <2>2
  <2> QED
    BY <1>1, <2>1, <2>2, <2>3, PartialLined, TargetLined
<1>10. ASSUME EndDiagnose PROVE Onward'
  BY <1>1, <1>2, <1>3, <1>10, TargetLined DEF EndDiagnose
<1>11. ASSUME EndTarget PROVE Onward'
  <2> DEFINE last == Least(tuning.finalists, Budget.finalists)
             kept == StratifiedSelect(passed, last)
  <2>1. stage = "target" /\ Enter("validate", Rows(kept), <<>>)
    BY <1>11 DEF EndTarget
  <2>2. ~Capacity
    BY <2>1 DEF Inv, Staged
  <2>3. last \in Nat /\ last > 0 /\ (Few => Cardinality(Viable) <= last)
    BY <1>1, <2>2, Places
  <2> HIDE DEF last
  <2>4. Sure /\ Viable # {} => Lined(Rows(kept))
    BY <1>8, <2>1, <2>3
  <2> HIDE DEF kept
  <2> QED
    BY <1>1, <2>1, <2>4, TakesUp
<1>12. ASSUME EndValidate PROVE Onward'
  <2>1. stage = "validate" /\ Compete(passed)
    BY <1>12 DEF EndValidate
  <2>2. Sure /\ Viable # {} /\ ~Capacity =>
          \A i \in DOMAIN passed : passed[i].score = Rate(passed[i].config, "validate")
    BY <2>1 DEF Best, Rated
  <2> QED
    BY <1>1, <1>2, <1>3, <2>1, <2>2, CompeteLined
<1>13. Onward'
  BY <1>7, <1>9, <1>10, <1>11, <1>12 DEF EndStage
<1>14. stage' \notin {"begin", "startup", "done"}
  BY DEF EndStage, EndStartup, EndCoarse, EndDiagnose, EndFallback, EndTarget, EndValidate,
         Partial, Target, Compete, Enter
<1>15. Truthful' /\ Explored'
  <2>1. Truthful'
    BY <1>1, TruthStays DEF Best, Inv
  <2>2. Explored'
    BY <1>1, Constant DEF Best, Explored
  <2> QED
    BY <2>1, <2>2
<1>16. Surveyed' /\ Fresh' /\ FastestWins' /\ RoomiestWins'
  BY <1>14 DEF Surveyed, Fresh, FastestWins, RoomiestWins, Complete
<1> QED
  BY <1>13, <1>15, <1>16 DEF Best, Onward

-------------------------------------------------------------------------------
(* The other steps.                                                        *)

(* Tests and their answers keep the invariant, ...                         *)
LEMMA MeasuresBest == ASSUME Inv, Best, Reuse \/ Execute PROVE Best'
<1>1. /\ Measuring /\ UNCHANGED <<args, late, stage, frontiers>>
  BY DEF Reuse, Execute, Use
<1>2. Truthful' /\ (losses' = 0 => losses = 0)
  BY Answers DEF Best
<1>3. stage \notin {"begin", "frontier", "done"}
  BY <1>1 DEF Measuring
<1>4. Explored'
  BY <1>1, <1>2, Constant DEF Best, Explored
<1>5. Fresh' /\ Ordered' /\ Pursued' /\ FastestWins' /\ RoomiestWins'
  BY <1>1, <1>3 DEF Fresh, Ordered, Pursued, FastestWins, RoomiestWins, Complete
<1> QED
  BY <1>2, <1>4, <1>5, SurveyHolds, LineHolds DEF Best

(* ... and so does what is refused without a test.                         *)
LEMMA RefusesBest == ASSUME Inv, Best, StaticReject \/ RefuseFull PROVE Best'
<1>1. /\ UNCHANGED <<args, late, losses, stage, frontiers, passed, again, admitted>>
      /\ stage \in {"startup", "diagnose"}
  BY DEF StaticReject, RefuseFull
<1>2. Truthful'
  <2>1. \/ UNCHANGED table
        \/ \E c, kind, r : Keep(Key(c, kind), r) /\ kind = "static-rejection"
    BY DEF StaticReject, RefuseFull
  <2> QED
    BY <1>1, <2>1, TruthStays DEF Best, Inv
<1>3. Surveyed'
  <2>1. CASE StaticReject
    BY <2>1, SurveyHolds
  <2>2. CASE RefuseFull
    BY <1>1, <2>2 DEF RefuseFull, Surveyed
  <2> QED
    BY <2>1, <2>2
<1>4. Narrowed'
  <2> SUFFICES ASSUME Sure', Viable' # {} PROVE stage = "diagnose" => Lined(Line)'
    BY <1>1 DEF Narrowed
  <2>1. Sure /\ Viable # {}
    BY <1>1, Constant DEF Sure
  <2>2. stage = "diagnose" => Lined(Rows(passed))
    BY <2>1 DEF Best, Narrowed, Line
  <2>3. Rows(passed)' = Rows(passed)
    BY <1>1 DEF Rows
  <2>4. stage = "diagnose" => Line' = Rows(passed)
    BY <1>1, <2>3 DEF Line
  <2> QED
    BY <1>1, <2>2, <2>4, Constant
<1>5. Explored'
  BY <1>1, Constant DEF Best, Explored
<1>6. Fresh' /\ Rated' /\ Ordered' /\ Pursued' /\ FastestWins' /\ RoomiestWins'
  BY <1>1 DEF Fresh, Rated, Ordered, Pursued, FastestWins, RoomiestWins, Complete
<1> QED
  BY <1>2, <1>3, <1>4, <1>5, <1>6 DEF Best

(* An error leaves nothing to be said but of rows and frontiers.           *)
LEMMA EndsBest == ASSUME Inv, Best, OutOfTime \/ Unmappable \/ Interrupt \/ Die PROVE Best'
<1>1. UNCHANGED <<args, late, losses, frontiers>> /\ stage' = "failed"
  BY DEF OutOfTime, Unmappable, Interrupt, Die, Fail
<1>2. \/ UNCHANGED table
      \/ \E c, kind, r : Keep(Key(c, kind), r) /\ r = Failure("interrupted")
  BY DEF OutOfTime, Unmappable, Interrupt, Die
<1>3. Truthful'
  BY <1>1, <1>2, TruthStays DEF Best, Inv
<1>4. Explored'
  BY <1>1, Constant DEF Best, Explored
<1>5. Surveyed' /\ Fresh' /\ Narrowed' /\ Rated' /\ Ordered' /\ Pursued'
  BY <1>1 DEF Surveyed, Fresh, Narrowed, Rated, Ordered, Pursued
<1>6. FastestWins' /\ RoomiestWins'
  BY <1>1 DEF FastestWins, RoomiestWins, Complete
<1> QED
  BY <1>3, <1>4, <1>5, <1>6 DEF Best

(* The context search keeps the line.                                      *)
LEMMA SearchesBest == ASSUME Inv, Best, Frontier \/ StopSearching PROVE Best'
<1>1. /\ stage = "frontier" /\ todo # <<>>
      /\ UNCHANGED <<args, stage, again, passed, search, admitted, session, table, profile>>
      /\ losses' \in {losses, losses + 1}
  BY DEF Frontier, StopSearching
<1>2. Truthful' /\ (losses' = 0 => losses = 0)
  BY <1>1, TruthStays DEF Best, Inv
<1>3. Narrowed' /\ Rated'
  <2> SUFFICES ASSUME Sure', Viable' # {} PROVE Narrowed' /\ Rated'
    BY DEF Narrowed, Rated
  <2>1. Sure /\ Viable # {}
    BY <1>1, <1>2, Constant DEF Sure
  <2>2. Line' = Rows(passed) /\ Line = Rows(passed)
    <3>1. Rows(passed)' = Rows(passed)
      BY <1>1 DEF Rows
    <3> QED
      BY <1>1, <3>1 DEF Line
  <2>3. Narrowed'
    BY <1>1, <2>1, <2>2, Constant DEF Best, Narrowed
  <2>4. Rated'
    <3> SUFFICES ASSUME ~Capacity', NEW i \in DOMAIN passed
                 PROVE  passed[i].score = Rate(passed[i].config, "validate")'
      BY <1>1 DEF Rated
    <3>1. passed[i].score = Rate(passed[i].config, "validate")
      BY <1>1, <2>1, Constant DEF Best, Rated
    <3> QED
      BY <1>1, <3>1, Constant
  <2> QED
    BY <2>3, <2>4
<1>4. CASE StopSearching
  <2>1. late' /\ UNCHANGED frontiers
    BY <1>4 DEF StopSearching
  <2> QED
    BY <1>1, <1>2, <1>3, <2>1
    DEF Best, Surveyed, Fresh, Ordered, Explored, Pursued, FastestWins, RoomiestWins, Complete
<1>5. CASE Frontier
  <2>1. PICK found \in 0 .. Safe(Head(todo)) :
          /\ frontiers' = [c \in DOMAIN frontiers \cup {Head(todo)} |->
                             IF c = Head(todo) THEN found ELSE frontiers[c]]
          /\ found = Safe(Head(todo)) \/ late' = TRUE \/ losses' = losses + 1
    BY <1>5 DEF Frontier
  <2>2. /\ DOMAIN frontiers' = DOMAIN frontiers \cup {Head(todo)}
        /\ \A c \in DOMAIN frontiers' : frontiers'[c] = IF c = Head(todo) THEN found ELSE frontiers[c]
    BY <2>1
  <2>3. ~late /\ todo' = Tail(todo)
    BY <1>5 DEF Frontier
  <2>4. losses' = 0 /\ ~late' => found = Safe(Head(todo))
    BY <1>2, <2>1
  <2>5. Explored'
    BY <1>1, <1>2, <2>2, <2>3, <2>4, Constant DEF Best, Explored
  <2>6. Pursued'
    <3> SUFFICES ASSUME Sure', Viable' # {}, Few', Capacity', Mode' # "off"
                 PROVE  Viable' \subseteq ToSet(todo)' \cup DOMAIN frontiers'
      BY DEF Pursued
    <3>1. Viable \subseteq ToSet(todo) \cup DOMAIN frontiers /\ Viable' = Viable
      BY <1>1, <1>2, <2>3, Constant DEF Best, Pursued, Sure
    <3>2. \A c \in ToSet(todo) : c = Head(todo) \/ c \in ToSet(Tail(todo))
      BY <1>1, HeadOrTail DEF Inv, Working
    <3> QED
      BY <2>2, <2>3, <3>1, <3>2
  <2>7. Surveyed' /\ Fresh' /\ Ordered' /\ FastestWins' /\ RoomiestWins'
    BY <1>1 DEF Best, Surveyed, Fresh, Ordered, FastestWins, RoomiestWins, Complete
  <2> QED
    BY <1>2, <1>3, <2>5, <2>6, <2>7 DEF Best
<1> QED
  BY <1>4, <1>5

(* Nothing but time changes as the deadline passes.                        *)
LEMMA ExpiresBest == ASSUME Inv, Best, Deadline \/ UNCHANGED vars PROVE Best'
<1>1. UNCHANGED <<args, run, session, table, losses, profile>> /\ late' \in {late, TRUE}
  BY DEF Deadline, vars
<1>2. UNCHANGED <<stage, todo, again, passed, search, admitted, frontiers>>
  BY <1>1 DEF run
<1>3. Truthful'
  BY <1>1, TruthStays DEF Best, Inv
<1>4. UNCHANGED late \/ (late' /\ stage # "done")
  BY DEF Deadline, Ended, vars
<1>5. (Sure' <=> Sure) /\ Rows(passed)' = Rows(passed)
  BY <1>1, <1>2, Constant DEF Sure, Rows
<1>6. Surveyed' /\ Fresh'
  BY <1>1, <1>2, <1>5, Constant DEF Best, Surveyed, Fresh
<1>7. Narrowed'
  <2>1. Line' = Line
    BY <1>2, <1>5 DEF Line
  <2> QED
    BY <1>1, <1>2, <1>5, <2>1, Constant DEF Best, Narrowed
<1>8. Rated' /\ Ordered'
  <2>1. \A i \in DOMAIN passed : (Rate(passed[i].config, "validate"))' = Rate(passed[i].config, "validate")
    BY <1>1, <1>2, Constant
  <2> QED
    BY <1>1, <1>2, <1>5, <2>1, Constant DEF Best, Rated, Ordered
<1>9. Explored' /\ Pursued'
  <2>1. late' \/ UNCHANGED late
    BY <1>4
  <2> QED
    BY <1>1, <1>2, <1>5, <2>1, Constant DEF Best, Explored, Pursued
<1>10. FastestWins' /\ RoomiestWins'
  <2>1. CASE stage # "done"
    BY <1>2, <2>1 DEF FastestWins, RoomiestWins, Complete
  <2>2. CASE UNCHANGED late
    <3>1. tuning' = tuning /\ Viable' = Viable /\ Capacity' = Capacity /\ Budget' = Budget /\ Mode' = Mode
      BY <1>1, Constant
    <3>2. \A c : Safe(c)' = Safe(c) /\ Rate(c, "validate")' = Rate(c, "validate")
      BY <1>1, Constant
    <3> QED
      BY <1>1, <1>2, <2>2, <3>1, <3>2 DEF Best, FastestWins, RoomiestWins, Complete
  <2> QED
    BY <1>4, <2>1, <2>2
<1> QED
  BY <1>3, <1>6, <1>7, <1>8, <1>9, <1>10 DEF Best

(* A run starts anew, and its survey too.                                  *)
LEMMA RunsBest == ASSUME Inv, Best, Begin \/ Restart PROVE Best'
<1>1. UNCHANGED <<args, table, losses>> /\ stage' \in {"begin", "startup"} /\ ~again'
  BY DEF Begin, Restart, Enter, Best, Fresh
<1>2. Truthful'
  BY <1>1, TruthStays DEF Best, Inv
<1>3. Explored'
  <2>1. CASE Begin
    BY <1>1, <2>1, Constant DEF Begin, Best, Explored
  <2>2. CASE Restart
    <3>1. DOMAIN frontiers' = {}
      BY <2>2 DEF Restart
    <3> QED
      BY <3>1 DEF Explored
  <2> QED
    BY <2>1, <2>2
<1>4. Surveyed'
  <2> SUFFICES ASSUME stage' = "startup" PROVE Surveyed'
    BY DEF Surveyed
  <2>1. todo' = Anchors /\ passed' = <<>> /\ admitted' = ToSet(Anchors)
    BY DEF Begin, Restart, Enter
  <2>2. Rows(passed)' = <<>>
    BY <2>1 DEF Rows
  <2>3. IsInjective(Rows(passed))' /\ ToSet(Rows(passed))' = {}
    BY <2>2 DEF IsInjective, ToSet
  <2>4. Anchors' = Anchors /\ IsInjective(Anchors) /\ \A c : Works(c)' = Works(c)
    BY <1>1, AnchorsTyped, Constant DEF Inv
  <2>5. \A c, d \in ToSet(Anchors) : c # Alternate(d)
    BY ViableAre DEF Inv
  <2> QED
    BY <1>1, <2>1, <2>3, <2>4, <2>5 DEF Surveyed
<1>5. Fresh' /\ Narrowed' /\ Rated' /\ Ordered' /\ Pursued'
  BY <1>1 DEF Fresh, Narrowed, Rated, Ordered, Pursued
<1>6. FastestWins' /\ RoomiestWins'
  BY <1>1 DEF FastestWins, RoomiestWins, Complete
<1> QED
  BY <1>2, <1>3, <1>4, <1>5, <1>6 DEF Best

-------------------------------------------------------------------------------
(* The best of the line wins.                                              *)

(* The winner is of the line.                                              *)
LEMMA WinnerAble ==
  ASSUME Inv, Best, stage = "frontier", Sure, Viable # {}
  PROVE  /\ passed \in Seq(Measured) /\ Lined(Rows(passed))
         /\ Winner \in Measured /\ Winner.config \in Viable
<1>1. passed \in Seq(Measured) /\ Lined(Rows(passed))
  <2>1. passed \in Seq(Measured)
    BY SeqMonotonic DEF Inv, Good
  <2> QED
    BY <2>1 DEF Best, Narrowed, Line
<1>2. passed \in Seq(Able) /\ passed # <<>>
  BY <1>1, LinedRows DEF Inv
<1>3. Scored(Able)
  BY MeasuredScored DEF Able, Scored, Inv
<1>4. Winner \in Able
  BY <1>2, <1>3, WinnerKeeps DEF Inv
<1> QED
  BY <1>1, <1>4 DEF Able

(* For performance, that is the fastest ...                                *)
LEMMA WritesFastest == ASSUME Inv, Best, Write PROVE FastestWins'
<1>1. /\ stage = "frontier" /\ profile' = Result /\ UNCHANGED <<args, passed, losses>>
  BY DEF Write
<1> SUFFICES ASSUME losses' = 0, tuning'.objective = "performance", tuning'.cuda,
                    (Cardinality(Viable) <= Least(tuning.finalists, Budget.finalists))',
                    NEW c \in Viable'
             PROVE  profile'.score >= Rate(c, "validate")'
  BY DEF FastestWins, Complete
<1>2. /\ Sure /\ tuning.objective = "performance" /\ c \in Viable
      /\ Cardinality(Viable) <= Least(tuning.finalists, Budget.finalists)
  BY <1>1, Constant DEF Sure
<1>3. ~Capacity /\ Few
  BY <1>2 DEF Capacity, Few
<1>4. Winner = passed[1]
  BY <1>2, <1>3 DEF Winner
<1>5. Lined(Rows(passed)) /\ Viable # {}
  BY <1>1, <1>2, WinnerAble
<1>6. PICK i \in DOMAIN passed : c = passed[i].config
  <2>1. c \in ToSet(Rows(passed))
    BY <1>2, <1>3, <1>5 DEF Lined
  <2> QED
    BY <2>1 DEF ToSet, Rows
<1>7. passed[i].score = Rate(c, "validate") /\ passed[1].score >= passed[i].score
  BY <1>1, <1>2, <1>3, <1>5, <1>6 DEF Best, Rated, Ordered
<1>8. profile'.score = passed[1].score
  BY <1>1, <1>4 DEF Result
<1> QED
  BY <1>1, <1>7, <1>8, Constant

(* ... and for a large context the one with most room.                     *)
LEMMA WritesRoomiest == ASSUME Inv, Best, Write PROVE RoomiestWins'
<1>1. /\ stage = "frontier" /\ todo = <<>> /\ profile' = Result
      /\ UNCHANGED <<args, passed, losses, late, frontiers>>
  BY DEF Write
<1> SUFFICES ASSUME losses' = 0, Capacity', ~late', Mode' # "off",
                    (Cardinality(Viable) <= Least(tuning.finalists, Budget.frontiers.capacity))',
                    NEW c \in Viable'
             PROVE  profile'.safe >= Safe(c)'
  BY DEF RoomiestWins, Complete
<1>2. /\ losses = 0 /\ Capacity /\ ~late /\ Mode # "off" /\ c \in Viable
      /\ Cardinality(Viable) <= Least(tuning.finalists, Budget.frontiers.capacity)
  BY <1>1, Constant
<1>3. Sure /\ Few
  BY <1>2 DEF Sure, Few, Mode
<1>4. Lined(Rows(passed)) /\ passed \in Seq(Measured)
  BY <1>1, <1>2, <1>3, WinnerAble
<1>5. Candidates(passed) = passed /\ passed # <<>>
  BY <1>2, <1>3, <1>4, LinedRows, CandidatesAll DEF Inv
<1>6. \A d \in Viable : d \in DOMAIN frontiers /\ Found(d) = Safe(d) /\ Safe(d) \in Int
  <2>1. ToSet(todo) = {}
    BY <1>1 DEF ToSet
  <2>2. \A d \in Viable : d \in DOMAIN frontiers
    BY <1>1, <1>2, <1>3, <2>1 DEF Best, Pursued
  <2> QED
    BY <1>2, <2>2 DEF Best, Explored, Found, Inv, Charted
<1>7. \A i \in DOMAIN passed : /\ passed[i] \in Measured /\ passed[i].config \in Viable
                               /\ passed[i].score \in Int
  <2>1. \A i \in DOMAIN passed : passed[i] \in Able
    BY <1>4, LinedRows, Indices DEF Inv
  <2> QED
    BY <2>1 DEF Able, Measured
<1> DEFINE searched == {i \in DOMAIN passed : passed[i].config \in DOMAIN frontiers}
           roomy == [i \in searched |-> <<0 - Found(passed[i].config), 0 - passed[i].score>>]
           first == Sorted(roomy)[1]
<1>8. searched = DOMAIN passed
  BY <1>6, <1>7
<1>9. searched # {}
  <2>1. 1 \in DOMAIN passed
    BY <1>4, <1>5, EmptySeq, LenProperties
  <2> QED
    BY <1>8, <2>1
<1>10. Winner = passed[first]
  BY <1>2, <1>5, <1>9 DEF Winner
<1>11. DOMAIN roomy = DOMAIN passed
  BY <1>8
<1>12. \A i \in DOMAIN passed : /\ roomy[i] \in Tuples(2) /\ 1 \in DOMAIN roomy[i]
                                /\ roomy[i][1] = 0 - Found(passed[i].config)
  <2> TAKE i \in DOMAIN passed
  <2>1. roomy[i] = <<0 - Found(passed[i].config), 0 - passed[i].score>>
    BY <1>8
  <2>2. Found(passed[i].config) \in Int /\ passed[i].score \in Int
    BY <1>6, <1>7
  <2> HIDE DEF roomy
  <2> QED
    BY <2>1, <2>2 DEF Tuples
<1> HIDE DEF searched, roomy
<1>13. first \in DOMAIN passed /\ \A i \in DOMAIN passed : ~Before(roomy, i, first)
  <2>1. /\ Sorted(roomy) \in Seq(DOMAIN passed) /\ Len(Sorted(roomy)) = Len(passed)
        /\ \A i \in DOMAIN passed : ~Before(roomy, i, Sorted(roomy)[1])
    BY <1>4, <1>11, <1>12, SortedDiffers
  <2>2. Sorted(roomy) # <<>>
    BY <1>4, <1>5, <2>1, EmptySeq
  <2>3. first \in DOMAIN passed
    BY <2>1, <2>2, EmptySeq, LenProperties, ElementOfSeq
  <2> QED
    BY <2>1, <2>3
<1> HIDE DEF first
<1>14. PICK i \in DOMAIN passed : c = passed[i].config
  <2>1. c \in ToSet(Rows(passed))
    BY <1>2, <1>3, <1>4 DEF Lined
  <2> QED
    BY <2>1 DEF ToSet, Rows
<1>15. ~(roomy[i][1] < roomy[first][1])
  <2>1. ~Precedes(roomy[i], roomy[first])
    BY <1>13, <1>14 DEF Before
  <2>2. 1 \in DOMAIN roomy[i] /\ 1 .. 1 - 1 = {}
    BY <1>12, <1>14
  <2> QED
    BY <2>1, <2>2 DEF Precedes
<1>16. Found(passed[first].config) >= Found(c)
  <2>1. /\ roomy[i][1] = 0 - Found(c) /\ roomy[first][1] = 0 - Found(passed[first].config)
        /\ Found(c) \in Int /\ Found(passed[first].config) \in Int
    BY <1>6, <1>7, <1>12, <1>13, <1>14
  <2> QED
    BY <1>15, <2>1
<1>17. profile'.safe = Found(passed[first].config)
  BY <1>1, <1>10 DEF Result
<1> QED
  BY <1>1, <1>2, <1>6, <1>16, <1>17, Constant

(* The choice keeps the invariant.                                         *)
LEMMA WritesBest == ASSUME Inv, Best, Write PROVE Best'
<1>1. /\ stage' = "done" /\ UNCHANGED <<args, late, losses, frontiers, table>>
  BY DEF Write
<1>2. Truthful'
  BY <1>1, TruthStays DEF Best, Inv
<1>3. Explored'
  BY <1>1, Constant DEF Best, Explored
<1>4. Surveyed' /\ Fresh' /\ Narrowed' /\ Rated' /\ Ordered' /\ Pursued'
  BY <1>1 DEF Surveyed, Fresh, Narrowed, Rated, Ordered, Pursued
<1> QED
  BY <1>2, <1>3, <1>4, WritesFastest, WritesRoomiest DEF Best

(* A tune starts in the second invariant ...                               *)
LEMMA BestStarts == Init => Best
<1> SUFFICES ASSUME Init PROVE Best
  OBVIOUS
<1>1. DOMAIN table = {} /\ DOMAIN frontiers = {} /\ stage = "begin" /\ ~again
  BY DEF Init
<1>2. Truthful
  BY <1>1 DEF Truthful, Row
<1>3. Explored
  BY <1>1 DEF Explored
<1> QED
  BY <1>1, <1>2, <1>3
  DEF Best, Surveyed, Fresh, Narrowed, Rated, Ordered, Pursued, FastestWins, RoomiestWins, Complete

(* ... and every step keeps it.                                            *)
LEMMA BestSteps == Inv /\ Best /\ [Next]_vars => Best'
<1> SUFFICES ASSUME Inv, Best, [Next]_vars PROVE Best'
  OBVIOUS
<1>1. CASE Work
  BY <1>1, EndsBest, MeasuresBest, RefusesBest, SearchesBest DEF Work
<1>2. CASE Begin \/ Restart
  BY <1>2, RunsBest
<1>3. CASE EndStage
  BY <1>3, StageEndsBest
<1>4. CASE Write
  BY <1>4, WritesBest
<1>5. CASE Interrupt \/ Die
  BY <1>5, EndsBest
<1>6. CASE Deadline \/ UNCHANGED vars
  BY <1>6, ExpiresBest
<1> QED
  BY <1>1, <1>2, <1>3, <1>4, <1>5, <1>6 DEF Next, Exhausted

(* Both invariants hold throughout.                                        *)
LEMMA BestInvariance == Spec => [](Inv /\ Best)
<1>1. Init => Inv /\ Best
  BY Starts, BestStarts
<1>2. Inv /\ Best /\ [Next]_vars => (Inv /\ Best)'
  BY Steps, BestSteps
<1> QED
  BY <1>1, <1>2, PTL DEF Spec

(* Tuning for performance finds the fastest of the viable configurations,  *)
(* for any rig and any arguments that leave a place for each among the     *)
(* finalists: no stage drops it, whether this run measures it or finds the *)
(* row of one that died, was interrupted or had no time left.              *)
THEOREM FastestCorrect == Spec => []FastestWins
<1>1. Best => FastestWins
  BY DEF Best
<1> QED
  BY <1>1, BestInvariance, PTL

(* Tuning for a large context finds the one with most room, given time for *)
(* the context searches.                                                   *)
THEOREM RoomiestCorrect == Spec => []RoomiestWins
<1>1. Best => RoomiestWins
  BY DEF Best
<1> QED
  BY <1>1, BestInvariance, PTL

(* If no trial is lost, a tune on GPUs writes a profile that leaves layers *)
(* behind only where no configuration that offloads all of them is viable. *)
THEOREM PartialCorrect == Spec => PartialIsFallback
<1> DEFINE Partly == profile' # profile /\ profile'.config.ngl < tuning.maximum /\ tuning.cuda
                       /\ losses = 0 => Viable = {}
<1>1. Inv /\ Best /\ [Next]_vars => [Partly]_vars
  <2> SUFFICES ASSUME Inv, Best, Next, profile' # profile, Viable # {}, tuning.cuda, losses = 0
               PROVE  ~(profile'.config.ngl < tuning.maximum)
    BY DEF vars
  <2>1. Write
    BY DEF Next, Work, Begin, OutOfTime, Reuse, Execute, StaticReject, Unmappable, RefuseFull,
           Frontier, StopSearching, EndStage, Interrupt, Die, Deadline, Restart, Exhausted, vars
  <2>2. stage = "frontier" /\ profile'.config = Winner.config /\ Sure
    BY <2>1 DEF Write, Result, Sure
  <2>3. profile'.config.ngl = tuning.maximum
    BY <2>2, WinnerAble, ViableWork DEF Inv
  <2>4. tuning.maximum \in Nat
    BY Limits DEF Inv
  <2> QED
    BY <2>3, <2>4
<1>2. [][Next]_vars /\ [](Inv /\ Best) => [][Partly]_vars
  BY <1>1, PTL
<1> QED
  BY <1>2, BestInvariance, PTL DEF Spec, PartialIsFallback

-------------------------------------------------------------------------------
(* More of variety.                                                        *)

(* FirstDistinct has everything of the start of a list, if there is room   *)
(* for what differs there.                                                 *)
LEMMA DistinctHas ==
  ASSUME NEW S, NEW p \in Seq(S), NEW q \in Seq(S), NEW limit \in Nat,
         Cardinality(ToSet(p)) <= limit
  PROVE  ToSet(p) \subseteq ToSet(FirstDistinct(p \o q, limit))
<1> DEFINE s == p \o q
           new == {i \in DOMAIN s : \A j \in 1 .. i - 1 : s[j] # s[i]}
           early == {i \in new : i <= Len(p)}
           picked == Pick(s, Ascending(new))
<1>1. /\ s \in Seq(S) /\ Len(s) = Len(p) + Len(q) /\ Len(p) \in Nat /\ Len(q) \in Nat
      /\ DOMAIN p = 1 .. Len(p)
      /\ \A i \in DOMAIN p : s[i] = p[i]
  BY ConcatProperties, LenProperties
<1> HIDE DEF s
<1>2. DOMAIN s = 1 .. Len(s) /\ IsFiniteSet(DOMAIN s)
  BY <1>1, Indices
<1>3. new \in SUBSET Int /\ IsFiniteSet(new) /\ new \subseteq DOMAIN s
  BY <1>2, FS_Subset
<1>4. Cardinality(early) <= Cardinality(ToSet(p))
  <2> DEFINE f == [i \in early |-> s[i]]
             g == [i \in DOMAIN p |-> p[i]]
  <2>1. \A i \in early : i \in DOMAIN p /\ s[i] \in ToSet(p)
    BY <1>1, <1>2, <1>3 DEF ToSet
  <2>2. ASSUME NEW i \in early, NEW j \in early, s[i] = s[j] PROVE i = j
    <3>1. i \in 1 .. Len(p) /\ j \in 1 .. Len(p)
      BY <1>1, <2>1
    <3>2. ~(i \in 1 .. j - 1) /\ ~(j \in 1 .. i - 1)
      BY <2>2
    <3> QED
      BY <3>1, <3>2, <1>1
  <2>3. f \in Injection(early, ToSet(p))
    BY <2>1, <2>2 DEF Injection, IsInjective
  <2>4. g \in Surjection(DOMAIN p, ToSet(p))
    BY DEF Surjection, ToSet
  <2>5. IsFiniteSet(DOMAIN p)
    BY Indices
  <2> HIDE DEF f, g, early
  <2>6. IsFiniteSet(ToSet(p))
    BY <2>4, <2>5, FS_Surjection
  <2> QED
    BY <2>3, <2>6, FS_Injection
<1>5. \A c \in ToSet(p) : \E i \in early : s[i] = c
  <2> TAKE c \in ToSet(p)
  <2> DEFINE at == {i \in DOMAIN p : s[i] = c}
  <2>1. at \in SUBSET Nat /\ at # {}
    BY <1>1 DEF ToSet
  <2>2. PICK i \in at : \A j \in at : i <= j
    <3> HIDE DEF at
    <3> QED
      BY <2>1, LeastNumber
  <2>3. i \in 1 .. Len(p) /\ i \in DOMAIN s
    BY <1>1, <1>2
  <2>4. ASSUME NEW j \in 1 .. i - 1 PROVE s[j] # s[i]
    <3>1. j \in DOMAIN p /\ ~(i <= j)
      BY <1>1, <2>3
    <3> QED
      BY <2>2, <3>1
  <2> QED
    BY <2>3, <2>4
<1>6. IsFiniteSet(early) /\ early \subseteq new
  BY <1>3, FS_Subset
<1> HIDE DEF new
<1>7. /\ Ascending(new) \in Seq(new)
      /\ \A i \in new : \E k \in DOMAIN Ascending(new) :
           Ascending(new)[k] = i /\ k = Cardinality({j \in new : j < i}) + 1
  BY <1>3, AscendingLists
<1>8. Ascending(new) \in Seq(DOMAIN s)
  BY <1>3, <1>7, SeqMonotonic
<1>9. /\ picked \in Seq(S) /\ Len(picked) = Len(Ascending(new)) /\ Len(picked) \in Nat
      /\ DOMAIN Ascending(new) = 1 .. Len(picked)
      /\ \A k \in DOMAIN Ascending(new) : picked[k] = s[Ascending(new)[k]]
  <2>1. picked \in Seq(S) /\ Len(picked) = Len(Ascending(new))
    BY <1>1, <1>8, PickKeeps
  <2>2. DOMAIN Ascending(new) = 1 .. Len(Ascending(new)) /\ Len(Ascending(new)) \in Nat
    BY <1>8, LenProperties
  <2> QED
    BY <2>1, <2>2 DEF Pick
<1> HIDE DEF picked
<1>10. /\ First(picked, limit) \in Seq(S)
       /\ Len(First(picked, limit)) = Least(limit, Len(picked))
       /\ \A k \in 1 .. Len(First(picked, limit)) : First(picked, limit)[k] = picked[k]
  BY <1>9, FirstKeeps
<1>11. DOMAIN First(picked, limit) = 1 .. Len(First(picked, limit))
  BY <1>10, LenProperties
<1>12. \A c \in ToSet(p) : c \in ToSet(First(picked, limit))
  <2> TAKE c \in ToSet(p)
  <2>1. PICK i \in early : s[i] = c
    BY <1>5
  <2>2. PICK k \in DOMAIN Ascending(new) :
          Ascending(new)[k] = i /\ k = Cardinality({j \in new : j < i}) + 1
    BY <1>6, <1>7, <2>1
  <2> DEFINE before == {j \in new : j < i}
  <2>3. before \subseteq early /\ before # early
    <3>1. i \in Int /\ i <= Len(p) /\ Len(p) \in Int /\ \A j \in new : j \in Int
      BY <1>1, <1>3, <2>1
    <3>2. i \in early /\ ~(i < i)
      BY <2>1, <3>1
    <3>3. \A j \in new : j < i => j <= Len(p)
      BY <3>1
    <3> QED
      BY <3>2, <3>3
  <2>4. Cardinality(before) \in Nat /\ Cardinality(early) \in Nat
          /\ Cardinality(before) < Cardinality(early)
    <3> HIDE DEF before, early
    <3>1. IsFiniteSet(before)
      BY <1>6, <2>3, FS_Subset
    <3>2. Cardinality(before) <= Cardinality(early)
            /\ (Cardinality(before) = Cardinality(early) => before = early)
      BY <1>6, <2>3, FS_Subset
    <3>3. Cardinality(before) \in Nat /\ Cardinality(early) \in Nat
      BY <1>6, <3>1, FS_CardinalityType
    <3> QED
      BY <2>3, <3>2, <3>3
  <2>5. Cardinality(ToSet(p)) \in Nat
    <3> DEFINE g == [l \in DOMAIN p |-> p[l]]
    <3>1. g \in Surjection(DOMAIN p, ToSet(p))
      BY DEF Surjection, ToSet
    <3>2. IsFiniteSet(DOMAIN p)
      BY Indices
    <3> HIDE DEF g
    <3> QED
      BY <3>1, <3>2, FS_Surjection, FS_CardinalityType
  <2>6. k \in 1 .. Least(limit, Len(picked))
    <3>1. k = Cardinality(before) + 1 /\ k \in 1 .. Len(picked)
      BY <1>9, <2>2
    <3> HIDE DEF before, early
    <3>2. k <= limit
      BY <1>4, <2>4, <2>5, <3>1
    <3> QED
      BY <1>9, <3>1, <3>2 DEF Least
  <2>7. First(picked, limit)[k] = c
    BY <1>9, <1>10, <2>1, <2>2, <2>6
  <2> QED
    BY <1>10, <1>11, <2>6, <2>7 DEF ToSet
<1>13. FirstDistinct(s, limit) = First(picked, limit)
  BY DEF FirstDistinct, picked, new
<1> QED
  BY <1>12, <1>13 DEF s

(* Of two indices, one comes before the other.                             *)
LEMMA SpeedTotal ==
  ASSUME NEW R, Scored(R), NEW rows \in Seq(R), NEW i \in DOMAIN rows, NEW j \in DOMAIN rows,
         ~Before(Speed(rows), i, j), ~Before(Speed(rows), j, i)
  PROVE  i = j
<1>1. Speed(rows)[i] \in Tuples(1) /\ Speed(rows)[j] \in Tuples(1)
  BY SpeedKeys
<1>2. Speed(rows)[i] = Speed(rows)[j]
  BY <1>1, PrecedesTotal DEF Before
<1>3. ~(i < j) /\ ~(j < i)
  BY <1>2 DEF Before
<1> QED
  BY <1>3, Indices

(* What two lists have, one after the other.                               *)
LEMMA BothLists ==
  ASSUME NEW S, NEW a \in Seq(S), NEW b \in Seq(S)
  PROVE  ToSet(a \o b) = ToSet(a) \cup ToSet(b)
<1> DEFINE ab == a \o b
<1>1. /\ ab \in Seq(S) /\ Len(ab) = Len(a) + Len(b)
      /\ \A k \in 1 .. Len(a) + Len(b) : ab[k] = IF k <= Len(a) THEN a[k] ELSE b[k - Len(a)]
  BY ConcatProperties
<1>2. /\ DOMAIN a = 1 .. Len(a) /\ DOMAIN b = 1 .. Len(b) /\ DOMAIN ab = 1 .. Len(ab)
      /\ Len(a) \in Nat /\ Len(b) \in Nat
  BY <1>1, LenProperties
<1> HIDE DEF ab
<1>3. \A k \in DOMAIN a : k \in DOMAIN ab /\ ab[k] = a[k]
  BY <1>1, <1>2
<1>4. \A k \in DOMAIN b : Len(a) + k \in DOMAIN ab /\ ab[Len(a) + k] = b[k]
  BY <1>1, <1>2
<1>5. \A k \in DOMAIN ab : ab[k] \in ToSet(a) \cup ToSet(b)
  <2> TAKE k \in DOMAIN ab
  <2>1. CASE k <= Len(a)
    BY <1>1, <1>2, <2>1 DEF ToSet
  <2>2. CASE ~(k <= Len(a))
    <3>1. k - Len(a) \in DOMAIN b /\ ab[k] = b[k - Len(a)]
      BY <1>1, <1>2, <2>2
    <3> QED
      BY <3>1 DEF ToSet
  <2> QED
    BY <2>1, <2>2
<1>6. ToSet(ab) = ToSet(a) \cup ToSet(b)
  BY <1>3, <1>4, <1>5 DEF ToSet
<1> QED
  BY <1>6 DEF ab

(* FirstDistinct has everything of two lists, if there is room for it.     *)
LEMMA DistinctLists ==
  ASSUME NEW S, NEW a \in Seq(S), NEW b \in Seq(S), NEW c \in Seq(S), NEW d \in Seq(S),
         NEW limit \in Nat
  PROVE  Cardinality(ToSet(a) \cup ToSet(b)) <= limit =>
           ToSet(a) \cup ToSet(b) \subseteq ToSet(FirstDistinct(a \o b \o c \o d, limit))
<1> DEFINE ab == a \o b
           cd == c \o d
<1>1. ab \in Seq(S) /\ cd \in Seq(S)
  BY ConcatProperties
<1>2. ToSet(ab) = ToSet(a) \cup ToSet(b)
  BY BothLists
<1> HIDE DEF ab
<1>3. (ab \o c) \o d = ab \o cd
  BY <1>1, ConcatAssociative
<1> HIDE DEF cd
<1>4. Cardinality(ToSet(ab)) <= limit => ToSet(ab) \subseteq ToSet(FirstDistinct(ab \o cd, limit))
  BY <1>1, DistinctHas
<1> QED
  BY <1>2, <1>3, <1>4 DEF ab

(* stratified_select keeps a row of every family and one of every type of  *)
(* KV cache, if there is a place for every pair of them: a row that leads  *)
(* its family and one that leads its type are the same if the pair is.     *)
LEMMA GroupsKept ==
  ASSUME NEW R, Scored(R), NEW rows \in Seq(R), NEW limit \in Nat,
         Cardinality({<<Family(rows[i].config), Tier(rows[i].config)>> : i \in DOMAIN rows}) <= limit
  PROVE  LET kept == StratifiedSelect(rows, limit)
         IN  \A i \in DOMAIN rows :
               /\ \E k \in DOMAIN kept : Family(kept[k].config) = Family(rows[i].config)
               /\ \E k \in DOMAIN kept : Tier(kept[k].config) = Tier(rows[i].config)
<1> DEFINE families == [i \in DOMAIN rows |-> Family(rows[i].config)]
           tiers == [i \in DOMAIN rows |-> Tier(rows[i].config)]
           modes == [i \in DOMAIN rows |-> Flash(rows[i].config)]
           pair == [i \in DOMAIN rows |-> <<families[i], tiers[i]>>]
           pairs == {pair[i] : i \in DOMAIN rows}
           a == Leaders(rows, families)
           b == Leaders(rows, tiers)
           c == Leaders(rows, modes)
           d == BySpeed(rows)
           list == FirstDistinct(a \o b \o c \o d, limit)
           kept == StratifiedSelect(rows, limit)
<1>1. CASE Len(rows) <= limit
  BY <1>1 DEF StratifiedSelect
<1>2. CASE ~(Len(rows) <= limit)
  <2>1. /\ \A i \in DOMAIN rows : families[i] = Family(rows[i].config)
        /\ \A i \in DOMAIN rows : tiers[i] = Tier(rows[i].config)
        /\ \A i \in DOMAIN rows : pair[i] = <<families[i], tiers[i]>>
    OBVIOUS
  <2>2. pairs = {<<Family(rows[i].config), Tier(rows[i].config)>> : i \in DOMAIN rows}
    OBVIOUS
  <2>3. IsFiniteSet(pairs)
    <3>1. pair \in Surjection(DOMAIN rows, pairs)
      BY DEF Surjection
    <3> HIDE DEF pair, pairs
    <3> QED
      BY <3>1, Indices, FS_Surjection
  <2>4. kept = Pick(rows, list)
    BY <1>2 DEF StratifiedSelect
  <2> HIDE DEF families, tiers, modes, pair, kept, list
  <2>5. /\ a \in Seq(DOMAIN rows) /\ b \in Seq(DOMAIN rows)
        /\ c \in Seq(DOMAIN rows) /\ d \in Seq(DOMAIN rows)
    BY LeadersKeep, SpeedKeys, RankedIndices DEF BySpeed, Sorted
  <2>6. /\ \A i \in DOMAIN rows : \E k \in DOMAIN a :
             /\ families[a[k]] = families[i]
             /\ a[k] \in DOMAIN rows
        /\ \A k \in DOMAIN a, i \in DOMAIN rows :
             families[i] = families[a[k]] => ~Before(Speed(rows), i, a[k])
    BY LeadersLead
  <2>7. /\ \A i \in DOMAIN rows : \E k \in DOMAIN b :
             /\ tiers[b[k]] = tiers[i]
             /\ b[k] \in DOMAIN rows
        /\ \A k \in DOMAIN b, i \in DOMAIN rows :
             tiers[i] = tiers[b[k]] => ~Before(Speed(rows), i, b[k])
    BY LeadersLead
  <2> HIDE DEF a, b, c, d
  <2>8. /\ ToSet(a) \cup ToSet(b) \subseteq DOMAIN rows
        /\ \A i, j \in ToSet(a) \cup ToSet(b) : pair[i] = pair[j] => i = j
    <3>1. /\ ToSet(a) \subseteq DOMAIN rows /\ ToSet(b) \subseteq DOMAIN rows
      BY <2>5, Indices DEF ToSet
    <3>2. \A i \in ToSet(a), j \in DOMAIN rows :
            families[j] = families[i] => ~Before(Speed(rows), j, i)
      BY <2>6 DEF ToSet
    <3>3. \A i \in ToSet(b), j \in DOMAIN rows :
            tiers[j] = tiers[i] => ~Before(Speed(rows), j, i)
      BY <2>7 DEF ToSet
    <3>4. ASSUME NEW i \in ToSet(a) \cup ToSet(b), NEW j \in ToSet(a) \cup ToSet(b),
                 pair[i] = pair[j]
          PROVE  i = j
      <4>1. i \in DOMAIN rows /\ j \in DOMAIN rows
        BY <3>1
      <4>2. families[i] = families[j] /\ tiers[i] = tiers[j]
        BY <2>1, <3>4, <4>1
      <4>3. ~Before(Speed(rows), i, j) /\ ~Before(Speed(rows), j, i)
        BY <3>2, <3>3, <4>1, <4>2
      <4> QED
        BY <4>1, <4>3, SpeedTotal
    <3> QED
      BY <3>1, <3>4
  <2>9. Cardinality(ToSet(a) \cup ToSet(b)) <= limit
    <3> DEFINE both == ToSet(a) \cup ToSet(b)
               f == [i \in both |-> pair[i]]
    <3>1. f \in Injection(both, pairs)
      BY <2>8 DEF Injection, IsInjective
    <3> HIDE DEF f, both, pairs
    <3>2. IsFiniteSet(both) /\ Cardinality(both) <= Cardinality(pairs)
      BY <2>3, <3>1, FS_Injection
    <3>3. Cardinality(both) \in Nat /\ Cardinality(pairs) \in Nat
      BY <2>3, <3>2, FS_CardinalityType
    <3>4. Cardinality(pairs) <= limit
      BY <2>2
    <3> QED
      BY <3>2, <3>3, <3>4 DEF both
  <2>10. ToSet(a) \cup ToSet(b) \subseteq ToSet(list)
    <3>1. ToSet(a) \cup ToSet(b) \subseteq ToSet(FirstDistinct(a \o b \o c \o d, limit))
      BY <2>5, <2>9, DistinctLists, Zenon
    <3> QED
      BY <3>1 DEF list
  <2>11. ASSUME NEW i \in ToSet(list) PROVE \E k \in DOMAIN kept : kept[k] = rows[i]
    BY <2>4 DEF ToSet, Pick
  <2>12. ASSUME NEW i \in DOMAIN rows
         PROVE  /\ \E k \in DOMAIN kept : Family(kept[k].config) = Family(rows[i].config)
                /\ \E k \in DOMAIN kept : Tier(kept[k].config) = Tier(rows[i].config)
    <3>1. PICK k \in DOMAIN a : families[a[k]] = families[i] /\ a[k] \in DOMAIN rows
      BY <2>6
    <3>2. PICK l \in DOMAIN b : tiers[b[l]] = tiers[i] /\ b[l] \in DOMAIN rows
      BY <2>7
    <3>3. a[k] \in ToSet(list) /\ b[l] \in ToSet(list)
      BY <2>10 DEF ToSet
    <3> QED
      BY <2>1, <2>11, <3>1, <3>2, <3>3
  <2> QED
    BY <2>12 DEF kept
<1> QED
  BY <1>1, <1>2

-------------------------------------------------------------------------------
(* Where the stages lead.                                                  *)

(* How many of the rows compete for a large context.                       *)
Finalists == Least(tuning.finalists, Budget.frontiers.capacity)

(* The target depth is measured of all that is left, or the roomiest of it *)
(* compete.                                                                *)
LeadsOn(ranked) ==
  /\ stage' \in {"failed", "target", "frontier", "fallback", "diagnose"}
  /\ stage' = "target" => todo' = Rows(ranked) /\ ~Capacity
  /\ stage' = "frontier" => passed' = Fastest(MaxContextSelect(ranked, Finalists)) /\ Capacity
  /\ stage' = "fallback" => todo' = Seeds /\ passed' = <<>> /\ search' = NewSearch("fallback")

(* Target does that, ...                                                   *)
LEMMA TargetLeads ==
  ASSUME NEW ranked, Target(ranked)
  PROVE  LeadsOn(ranked) /\ stage' \in {"failed", "target", "frontier"}
<1>1. CASE ranked = <<>>
  <2>1. stage' = "failed"
    BY <1>1 DEF Target, Enter
  <2> QED
    BY <2>1 DEF LeadsOn
<1>2. CASE ranked # <<>> /\ ~Capacity
  <2>1. stage' = "target" /\ todo' = Rows(ranked)
    BY <1>2 DEF Target, Enter
  <2> QED
    BY <1>2, <2>1 DEF LeadsOn
<1>3. CASE ranked # <<>> /\ Capacity
  <2> DEFINE best == MaxContextSelect(ranked, Least(tuning.finalists, Budget.frontiers.capacity))
  <2>1. Compete(best)
    BY <1>3 DEF Target
  <2> HIDE DEF best
  <2>2. stage' = "failed" \/ (stage' = "frontier" /\ passed' = Fastest(best))
    BY <2>1 DEF Compete, Enter
  <2> QED
    BY <1>3, <2>2 DEF LeadsOn, best, Finalists
<1> QED
  BY <1>1, <1>2, <1>3

(* ... and Partial too.                                                    *)
LEMMA PartialLeads == ASSUME NEW ranked, Partial(ranked) PROVE LeadsOn(ranked)
<1>1. CASE tuning.cuda /\ (ranked = <<>> \/ tuning.explore)
  <2>1. CASE ranked = <<>>
    <3>1. stage' = "fallback" /\ todo' = Seeds /\ passed' = <<>> /\ search' = NewSearch("fallback")
      BY <1>1, <2>1 DEF Partial, Enter
    <3> QED
      BY <3>1 DEF LeadsOn
  <2>2. CASE ranked # <<>>
    <3>1. stage' = "diagnose"
      BY <1>1, <2>2 DEF Partial, Enter
    <3> QED
      BY <3>1 DEF LeadsOn
  <2> QED
    BY <2>1, <2>2
<1>2. CASE ~(tuning.cuda /\ (ranked = <<>> \/ tuning.explore))
  BY <1>2, TargetLeads DEF Partial
<1> QED
  BY <1>1, <1>2

(* The rows that a stage hands on at its end.                              *)
Handed ==
  CASE stage = "startup" ->
         Select(Select(passed, StartupLimit(Budget.startup, passed)),
                StartupLimit(Budget.smoke, Select(passed, StartupLimit(Budget.startup, passed))))
    [] stage \in {"coarse", "fallback"} -> StratifiedSelect(passed, Budget.coarse)
    [] stage = "diagnose" -> passed

(* Where a stage leads to at its end.                                      *)
LEMMA StageLeads ==
  ASSUME EndStage
  PROVE  /\ stage \in {"startup", "coarse", "diagnose", "fallback", "target", "validate"}
         /\ stage \in {"coarse", "diagnose", "fallback"} => LeadsOn(Handed)
         /\ stage = "startup" => stage' = "coarse" \/ LeadsOn(Handed)
         /\ stage = "target" =>
              /\ stage' = "validate"
              /\ todo' = Rows(StratifiedSelect(passed, Least(tuning.finalists, Budget.finalists)))
         /\ stage = "validate" => stage' \in {"failed", "frontier"}
<1>1. CASE EndStartup
  <2>1. stage = "startup"
    BY <1>1 DEF EndStartup
  <2>2. stage' = "coarse" \/ Partial(Handed)
    BY <1>1, <2>1 DEF EndStartup, Enter, Handed
  <2> QED
    BY <2>1, <2>2, PartialLeads
<1>2. CASE EndCoarse
  <2>1. stage = "coarse" /\ Partial(Handed)
    BY <1>2 DEF EndCoarse, Handed
  <2> QED
    BY <2>1, PartialLeads
<1>3. CASE EndDiagnose
  <2>1. stage = "diagnose" /\ Target(Handed)
    BY <1>3 DEF EndDiagnose, Handed
  <2> QED
    BY <2>1, TargetLeads
<1>4. CASE EndFallback
  <2>1. stage = "fallback" /\ Target(Handed)
    BY <1>4 DEF EndFallback, Handed
  <2> QED
    BY <2>1, TargetLeads
<1>5. CASE EndTarget
  BY <1>5 DEF EndTarget, Enter
<1>6. CASE EndValidate
  <2>1. stage = "validate" /\ stage' \in {"failed", "frontier"}
    BY <1>6 DEF EndValidate, Compete, Enter
  <2> QED
    BY <2>1
<1> QED
  BY <1>1, <1>2, <1>3, <1>4, <1>5, <1>6 DEF EndStage

-------------------------------------------------------------------------------
(* The rows of the fallback.                                               *)

(* A row is that of a seed, but for its number of layers.                  *)
Grown(m, seed) == m.config.placement = seed.placement /\ m.config.tier = seed.tier

(* The fallback deals with seeds, and all its rows are of seeds.           *)
Seeded ==
  stage = "fallback" =>
    /\ ToSet(todo) \subseteq ToSet(Seeds)
    /\ \A i \in DOMAIN passed : \E s \in ToSet(Seeds) : Grown(passed[i], s)

(* Seeds and budgets are what they were.                                   *)
LEMMA SeedsStay == ASSUME UNCHANGED args PROVE Seeds' = Seeds /\ tuning' = tuning /\ rig' = rig
<1>1. tuning' = tuning /\ rig' = rig
  BY DEF args
<1> QED
  BY <1>1 DEF Seeds, Anchors, Budget

(* A row that is appended.                                                 *)
LEMMA AppendHas ==
  ASSUME NEW S, NEW s \in Seq(S), NEW e \in S, NEW t, t = Append(s, e)
  PROVE  /\ t \in Seq(S) /\ \E i \in DOMAIN t : t[i] = e
         /\ \A i \in DOMAIN t : t[i] = e \/ \E k \in DOMAIN s : t[i] = s[k]
         /\ \A k \in DOMAIN s : \E i \in DOMAIN t : t[i] = s[k]
<1>1. /\ t \in Seq(S) /\ Len(t) = Len(s) + 1
      /\ \A i \in 1 .. Len(s) : t[i] = s[i]
      /\ t[Len(s) + 1] = e
  BY AppendProperties
<1>2. DOMAIN s = 1 .. Len(s) /\ DOMAIN t = 1 .. Len(s) + 1 /\ Len(s) \in Nat
  BY <1>1, LenProperties
<1>3. \A i \in DOMAIN t : t[i] = e \/ \E k \in DOMAIN s : t[i] = s[k]
  BY <1>1, <1>2
<1>4. \A k \in DOMAIN s : \E i \in DOMAIN t : t[i] = s[k]
  BY <1>1, <1>2
<1>5. \E i \in DOMAIN t : t[i] = e
  BY <1>1, <1>2
<1> QED
  BY <1>1, <1>3, <1>4, <1>5

(* What a test in the fallback makes of its rows and of the seeds.         *)
LEMMA FallbackUses ==
  ASSUME Inv, stage = "fallback", todo # <<>>, NEW r, Use(r)
  PROVE  /\ stage' = "fallback" /\ Config = [Head(todo) EXCEPT !.ngl = Layers(search)]
         /\ Kind = "partial-feasibility" /\ Sought(r.status = "ok")
         /\ passed' = IF r.status = "ok" THEN Append(passed, [config |-> Config, score |-> r.score])
                      ELSE passed
<1>1. Config = [Head(todo) EXCEPT !.ngl = Layers(search)] /\ Kind = "partial-feasibility"
  BY DEF Config, Kind, Layered
<1>2. Sought(r.status = "ok") /\ stage' = "fallback"
  BY DEF Use, Layered
<1>3. Passes(r) <=> r.status = "ok"
  BY DEF Passes
<1>4. passed' = IF Passes(r) THEN Append(passed, [config |-> Config, score |-> r.score]) ELSE passed
  BY DEF Use
<1> HIDE DEF Config, Kind
<1> QED
  BY <1>1, <1>2, <1>3, <1>4

(* Steps that measure nothing lead into no fallback.                       *)
LEMMA NoFallback ==
  ASSUME Inv, Next \/ UNCHANGED vars, stage' = "fallback", ~Reuse, ~Execute, ~EndStage
  PROVE  stage = "fallback" /\ UNCHANGED <<todo, passed, search, losses>> /\ UNCHANGED args
<1>1. ASSUME Next PROVE Deadline \/ UNCHANGED vars
  BY <1>1 DEF Next, Work, Begin, Enter, OutOfTime, StaticReject, Unmappable, RefuseFull, Measuring,
       Frontier, StopSearching, Write, Interrupt, Die, Fail, Restart, Exhausted
<1> QED
  BY <1>1 DEF Deadline, vars, run, args

(* Before there is a fallback, it has no rows.                             *)
LEMMA SeededStarts == Init => Seeded
  BY DEF Init, Seeded

(* Every step keeps them to the seeds.                                     *)
LEMMA SeededSteps == Inv /\ Seeded /\ [Next]_vars => Seeded'
<1> SUFFICES ASSUME Inv, Seeded, [Next]_vars, stage' = "fallback" PROVE Seeded'
  BY DEF Seeded
<1>1. CASE Reuse \/ Execute
  <2>1. UNCHANGED args /\ todo # <<>> /\ \E r : Use(r)
    BY <1>1 DEF Reuse, Execute, Measuring
  <2>2. PICK r : Use(r)
    BY <2>1
  <2>3. stage = "fallback"
    BY <2>2 DEF Use
  <2>4. Seeds' = Seeds
    BY <2>1, SeedsStay
  <2>5. /\ Config = [Head(todo) EXCEPT !.ngl = Layers(search)]
        /\ Sought(r.status = "ok")
        /\ passed' = IF r.status = "ok" THEN Append(passed, [config |-> Config, score |-> r.score])
                     ELSE passed
    BY <2>1, <2>2, <2>3, FallbackUses
  <2>6. todo \in Seq(Configs) /\ passed \in Seq(Good) /\ Given
    BY DEF Inv, Working
  <2>7. /\ Head(todo) \in ToSet(todo) /\ ToSet(Tail(todo)) \subseteq ToSet(todo)
        /\ Head(todo) \in Configs
    <3>1. /\ Tail(todo) \in Seq(Configs) /\ Len(Tail(todo)) = Len(todo) - 1
          /\ \A i \in 1 .. Len(Tail(todo)) : Tail(todo)[i] = todo[i + 1]
          /\ Head(todo) = todo[1] /\ 1 <= Len(todo)
      BY <2>1, <2>6, HeadTailProperties, LenProperties, EmptySeq
    <3>2. /\ DOMAIN todo = 1 .. Len(todo) /\ Len(todo) \in Nat
          /\ DOMAIN Tail(todo) = 1 .. Len(Tail(todo))
      BY <2>6, <3>1, LenProperties
    <3>3. 1 \in DOMAIN todo /\ \A i \in DOMAIN Tail(todo) : i + 1 \in DOMAIN todo
      BY <3>1, <3>2
    <3> QED
      BY <2>6, <3>1, <3>2, <3>3, Indices DEF ToSet
  <2>8. ToSet(todo') \subseteq ToSet(Seeds)
    <3>1. todo' = todo \/ todo' = Tail(todo)
      BY <2>5 DEF Sought
    <3> QED
      BY <2>3, <2>7, <3>1 DEF Seeded
  <2> DEFINE row == [config |-> Config, score |-> r.score]
  <2>9. Grown(row, Head(todo)) /\ Head(todo) \in ToSet(Seeds)
    BY <2>3, <2>5, <2>7 DEF Grown, Configs, Seeded
  <2>10. ASSUME NEW i \in DOMAIN passed' PROVE \E s \in ToSet(Seeds) : Grown(passed'[i], s)
    <3>1. CASE passed' = passed
      BY <2>3, <2>10, <3>1 DEF Seeded
    <3>2. CASE passed' = Append(passed, row)
      <4> DEFINE T == Good \cup {row}
      <4>1. passed \in Seq(T) /\ row \in T
        BY <2>6, SeqMonotonic
      <4> HIDE DEF row, T
      <4>2. passed'[i] = row \/ \E l \in DOMAIN passed : passed'[i] = passed[l]
        BY <2>10, <3>2, <4>1, AppendHas
      <4> QED
        BY <2>3, <2>9, <4>2 DEF Seeded
    <3> HIDE DEF row
    <3> QED
      BY <2>5, <3>1, <3>2 DEF row
  <2> QED
    BY <2>4, <2>8, <2>10 DEF Seeded, Grown
<1>2. CASE EndStage
  <2>1. todo' = Seeds /\ passed' = <<>>
    BY <1>2, StageLeads DEF LeadsOn
  <2>2. Seeds' = Seeds
    BY <1>2, SeedsStay DEF EndStage
  <2> QED
    BY <2>1, <2>2 DEF Seeded
<1>3. CASE ~Reuse /\ ~Execute /\ ~EndStage
  <2>1. stage = "fallback" /\ UNCHANGED <<todo, passed>> /\ UNCHANGED args
    BY <1>3, NoFallback
  <2>2. Seeds' = Seeds
    BY <2>1, SeedsStay
  <2> QED
    BY <2>1, <2>2 DEF Seeded, Grown
<1> QED
  BY <1>1, <1>2, <1>3

-------------------------------------------------------------------------------
(* Variety goes on.                                                        *)

(* What is kept of what is kept.                                           *)
LEMMA CapacityGoesOn ==
  ASSUME NEW a, NEW b, NEW c, NEW l \in Nat, NEW m \in Nat, l <= m,
         KeepsCapacity(a, m, b), KeepsCapacity(b, l, c)
  PROVE  KeepsCapacity(a, l, c)
<1>1. /\ l >= 1 => m >= 1
      /\ l >= 2 => m >= 2
      /\ l >= 3 => m >= 3
      /\ l >= 4 => m >= 4
  OBVIOUS
<1>2. ASSUME l >= 1, NEW i \in DOMAIN a, a[i].config.tier = "q4_0"
      PROVE  \E k \in DOMAIN c : c[k].config.tier = "q4_0"
  BY <1>1, <1>2 DEF KeepsCapacity, Represented
<1>3. ASSUME l >= 2, NEW i \in DOMAIN a, a[i].config.tier = "q8_0"
      PROVE  \E k \in DOMAIN c : c[k].config.tier = "q8_0"
  BY <1>1, <1>3 DEF KeepsCapacity, Represented
<1>4. ASSUME l >= 3, NEW i \in DOMAIN a, Split(a[i].config)
      PROVE  \E k \in DOMAIN c : Split(c[k].config)
  BY <1>1, <1>4 DEF KeepsCapacity, Represented
<1>5. ASSUME l >= 4, NEW i \in DOMAIN a, ~Multi(a[i].config)
      PROVE  \E k \in DOMAIN c : ~Multi(c[k].config)
  BY <1>1, <1>5 DEF KeepsCapacity, Represented
<1> QED
  BY <1>2, <1>3, <1>4, <1>5 DEF KeepsCapacity, Represented

(* All that matters is which placements and types of KV cache there are.   *)
LEMMA CapacityOf ==
  ASSUME NEW a, NEW b, NEW l,
         \A i \in DOMAIN a :
           /\ \E k \in DOMAIN b : Family(b[k].config) = Family(a[i].config)
           /\ \E k \in DOMAIN b : Tier(b[k].config) = Tier(a[i].config)
  PROVE  KeepsCapacity(a, l, b)
<1>1. ASSUME NEW i \in DOMAIN a
      PROVE  /\ \E k \in DOMAIN b : b[k].config.tier = a[i].config.tier
             /\ Split(a[i].config) => \E k \in DOMAIN b : Split(b[k].config)
             /\ ~Multi(a[i].config) => \E k \in DOMAIN b : ~Multi(b[k].config)
  <2>1. PICK k \in DOMAIN b : b[k].config.placement = a[i].config.placement
    BY DEF Family
  <2>2. (Split(b[k].config) <=> Split(a[i].config)) /\ (Multi(b[k].config) <=> Multi(a[i].config))
    BY <2>1 DEF Split, Multi
  <2>3. \E n \in DOMAIN b : b[n].config.tier = a[i].config.tier
    BY DEF Tier
  <2> QED
    BY <2>2, <2>3
<1> HIDE DEF Split, Multi
<1> QED
  BY <1>1 DEF KeepsCapacity, Represented

(* To sort rows by their speed loses none of them.                         *)
LEMMA FastestCapacity ==
  ASSUME Given, NEW rows \in Seq(Measured), NEW l \in Nat
  PROVE  KeepsCapacity(rows, l, Fastest(rows))
<1> DEFINE fast == Fastest(rows)
<1>1. ToSet(Rows(fast)) = ToSet(Rows(rows))
  BY FastestLead
<1> HIDE DEF fast
<1>2. ASSUME NEW i \in DOMAIN rows PROVE \E k \in DOMAIN fast : fast[k].config = rows[i].config
  <2>1. rows[i].config \in ToSet(Rows(rows))
    BY DEF ToSet, Rows
  <2>2. rows[i].config \in ToSet(Rows(fast))
    BY <1>1, <2>1
  <2> QED
    BY <2>2 DEF ToSet, Rows
<1>3. KeepsCapacity(rows, l, fast)
  BY <1>2, CapacityOf
<1> QED
  BY <1>3 DEF fast

(* The fallback's rows are of few placements and types of KV cache.        *)
LEMMA FallbackCapacity ==
  ASSUME Inv, Seeded, stage = "fallback", NEW l \in Nat
  PROVE  KeepsCapacity(passed, l, StratifiedSelect(passed, Budget.coarse))
<1> DEFINE pair == [i \in DOMAIN passed |-> <<Family(passed[i].config), Tier(passed[i].config)>>]
           pairs == {pair[i] : i \in DOMAIN passed}
           sown == [k \in DOMAIN Seeds |-> <<Seeds[k].placement, Seeds[k].tier>>]
           seeds == {sown[k] : k \in DOMAIN Seeds}
           kept == StratifiedSelect(passed, Budget.coarse)
<1>1. /\ Given /\ passed \in Seq(Measured) /\ Scored(Measured)
      /\ Budget.coarse \in Nat /\ Budget.seeds \in Nat
  <2>1. Given /\ passed \in Seq(Good) /\ Good \in SUBSET Measured
    BY DEF Inv, Good
  <2>2. passed \in Seq(Measured)
    BY <2>1, SeqMonotonic
  <2> QED
    BY <2>1, <2>2, MeasuredScored, Limits
<1>2. Budget.seeds <= Budget.coarse
  <2>1. tuning.budget \in Budgets
    BY <1>1, FunnelAssumption DEF Given
  <2>2. CASE tuning.budget = "quick"
    BY <2>2 DEF Budget, Plan
  <2>3. CASE tuning.budget = "normal"
    BY <2>3 DEF Budget, Plan
  <2>4. CASE tuning.budget = "thorough"
    BY <2>4 DEF Budget, Plan
  <2> QED
    BY <2>1, <2>2, <2>3, <2>4 DEF Budgets
<1>3. Seeds \in Seq(Configs) /\ Len(Seeds) <= Budget.seeds
  BY <1>1, SeedsTyped
<1>4. pairs \subseteq seeds
  <2> SUFFICES ASSUME NEW i \in DOMAIN passed PROVE pair[i] \in seeds
    OBVIOUS
  <2>1. PICK s \in ToSet(Seeds) : Grown(passed[i], s)
    BY DEF Seeded
  <2>2. PICK k \in DOMAIN Seeds : Seeds[k] = s
    BY DEF ToSet
  <2>3. pair[i] = sown[k]
    BY <2>1, <2>2 DEF Grown, Family, Tier
  <2> QED
    BY <2>3
<1>5. IsFiniteSet(seeds) /\ Cardinality(seeds) <= Len(Seeds)
  <2>1. sown \in Surjection(DOMAIN Seeds, seeds)
    BY DEF Surjection
  <2>2. IsFiniteSet(DOMAIN Seeds) /\ Cardinality(DOMAIN Seeds) = Len(Seeds)
    BY <1>3, Indices
  <2> HIDE DEF sown, seeds
  <2> QED
    BY <2>1, <2>2, FS_Surjection
<1>6. pairs = {<<Family(passed[i].config), Tier(passed[i].config)>> : i \in DOMAIN passed}
  OBVIOUS
<1> HIDE DEF pair, pairs, sown, seeds
<1>7. Cardinality(pairs) <= Budget.coarse
  <2>1. IsFiniteSet(pairs) /\ Cardinality(pairs) <= Cardinality(seeds)
    BY <1>4, <1>5, FS_Subset
  <2>2. Cardinality(pairs) \in Nat /\ Cardinality(seeds) \in Nat /\ Len(Seeds) \in Nat
    BY <1>3, <1>5, <2>1, FS_CardinalityType, LenProperties
  <2> QED
    BY <1>1, <1>2, <1>3, <1>5, <2>1, <2>2
<1>8. \A i \in DOMAIN passed :
        /\ \E k \in DOMAIN kept : Family(kept[k].config) = Family(passed[i].config)
        /\ \E k \in DOMAIN kept : Tier(kept[k].config) = Tier(passed[i].config)
  BY <1>1, <1>6, <1>7, GroupsKept
<1> HIDE DEF kept
<1>9. KeepsCapacity(passed, l, kept)
  BY <1>8, CapacityOf
<1> QED
  BY <1>9 DEF kept

(* The rows that are kept are those whose configurations go on.            *)
LEMMA FamiliesGoOn ==
  ASSUME NEW R, Scored(R), NEW rows \in Seq(R), NEW limit \in Nat
  PROVE  LET sel == StratifiedSelect(rows, limit)
             on == {i \in DOMAIN rows : rows[i].config \in ToSet(Rows(sel))}
         IN  KeepsFamilies(rows, limit, Pick(rows, Ascending(on)))
<1> DEFINE sel == StratifiedSelect(rows, limit)
           on == {i \in DOMAIN rows : rows[i].config \in ToSet(Rows(sel))}
           kept == Pick(rows, Ascending(on))
<1>1. KeepsFamilies(rows, limit, sel)
  BY FamiliesKept
<1>2. sel \in Seq(ToSet(rows))
  <2> DEFINE T == ToSet(rows)
  <2>1. rows \in Seq(T)
    <3>1. DOMAIN rows = 1 .. Len(rows) /\ Len(rows) \in Nat /\ rows \in [1 .. Len(rows) -> R]
      BY LenProperties
    <3>2. rows \in [1 .. Len(rows) -> ToSet(rows)]
      BY <3>1 DEF ToSet
    <3> QED
      BY <3>1, <3>2, SeqDef
  <2>2. Scored(T)
    <3>1. T \subseteq R
      BY Indices DEF ToSet
    <3> QED
      BY <3>1 DEF Scored
  <2> HIDE DEF T
  <2>3. sel \in Seq(T)
    BY <2>1, <2>2, StratifiedKeeps
  <2> QED
    BY <2>3 DEF T
<1> HIDE DEF sel
<1>3. on \in SUBSET Int /\ IsFiniteSet(on)
  BY Indices, FS_Subset
<1>4. \A i \in DOMAIN sel : \E j \in on : rows[j] = sel[i]
  <2> TAKE i \in DOMAIN sel
  <2>1. sel[i] \in ToSet(rows)
    BY <1>2, Indices
  <2>2. PICK j \in DOMAIN rows : rows[j] = sel[i]
    BY <2>1 DEF ToSet
  <2>3. rows[j].config \in ToSet(Rows(sel))
    BY <2>2 DEF ToSet, Rows
  <2> QED
    BY <2>2, <2>3
<1> HIDE DEF on
<1>5. \A i \in on : \E k \in DOMAIN Ascending(on) : Ascending(on)[k] = i
  BY <1>3, AscendingLists
<1>6. \A i \in DOMAIN sel : \E k \in DOMAIN kept : kept[k] = sel[i]
  BY <1>4, <1>5 DEF Pick
<1> HIDE DEF kept
<1>7. KeepsFamilies(rows, limit, kept)
  <2> SUFFICES ASSUME Cardinality({Family(rows[i].config) : i \in DOMAIN rows}) <= limit,
                      NEW i \in DOMAIN rows
               PROVE  \E j \in DOMAIN kept : /\ Family(kept[j].config) = Family(rows[i].config)
                                             /\ kept[j].score >= rows[i].score
    BY DEF KeepsFamilies
  <2>1. PICK j \in DOMAIN sel : /\ Family(sel[j].config) = Family(rows[i].config)
                                /\ sel[j].score >= rows[i].score
    BY <1>1 DEF KeepsFamilies
  <2>2. PICK k \in DOMAIN kept : kept[k] = sel[j]
    BY <1>6
  <2> QED
    BY <2>1, <2>2
<1> QED
  BY <1>7 DEF kept, on, sel

(* A stage of a tune for a large context hands on what it has to keep.     *)
LEMMA HandsOn ==
  ASSUME Inv, Seeded, Capacity, stage \in {"startup", "diagnose", "fallback"}
  PROVE  /\ Handed \in Seq(Measured) /\ Finalists \in Nat
         /\ KeepsCapacity(passed, Finalists, Handed)
<1>1. /\ Given /\ passed \in Seq(Measured) /\ Scored(Measured)
      /\ Budget.coarse \in Nat /\ Budget.startup \in Nat /\ Budget.smoke \in Nat
  <2>1. Given /\ passed \in Seq(Good) /\ Good \in SUBSET Measured
    BY DEF Inv, Good
  <2>2. passed \in Seq(Measured)
    BY <2>1, SeqMonotonic
  <2> QED
    BY <2>1, <2>2, MeasuredScored, Limits
<1>2. /\ Finalists \in Nat /\ Finalists <= Budget.startup /\ Finalists <= Budget.smoke
  BY <1>1, Places DEF Finalists
<1>3. ASSUME stage = "startup"
      PROVE  Handed \in Seq(Measured) /\ KeepsCapacity(passed, Finalists, Handed)
  <2> DEFINE m == StartupLimit(Budget.startup, passed)
             rows == MaxContextSelect(passed, m)
             n == StartupLimit(Budget.smoke, rows)
             smoke == MaxContextSelect(rows, n)
  <2>1. m \in Nat /\ rows \in Seq(Measured)
    BY <1>1, SelectKeeps, MaxContextKeeps
  <2>2. KeepsCapacity(passed, m, rows)
    BY <1>1, <2>1, CapacityKept
  <2>3. m >= Budget.startup
    BY <1>1, <2>1 DEF StartupLimit, Most
  <2>4. Handed = smoke
    BY <1>3 DEF Handed, Select
  <2> HIDE DEF rows
  <2>5. n \in Nat /\ smoke \in Seq(Measured)
    BY <1>1, <2>1, SelectKeeps, MaxContextKeeps
  <2>6. KeepsCapacity(rows, n, smoke)
    BY <1>1, <2>1, <2>5, CapacityKept
  <2>7. n >= Budget.smoke
    BY <1>1, <2>5 DEF StartupLimit, Most
  <2> HIDE DEF smoke, m, n
  <2>8. Finalists <= m /\ Finalists <= n /\ m \in Nat /\ n \in Nat
    BY <1>1, <1>2, <2>1, <2>3, <2>5, <2>7
  <2>9. KeepsCapacity(smoke, Finalists, smoke)
    BY CapacityOf
  <2>10. KeepsCapacity(rows, Finalists, smoke)
    BY <1>2, <2>6, <2>8, <2>9, CapacityGoesOn
  <2>11. KeepsCapacity(passed, Finalists, smoke)
    BY <1>2, <2>2, <2>8, <2>10, CapacityGoesOn
  <2> QED
    BY <2>4, <2>5, <2>11
<1>4. ASSUME stage = "diagnose"
      PROVE  Handed \in Seq(Measured) /\ KeepsCapacity(passed, Finalists, Handed)
  <2>1. Handed = passed
    BY <1>4 DEF Handed
  <2>2. KeepsCapacity(passed, Finalists, passed)
    BY CapacityOf
  <2> QED
    BY <1>1, <2>1, <2>2
<1>5. ASSUME stage = "fallback"
      PROVE  Handed \in Seq(Measured) /\ KeepsCapacity(passed, Finalists, Handed)
  <2>1. Handed = StratifiedSelect(passed, Budget.coarse)
    BY <1>5 DEF Handed
  <2>2. StratifiedSelect(passed, Budget.coarse) \in Seq(Measured)
    BY <1>1, StratifiedKeeps
  <2>3. KeepsCapacity(passed, Finalists, StratifiedSelect(passed, Budget.coarse))
    BY <1>2, <1>5, FallbackCapacity
  <2> QED
    BY <2>1, <2>2, <2>3
<1> QED
  BY <1>2, <1>3, <1>4, <1>5

(* The steps from stage to stage keep variety: whatever is measured, the   *)
(* fastest row of every placement goes on to the target depth and to       *)
(* validation if there is a place for each, and the selections of a tune   *)
(* for a large context, one after the other, keep both small KV caches, a  *)
(* tensor split and a single device.                                       *)
THEOREM VarietyCorrect == Spec => SelectionsKeepVariety
<1> DEFINE kept == Pick(passed, Ascending({i \in DOMAIN passed : passed[i].config \in ToSet(todo')}))
           Coarse == stage = "coarse" /\ stage' = "target" =>
                       KeepsFamilies(passed, Budget.coarse, kept)
           Targeted == stage = "target" /\ stage' = "validate" =>
                         KeepsFamilies(passed, Least(tuning.finalists, Budget.finalists), kept)
           Roomy == Capacity /\ stage # "frontier" /\ stage' = "frontier" =>
                      KeepsCapacity(passed, Least(tuning.finalists, Budget.frontiers.capacity),
                                    passed')
           Varied == Coarse /\ Targeted /\ Roomy
<1>1. Inv /\ Seeded /\ [Next]_vars => [Varied]_vars
  <2> SUFFICES ASSUME Inv, Seeded, Next, stage' # stage, stage' \in {"target", "validate", "frontier"}
               PROVE  Varied
    OBVIOUS
  <2>1. EndStage
    BY DEF Next, Work, Begin, Enter, OutOfTime, Reuse, Execute, Use, StaticReject, Unmappable,
         RefuseFull, Frontier, StopSearching, Write, Interrupt, Die, Fail, Deadline, Restart,
         Exhausted, vars, run
  <2>2. /\ Given /\ passed \in Seq(Measured) /\ Scored(Measured)
        /\ Budget.coarse \in Nat /\ Least(tuning.finalists, Budget.finalists) \in Nat
    <3>1. Given /\ passed \in Seq(Good) /\ Good \in SUBSET Measured
      BY DEF Inv, Good
    <3>2. passed \in Seq(Measured)
      BY <3>1, SeqMonotonic
    <3>3. Least(tuning.finalists, Budget.finalists) \in Nat
      BY <3>1, Limits DEF Least
    <3> QED
      BY <3>1, <3>2, <3>3, MeasuredScored, Limits
  <2>3. Coarse
    <3> SUFFICES ASSUME stage = "coarse", stage' = "target"
                 PROVE  KeepsFamilies(passed, Budget.coarse, kept)
      OBVIOUS
    <3> DEFINE sel == StratifiedSelect(passed, Budget.coarse)
    <3>1. todo' = Rows(sel)
      BY <2>1, StageLeads DEF LeadsOn, Handed
    <3>2. KeepsFamilies(passed, Budget.coarse,
            Pick(passed, Ascending({i \in DOMAIN passed : passed[i].config \in ToSet(Rows(sel))})))
      BY <2>2, FamiliesGoOn
    <3> HIDE DEF sel
    <3> QED
      BY <3>1, <3>2
  <2>4. Targeted
    <3> SUFFICES ASSUME stage = "target", stage' = "validate"
                 PROVE  KeepsFamilies(passed, Least(tuning.finalists, Budget.finalists), kept)
      OBVIOUS
    <3> DEFINE limit == Least(tuning.finalists, Budget.finalists)
               sel == StratifiedSelect(passed, limit)
    <3>1. todo' = Rows(sel)
      BY <2>1, StageLeads
    <3>2. KeepsFamilies(passed, limit,
            Pick(passed, Ascending({i \in DOMAIN passed : passed[i].config \in ToSet(Rows(sel))})))
      BY <2>2, FamiliesGoOn
    <3> HIDE DEF sel
    <3> QED
      BY <3>1, <3>2
  <2>5. Roomy
    <3> SUFFICES ASSUME Capacity, stage' = "frontier"
                 PROVE  KeepsCapacity(passed, Finalists, passed')
      BY DEF Finalists
    <3> DEFINE best == MaxContextSelect(Handed, Finalists)
    <3>1. stage \in {"startup", "diagnose", "fallback"}
      BY <2>1, StageLeads DEF Inv, Staged
    <3>2. passed' = Fastest(best)
      BY <2>1, <3>1, StageLeads DEF LeadsOn
    <3>3. /\ Handed \in Seq(Measured) /\ Finalists \in Nat
          /\ KeepsCapacity(passed, Finalists, Handed)
      BY <3>1, HandsOn
    <3>4. best \in Seq(Measured) /\ KeepsCapacity(Handed, Finalists, best)
      BY <2>2, <3>3, MaxContextKeeps, CapacityKept
    <3> HIDE DEF best
    <3>5. KeepsCapacity(best, Finalists, Fastest(best))
      BY <2>2, <3>3, <3>4, FastestCapacity
    <3>6. KeepsCapacity(Handed, Finalists, Fastest(best))
      BY <3>3, <3>4, <3>5, CapacityGoesOn
    <3>7. KeepsCapacity(passed, Finalists, Fastest(best))
      BY <3>3, <3>6, CapacityGoesOn
    <3> QED
      BY <3>2, <3>7
  <2> QED
    BY <2>3, <2>4, <2>5
<1>2. [][Next]_vars /\ [](Inv /\ Seeded) => [][Varied]_vars
  BY <1>1, PTL
<1>3. Spec => [](Inv /\ Seeded)
  <2>1. Init => Inv /\ Seeded
    BY Starts, SeededStarts
  <2>2. Inv /\ Seeded /\ [Next]_vars => (Inv /\ Seeded)'
    BY Steps, SeededSteps
  <2> QED
    BY <2>1, <2>2, PTL DEF Spec
<1> QED
  BY <1>2, <1>3, PTL DEF Spec, SelectionsKeepVariety

-------------------------------------------------------------------------------
(* The search for layers finds the most.                                   *)

(* The tests that a search has.                                            *)
Tests == IF Quick THEN 4 ELSE 6

(* So many numbers of layers can be told apart in k tests.                 *)
Apart(k) == IF k = 0 THEN 1 ELSE IF k = 1 THEN 2 ELSE IF k = 2 THEN 4 ELSE IF k = 3 THEN 8
            ELSE IF k = 4 THEN 16 ELSE 32

(* What is left between the bounds can be told apart: no more than high    *)
(* layers are among those that work, and if low was tested, that many are  *)
(* covered.                                                                *)
Bracketed(s, working, covered) ==
  /\ s.low <= s.high /\ s.high < tuning.maximum
  /\ \A n \in working : n <= s.high
  /\ s.low # 0 => s.low \in s.seen
  /\ s.low \in s.seen => 0 .. s.low \subseteq covered
  /\ IsFiniteSet(s.seen) /\ Cardinality(s.seen) < Tests
  /\ s.high - s.low < Apart(Tests - 1 - Cardinality(s.seen))

(* A search that can still find the most.                                  *)
Fit(s, working, covered) ==
  /\ s.budget = Tests /\ s.seed = 0
  /\ \/ s.phase = "top" /\ s.seen = {} /\ s.low = 0
     \/ /\ s.phase = "halve" /\ Bracketed(s, working, covered)
        /\ Cardinality(s.seen) < Tests - 1
     \/ /\ s.phase = "last" /\ Bracketed(s, working, covered)
        /\ s.low = s.high /\ s.low \notin s.seen

(* What a search becomes that settles where to go on: it asks for more, or *)
(* has covered all that works.                                             *)
LEMMA SettlesFit ==
  ASSUME Given, NEW s, Search([s EXCEPT !.phase = "top"], Phases), s = [s EXCEPT !.phase = s.phase],
         NEW working \in SUBSET (0 .. tuning.maximum), NEW covered,
         s.budget = Tests, s.seed = 0, Bracketed(s, working, covered)
  PROVE  LET t == Settle(s)
         IN  IF t.phase = "end" THEN working \subseteq covered ELSE Fit(t, working, covered)
<1> DEFINE c == Cardinality(s.seen)
<1>1. /\ c \in Nat /\ Tests \in {4, 6} /\ s.low \in Nat /\ s.high \in Int
      /\ s.low <= s.high /\ s.high - s.low < Apart(Tests - 1 - c)
      /\ c < Tests
  BY FS_CardinalityType DEF Bracketed, Search, Tests
<1> HIDE DEF c
<1>2. ASSUME NEW phase \in Phases, Settle(s) = [s EXCEPT !.phase = phase]
      PROVE  LET t == Settle(s)
             IN  /\ t.phase = phase /\ t.budget = Tests /\ t.seed = 0
                 /\ t.low = s.low /\ t.high = s.high /\ t.seen = s.seen
                 /\ Bracketed(t, working, covered)
  BY <1>2 DEF Search, Bracketed
<1>3. CASE s.low < s.high /\ c < Most(1, s.budget - 1)
  <2>1. Settle(s) = [s EXCEPT !.phase = "halve"]
    BY <1>3 DEF Settle, c
  <2>2. c < Tests - 1
    BY <1>1, <1>3 DEF Most
  <2>3. "halve" \in Phases
    BY DEF Phases, Asking
  <2> QED
    BY <1>2, <2>1, <2>2, <2>3 DEF Fit, c
<1>4. CASE ~(s.low < s.high /\ c < Most(1, s.budget - 1))
  <2>1. s.low = s.high
    <3>1. CASE ~(s.low < s.high)
      BY <1>1, <3>1
    <3>2. CASE ~(c < Most(1, s.budget - 1))
      <4>1. Tests - 1 - c = 0
        BY <1>1, <3>2 DEF Most
      <4> QED
        BY <1>1, <4>1 DEF Apart
    <3> QED
      BY <1>4, <3>1, <3>2
  <2>2. CASE s.low \notin s.seen
    <3>1. Settle(s) = [s EXCEPT !.phase = "last"]
      BY <1>1, <1>4, <2>2 DEF Settle, c
    <3>2. "last" \in Phases
      BY DEF Phases, Asking
    <3> QED
      BY <1>2, <2>1, <2>2, <3>1, <3>2 DEF Fit
  <2>3. CASE s.low \in s.seen
    <3>1. Settle(s) = [s EXCEPT !.phase = "end"]
      BY <1>4, <2>3 DEF Settle, c
    <3>2. "end" \in Phases
      BY DEF Phases, Asking
    <3>3. 0 .. s.low \subseteq covered /\ \A n \in working : n \in 0 .. s.low
      BY <1>1, <2>1, <2>3 DEF Bracketed
    <3> QED
      BY <1>2, <3>1, <3>2, <3>3
  <2> QED
    BY <2>2, <2>3
<1> QED
  BY <1>3, <1>4

(* A test of a search that can still find the most: if fewer layers work   *)
(* wherever more do and the arguments leave tests enough, it can still, or *)
(* it is over and has covered all that works.                              *)
LEMMA TestedFit ==
  ASSUME Given, NEW s, Search(s, Asking), NEW working \in SUBSET (0 .. tuning.maximum),
         \A n \in working : 0 .. n \subseteq working,
         NEW covered, NEW more, covered \subseteq more, Fit(s, working, covered),
         tuning.maximum <= IF Quick THEN 4 ELSE 16,
         NEW ok \in BOOLEAN, ok <=> Layers(s) \in working, ok => 0 .. Layers(s) \subseteq more
  PROVE  LET t == Tested(s, ok)
         IN  IF t.phase = "end" THEN working \subseteq more ELSE Fit(t, working, more)
<1> DEFINE n == Layers(s)
           told == [s EXCEPT !.seen = @ \cup {n}]
<1>1. /\ n \in 0 .. tuning.maximum /\ tuning.maximum \in Nat /\ tuning.maximum > 1
      /\ Tests \in {4, 6} /\ tuning.maximum <= Apart(Tests - 2)
  BY LayersTyped, Limits DEF Tests, Apart
<1>2. s = [s EXCEPT !.phase = s.phase] /\ s.budget = Tests /\ s.seed = 0 /\ s.maximum = tuning.maximum
      /\ s.low \in 0 .. tuning.maximum /\ s.high \in Int /\ s.seen \subseteq Int
  BY DEF Search, Fit
<1>3. CASE s.phase = "top"
  <2>1. n = tuning.maximum /\ s.seen = {} /\ s.low = 0
    BY <1>2, <1>3 DEF Layers, Fit
  <2>2. CASE ok
    <3>1. Tested(s, ok).phase = "end"
      BY <1>3, <2>2 DEF Tested, Search
    <3> QED
      BY <2>1, <2>2, <3>1
  <2>3. CASE ~ok
    <3> DEFINE below == [told EXCEPT !.high = s.maximum - 1]
    <3>1. Tested(s, ok) = Settle(below)
      BY <1>2, <1>3, <2>3 DEF Tested
    <3>2. /\ below.low = 0 /\ below.high = tuning.maximum - 1 /\ below.seen = {tuning.maximum}
          /\ below.budget = Tests /\ below.seed = 0
      BY <1>2, <2>1 DEF Search
    <3>3. Search([below EXCEPT !.phase = "top"], Phases) /\ below = [below EXCEPT !.phase = below.phase]
      <4>1. s.maximum - 1 \in Int /\ s.maximum - 1 <= tuning.maximum /\ s.seen \cup {n} \in SUBSET Int
        BY <1>1, <1>2
      <4> HIDE DEF n
      <4> QED
        BY <1>3, <4>1 DEF Search, Phases, Asking
    <3> HIDE DEF below
    <3>4. IsFiniteSet(below.seen) /\ Cardinality(below.seen) = 1
      <4>1. IsFiniteSet({tuning.maximum}) /\ Cardinality({tuning.maximum}) = 1
        BY FS_Singleton, Zenon
      <4> QED
        BY <3>2, <4>1
    <3>5. \A m \in working : m <= tuning.maximum - 1
      BY <1>1, <2>1, <2>3
    <3>6. Bracketed(below, working, more)
      <4>1. below.low \notin below.seen
        BY <1>1, <3>2
      <4>2. Tests - 1 - Cardinality(below.seen) = Tests - 2 /\ Cardinality(below.seen) < Tests
        BY <1>1, <3>4
      <4>3. below.high - below.low < Apart(Tests - 1 - Cardinality(below.seen))
        <5> DEFINE room == Apart(Tests - 2)
        <5>1. room \in Int /\ tuning.maximum <= room
          BY <1>1 DEF Apart
        <5> HIDE DEF room
        <5>2. below.high - below.low < room
          BY <1>1, <3>2, <5>1
        <5> QED
          BY <4>2, <5>2 DEF room
      <4>4. below.low <= below.high /\ below.high < tuning.maximum
        BY <1>1, <3>2
      <4> QED
        BY <3>2, <3>4, <3>5, <4>1, <4>2, <4>3, <4>4 DEF Bracketed
    <3> QED
      BY <3>1, <3>2, <3>3, <3>6, SettlesFit
  <2> QED
    BY <2>2, <2>3
<1>4. CASE s.phase = "halve"
  <2> DEFINE c == Cardinality(s.seen)
             seen == s.seen \cup {n}
  <2>1. /\ s.low < s.high /\ s.high < tuning.maximum
        /\ \A m \in working : m <= s.high
        /\ s.low # 0 => s.low \in s.seen
        /\ s.low \in s.seen => 0 .. s.low \subseteq more
        /\ IsFiniteSet(s.seen) /\ c < Tests - 1
        /\ s.high - s.low < Apart(Tests - 1 - c)
    BY <1>4 DEF Fit, Bracketed, Search
  <2>2. n = (s.low + s.high + 1) \div 2
    BY <1>4 DEF Layers, Middle
  <2>3. s.low < n /\ n <= s.high
    BY <1>2, <2>1, <2>2
  <2>4. IsFiniteSet(seen) /\ c \in Nat /\ Cardinality(seen) \in {c, c + 1}
    <3> HIDE DEF n
    <3>1. Cardinality(s.seen) \in Nat
      BY <2>1, FS_CardinalityType
    <3>2. /\ IsFiniteSet(s.seen \cup {n})
          /\ \/ Cardinality(s.seen \cup {n}) = Cardinality(s.seen)
             \/ Cardinality(s.seen \cup {n}) = Cardinality(s.seen) + 1
      BY <2>1, FS_AddElement
    <3> QED
      BY <3>1, <3>2
  <2> HIDE DEF c
  <2>5. ASSUME NEW d \in Int, d <= (s.high - s.low) \div 2 PROVE d < Apart(Tests - 1 - Cardinality(seen))
    <3>1. s.high - s.low \in Nat
      BY <1>2, <2>1
    <3> DEFINE gap == s.high - s.low
               left == Tests - 1 - c
    <3>2. left \in {1, 2, 3, 4, 5} /\ gap < Apart(left)
      BY <1>1, <2>1, <2>4
    <3> HIDE DEF gap, left
    <3>3. gap \div 2 < Apart(left - 1)
      BY <3>1, <3>2 DEF Apart, gap
    <3>4. Tests - 1 - Cardinality(seen) \in {left - 1, left}
      BY <1>1, <2>1, <2>4 DEF left
    <3>5. Apart(left - 1) <= Apart(left) /\ Apart(left - 1) \in Int /\ Apart(left) \in Int
      BY <3>2 DEF Apart
    <3> QED
      BY <2>5, <3>1, <3>3, <3>4, <3>5 DEF gap
  <2>6. ASSUME NEW low \in 0 .. tuning.maximum, NEW high \in Int,
               low <= high, high <= s.high, high - low <= (s.high - s.low) \div 2,
               \A m \in working : m <= high,
               low # 0 => low \in seen, low \in seen => 0 .. low \subseteq more,
               Tested(s, ok) = Settle([told EXCEPT !.low = low, !.high = high])
        PROVE  LET t == Tested(s, ok)
               IN  IF t.phase = "end" THEN working \subseteq more ELSE Fit(t, working, more)
    <3> DEFINE next == [told EXCEPT !.low = low, !.high = high]
    <3>1. /\ next.low = low /\ next.high = high /\ next.seen = seen
          /\ next.budget = Tests /\ next.seed = 0
      BY <1>2 DEF Search
    <3>2. Search([next EXCEPT !.phase = "top"], Phases) /\ next = [next EXCEPT !.phase = next.phase]
      <4>1. seen \in SUBSET Int /\ high <= tuning.maximum
        BY <1>1, <1>2, <2>1, <2>6
      <4> HIDE DEF n
      <4> QED
        BY <1>4, <2>6, <4>1 DEF Search, Phases, Asking
    <3>3. high - low < Apart(Tests - 1 - Cardinality(seen))
      <4>1. high - low \in Int /\ high - low <= (s.high - s.low) \div 2
        BY <1>1, <2>6
      <4> HIDE DEF seen
      <4> QED
        BY <2>5, <4>1
    <3>4. Cardinality(seen) < Tests /\ high < tuning.maximum
      BY <1>1, <1>2, <2>1, <2>4, <2>6
    <3> HIDE DEF next, seen
    <3>5. Bracketed(next, working, more)
      BY <2>4, <2>6, <3>1, <3>3, <3>4 DEF Bracketed
    <3>6. Tested(s, ok) = Settle(next)
      BY <2>6 DEF next
    <3> QED
      BY <3>1, <3>2, <3>5, <3>6, SettlesFit
  <2>7. CASE ok
    <3>1. Tested(s, ok) = Settle([told EXCEPT !.low = n])
      BY <1>4, <2>7 DEF Tested
    <3>2. [told EXCEPT !.low = n] = [told EXCEPT !.low = n, !.high = s.high]
      BY DEF Search
    <3>3. s.high - n <= (s.high - s.low) \div 2
      BY <1>2, <2>1, <2>2
    <3>4. n \in seen /\ 0 .. n \subseteq more
      BY <2>7
    <3>5. Tested(s, ok) = Settle([told EXCEPT !.low = n, !.high = s.high])
      BY <3>1, <3>2
    <3>6. s.high \in Int /\ n <= s.high /\ s.high <= s.high /\ n \in 0 .. tuning.maximum
      BY <1>1, <1>2, <2>3
    <3> HIDE DEF n, told, seen
    <3> QED
      BY <2>1, <2>6, <3>3, <3>4, <3>5, <3>6
  <2>8. CASE ~ok
    <3>1. Tested(s, ok) = Settle([told EXCEPT !.high = n - 1])
      BY <1>4, <2>8 DEF Tested
    <3>2. [told EXCEPT !.high = n - 1] = [told EXCEPT !.low = s.low, !.high = n - 1]
      BY DEF Search
    <3>3. /\ n - 1 \in Int /\ s.low <= n - 1 /\ n - 1 <= s.high
          /\ n - 1 - s.low <= (s.high - s.low) \div 2
      BY <1>2, <2>1, <2>2, <2>3
    <3>4. ASSUME NEW m \in working PROVE m <= n - 1
      <4>1. ~(n \in 0 .. m)
        BY <2>8
      <4> QED
        BY <1>1, <4>1
    <3>5. s.low # n
      BY <1>2, <2>2, <2>3
    <3>6. (s.low # 0 => s.low \in seen) /\ (s.low \in seen => 0 .. s.low \subseteq more)
      BY <2>1, <3>5
    <3> HIDE DEF n, told, seen
    <3> QED
      BY <1>2, <2>6, <3>1, <3>2, <3>3, <3>4, <3>6
  <2> QED
    BY <2>7, <2>8
<1>5. CASE s.phase = "last"
  <2>1. Tested(s, ok).phase = "end"
    BY <1>5 DEF Tested, Search
  <2>2. /\ s.low = s.high /\ s.low \notin s.seen /\ (s.low # 0 => s.low \in s.seen)
        /\ \A m \in working : m <= s.high
    BY <1>5 DEF Fit, Bracketed
  <2>3. n = s.low /\ s.low = 0
    BY <1>5, <2>2 DEF Layers
  <2>4. \A m \in working : m = 0
    BY <1>1, <2>2, <2>3
  <2>5. working \subseteq more
    <3>1. CASE ok
      BY <2>3, <2>4, <3>1
    <3>2. CASE ~ok
      BY <2>3, <2>4, <3>2
    <3> QED
      BY <3>1, <3>2
  <2> QED
    BY <2>1, <2>5
<1> QED
  BY <1>3, <1>4, <1>5 DEF Fit

(* With how many layers a seed works, ...                                  *)
StartsWith(seed) ==
  {n \in 0 .. tuning.maximum :
     Definitive([seed EXCEPT !.ngl = n], "partial-feasibility").status = "ok"}

(* ... and how many are covered by the rows of the fallback.               *)
Covered(seed) ==
  {n \in 0 .. tuning.maximum :
     \E k \in DOMAIN passed : Grown(passed[k], seed) /\ passed[k].config.ngl >= n}

(* No trial was lost, and the tests can tell all numbers of layers apart.  *)
Enough == losses = 0 /\ tuning.maximum <= IF Quick THEN 4 ELSE 16

(* The fallback has found the most of the seeds that it has dealt with,    *)
(* and can still find the most of the one it deals with.                   *)
Deepest ==
  stage = "fallback" /\ Enough =>
    /\ \A s \in ToSet(Seeds) \ ToSet(todo) : StartsWith(s) \subseteq Covered(s)
    /\ \A s \in ToSet(todo) : s = Head(todo) => Fit(search, StartsWith(s), Covered(s))

(* What a seed does with some layers, it does with fewer.                  *)
LEMMA FewerBegin ==
  ASSUME Given, NEW s \in Configs
  PROVE  /\ StartsWith(s) \in SUBSET (0 .. tuning.maximum)
         /\ \A n \in StartsWith(s) : 0 .. n \subseteq StartsWith(s)
<1> DEFINE config(n) == [s EXCEPT !.ngl = n]
           fits == rig.fits[s.placement][s.tier]
<1>1. fits \in Nat /\ tuning.maximum \in Nat
  <2>1. s.placement \in DOMAIN rig.fits /\ s.tier \in ToSet(FullTiers)
    BY DEF Configs
  <2>2. rig.fits[s.placement] \in [ToSet(FullTiers) -> Nat]
    BY <2>1, FunnelAssumption DEF Given
  <2> QED
    BY <2>1, <2>2, Limits
<1>2. ASSUME NEW n \in Int
      PROVE  /\ config(n).flash = s.flash /\ (Fits(config(n)) <=> n <= fits)
             /\ ~ByBench("partial-feasibility")
  BY DEF Configs, Fits, ByBench, BenchKinds
<1> HIDE DEF config, fits
<1>3. ASSUME NEW n \in Int
      PROVE  Definitive(config(n), "partial-feasibility").status = "ok" <=>
               s.flash \in rig.flash /\ (n <= fits \/ ~rig.strict)
  BY <1>2, <1>3 DEF Definitive, Ok, Failure
<1>4. StartsWith(s) = {n \in 0 .. tuning.maximum : s.flash \in rig.flash /\ (n <= fits \/ ~rig.strict)}
  <2>1. StartsWith(s) = {n \in 0 .. tuning.maximum :
                       Definitive(config(n), "partial-feasibility").status = "ok"}
    BY DEF StartsWith, config
  <2> QED
    BY <1>3, <2>1
<1> QED
  BY <1>1, <1>4

(* Nothing that is covered is lost as long as rows are.                    *)
LEMMA CoveredStays ==
  ASSUME UNCHANGED args, \A k \in DOMAIN passed : \E i \in DOMAIN passed' : passed'[i] = passed[k]
  PROVE  \A s : Covered(s) \subseteq Covered(s)' /\ StartsWith(s)' = StartsWith(s)
<1>1. tuning' = tuning /\ rig' = rig
  BY DEF args
<1>2. ASSUME NEW s PROVE Covered(s) \subseteq Covered(s)'
  BY <1>1 DEF Covered, Grown
<1>3. ASSUME NEW s PROVE StartsWith(s)' = StartsWith(s)
  BY <1>1 DEF StartsWith, Definitive, ByBench, Fits, Rate, Ok, Failure
<1> QED
  BY <1>2, <1>3

(* A test of a seed keeps what the fallback can find.                      *)
LEMMA TestsDeepest ==
  ASSUME Inv, Truthful, Seeded, Deepest, Reuse \/ Execute
  PROVE  Deepest'
<1> SUFFICES ASSUME stage' = "fallback", Enough' PROVE Deepest'
  BY DEF Deepest
<1> PICK h : h = Head(todo)
  OBVIOUS
<1> DEFINE n == Layers(search)
           r == Definitive(Config, Kind)
           ok == r.status = "ok"
           t == Tested(search, ok)
           row == [config |-> Config, score |-> r.score]
<1>1. UNCHANGED args /\ todo # <<>> /\ Given /\ Search(search, Asking) /\ todo \in Seq(Configs)
  BY DEF Reuse, Execute, Measuring, Inv, Working
<1>2. losses = 0 /\ Use(r)
  BY Answers DEF Enough
<1>3. stage = "fallback"
  BY <1>2 DEF Use
<1>4. Enough
  BY <1>1, <1>2, SeedsStay DEF Enough, Quick
<1>5. /\ Config = [h EXCEPT !.ngl = n] /\ Kind = "partial-feasibility"
      /\ Sought(ok) /\ passed' = IF ok THEN Append(passed, row) ELSE passed
  BY <1>1, <1>2, <1>3, FallbackUses
<1>6. /\ h = Head(todo) /\ h \in Configs /\ h \in ToSet(todo) /\ n \in 0 .. tuning.maximum
      /\ \A c \in ToSet(todo) : c = h \/ c \in ToSet(Tail(todo))
  <2>1. h \in ToSet(todo)
    <3>1. 1 \in DOMAIN todo /\ h = todo[1]
      BY <1>1, EmptySeq, LenProperties, HeadTailProperties
    <3> QED
      BY <3>1 DEF ToSet
  <2> QED
    BY <1>1, <2>1, ConfigTyped, LayersTyped, HeadOrTail DEF Inv
<1>7. ok <=> n \in StartsWith(h)
  BY <1>5, <1>6 DEF StartsWith
<1>8. /\ \A k \in DOMAIN passed : \E i \in DOMAIN passed' : passed'[i] = passed[k]
      /\ ok => \E i \in DOMAIN passed' : passed'[i] = row
  <2> DEFINE T == Good \cup {row}
  <2>1. passed \in Seq(Good) /\ Good \subseteq T /\ row \in T
    BY DEF Inv
  <2> HIDE DEF T, row
  <2>2. passed \in Seq(T)
    BY <2>1, SeqMonotonic
  <2>3. ASSUME passed' = Append(passed, row)
        PROVE  /\ \A k \in DOMAIN passed : \E i \in DOMAIN passed' : passed'[i] = passed[k]
               /\ \E i \in DOMAIN passed' : passed'[i] = row
    BY <2>1, <2>2, <2>3, AppendHas
  <2> HIDE DEF ok
  <2> QED
    BY <1>5, <2>3
<1>9. \A s : Covered(s) \subseteq Covered(s)' /\ StartsWith(s)' = StartsWith(s)
  BY <1>1, <1>8, CoveredStays
<1>10. ok => 0 .. n \subseteq Covered(h)'
  <2> SUFFICES ASSUME ok PROVE 0 .. n \subseteq Covered(h)'
    OBVIOUS
  <2>1. PICK i \in DOMAIN passed' : passed'[i] = row
    BY <1>8
  <2>2. Grown(passed'[i], h) /\ passed'[i].config.ngl = n
    BY <1>5, <1>6, <2>1 DEF Grown, Configs
  <2>3. tuning' = tuning /\ tuning.maximum \in Nat
    BY <1>1, SeedsStay, Limits
  <2> HIDE DEF n, row, ok
  <2> QED
    BY <1>6, <2>2, <2>3 DEF Covered, Grown
<1>11. IF t.phase = "end" THEN StartsWith(h) \subseteq Covered(h)' ELSE Fit(t, StartsWith(h), Covered(h)')
  <2>1. /\ StartsWith(h) \in SUBSET (0 .. tuning.maximum)
        /\ \A m \in StartsWith(h) : 0 .. m \subseteq StartsWith(h)
    BY <1>1, <1>6, FewerBegin
  <2>2. Fit(search, StartsWith(h), Covered(h))
    BY <1>1, <1>3, <1>4, <1>6 DEF Deepest
  <2>3. ok \in BOOLEAN
    OBVIOUS
  <2>4. tuning.maximum <= IF Quick THEN 4 ELSE 16
    BY <1>4 DEF Enough
  <2>5. Covered(h) \subseteq Covered(h)'
    BY <1>9
  <2> DEFINE more == Covered(h)'
             working == StartsWith(h)
             covered == Covered(h)
  <2> HIDE DEF ok, more, working, covered
  <2> QED
    BY <1>1, <1>7, <1>10, <2>1, <2>2, <2>3, <2>4, <2>5, TestedFit DEF more, working, covered
<1>12. tuning' = tuning /\ Seeds' = Seeds
  BY <1>1, SeedsStay
<1>13. CASE t.phase = "end"
  <2>1. todo' = Tail(todo) /\ search' = NewSearch("fallback")
    BY <1>3, <1>5, <1>13 DEF Sought
  <2>2. ASSUME NEW s \in ToSet(Seeds), s \notin ToSet(todo') PROVE StartsWith(s)' \subseteq Covered(s)'
    <3>1. CASE s = h
      BY <1>9, <1>11, <1>13, <3>1
    <3>2. CASE s # h
      <4>1. s \notin ToSet(todo)
        BY <1>6, <2>1, <2>2, <3>2
      <4>2. StartsWith(s) \subseteq Covered(s)
        BY <1>3, <1>4, <4>1 DEF Deepest
      <4> QED
        BY <1>9, <4>2
    <3> QED
      BY <3>1, <3>2
  <2>3. \A s : Fit(search, StartsWith(s), Covered(s))'
    BY <1>12, <2>1 DEF Fit, NewSearch, BoundedLayers, Tests, Quick
  <2> QED
    BY <1>12, <2>2, <2>3 DEF Deepest
<1>14. CASE t.phase # "end"
  <2>1. todo' = todo /\ search' = t
    BY <1>5, <1>14 DEF Sought
  <2>2. ASSUME NEW s \in ToSet(Seeds), s \notin ToSet(todo') PROVE StartsWith(s)' \subseteq Covered(s)'
    <3>1. StartsWith(s) \subseteq Covered(s)
      BY <1>3, <1>4, <2>1, <2>2 DEF Deepest
    <3> QED
      BY <1>9, <3>1
  <2>3. Fit(search, StartsWith(h), Covered(h))'
    <3>1. Fit(search', StartsWith(h)', Covered(h)')
      BY <1>9, <1>11, <1>14, <2>1
    <3> QED
      BY <1>12, <3>1 DEF Fit, Bracketed, Tests, Quick
  <2> QED
    BY <1>6, <1>12, <2>1, <2>2, <2>3 DEF Deepest
<1> QED
  BY <1>13, <1>14

(* Before there is a fallback, nothing is to be found.                     *)
LEMMA DeepestStarts == Init => Deepest
  BY DEF Init, Deepest

(* Every step keeps what the fallback can find.                            *)
LEMMA DeepestSteps == Inv /\ Truthful /\ Seeded /\ Deepest /\ [Next]_vars => Deepest'
<1> SUFFICES ASSUME Inv, Truthful, Seeded, Deepest, [Next]_vars, stage' = "fallback"
             PROVE  Deepest'
  BY DEF Deepest
<1>1. CASE Reuse \/ Execute
  BY <1>1, TestsDeepest
<1>2. CASE EndStage
  <2>1. todo' = Seeds /\ search' = NewSearch("fallback")
    BY <1>2, StageLeads DEF LeadsOn
  <2>2. tuning' = tuning /\ Seeds' = Seeds
    BY <1>2, SeedsStay DEF EndStage
  <2>3. \A s : Fit(search, StartsWith(s), Covered(s))'
    BY <2>1, <2>2 DEF Fit, NewSearch, BoundedLayers, Tests, Quick
  <2> QED
    BY <2>1, <2>2, <2>3 DEF Deepest
<1>3. CASE ~Reuse /\ ~Execute /\ ~EndStage
  <2>1. stage = "fallback" /\ UNCHANGED <<todo, passed, search, losses>> /\ UNCHANGED args
    BY <1>3, NoFallback
  <2>2. tuning' = tuning /\ rig' = rig /\ Seeds' = Seeds
    BY <2>1, SeedsStay
  <2>3. \A s : StartsWith(s)' = StartsWith(s) /\ Covered(s)' = Covered(s)
    BY <2>1, <2>2 DEF StartsWith, Covered, Definitive, ByBench, Fits, Rate, Ok, Failure, Grown
  <2>4. ASSUME Enough' PROVE Enough
    BY <2>1, <2>2, <2>4 DEF Enough, Quick
  <2>5. ASSUME NEW s, Fit(search, StartsWith(s), Covered(s)) PROVE Fit(search, StartsWith(s), Covered(s))'
    <3>1. Fit(search', StartsWith(s)', Covered(s)')
      BY <2>1, <2>3, <2>5
    <3> QED
      BY <2>2, <3>1 DEF Fit, Bracketed, Tests, Quick
  <2> HIDE DEF Enough
  <2> QED
    BY <2>1, <2>2, <2>3, <2>4, <2>5 DEF Deepest
<1> QED
  BY <1>1, <1>2, <1>3

(* The fallback finds, for every seed, the largest number of layers that   *)
(* works: with four tests among no more than four layers, or with six      *)
(* among no more than sixteen, the search for layers never stops short of  *)
(* it, and every number that it has found has become a row.                *)
THEOREM FallbackCorrect == Spec => []FallbackFindsMost
<1>1. Inv /\ Deepest => FallbackFindsMost
  <2> SUFFICES ASSUME Inv, Deepest, stage = "fallback", todo = <<>>, Enough,
                      NEW i \in DOMAIN Seeds, NEW n \in 0 .. tuning.maximum,
                      "on" \in rig.flash, Fits([Seeds[i] EXCEPT !.ngl = n])
               PROVE  \E k \in DOMAIN passed : /\ passed[k].config.placement = Seeds[i].placement
                                               /\ passed[k].config.tier = Seeds[i].tier
                                               /\ passed[k].config.ngl >= n
    BY DEF FallbackFindsMost, Enough
  <2> PICK seed : seed = Seeds[i]
    OBVIOUS
  <2>1. seed \in ToSet(Seeds) /\ seed \in Configs /\ seed.flash = "on"
    <3>1. Given
      BY DEF Inv
    <3>2. seed \in ToSet(Seeds)
      BY DEF ToSet
    <3> QED
      BY <3>1, <3>2, SeedsTyped, AnchorsTyped, Indices
  <2>2. ToSet(todo) = {}
    BY EmptySeq DEF ToSet
  <2>3. StartsWith(seed) \subseteq Covered(seed)
    BY <2>1, <2>2 DEF Deepest
  <2>4. n \in StartsWith(seed)
    <3>1. [seed EXCEPT !.ngl = n].flash = "on" /\ ~ByBench("partial-feasibility")
      BY <2>1 DEF Configs, ByBench, BenchKinds
    <3>2. Definitive([seed EXCEPT !.ngl = n], "partial-feasibility").status = "ok"
      BY <3>1 DEF Definitive, Ok
    <3> QED
      BY <3>2 DEF StartsWith
  <2>5. PICK k \in DOMAIN passed : Grown(passed[k], seed) /\ passed[k].config.ngl >= n
    BY <2>3, <2>4 DEF Covered
  <2> QED
    BY <2>5 DEF Grown
<1>2. Spec => [](Inv /\ Best /\ Seeded /\ Deepest)
  <2>1. Init => Seeded /\ Deepest
    BY SeededStarts, DeepestStarts
  <2>2. Inv /\ Best /\ Seeded /\ Deepest /\ [Next]_vars => (Seeded /\ Deepest)'
    BY SeededSteps, DeepestSteps DEF Best
  <2> QED
    BY <2>1, <2>2, BestInvariance, PTL DEF Spec
<1> QED
  BY <1>1, <1>2, PTL

===============================================================================
