---------------------------- MODULE DeviceMapProofs ----------------------------
(***************************************************************************)
(* Proofs about DeviceMap: what map_devices tells of a device is true,     *)
(* however little it knows of it; and no candidate that a tune should      *)
(* start with is left out, whatever the devices.                           *)
(***************************************************************************)
EXTENDS DeviceMap, SequenceTheorems, FiniteSetTheorems, WellFoundedInduction, TLAPS

(* The world is one of those described, and what was answered is true.     *)
MapInv == world \in Worlds /\ MappingIsTrue

(* A GPU differs from itself by no more than the overhead.                 *)
LEMMA NearItself ==
  ASSUME world \in Worlds, NEW d \in Devices
  PROVE  Near(Behind(d), d)
<1> DEFINE g == Behind(d)
<1>1. g \in Gpus BY DeviceAssumption DEF Devices, Behind
<1>2. /\ Overhead \in Nat
      /\ Gpu(g).total \in Nat
      /\ Gpu(g).total > 20 * Overhead \/ Overhead <= 64
  BY <1>1, DeviceAssumption DEF Gpu
<1> HIDE DEF g
<1>3. Gpu(g).total - (Gpu(g).total - Overhead) = Overhead BY <1>2
<1>4. Most(Overhead, 0 - Overhead) = Overhead BY <1>2 DEF Most
<1>5. Overhead <= 64 \/ 20 * Overhead <= Gpu(g).total BY <1>2
<1> QED BY <1>3, <1>4, <1>5 DEF Near, Advertised, g

(* The GPU behind a device is one of its candidates, which are GPUs that   *)
(* nvidia-smi lists.                                                       *)
LEMMA CandidateBehind ==
  ASSUME world \in Worlds, NEW d \in Devices
  PROVE  Behind(d) \in Candidates(d) /\ Candidates(d) \subseteq Gpus
<1>1. Behind(d) \in Gpus /\ Behind(d) \in world.visible[d] /\ world.visible[d] \subseteq Gpus
  BY DeviceAssumption DEF Devices, Behind
<1>2. world.told[d] \in Evidence BY DeviceAssumption DEF Devices
<1>3. Near(Behind(d), d) BY NearItself
<1> QED BY <1>1, <1>2, <1>3 DEF Candidates, Evidence

(* A set of GPUs of which there is one has no other element.               *)
LEMMA OnlyOne ==
  ASSUME NEW S, IsFiniteSet(S), Cardinality(S) = 1, NEW a \in S, NEW b \in S
  PROVE  a = b
BY FS_Singleton

(* A device that is resolved is resolved to the GPU behind it.             *)
LEMMA ResolvedIsBehind ==
  ASSUME world \in Worlds, NEW ids, NEW k \in DOMAIN ids, ids[k] \in Devices
  PROVE  /\ Resolved(ids, k) \subseteq {Behind(ids[k])}
         /\ Resolved(ids, k) # NoGpu => Resolved(ids, k) = {Behind(ids[k])}
<1>1. Behind(ids[k]) \in Candidates(ids[k]) /\ Candidates(ids[k]) \subseteq Gpus
  BY CandidateBehind
<1>2. IsFiniteSet(Candidates(ids[k])) BY <1>1, FS_Subset, DeviceAssumption
<1>3. Cardinality(Candidates(ids[k])) = 1 => Candidates(ids[k]) = {Behind(ids[k])}
  BY <1>1, <1>2, OnlyOne
<1> QED BY <1>3 DEF Resolved, NoGpu

(* GPUs of one size have one margin, also if it is not known which of them *)
(* is behind a device.                                                     *)
LEMMA SameHeadroom ==
  ASSUME NEW union \in SUBSET Gpus, Cardinality({Gpu(g).total : g \in union}) = 1,
         NEW a \in union, NEW b \in union
  PROVE  Headroom(a) = Headroom(b)
<1>1. IsFiniteSet(union) BY FS_Subset, DeviceAssumption
<1> DEFINE totals == {Gpu(g).total : g \in union}
           f == [g \in union |-> Gpu(g).total]
<1>2. IsFiniteSet(totals)
  <2>1. f \in Surjection(union, totals) BY DEF Surjection
  <2> QED BY <1>1, <2>1, FS_Surjection
<1>3. Gpu(a).total = Gpu(b).total BY <1>2, OnlyOne
<1> QED BY <1>3 DEF Headroom

(* What map_devices returns is true of every device it maps.               *)
LEMMA AnswerIsTrue ==
  ASSUME world \in Worlds, NEW choice, NEW answer, answer = MapDevices(choice), answer.ok,
         NEW k \in DOMAIN answer.ids
  PROVE  /\ answer.gpus[k] \subseteq {Behind(answer.ids[k])}
         /\ answer.reliable => answer.gpus[k] # NoGpu
         /\ Behind(answer.ids[k]) \in answer.monitored
         /\ answer.margins # <<>> => answer.margins[k] = Headroom(Behind(answer.ids[k]))
<1> DEFINE ids == IF choice = All THEN [d \in Devices |-> d] ELSE choice
           resolved == [m \in DOMAIN ids |-> Resolved(ids, m)]
           open == {m \in DOMAIN ids : resolved[m] = NoGpu}
           unionOf(S) == UNION {Candidates(ids[m]) : m \in S}
           told(m) == CHOOSE g \in IF m \in open THEN unionOf(open) ELSE resolved[m] : TRUE
           clear == open = {} \/ Uniform(ids, open, unionOf(open))
           margins == [m \in DOMAIN ids |-> Headroom(told(m))]
<1>1. /\ ToSet(ids) \subseteq Devices
      /\ answer = [ok |-> TRUE, ids |-> ids, gpus |-> resolved, reliable |-> open = {},
                   monitored |-> IF clear THEN unionOf(DOMAIN ids) ELSE Gpus,
                   margins |-> IF clear THEN margins ELSE <<>>]
  <2>1. answer # Failed BY DEF Failed
  <2> QED BY <2>1 DEF MapDevices
<1> HIDE DEF ids
<1>2. k \in DOMAIN ids /\ answer.ids = ids /\ answer.gpus[k] = Resolved(ids, k)
  BY <1>1
<1>0. /\ answer.reliable = (open = {})
      /\ answer.monitored = IF clear THEN unionOf(DOMAIN ids) ELSE Gpus
      /\ answer.margins = IF clear THEN margins ELSE <<>>
  <2> HIDE DEF resolved, open, unionOf, margins, clear
  <2> QED BY <1>1
<1>3. ids[k] \in Devices BY <1>1, <1>2 DEF ToSet
<1> DEFINE true == Behind(ids[k])
<1>4. true \in Candidates(ids[k]) /\ Candidates(ids[k]) \subseteq Gpus BY <1>3, CandidateBehind
<1>5. /\ Resolved(ids, k) \subseteq {true}
      /\ Resolved(ids, k) # NoGpu => Resolved(ids, k) = {true}
  BY <1>2, <1>3, ResolvedIsBehind
<1>6. answer.reliable => answer.gpus[k] # NoGpu BY <1>0, <1>2
<1>7. true \in answer.monitored
  <2> HIDE DEF clear
  <2> QED BY <1>0, <1>2, <1>4
<1>8. ASSUME answer.margins # <<>> PROVE answer.margins[k] = Headroom(true)
  <2>1. clear /\ answer.margins[k] = Headroom(told(k))
    <3> HIDE DEF clear, told
    <3> QED BY <1>0, <1>2, <1>8
  <2>2. CASE k \notin open
    <3>1. resolved[k] = {true} BY <1>2, <1>5, <2>2
    <3>2. told(k) \in resolved[k] BY <3>1, <2>2
    <3> QED BY <2>1, <3>1, <3>2
  <2>3. CASE k \in open
    <3>1. Uniform(ids, open, unionOf(open)) BY <2>1, <2>3
    <3>2. /\ Candidates(ids[k]) = unionOf(open)
          /\ Cardinality({Gpu(g).total : g \in unionOf(open)}) = 1
      BY <3>1, <2>3 DEF Uniform
    <3>3. true \in unionOf(open) /\ unionOf(open) \in SUBSET Gpus BY <1>4, <3>2
    <3>4. told(k) \in unionOf(open) BY <3>3, <2>3
    <3> HIDE DEF unionOf, told, open
    <3>5. Headroom(told(k)) = Headroom(true) BY <3>2, <3>3, <3>4, SameHeadroom
    <3> QED BY <2>1, <3>5
  <2> QED BY <2>2, <2>3
<1> QED BY <1>2, <1>5, <1>6, <1>7, <1>8

(* A device is mapped to the GPU behind it or to none, the GPU behind it   *)
(* is monitored, and its margin is that GPU's (map_devices), whatever the  *)
(* GPUs, the evidence and the selection.                                   *)
THEOREM MappingCorrect == Spec => []MappingIsTrue
<1>1. Init => MapInv
  BY DEF Init, MapInv, MappingIsTrue, Failed
<1>2. MapInv /\ [Next]_vars => MapInv'
  <2> SUFFICES ASSUME MapInv, [Next]_vars PROVE MapInv' OBVIOUS
  <2>1. CASE Map
    <3>1. world \in Worlds /\ world' = world /\ mapping' = MapDevices(selected')
      BY <2>1 DEF Map, MapInv
    <3>2. ASSUME mapping'.ok, NEW k \in DOMAIN mapping'.ids
          PROVE  /\ mapping'.gpus[k] \subseteq {Behind(mapping'.ids[k])}
                 /\ mapping'.reliable => mapping'.gpus[k] # NoGpu
                 /\ Behind(mapping'.ids[k]) \in mapping'.monitored
                 /\ mapping'.margins # <<>> =>
                      mapping'.margins[k] = Headroom(Behind(mapping'.ids[k]))
      BY <3>1, <3>2, AnswerIsTrue
    <3> QED BY <3>1, <3>2 DEF MapInv, MappingIsTrue, Behind, Headroom, Gpu
  <2>2. CASE UNCHANGED vars
    BY <2>2 DEF vars, MapInv, MappingIsTrue, Behind, Headroom, Gpu
  <2> QED BY <2>1, <2>2 DEF Next, Returned
<1>3. MapInv => MappingIsTrue BY DEF MapInv
<1> QED BY <1>1, <1>2, <1>3, PTL DEF Spec

-------------------------------------------------------------------------------
(* Lists.                                                                  *)

(* Some natural numbers have a least one.                                  *)
LEMMA LeastNumber ==
  ASSUME NEW T \in SUBSET Nat, T # {}
  PROVE  \E m \in T : \A k \in T : m <= k
<1> DEFINE R == OpToRel(<, Nat)
<1>1. \A a, b \in Nat : <<a, b>> \in R <=> a < b
  BY DEF OpToRel
<1>2. PICK m \in T : \A k \in T : ~(<<k, m>> \in R)
  BY WFMin, NatLessThanWellFounded
<1> HIDE DEF R
<1>3. ASSUME NEW k \in T PROVE m <= k
  <2>1. k \in Nat /\ m \in Nat /\ ~(k < m)
    BY <1>1, <1>2
  <2> QED
    BY <2>1
<1> QED
  BY <1>2, <1>3

(* What has as many places as it is long is a list of what it has there.   *)
LEMMA ListOf ==
  ASSUME NEW n \in Nat, NEW f, f = [k \in 1 .. n |-> f[k]]
  PROVE  /\ f \in Seq({f[k] : k \in 1 .. n})
         /\ Len(f) = n
<1> DEFINE T == {f[k] : k \in 1 .. n}
<1>1. f \in [1 .. n -> T]
  OBVIOUS
<1> HIDE DEF T
<1>2. f \in Seq(T)
  BY <1>1, SeqDef
<1>3. DOMAIN f = 1 .. n /\ DOMAIN f = 1 .. Len(f) /\ Len(f) \in Nat
  BY <1>1, <1>2, LenProperties
<1> QED
  BY <1>2, <1>3 DEF T

(* The places of a list.                                                   *)
LEMMA Indices ==
  ASSUME NEW S, NEW s \in Seq(S)
  PROVE  /\ DOMAIN s = 1 .. Len(s) /\ Len(s) \in Nat /\ DOMAIN s \in SUBSET Nat
         /\ IsFiniteSet(DOMAIN s) /\ Cardinality(DOMAIN s) = Len(s)
         /\ \A i \in DOMAIN s : s[i] \in S
<1>1. DOMAIN s = 1 .. Len(s) /\ Len(s) \in Nat
  BY LenProperties
<1>2. IsFiniteSet(1 .. Len(s)) /\ Cardinality(1 .. Len(s)) = Len(s)
  BY <1>1, FS_Interval
<1>3. \A i \in 1 .. Len(s) : s[i] \in S
  BY ElementOfSeq
<1> QED
  BY <1>1, <1>2, <1>3

(* The start of a list.                                                    *)
LEMMA FirstKeeps ==
  ASSUME NEW S, NEW s \in Seq(S), NEW limit \in Nat
  PROVE  /\ First(s, limit) \in Seq(S)
         /\ Len(First(s, limit)) = Least(limit, Len(s))
         /\ DOMAIN First(s, limit) = 1 .. Least(limit, Len(s))
         /\ \A k \in DOMAIN First(s, limit) : First(s, limit)[k] = s[k]
<1> DEFINE n == Least(limit, Len(s))
<1>1. n \in Nat /\ n <= Len(s)
  BY LenProperties DEF Least
<1>2. \A i \in 1 .. n : s[i] \in S
  BY <1>1, ElementOfSeq
<1> HIDE DEF n
<1>3. /\ SubSeq(s, 1, n) \in Seq(S) /\ Len(SubSeq(s, 1, n)) = n
      /\ \A i \in 1 .. n : SubSeq(s, 1, n)[i] = s[i]
  BY <1>1, <1>2
<1>4. DOMAIN SubSeq(s, 1, n) = 1 .. n
  BY <1>3, LenProperties
<1>5. First(s, limit) = SubSeq(s, 1, n) /\ n = Least(limit, Len(s))
  BY DEF First, n
<1> QED
  BY <1>3, <1>4, <1>5

(* What two lists have, one after the other.                               *)
LEMMA BothLists ==
  ASSUME NEW S, NEW a \in Seq(S), NEW b \in Seq(S)
  PROVE  a \o b \in Seq(S) /\ ToSet(a \o b) = ToSet(a) \cup ToSet(b)
<1> DEFINE ab == a \o b
<1>1. /\ ab \in Seq(S) /\ Len(ab) = Len(a) + Len(b)
      /\ \A k \in 1 .. Len(a) + Len(b) : ab[k] = IF k <= Len(a) THEN a[k] ELSE b[k - Len(a)]
  BY ConcatProperties
<1>2. /\ DOMAIN a = 1 .. Len(a) /\ DOMAIN b = 1 .. Len(b) /\ DOMAIN ab = 1 .. Len(ab)
      /\ Len(a) \in Nat /\ Len(b) \in Nat
  BY <1>1, LenProperties
<1> HIDE DEF ab
<1>3. \A k \in DOMAIN a : k \in DOMAIN ab /\ ab[k] = a[k]
  BY <1>1, <1>2
<1>4. \A k \in DOMAIN b : Len(a) + k \in DOMAIN ab /\ ab[Len(a) + k] = b[k]
  BY <1>1, <1>2
<1>5. ASSUME NEW k \in DOMAIN ab PROVE ab[k] \in ToSet(a) \cup ToSet(b)
  <2>1. CASE k <= Len(a)
    BY <1>1, <1>2, <2>1 DEF ToSet
  <2>2. CASE ~(k <= Len(a))
    <3>1. k - Len(a) \in DOMAIN b /\ ab[k] = b[k - Len(a)]
      BY <1>1, <1>2, <2>2
    <3> QED
      BY <3>1 DEF ToSet
  <2> QED
    BY <2>1, <2>2
<1>6. ToSet(ab) = ToSet(a) \cup ToSet(b)
  BY <1>3, <1>4, <1>5 DEF ToSet
<1> QED
  BY <1>1, <1>6 DEF ab

(* A number is where its rank among the others tells.                      *)
LEMMA AscendingAt ==
  ASSUME NEW S \in SUBSET Int, IsFiniteSet(S), NEW i \in S
  PROVE  /\ Cardinality({j \in S : j < i}) + 1 \in 1 .. Cardinality(S)
         /\ Ascending(S)[Cardinality({j \in S : j < i}) + 1] = i
<1> DEFINE below(x) == {j \in S : j < x}
           rank == [x \in S |-> Cardinality(below(x))]
           ranks == {<<Cardinality({j \in S : j < x}), x>> : x \in S}
           k == rank[i] + 1
<1>1. ASSUME NEW x \in S
      PROVE  /\ IsFiniteSet(below(x)) /\ rank[x] \in Nat /\ Cardinality(S) \in Nat
             /\ rank[x] < Cardinality(S)
  <2>1. below(x) \subseteq S /\ below(x) # S
    <3>1. x \notin below(x)
      OBVIOUS
    <3> QED
      BY <3>1
  <2> HIDE DEF below
  <2>2. IsFiniteSet(below(x)) /\ Cardinality(below(x)) <= Cardinality(S)
          /\ Cardinality(below(x)) # Cardinality(S)
    BY <2>1, FS_Subset
  <2> QED
    BY <2>2, FS_CardinalityType
<1>2. ASSUME NEW x \in S, NEW y \in S, x < y PROVE rank[x] # rank[y]
  <2>1. below(x) \subseteq below(y) /\ below(x) # below(y)
    <3>1. x \in below(y) /\ x \notin below(x)
      BY <1>2
    <3>2. \A j \in S : j < x => j < y
      BY <1>2
    <3> QED
      BY <3>1, <3>2
  <2> HIDE DEF below
  <2> QED
    BY <1>1, <2>1, FS_Subset
<1>3. \A x \in S : rank[x] = rank[i] => x = i
  <2> HIDE DEF rank
  <2> QED
    BY <1>2
<1>4. \A r : \A x \in S : <<r, x>> \in ranks <=> r = rank[x]
  OBVIOUS
<1>5. rank[i] = Cardinality({j \in S : j < i})
  OBVIOUS
<1> HIDE DEF rank
<1>6. k \in 1 .. Cardinality(S) /\ k - 1 = rank[i]
  <2>1. rank[i] \in Nat /\ Cardinality(S) \in Nat /\ rank[i] < Cardinality(S)
    BY <1>1
  <2> QED
    BY <2>1
<1> HIDE DEF k
<1>7. Ascending(S)[k] = CHOOSE x \in S : <<k - 1, x>> \in ranks
  BY <1>6 DEF Ascending, InOrder
<1> HIDE DEF ranks
<1>8. \E x \in S : <<k - 1, x>> \in ranks
  BY <1>4, <1>6
<1>9. Ascending(S)[k] \in S /\ <<k - 1, Ascending(S)[k]>> \in ranks
  BY <1>7, <1>8
<1>10. Ascending(S)[k] = i
  BY <1>3, <1>4, <1>6, <1>9
<1> QED
  BY <1>5, <1>6, <1>10 DEF k

(* The places that have numbers in order.                                  *)
LEMMA AscendingPlaces ==
  ASSUME NEW S \in SUBSET Int, IsFiniteSet(S)
  PROVE  DOMAIN Ascending(S) = 1 .. Cardinality(S) /\ Cardinality(S) \in Nat
BY FS_CardinalityType DEF Ascending, InOrder

(* FirstDistinct is a list, and has everything of the start of a list, if  *)
(* there is room for what differs there.                                   *)
LEMMA DistinctHas ==
  ASSUME NEW S, NEW p \in Seq(S), NEW q \in Seq(S), NEW limit \in Nat
  PROVE  /\ \E T : FirstDistinct(p \o q, limit) \in Seq(T)
         /\ Cardinality(ToSet(p)) <= limit =>
              ToSet(p) \subseteq ToSet(FirstDistinct(p \o q, limit))
<1> DEFINE s == p \o q
           new == {i \in DOMAIN s : \A j \in 1 .. i - 1 : s[j] # s[i]}
           early == {i \in new : i <= Len(p)}
           picked == Pick(s, Ascending(new))
           T == {picked[k] : k \in 1 .. Cardinality(new)}
<1>1. /\ s \in Seq(S) /\ Len(p) \in Nat /\ DOMAIN p = 1 .. Len(p)
      /\ DOMAIN s \in SUBSET Nat /\ IsFiniteSet(DOMAIN s) /\ IsFiniteSet(DOMAIN p)
      /\ \A i \in DOMAIN p : i \in DOMAIN s /\ s[i] = p[i]
  <2>1. s \in Seq(S) /\ Len(s) = Len(p) + Len(q)
          /\ \A i \in 1 .. Len(p) + Len(q) : s[i] = IF i <= Len(p) THEN p[i] ELSE q[i - Len(p)]
    BY ConcatProperties
  <2> HIDE DEF s
  <2>2. Len(q) \in Nat /\ Len(p) \in Nat /\ DOMAIN p = 1 .. Len(p)
    BY Indices
  <2>3. DOMAIN s = 1 .. Len(p) + Len(q) /\ DOMAIN s \in SUBSET Nat /\ IsFiniteSet(DOMAIN s)
    BY <2>1, Indices
  <2>4. IsFiniteSet(DOMAIN p)
    BY Indices
  <2> QED
    BY <2>1, <2>2, <2>3, <2>4
<1> HIDE DEF s
<1>2. new \in SUBSET Int /\ IsFiniteSet(new) /\ new \subseteq DOMAIN s
  BY <1>1, FS_Subset
<1>3. \A c \in ToSet(p) : \E i \in early : s[i] = c
  <2> TAKE c \in ToSet(p)
  <2> DEFINE at == {i \in DOMAIN p : s[i] = c}
  <2>1. at \in SUBSET Nat /\ at # {}
    BY <1>1 DEF ToSet
  <2>2. PICK i \in at : \A j \in at : i <= j
    <3> HIDE DEF at
    <3> QED
      BY <2>1, LeastNumber
  <2>3. ASSUME NEW j \in 1 .. i - 1 PROVE s[j] # s[i]
    <3>1. i \in 1 .. Len(p)
      BY <1>1
    <3>2. j \in DOMAIN p /\ ~(i <= j)
      BY <1>1, <3>1
    <3> QED
      BY <2>2, <3>2
  <2>4. i \in DOMAIN s /\ i <= Len(p)
    BY <1>1
  <2> QED
    BY <2>3, <2>4
<1>4. Cardinality(early) <= Cardinality(ToSet(p)) /\ Cardinality(ToSet(p)) \in Nat
  <2> DEFINE f == [i \in early |-> s[i]]
             g == [i \in DOMAIN p |-> p[i]]
  <2>1. \A i \in early : i \in DOMAIN p /\ s[i] \in ToSet(p)
    <3> TAKE i \in early
    <3>1. i \in DOMAIN s /\ i <= Len(p) /\ i \in Nat
      BY <1>1, <1>2
    <3>2. i \in DOMAIN p
      <4>1. DOMAIN s = 1 .. Len(s)
        BY <1>1, Indices
      <4> QED
        BY <1>1, <3>1, <4>1
    <3> QED
      BY <1>1, <3>2 DEF ToSet
  <2>2. ASSUME NEW i \in early, NEW j \in early, s[i] = s[j] PROVE i = j
    <3>1. i \in 1 .. Len(p) /\ j \in 1 .. Len(p)
      BY <1>1, <2>1
    <3>2. ~(i \in 1 .. j - 1) /\ ~(j \in 1 .. i - 1)
      BY <2>2
    <3> QED
      BY <3>1, <3>2, <1>1
  <2>3. f \in Injection(early, ToSet(p))
    BY <2>1, <2>2 DEF Injection, IsInjective
  <2>4. g \in Surjection(DOMAIN p, ToSet(p))
    BY DEF Surjection, ToSet
  <2> HIDE DEF f, g, early
  <2>5. IsFiniteSet(ToSet(p))
    BY <1>1, <2>4, FS_Surjection
  <2> QED
    BY <2>3, <2>5, FS_Injection, FS_CardinalityType
<1>5. IsFiniteSet(early) /\ early \subseteq new
  BY <1>2, FS_Subset
<1> HIDE DEF new
<1>6. DOMAIN Ascending(new) = 1 .. Cardinality(new) /\ Cardinality(new) \in Nat
  BY <1>2, AscendingPlaces
<1>7. /\ picked = [k \in 1 .. Cardinality(new) |-> picked[k]]
      /\ \A k \in 1 .. Cardinality(new) : picked[k] = s[Ascending(new)[k]]
  BY <1>6 DEF Pick
<1> HIDE DEF picked
<1>8. picked \in Seq(T) /\ Len(picked) = Cardinality(new)
  BY <1>6, <1>7, ListOf
<1> HIDE DEF T
<1>9. /\ First(picked, limit) \in Seq(T)
      /\ DOMAIN First(picked, limit) = 1 .. Least(limit, Cardinality(new))
      /\ \A k \in DOMAIN First(picked, limit) : First(picked, limit)[k] = picked[k]
  BY <1>8, FirstKeeps
<1>10. ASSUME Cardinality(ToSet(p)) <= limit, NEW c \in ToSet(p)
       PROVE  c \in ToSet(First(picked, limit))
  <2>1. PICK i \in early : s[i] = c
    BY <1>3
  <2> DEFINE before == {j \in new : j < i}
             k == Cardinality(before) + 1
  <2>2. k \in 1 .. Cardinality(new) /\ Ascending(new)[k] = i
    BY <1>2, <1>5, AscendingAt
  <2>3. before \subseteq early /\ before # early
    <3>1. i \in Int /\ i <= Len(p) /\ Len(p) \in Int /\ \A j \in new : j \in Int
      BY <1>1, <1>2, <1>5
    <3>2. i \in early /\ ~(i < i)
      BY <3>1
    <3>3. \A j \in new : j < i => j <= Len(p)
      BY <3>1
    <3> QED
      BY <3>2, <3>3
  <2>4. k <= limit
    <3> HIDE DEF before, early
    <3>1. /\ IsFiniteSet(before) /\ Cardinality(before) <= Cardinality(early)
          /\ Cardinality(before) # Cardinality(early)
      BY <1>5, <2>3, FS_Subset
    <3>2. Cardinality(before) \in Nat /\ Cardinality(early) \in Nat
      BY <1>5, <3>1, FS_CardinalityType
    <3> QED
      BY <1>4, <1>10, <3>1, <3>2
  <2> HIDE DEF k
  <2>5. k \in DOMAIN First(picked, limit)
    BY <1>6, <1>9, <2>2, <2>4 DEF Least
  <2>6. First(picked, limit)[k] = c
    BY <1>7, <1>9, <2>1, <2>2, <2>5
  <2> QED
    BY <2>5, <2>6 DEF ToSet
<1> QED
  BY <1>9, <1>10 DEF FirstDistinct, s, new, picked

-------------------------------------------------------------------------------
(* The candidates a tune starts with (variants).                           *)

(* The types of KV cache there are.                                        *)
LEMMA Tiers == ToSet(FullTiers) = {"f16", "q8_0", "q4_0"}
<1>1. DOMAIN FullTiers = {1, 2, 3}
  BY DEF FullTiers
<1>2. FullTiers[1] = "f16" /\ FullTiers[2] = "q8_0" /\ FullTiers[3] = "q4_0"
  BY DEF FullTiers
<1> QED
  BY <1>1, <1>2 DEF ToSet

(* The candidates with some placements, of all types, and of one.          *)
Loads(P) == {Candidate(x, tier) : x \in P, tier \in {"f16", "q8_0", "q4_0"}}
Offered(places, tier) == {Candidate(x, tier) : x \in ToSet(places)}

(* Of lists the latter.                                                    *)
LEMMA OfOffers ==
  ASSUME NEW P, NEW places \in Seq(P), NEW tier \in {"f16", "q8_0", "q4_0"}
  PROVE  /\ Of(places, tier, FullTiers) \in Seq(Loads(P))
         /\ Len(Of(places, tier, FullTiers)) = Len(places)
         /\ ToSet(Of(places, tier, FullTiers)) = Offered(places, tier)
<1> DEFINE f == [i \in DOMAIN places |-> Candidate(places[i], tier)]
<1>1. Of(places, tier, FullTiers) = f
  <2>1. FullTiers[1] = "f16" /\ FullTiers[2] = "q8_0" /\ FullTiers[3] = "q4_0" /\ Len(FullTiers) = 3
    BY DEF FullTiers
  <2>2. 1 \in 1 .. 3 /\ 2 \in 1 .. 3 /\ 3 \in 1 .. 3
    OBVIOUS
  <2>3. Contains(FullTiers, tier)
    BY <2>1, <2>2 DEF Contains
  <2> QED
    BY <2>3 DEF Of
<1>2. DOMAIN places = 1 .. Len(places) /\ Len(places) \in Nat
        /\ \A i \in DOMAIN places : places[i] \in P
  BY Indices
<1>3. f \in [1 .. Len(places) -> Loads(P)]
  BY <1>2 DEF Loads
<1>4. \A i \in DOMAIN places : f[i] = Candidate(places[i], tier)
  OBVIOUS
<1>5. DOMAIN f = DOMAIN places
  OBVIOUS
<1> HIDE DEF f
<1>6. f \in Seq(Loads(P))
  BY <1>2, <1>3, SeqDef
<1>7. Len(f) = Len(places)
  <2>1. DOMAIN f = 1 .. Len(f) /\ Len(f) \in Nat
    BY <1>6, LenProperties
  <2> QED
    BY <1>2, <1>5, <2>1
<1>8. ToSet(f) = Offered(places, tier)
  BY <1>4, <1>5 DEF ToSet, Offered
<1> QED
  BY <1>1, <1>6, <1>7, <1>8

(* A list is its own start, if there is room for it.                       *)
LEMMA FirstOfAll ==
  ASSUME NEW S, NEW s \in Seq(S), NEW limit \in Nat, Len(s) <= limit
  PROVE  ToSet(First(s, limit)) = ToSet(s)
<1>1. Len(s) \in Nat /\ DOMAIN s = 1 .. Len(s)
  BY LenProperties
<1>2. Least(limit, Len(s)) = Len(s)
  <2>1. limit < Len(s) => FALSE
    BY <1>1
  <2> QED
    BY <2>1 DEF Least
<1>3. DOMAIN First(s, limit) = DOMAIN s /\ \A k \in DOMAIN s : First(s, limit)[k] = s[k]
  BY <1>1, <1>2, FirstKeeps
<1> QED
  BY <1>3 DEF ToSet

(* For performance, no placement and no type is left out that there is     *)
(* room for.                                                               *)
LEMMA PerformanceHas ==
  ASSUME NEW P, NEW places \in Seq(P), NEW limit \in Nat, 3 * Len(places) <= limit,
         NEW tier \in {"f16", "q8_0", "q4_0"}
  PROVE  Offered(places, tier) \subseteq ToSet(PerformanceAnchors(places, FullTiers, limit))
<1> DEFINE C == Loads(P)
           f16 == Of(places, "f16", FullTiers)
           q8 == Of(places, "q8_0", FullTiers)
           q4 == Of(places, "q4_0", FullTiers)
           two == f16 \o q8
           all == two \o q4
<1>1. /\ f16 \in Seq(C) /\ Len(f16) = Len(places) /\ ToSet(f16) = Offered(places, "f16")
      /\ q8 \in Seq(C) /\ Len(q8) = Len(places) /\ ToSet(q8) = Offered(places, "q8_0")
      /\ q4 \in Seq(C) /\ Len(q4) = Len(places) /\ ToSet(q4) = Offered(places, "q4_0")
  BY OfOffers
<1>2. PerformanceAnchors(places, FullTiers, limit) = First(all, limit)
  BY DEF PerformanceAnchors
<1> HIDE DEF C, f16, q8, q4
<1>3. two \in Seq(C) /\ Len(two) = Len(f16) + Len(q8) /\ ToSet(two) = ToSet(f16) \cup ToSet(q8)
  BY <1>1, ConcatProperties, BothLists
<1> HIDE DEF two
<1>4. all \in Seq(C) /\ Len(all) = Len(two) + Len(q4) /\ ToSet(all) = ToSet(two) \cup ToSet(q4)
  <2>1. two \in Seq(C) /\ q4 \in Seq(C)
    BY <1>1, <1>3
  <2>2. Len(two \o q4) = Len(two) + Len(q4)
    BY <2>1, ConcatProperties
  <2> QED
    BY <2>1, <2>2, BothLists
<1> HIDE DEF all
<1>5. Len(places) \in Nat
  BY LenProperties
<1>6. Len(all) <= limit
  BY <1>1, <1>3, <1>4, <1>5
<1>7. ToSet(First(all, limit)) = ToSet(all)
  BY <1>4, <1>6, FirstOfAll
<1> QED
  BY <1>1, <1>2, <1>3, <1>4, <1>7

(* The first placement of some, as a list.                                 *)
FirstOf(places, S) == Pick(places, First(Ascending(S), 1))

LEMMA FirstOfIs ==
  ASSUME NEW P, NEW places \in Seq(P), NEW S \in SUBSET DOMAIN places
  PROVE  /\ FirstOf(places, S) \in Seq(P)
         /\ S = {} => ToSet(FirstOf(places, S)) = {}
         /\ \A m \in S : (\A k \in S : m <= k) => ToSet(FirstOf(places, S)) = {places[m]}
         /\ ToSet(FirstOf(places, S)) \subseteq {places[m] : m \in S}
<1> DEFINE first == First(Ascending(S), 1)
           it == FirstOf(places, S)
<1>1. /\ S \in SUBSET Nat /\ S \in SUBSET Int /\ IsFiniteSet(S)
      /\ \A m \in S : places[m] \in P
  BY Indices, FS_Subset
<1>2. /\ DOMAIN first = 1 .. Least(1, Cardinality(S)) /\ Cardinality(S) \in Nat
      /\ \A k \in DOMAIN first : first[k] = Ascending(S)[k]
  <2>1. DOMAIN Ascending(S) = 1 .. Cardinality(S) /\ Cardinality(S) \in Nat
    BY <1>1, AscendingPlaces
  <2> DEFINE ranks == {<<Cardinality({j \in S : j < i}), i>> : i \in S}
             T == {Ascending(S)[k] : k \in 1 .. Cardinality(S)}
  <2>2. Ascending(S) = InOrder(S, ranks)
    BY DEF Ascending
  <2> HIDE DEF ranks
  <2>3. Ascending(S) = [k \in 1 .. Cardinality(S) |-> Ascending(S)[k]]
    BY <2>2 DEF InOrder
  <2>4. Ascending(S) \in Seq(T) /\ Len(Ascending(S)) = Cardinality(S)
    BY <2>1, <2>3, ListOf
  <2> HIDE DEF T
  <2>5. /\ DOMAIN First(Ascending(S), 1) = 1 .. Least(1, Len(Ascending(S)))
        /\ \A k \in DOMAIN First(Ascending(S), 1) : First(Ascending(S), 1)[k] = Ascending(S)[k]
    BY <2>4, FirstKeeps
  <2> QED
    BY <2>1, <2>4, <2>5
<1>3. it = [k \in DOMAIN first |-> places[first[k]]]
  BY DEF FirstOf, Pick
<1> HIDE DEF first, it
<1>4. CASE S = {}
  <2>1. Cardinality(S) = 0
    BY <1>4, FS_EmptySet
  <2>2. DOMAIN first = {}
    BY <1>2, <2>1 DEF Least
  <2>3. it \in [1 .. 0 -> P] /\ ToSet(it) = {}
    BY <1>3, <2>2 DEF ToSet
  <2>4. it \in Seq(P)
    BY <2>3, SeqDef
  <2> QED
    BY <1>4, <2>3, <2>4 DEF it
<1>5. CASE S # {}
  <2>1. PICK m \in S : \A k \in S : m <= k
    BY <1>1, <1>5, LeastNumber
  <2>2. Cardinality({j \in S : j < m}) = 0
    <3>1. \A j \in S : ~(j < m)
      BY <1>1, <2>1
    <3>2. {j \in S : j < m} = {}
      BY <3>1
    <3> QED
      BY <3>2, FS_EmptySet
  <2>3. Ascending(S)[1] = m
    BY <1>1, <2>2, AscendingAt
  <2>4. Cardinality(S) >= 1
    BY <1>1, <1>2, <1>5, FS_EmptySet
  <2>5. DOMAIN first = {1}
    BY <1>2, <2>4 DEF Least
  <2>6. it = [k \in 1 .. 1 |-> places[m]]
    <3>1. \A k \in {1} : places[first[k]] = places[m]
      BY <1>2, <2>3, <2>5
    <3>2. it = [k \in {1} |-> places[m]]
      BY <1>3, <2>5, <3>1
    <3>3. 1 .. 1 = {1}
      OBVIOUS
    <3> QED
      BY <3>2, <3>3
  <2>7. it \in [1 .. 1 -> P] /\ ToSet(it) = {places[m]}
    BY <1>1, <2>6 DEF ToSet
  <2>8. it \in Seq(P)
    BY <2>7, SeqDef
  <2>9. \A n \in S : (\A k \in S : n <= k) => n = m
    BY <1>1, <2>1
  <2> QED
    BY <1>5, <2>7, <2>8, <2>9 DEF it
<1> QED
  BY <1>4, <1>5

(* There are three times as many candidates as placements, at most.        *)
LEMMA FewLoads ==
  ASSUME NEW P, NEW places \in Seq(P)
  PROVE  /\ IsFiniteSet(Loads(ToSet(places)))
         /\ Cardinality(Loads(ToSet(places))) <= 3 * Len(places)
<1> DEFINE types == {"f16", "q8_0", "q4_0"}
           pairs == (DOMAIN places) \X types
           f == [x \in pairs |-> Candidate(places[x[1]], x[2])]
           C == Loads(ToSet(places))
<1>1. IsFiniteSet(DOMAIN places) /\ Cardinality(DOMAIN places) = Len(places) /\ Len(places) \in Nat
  BY Indices
<1>2. IsFiniteSet(types) /\ Cardinality(types) = 3
  <2> DEFINE first == {"f16"}
             two == first \cup {"q8_0"}
  <2>1. IsFiniteSet(first) /\ Cardinality(first) = 1
    BY FS_Singleton
  <2>2. "q8_0" \notin first /\ "q4_0" \notin two /\ two \cup {"q4_0"} = types
    OBVIOUS
  <2> HIDE DEF first
  <2>3. IsFiniteSet(two) /\ Cardinality(two) = 2
    <3>1. /\ IsFiniteSet(first \cup {"q8_0"})
          /\ Cardinality(first \cup {"q8_0"}) = Cardinality(first) + 1
      BY <2>1, <2>2, FS_AddElement
    <3> QED
      BY <2>1, <3>1
  <2> HIDE DEF two
  <2>4. IsFiniteSet(two \cup {"q4_0"}) /\ Cardinality(two \cup {"q4_0"}) = 3
    BY <2>2, <2>3, FS_AddElement
  <2> QED
    BY <2>2, <2>4
<1>3. f \in Surjection(pairs, C)
  <2>1. \A x \in pairs : f[x] \in C
    BY DEF Loads, ToSet
  <2>2. ASSUME NEW c \in C PROVE \E x \in pairs : f[x] = c
    <3>1. PICK k \in DOMAIN places, tier \in types : c = Candidate(places[k], tier)
      BY DEF Loads, ToSet
    <3>2. <<k, tier>> \in pairs /\ f[<<k, tier>>] = c
      BY <3>1
    <3> QED
      BY <3>2
  <2> QED
    BY <2>1, <2>2 DEF Surjection
<1> HIDE DEF types, f, C
<1>4. IsFiniteSet(pairs) /\ Cardinality(pairs) = Len(places) * 3
  <2>1. /\ IsFiniteSet(pairs)
        /\ Cardinality(pairs) = Cardinality(DOMAIN places) * Cardinality(types)
    BY <1>1, <1>2, FS_Product
  <2> QED
    BY <1>1, <1>2, <2>1
<1>5. IsFiniteSet(C) /\ Cardinality(C) <= Cardinality(pairs)
  BY <1>3, <1>4, FS_Surjection
<1> QED
  BY <1>1, <1>4, <1>5 DEF C

(* The lists of which max-context chooses, as _max_context_anchor_rows     *)
(* names them, and the candidates of them it looks at first and last.      *)
One(places) == {i \in DOMAIN places : Cardinality(places[i].devices) <= 1}
Splits(places) == {i \in DOMAIN places : places[i].split # 0}
Primary(places) ==
  IF One(places) \ Splits(places) = {} THEN First(places, 1)
  ELSE FirstOf(places, One(places) \ Splits(places))
Explicit(places) == FirstOf(places, Splits(places))
Automatic(places) == FirstOf(places, DOMAIN places \ (One(places) \cup Splits(places)))

Early(places) ==
  Of(Primary(places), "f16", FullTiers) \o Of(Primary(places), "q8_0", FullTiers)
    \o Of(Primary(places), "q4_0", FullTiers) \o Of(Explicit(places), "q4_0", FullTiers)
    \o Of(Explicit(places), "q8_0", FullTiers) \o Of(Automatic(places), "q4_0", FullTiers)
    \o Of(places, "q4_0", FullTiers)
Late(places) == Of(places, "q8_0", FullTiers) \o Of(places, "f16", FullTiers)

(* These are lists of placements of the tune.                              *)
LEMMA PartsAre ==
  ASSUME NEW P, NEW places \in Seq(P)
  PROVE  /\ places \in Seq(ToSet(places)) /\ Primary(places) \in Seq(ToSet(places))
         /\ Explicit(places) \in Seq(ToSet(places)) /\ Automatic(places) \in Seq(ToSet(places))
<1>1. places \in Seq(ToSet(places))
  <2>1. DOMAIN places = 1 .. Len(places) /\ Len(places) \in Nat
    BY Indices
  <2>2. places \in [1 .. Len(places) -> ToSet(places)]
    <3>1. places \in [1 .. Len(places) -> P]
      BY LenProperties
    <3> QED
      BY <2>1, <3>1 DEF ToSet
  <2> QED
    BY <2>1, <2>2, SeqDef
<1>2. \A S \in SUBSET DOMAIN places : FirstOf(places, S) \in Seq(ToSet(places))
  BY <1>1, FirstOfIs
<1>3. First(places, 1) \in Seq(ToSet(places))
  BY <1>1, FirstKeeps
<1> QED
  BY <1>1, <1>2, <1>3 DEF Primary, Explicit, Automatic, One, Splits

(* What max-context chooses of: for the most part in this order.           *)
LEMMA MaxContextOf ==
  ASSUME NEW P, NEW places \in Seq(P), NEW limit \in Nat
  PROVE  /\ MaxContextAnchors(places, FullTiers, limit)
               = FirstDistinct(Early(places) \o Late(places), limit)
         /\ Early(places) \in Seq(Loads(ToSet(places)))
         /\ Late(places) \in Seq(Loads(ToSet(places)))
         /\ ToSet(Early(places)) =
              Offered(Primary(places), "f16") \cup Offered(Primary(places), "q8_0")
                \cup Offered(Primary(places), "q4_0") \cup Offered(Explicit(places), "q4_0")
                \cup Offered(Explicit(places), "q8_0") \cup Offered(Automatic(places), "q4_0")
                \cup Offered(places, "q4_0")
         /\ ToSet(Late(places)) = Offered(places, "q8_0") \cup Offered(places, "f16")
<1> DEFINE C == Loads(ToSet(places))
           a == Of(Primary(places), "f16", FullTiers)
           b == Of(Primary(places), "q8_0", FullTiers)
           c == Of(Primary(places), "q4_0", FullTiers)
           d == Of(Explicit(places), "q4_0", FullTiers)
           e == Of(Explicit(places), "q8_0", FullTiers)
           f == Of(Automatic(places), "q4_0", FullTiers)
           g == Of(places, "q4_0", FullTiers)
           h == Of(places, "q8_0", FullTiers)
           i == Of(places, "f16", FullTiers)
<1>1. /\ a \in Seq(C) /\ ToSet(a) = Offered(Primary(places), "f16")
      /\ b \in Seq(C) /\ ToSet(b) = Offered(Primary(places), "q8_0")
      /\ c \in Seq(C) /\ ToSet(c) = Offered(Primary(places), "q4_0")
      /\ d \in Seq(C) /\ ToSet(d) = Offered(Explicit(places), "q4_0")
      /\ e \in Seq(C) /\ ToSet(e) = Offered(Explicit(places), "q8_0")
      /\ f \in Seq(C) /\ ToSet(f) = Offered(Automatic(places), "q4_0")
      /\ g \in Seq(C) /\ ToSet(g) = Offered(places, "q4_0")
      /\ h \in Seq(C) /\ ToSet(h) = Offered(places, "q8_0")
      /\ i \in Seq(C) /\ ToSet(i) = Offered(places, "f16")
  BY PartsAre, OfOffers
<1>2. /\ Early(places) = a \o b \o c \o d \o e \o f \o g
      /\ Late(places) = h \o i
      /\ MaxContextAnchors(places, FullTiers, limit)
           = FirstDistinct(a \o b \o c \o d \o e \o f \o g \o h \o i, limit)
  BY DEF Early, Late, MaxContextAnchors, Primary, Explicit, Automatic, FirstOf, One, Splits
<1> HIDE DEF C, a, b, c, d, e, f, g, h, i
<1> DEFINE ab == a \o b
           ac == ab \o c
           ad == ac \o d
           ae == ad \o e
           af == ae \o f
           ag == af \o g
           hi == h \o i
<1>3. ab \in Seq(C) /\ ToSet(ab) = ToSet(a) \cup ToSet(b)
  BY <1>1, BothLists
<1>4. ac \in Seq(C) /\ ToSet(ac) = ToSet(ab) \cup ToSet(c)
  <2> HIDE DEF ab
  <2> QED
    BY <1>1, <1>3, BothLists
<1>5. ad \in Seq(C) /\ ToSet(ad) = ToSet(ac) \cup ToSet(d)
  <2> HIDE DEF ac
  <2> QED
    BY <1>1, <1>4, BothLists
<1>6. ae \in Seq(C) /\ ToSet(ae) = ToSet(ad) \cup ToSet(e)
  <2> HIDE DEF ad
  <2> QED
    BY <1>1, <1>5, BothLists
<1>7. af \in Seq(C) /\ ToSet(af) = ToSet(ae) \cup ToSet(f)
  <2> HIDE DEF ae
  <2> QED
    BY <1>1, <1>6, BothLists
<1>8. ag \in Seq(C) /\ ToSet(ag) = ToSet(af) \cup ToSet(g)
  <2> HIDE DEF af
  <2> QED
    BY <1>1, <1>7, BothLists
<1>9. hi \in Seq(C) /\ ToSet(hi) = ToSet(h) \cup ToSet(i)
  BY <1>1, BothLists
<1>10. (ag \o h) \o i = ag \o hi
  <2>1. ag \in Seq(C) /\ h \in Seq(C) /\ i \in Seq(C)
    BY <1>1, <1>8
  <2> HIDE DEF ag
  <2>2. (ag \o h) \o i = ag \o (h \o i)
    BY <2>1, ConcatAssociative
  <2> QED
    BY <2>2
<1>11. /\ Early(places) = ag /\ Late(places) = hi
       /\ MaxContextAnchors(places, FullTiers, limit) = FirstDistinct((ag \o h) \o i, limit)
  BY <1>2
<1>12. ToSet(ag) = ToSet(a) \cup ToSet(b) \cup ToSet(c) \cup ToSet(d) \cup ToSet(e)
                     \cup ToSet(f) \cup ToSet(g)
  <2> HIDE DEF ab, ac, ad, ae, af, ag
  <2> QED
    BY <1>3, <1>4, <1>5, <1>6, <1>7, <1>8
<1> HIDE DEF ag, hi
<1>13. /\ ag \in Seq(C) /\ hi \in Seq(C)
       /\ MaxContextAnchors(places, FullTiers, limit) = FirstDistinct(ag \o hi, limit)
  BY <1>8, <1>9, <1>10, <1>11
<1>14. ToSet(Early(places)) =
         Offered(Primary(places), "f16") \cup Offered(Primary(places), "q8_0")
           \cup Offered(Primary(places), "q4_0") \cup Offered(Explicit(places), "q4_0")
           \cup Offered(Explicit(places), "q8_0") \cup Offered(Automatic(places), "q4_0")
           \cup Offered(places, "q4_0")
  BY <1>1, <1>11, <1>12
<1>15. ToSet(Late(places)) = Offered(places, "q8_0") \cup Offered(places, "f16")
  BY <1>1, <1>9, <1>11
<1> QED
  BY <1>11, <1>13, <1>14, <1>15 DEF C

(* For context neither, if there is room for all.                          *)
LEMMA MaxContextHas ==
  ASSUME NEW P, NEW places \in Seq(P), NEW limit \in Nat, 3 * Len(places) <= limit,
         NEW tier \in {"f16", "q8_0", "q4_0"}
  PROVE  Offered(places, tier) \subseteq ToSet(MaxContextAnchors(places, FullTiers, limit))
<1> DEFINE C == Loads(ToSet(places))
           all == Early(places) \o Late(places)
<1>1. /\ all \in Seq(C)
      /\ MaxContextAnchors(places, FullTiers, limit) = FirstDistinct(all, limit)
      /\ Offered(places, tier) \subseteq ToSet(all)
  <2>1. /\ Early(places) \in Seq(C) /\ Late(places) \in Seq(C)
        /\ MaxContextAnchors(places, FullTiers, limit) = FirstDistinct(all, limit)
        /\ Offered(places, "q4_0") \subseteq ToSet(Early(places))
        /\ ToSet(Late(places)) = Offered(places, "q8_0") \cup Offered(places, "f16")
    BY MaxContextOf
  <2> HIDE DEF C
  <2>2. all \in Seq(C) /\ ToSet(all) = ToSet(Early(places)) \cup ToSet(Late(places))
    BY <2>1, BothLists
  <2> QED
    BY <2>1, <2>2
<1> HIDE DEF all
<1>2. IsFiniteSet(C) /\ Cardinality(C) <= 3 * Len(places)
  BY FewLoads
<1> HIDE DEF C
<1>3. ToSet(all) \subseteq C
  BY <1>1, Indices DEF ToSet
<1>4. Cardinality(ToSet(all)) <= limit
  <2>1. IsFiniteSet(ToSet(all)) /\ Cardinality(ToSet(all)) <= Cardinality(C)
    BY <1>2, <1>3, FS_Subset
  <2>2. Cardinality(ToSet(all)) \in Nat /\ Cardinality(C) \in Nat /\ Len(places) \in Nat
    BY <1>2, <2>1, FS_CardinalityType, LenProperties
  <2> QED
    BY <1>2, <2>1, <2>2
<1>5. <<>> \in Seq(C) /\ all \o <<>> = all
  BY <1>1, EmptySeq, ConcatEmptySeq
<1>6. ToSet(all) \subseteq ToSet(FirstDistinct(all \o <<>>, limit))
  <2> DEFINE none == <<>>
  <2>1. none \in Seq(C)
    BY <1>5
  <2> HIDE DEF none
  <2>2. ToSet(all) \subseteq ToSet(FirstDistinct(all \o none, limit))
    BY <1>1, <1>4, <2>1, DistinctHas
  <2> QED
    BY <2>2 DEF none
<1> QED
  BY <1>1, <1>5, <1>6

(* Six things are no more than six.                                        *)
LEMMA SixThings ==
  ASSUME NEW a, NEW b, NEW c, NEW d, NEW e, NEW f,
         NEW S, S \subseteq {a, b, c, d, e, f}
  PROVE  Cardinality(S) <= 6
<1> DEFINE T == {a, b, c, d, e, f}
           g == [k \in 1 .. 6 |-> CASE k = 1 -> a [] k = 2 -> b [] k = 3 -> c
                                     [] k = 4 -> d [] k = 5 -> e [] k = 6 -> f]
<1>1. 1 .. 6 = {1, 2, 3, 4, 5, 6}
  OBVIOUS
<1>2. g[1] = a /\ g[2] = b /\ g[3] = c /\ g[4] = d /\ g[5] = e /\ g[6] = f
  BY <1>1
<1>3. DOMAIN g = 1 .. 6 /\ g = [k \in 1 .. 6 |-> g[k]]
  OBVIOUS
<1> HIDE DEF g
<1>4. g \in Surjection(1 .. 6, T)
  <2>1. \A k \in 1 .. 6 : g[k] \in T
    BY <1>1, <1>2
  <2>2. \A t \in T : \E k \in 1 .. 6 : g[k] = t
    BY <1>1, <1>2
  <2>3. g \in [1 .. 6 -> T]
    BY <1>3, <2>1
  <2> QED
    BY <2>2, <2>3 DEF Surjection
<1> HIDE DEF T
<1>5. IsFiniteSet(1 .. 6) /\ Cardinality(1 .. 6) = 6
  <2>1. 1 \in Int /\ 6 \in Int /\ 6 - 1 + 1 = 6 /\ ~(1 > 6)
    OBVIOUS
  <2> QED
    BY <2>1, FS_Interval
<1>6. IsFiniteSet(T) /\ Cardinality(T) <= 6
  BY <1>4, <1>5, FS_Surjection
<1>7. S \in SUBSET T
  BY DEF T
<1>8. IsFiniteSet(S) /\ Cardinality(S) <= Cardinality(T)
  BY <1>6, <1>7, FS_Subset
<1> QED
  BY <1>6, <1>8, FS_CardinalityType

(* The placements of a tune start with the single device and all devices.  *)
Placed(places) ==
  /\ Len(places) >= 1
  /\ Cardinality(places[1].devices) <= 1 /\ places[1].split = 0
  /\ Len(places) >= 2 => places[2].split = 0

(* For context, if there is room for six candidates of three placements:   *)
(* all types for the single device, both small ones for the tensor split,  *)
(* and the smallest for all placements.                                    *)
LEMMA QuickHas ==
  ASSUME NEW P, NEW places \in Seq(P), Placed(places), Len(places) <= 3,
         NEW i \in DOMAIN places, NEW tier \in {"f16", "q8_0", "q4_0"},
         i = 1 \/ tier = "q4_0" \/ (tier = "q8_0" /\ places[i].split # 0)
  PROVE  Candidate(places[i], tier) \in ToSet(MaxContextAnchors(places, FullTiers, 6))
<1> DEFINE early == Early(places)
           C == Loads(ToSet(places))
           few == {Candidate(places[1], "f16"), Candidate(places[1], "q8_0"),
                   Candidate(places[1], "q4_0"), Candidate(places[2], "q4_0"),
                   Candidate(places[3], "q4_0"), Candidate(places[3], "q8_0")}
<1>1. /\ DOMAIN places = 1 .. Len(places) /\ Len(places) \in 1 .. 3
      /\ DOMAIN places \subseteq {1, 2, 3} /\ 1 \in DOMAIN places
  <2>1. DOMAIN places = 1 .. Len(places) /\ Len(places) \in Nat
    BY Indices
  <2> QED
    BY <2>1 DEF Placed
<1>2. 1 \in One(places) \ Splits(places)
  BY <1>1 DEF One, Splits, Placed
<1>3. Splits(places) \subseteq {3} /\ Splits(places) \subseteq DOMAIN places
  <2>1. 2 \in DOMAIN places => places[2].split = 0
    BY <1>1 DEF Placed
  <2> QED
    BY <1>1, <2>1 DEF Splits, Placed
<1>4. ToSet(Primary(places)) = {places[1]}
  <2>1. One(places) \ Splits(places) \in SUBSET DOMAIN places
    BY DEF One
  <2>2. \A k \in One(places) \ Splits(places) : 1 <= k
    BY <1>1, <2>1
  <2>3. ToSet(FirstOf(places, One(places) \ Splits(places))) = {places[1]}
    BY <1>2, <2>1, <2>2, FirstOfIs
  <2> QED
    BY <1>2, <2>3 DEF Primary
<1>5. /\ ToSet(Explicit(places)) \subseteq {places[3]}
      /\ 3 \in Splits(places) => ToSet(Explicit(places)) = {places[3]}
  <2>1. Splits(places) \in SUBSET DOMAIN places
    BY <1>3
  <2>2. ToSet(FirstOf(places, Splits(places))) \subseteq {places[m] : m \in Splits(places)}
    BY <2>1, FirstOfIs
  <2>3. 3 \in Splits(places) => ToSet(FirstOf(places, Splits(places))) = {places[3]}
    <3>1. \A k \in Splits(places) : 3 <= k
      BY <1>3
    <3> QED
      BY <2>1, <3>1, FirstOfIs
  <2> QED
    BY <1>3, <2>2, <2>3 DEF Explicit
<1>6. /\ ToSet(places) \subseteq {places[1], places[2], places[3]}
      /\ ToSet(Automatic(places)) \subseteq ToSet(places)
  <2>1. ToSet(places) \subseteq {places[1], places[2], places[3]}
    BY <1>1 DEF ToSet
  <2>2. DOMAIN places \ (One(places) \cup Splits(places)) \in SUBSET DOMAIN places
    OBVIOUS
  <2>3. ToSet(Automatic(places))
          \subseteq {places[m] : m \in DOMAIN places \ (One(places) \cup Splits(places))}
    BY <2>2, FirstOfIs DEF Automatic
  <2> QED
    BY <2>1, <2>3 DEF ToSet
<1>7. /\ MaxContextAnchors(places, FullTiers, 6) = FirstDistinct(early \o Late(places), 6)
      /\ early \in Seq(C) /\ Late(places) \in Seq(C)
      /\ ToSet(early) =
           Offered(Primary(places), "f16") \cup Offered(Primary(places), "q8_0")
             \cup Offered(Primary(places), "q4_0") \cup Offered(Explicit(places), "q4_0")
             \cup Offered(Explicit(places), "q8_0") \cup Offered(Automatic(places), "q4_0")
             \cup Offered(places, "q4_0")
  <2>1. 6 \in Nat
    OBVIOUS
  <2> HIDE DEF C, few
  <2> QED
    BY <2>1, MaxContextOf DEF C
<1> HIDE DEF early, C
<1>8. ToSet(early) \subseteq few
  <2>1. Offered(Primary(places), "f16") = {Candidate(places[1], "f16")}
    BY <1>4 DEF Offered
  <2>2. Offered(Primary(places), "q8_0") = {Candidate(places[1], "q8_0")}
    BY <1>4 DEF Offered
  <2>3. Offered(Explicit(places), "q8_0") \subseteq {Candidate(places[3], "q8_0")}
    BY <1>5 DEF Offered
  <2>4. /\ Offered(Primary(places), "q4_0") \subseteq Offered(places, "q4_0")
        /\ Offered(Automatic(places), "q4_0") \subseteq Offered(places, "q4_0")
    <3>1. places[1] \in ToSet(places)
      BY <1>1 DEF ToSet
    <3> QED
      BY <1>4, <1>6, <3>1 DEF Offered
  <2>5. Offered(places, "q4_0") \subseteq
          {Candidate(places[1], "q4_0"), Candidate(places[2], "q4_0"), Candidate(places[3], "q4_0")}
    BY <1>6 DEF Offered
  <2>6. Offered(Explicit(places), "q4_0") \subseteq {Candidate(places[3], "q4_0")}
    BY <1>5 DEF Offered
  <2> QED
    BY <1>7, <2>1, <2>2, <2>3, <2>4, <2>5, <2>6
<1>9. Cardinality(ToSet(early)) <= 6
  BY <1>8, SixThings
<1>10. ToSet(early) \subseteq ToSet(FirstDistinct(early \o Late(places), 6))
  BY <1>7, <1>9, DistinctHas
<1>11. Candidate(places[i], tier) \in ToSet(early)
  <2>1. places[i] \in ToSet(places)
    BY DEF ToSet
  <2>2. CASE i = 1
    <3>1. Candidate(places[i], tier) \in Offered(Primary(places), tier)
      BY <1>4, <2>2 DEF Offered
    <3> QED
      BY <1>7, <3>1
  <2>3. CASE tier = "q4_0"
    <3>1. Candidate(places[i], tier) \in Offered(places, "q4_0")
      BY <2>1, <2>3 DEF Offered
    <3> QED
      BY <1>7, <3>1
  <2>4. CASE tier = "q8_0" /\ places[i].split # 0
    <3>1. i \in Splits(places) /\ i = 3
      BY <1>3, <2>4 DEF Splits
    <3>2. Candidate(places[i], tier) \in Offered(Explicit(places), "q8_0")
      BY <1>5, <2>4, <3>1 DEF Offered
    <3> QED
      BY <1>7, <3>2
  <2> QED
    BY <2>2, <2>3, <2>4
<1> QED
  BY <1>7, <1>10, <1>11

(* The placements are a list that starts like this, at first and later.    *)
PlacesInv == (\E P : placements \in Seq(P)) /\ Placed(placements)

(* placement_candidates makes such a list, whatever the devices and the    *)
(* shares of the tensor splits.                                            *)
LEMMA CandidatesPlaced ==
  ASSUME NEW ordered, NEW free, NEW capacity, NEW places,
         places = PlacementCandidates(ordered, Ratios(free, capacity))
  PROVE  (\E P : places \in Seq(P)) /\ Placed(places)
<1> DEFINE ratios == Ratios(free, capacity)
           splits == IF world.splits THEN FirstDistinct(ratios, Len(ratios)) ELSE <<>>
           rest == [i \in DOMAIN splits |-> [devices |-> Devices, split |-> SplitNumber(splits[i])]]
           all == <<[devices |-> Devices, split |-> 0]>>
           several == all \o rest
           single == <<[devices |-> {ordered[1]}, split |-> 0]>>
           Q == {[devices |-> Devices, split |-> 0], [devices |-> {ordered[1]}, split |-> 0]}
                  \cup {rest[i] : i \in DOMAIN rest}
<1>1. DOMAIN splits = 1 .. Len(splits) /\ Len(splits) \in Nat
  <2> DEFINE x == <<Most(1, capacity[1] - 1), 1>>
             y == <<capacity[1] + 1, 1>>
             R == {free, capacity, x, y}
             a == <<free, capacity>>
             b == IF Len(capacity) = 2 THEN <<x, y>> ELSE <<>>
  <2>1. ratios = a \o b
    BY DEF Ratios
  <2>2. a \in Seq(R) /\ b \in Seq(R)
    <3> HIDE DEF x, y
    <3>1. x \in R /\ y \in R /\ free \in R /\ capacity \in R
      OBVIOUS
    <3> HIDE DEF R
    <3>2. a \in Seq(R) /\ <<x, y>> \in Seq(R) /\ <<>> \in Seq(R)
      BY <3>1, EmptySeq
    <3> QED
      BY <3>2
  <2> HIDE DEF R, a, b, ratios
  <2>3. ratios \in Seq(R) /\ Len(ratios) \in Nat
    BY <2>1, <2>2, ConcatProperties, LenProperties
  <2>4. PICK T : FirstDistinct(a \o b, Len(ratios)) \in Seq(T)
    BY <2>2, <2>3, DistinctHas
  <2>5. splits \in Seq(T)
    BY <2>1, <2>4, EmptySeq
  <2> HIDE DEF splits
  <2> QED
    BY <2>5, LenProperties
<1> HIDE DEF splits
<1>2. rest \in Seq(Q)
  <2>1. DOMAIN rest = 1 .. Len(splits)
    BY <1>1
  <2>2. rest = [k \in 1 .. Len(splits) |-> rest[k]]
    BY <1>1
  <2> HIDE DEF rest
  <2>3. rest \in Seq({rest[k] : k \in 1 .. Len(splits)})
    BY <1>1, <2>2, ListOf
  <2> QED
    BY <2>1, <2>3, SeqMonotonic
<1>3. /\ single \in Seq(Q) /\ Len(single) = 1
      /\ single[1].devices = {ordered[1]} /\ single[1].split = 0
      /\ all \in Seq(Q) /\ Len(all) = 1 /\ all[1].split = 0
  OBVIOUS
<1>4. places = IF Len(ordered) > 1 THEN single \o several ELSE single
  BY DEF PlacementCandidates, splits
<1>5. Cardinality({ordered[1]}) = 1
  BY FS_Singleton
<1>6. /\ several \in Seq(Q) /\ Len(several) \in Nat /\ Len(several) >= 1
      /\ several[1].split = 0
  <2> HIDE DEF Q, all, rest
  <2>1. Len(rest) \in Nat
    BY <1>2, LenProperties
  <2>2. /\ several \in Seq(Q) /\ Len(several) = 1 + Len(rest)
        /\ \A k \in 1 .. 1 + Len(rest) : several[k] = IF k <= 1 THEN all[k] ELSE rest[k - 1]
    <3>1. all \in Seq(Q) /\ rest \in Seq(Q) /\ Len(all) = 1
      BY <1>2, <1>3
    <3>2. /\ all \o rest \in Seq(Q) /\ Len(all \o rest) = Len(all) + Len(rest)
          /\ \A k \in 1 .. Len(all) + Len(rest) :
               (all \o rest)[k] = IF k <= Len(all) THEN all[k] ELSE rest[k - Len(all)]
      BY <3>1, ConcatProperties
    <3> QED
      BY <3>1, <3>2
  <2> HIDE DEF several
  <2>3. 1 \in 1 .. 1 + Len(rest)
    BY <2>1
  <2>4. several[1] = all[1]
    BY <2>2, <2>3
  <2> QED
    BY <1>3, <2>1, <2>2, <2>4
<1> HIDE DEF Q, all, rest, single, several
<1>7. CASE Len(ordered) > 1
  <2> DEFINE both == single \o several
  <2>1. places = both
    BY <1>4, <1>7
  <2>2. /\ both \in Seq(Q) /\ Len(both) = 1 + Len(several)
        /\ \A k \in 1 .. 1 + Len(several) :
             both[k] = IF k <= 1 THEN single[k] ELSE several[k - 1]
    BY <1>3, <1>6, ConcatProperties
  <2> HIDE DEF both
  <2>3. 1 \in 1 .. 1 + Len(several) /\ 2 \in 1 .. 1 + Len(several) /\ 2 - 1 = 1 /\ ~(2 <= 1)
    BY <1>6
  <2>4. both[1] = single[1] /\ both[2] = several[1] /\ Len(both) >= 1
    BY <1>6, <2>2, <2>3
  <2>5. Cardinality(both[1].devices) <= 1 /\ both[1].split = 0 /\ both[2].split = 0
    <3>1. both[1].devices = {ordered[1]}
      BY <1>3, <2>4
    <3>2. Cardinality(both[1].devices) = 1
      BY <1>5, <3>1
    <3> QED
      BY <1>3, <1>6, <2>4, <3>2
  <2> QED
    BY <2>1, <2>2, <2>4, <2>5 DEF Placed
<1>8. CASE ~(Len(ordered) > 1)
  <2>1. places = single
    BY <1>4, <1>8
  <2>2. Cardinality(single[1].devices) = 1
    BY <1>3, <1>5
  <2>3. Cardinality(single[1].devices) <= 1 /\ Len(single) >= 1 /\ ~(Len(single) >= 2)
    BY <1>3, <2>2
  <2>4. Placed(single)
    BY <1>3, <2>3 DEF Placed
  <2> QED
    BY <1>3, <2>1, <2>4
<1> QED
  BY <1>7, <1>8

(* How many placements and candidates each budget allows.                  *)
LEMMA Limits ==
  ASSUME NEW objective \in {"performance", "max-context"},
         NEW budget \in {"quick", "normal", "thorough"}
  PROVE  /\ Limit(objective, budget) \in Nat /\ Limit(objective, budget) >= 2
         /\ Plan(budget).loads \in Nat
         /\ objective = "performance" \/ budget # "quick" =>
              3 * Limit(objective, budget) <= Plan(budget).loads
         /\ objective = "max-context" /\ budget = "quick" =>
              Limit(objective, budget) = 3 /\ Plan(budget).loads = 6
<1>1. CASE budget = "quick"
  <2>1. Plan(budget).placements = 2 /\ Plan(budget).loads = 6
    BY <1>1 DEF Plan
  <2>2. Most(2, 3) = 3
    BY DEF Most
  <2>3. CASE objective = "performance"
    <3>1. Limit(objective, budget) = 2
      BY <2>1, <2>3 DEF Limit
    <3> QED
      BY <2>1, <2>3, <3>1
  <2>4. CASE objective = "max-context"
    <3>1. Limit(objective, budget) = 3
      BY <2>1, <2>2, <2>4 DEF Limit
    <3> QED
      BY <1>1, <2>1, <2>4, <3>1
  <2> QED
    BY <2>3, <2>4
<1>2. CASE budget = "normal"
  <2>1. Plan(budget).placements = 3 /\ Plan(budget).loads = 9
    BY <1>2 DEF Plan
  <2>2. Most(3, 3) = 3
    BY DEF Most
  <2>3. Limit(objective, budget) = 3
    BY <2>1, <2>2 DEF Limit
  <2> QED
    BY <1>2, <2>1, <2>3
<1>3. CASE budget = "thorough"
  <2>1. Plan(budget).placements = 5 /\ Plan(budget).loads = 18
    BY <1>3 DEF Plan
  <2>2. Most(5, 3) = 5
    BY DEF Most
  <2>3. Limit(objective, budget) = 5
    BY <2>1, <2>2 DEF Limit
  <2> QED
    BY <1>3, <2>1, <2>3
<1> QED
  BY <1>1, <1>2, <1>3

(* The first of such placements are such placements.                       *)
LEMMA FirstPlaced ==
  ASSUME NEW P, NEW places \in Seq(P), Placed(places), NEW limit \in Nat, limit >= 2
  PROVE  /\ First(places, limit) \in Seq(P) /\ Placed(First(places, limit))
         /\ Len(First(places, limit)) \in Nat /\ Len(First(places, limit)) <= limit
<1> DEFINE it == First(places, limit)
<1>1. /\ it \in Seq(P) /\ Len(it) = Least(limit, Len(places))
      /\ DOMAIN it = 1 .. Least(limit, Len(places))
      /\ \A k \in DOMAIN it : it[k] = places[k]
  BY FirstKeeps
<1> HIDE DEF it
<1>2. Len(places) \in Nat
  BY LenProperties
<1>3. /\ Least(limit, Len(places)) \in Nat /\ Least(limit, Len(places)) <= limit
      /\ Least(limit, Len(places)) >= 1
      /\ Least(limit, Len(places)) >= 2 => Len(places) >= 2
  BY <1>2 DEF Least, Placed
<1>4. it[1] = places[1] /\ (Len(it) >= 2 => it[2] = places[2])
  BY <1>1, <1>3
<1>5. Placed(it)
  BY <1>1, <1>3, <1>4 DEF Placed
<1> QED
  BY <1>1, <1>3, <1>5 DEF it

(* So a tune starts with all that AnchorsRepresent tells.                  *)
LEMMA AnchorsFollow == PlacesInv => AnchorsRepresent
<1> SUFFICES ASSUME PlacesInv,
                    NEW objective \in {"performance", "max-context"},
                    NEW budget \in {"quick", "normal", "thorough"},
                    NEW i \in DOMAIN First(placements, Limit(objective, budget)),
                    NEW tier \in ToSet(FullTiers),
                    tier \in IF objective = "performance" \/ budget # "quick" \/ i = 1
                            THEN ToSet(FullTiers)
                            ELSE IF First(placements, Limit(objective, budget))[i].split # 0
                                 THEN {"q8_0", "q4_0"} ELSE {"q4_0"}
             PROVE  Candidate(First(placements, Limit(objective, budget))[i], tier)
                      \in ToSet(Variants(objective, budget,
                                        First(placements, Limit(objective, budget)), FullTiers))
  BY DEF AnchorsRepresent
<1> DEFINE limit == Limit(objective, budget)
           loads == Plan(budget).loads
           places == First(placements, limit)
<1>1. /\ limit \in Nat /\ limit >= 2 /\ loads \in Nat
      /\ objective = "performance" \/ budget # "quick" => 3 * limit <= loads
      /\ objective = "max-context" /\ budget = "quick" => limit = 3 /\ loads = 6
  BY Limits
<1>2. PICK P : placements \in Seq(P)
  BY DEF PlacesInv
<1>3. Variants(objective, budget, places, FullTiers) =
        IF objective = "max-context" THEN MaxContextAnchors(places, FullTiers, loads)
        ELSE PerformanceAnchors(places, FullTiers, loads)
  BY DEF Variants
<1>4. tier \in {"f16", "q8_0", "q4_0"}
  BY Tiers
<1>5. /\ objective = "performance" \/ budget # "quick" \/ i = 1 \/ tier = "q4_0"
           \/ (tier = "q8_0" /\ places[i].split # 0)
  OBVIOUS
<1> HIDE DEF limit, loads
<1>6. places \in Seq(P) /\ Placed(places) /\ Len(places) \in Nat /\ Len(places) <= limit
  BY <1>1, <1>2, FirstPlaced DEF PlacesInv
<1>7. i \in DOMAIN places
  BY DEF limit
<1> HIDE DEF places
<1>8. places[i] \in ToSet(places)
  BY <1>7 DEF ToSet
<1>9. Candidate(places[i], tier) \in Offered(places, tier)
  BY <1>8 DEF Offered
<1>10. CASE objective = "performance"
  <2>1. 3 * Len(places) <= loads
    BY <1>1, <1>6, <1>10
  <2>2. Candidate(places[i], tier) \in ToSet(PerformanceAnchors(places, FullTiers, loads))
    BY <1>1, <1>4, <1>6, <1>9, <2>1, PerformanceHas
  <2> QED
    BY <1>3, <1>10, <2>2 DEF places, limit
<1>11. CASE objective = "max-context" /\ budget # "quick"
  <2>1. 3 * Len(places) <= loads
    BY <1>1, <1>6, <1>11
  <2>2. Candidate(places[i], tier) \in ToSet(MaxContextAnchors(places, FullTiers, loads))
    BY <1>1, <1>4, <1>6, <1>9, <2>1, MaxContextHas
  <2> QED
    BY <1>3, <1>11, <2>2 DEF places, limit
<1>12. CASE objective = "max-context" /\ budget = "quick"
  <2>1. Len(places) <= 3 /\ loads = 6
    BY <1>1, <1>6, <1>12
  <2>2. i = 1 \/ tier = "q4_0" \/ (tier = "q8_0" /\ places[i].split # 0)
    BY <1>5, <1>12
  <2>3. Candidate(places[i], tier) \in ToSet(MaxContextAnchors(places, FullTiers, 6))
    BY <1>4, <1>6, <1>7, <2>1, <2>2, QuickHas
  <2> QED
    BY <1>3, <1>12, <2>1, <2>3 DEF places, limit
<1> QED
  BY <1>10, <1>11, <1>12

(* The candidates a tune starts with leave out no placement, and no type   *)
(* of KV cache of a placement, except that a quick tune for context has    *)
(* all types only for the single device (variants): whatever the devices,  *)
(* their memory, and the tensor splits that follow from it.                *)
THEOREM AnchorsCorrect == Spec => []AnchorsRepresent
<1>1. Init => PlacesInv
  <2> SUFFICES ASSUME Init PROVE PlacesInv
    OBVIOUS
  <2>1. PICK ordered, free, capacity :
          placements = PlacementCandidates(ordered, Ratios(free, capacity))
    BY DEF Init
  <2> QED
    BY <2>1, CandidatesPlaced DEF PlacesInv
<1>2. PlacesInv /\ [Next]_vars => PlacesInv'
  BY DEF PlacesInv, Placed, Next, Map, Returned, vars
<1>3. PlacesInv => AnchorsRepresent
  BY AnchorsFollow
<1> QED
  BY <1>1, <1>2, <1>3, PTL DEF Spec
===============================================================================
