--------------------------------- MODULE Policy ---------------------------------
(***************************************************************************)
(* How tuning/policy.py lists the first candidates of a tune and narrows a *)
(* list of measured ones down: rows are pairs of a configuration and its   *)
(* score, and a selection keeps some of them that represent their variety. *)
(*                                                                         *)
(* A configuration is a placement (its devices and tensor split, 0 for     *)
(* none), the type of both KV caches, the flash attention mode and the     *)
(* number of offloaded layers.                                             *)
(***************************************************************************)
EXTENDS Integers, Sequences, FiniteSets, SequencesExt, TLC

FullTiers == <<"f16", "q8_0", "q4_0">>

Family(config) == config.placement
Tier(config) == config.tier
Flash(config) == config.flash

Cpu(config) == config.placement.devices = {}
Split(config) == config.placement.split # 0
Multi(config) == Cardinality(config.placement.devices) > 1

(* The rank of a type of KV cache; half of kv_efficiency, as both caches   *)
(* are of the same type.                                                   *)
Efficiency(config) ==
  CASE config.tier = "q4_0" -> 3 [] config.tier = "q8_0" -> 2 [] config.tier = "f16" -> 1

CapacityClass(config) ==
  IF Split(config) THEN 3 ELSE IF Multi(config) THEN 2 ELSE 1

(* The order of the names of families: cpu, layer-auto, single, and then   *)
(* tensor-split, by its ratio.                                             *)
FamilyName(config) ==
  IF Cpu(config) THEN 0
  ELSE IF Split(config) THEN 2 + config.placement.split
  ELSE IF Multi(config) THEN 1 ELSE 2

TierName(config) ==
  CASE config.tier = "f16" -> 0 [] config.tier = "q4_0" -> 1 [] config.tier = "q8_0" -> 2

(* What one budget allows.                                                 *)
Plan(budget) ==
  CASE budget = "quick" ->
         [placements |-> 2, loads |-> 6, startup |-> 4, smoke |-> 4, coarse |-> 2,
          finalists |-> 1, frontiers |-> [performance |-> 0, balanced |-> 1, capacity |-> 1],
          seeds |-> 2]
    [] budget = "normal" ->
         [placements |-> 3, loads |-> 9, startup |-> 7, smoke |-> 5, coarse |-> 4,
          finalists |-> 3, frontiers |-> [performance |-> 1, balanced |-> 2, capacity |-> 2],
          seeds |-> 3]
    [] budget = "thorough" ->
         [placements |-> 5, loads |-> 18, startup |-> 14, smoke |-> 12, coarse |-> 8,
          finalists |-> 4, frontiers |-> [performance |-> 3, balanced |-> 4, capacity |-> 3],
          seeds |-> 5]

-------------------------------------------------------------------------------
(* Helpers.                                                                *)

Least(a, b) == IF a < b THEN a ELSE b
Most(a, b) == IF a > b THEN a ELSE b

First(s, limit) == SubSeq(s, 1, Least(limit, Len(s)))

(* Tuples are compared as Python does.                                     *)
Precedes(a, b) ==
  \E k \in DOMAIN a : a[k] < b[k] /\ \A m \in 1 .. k - 1 : a[m] = b[m]

(* i comes before j: by its key, or by its index if their keys are equal.  *)
Before(keys, i, j) ==
  Precedes(keys[i], keys[j]) \/ (keys[i] = keys[j] /\ i < j)

(* The elements of S, where the k-th is the one of rank k - 1.             *)
InOrder(S, ranks) == [k \in 1 .. Cardinality(S) |-> CHOOSE i \in S : <<k - 1, i>> \in ranks]

(* The indices of S in this order; their rank is how many come before.     *)
Ranked(S, keys) ==
  InOrder(S, {<<Cardinality({j \in S : Before(keys, j, i)}), i>> : i \in S})

Sorted(keys) == Ranked(DOMAIN keys, keys)

Ascending(S) == InOrder(S, {<<Cardinality({j \in S : j < i}), i>> : i \in S})

Pick(rows, indices) == [k \in DOMAIN indices |-> rows[indices[k]]]

(* The first elements of s that differ, no more than limit.                *)
FirstDistinct(s, limit) ==
  LET new == {i \in DOMAIN s : \A j \in 1 .. i - 1 : s[j] # s[i]}
  IN  First(Pick(s, Ascending(new)), limit)

-------------------------------------------------------------------------------
(* variants and _max_context_anchor_rows: the candidates a tune starts     *)
(* with, from the placements and the types of KV cache that the binary     *)
(* supports.                                                               *)

Candidate(place, tier) == [placement |-> place, tier |-> tier, flash |-> "on"]

(* The candidates of some placements with a type, if it is supported.      *)
Of(places, tier, tiers) ==
  IF Contains(tiers, tier) THEN [i \in DOMAIN places |-> Candidate(places[i], tier)] ELSE <<>>

PerformanceAnchors(placements, tiers, limit) ==
  First(Of(placements, "f16", tiers) \o Of(placements, "q8_0", tiers)
          \o Of(placements, "q4_0", tiers), limit)

(* Slip: the types of KV cache one after the other, as for performance.    *)
MaxContextAnchors_ByTier(placements, tiers, limit) ==
  PerformanceAnchors(placements, tiers, limit)

MaxContextAnchors(placements, tiers, limit) ==
  LET one == {i \in DOMAIN placements : Cardinality(placements[i].devices) <= 1}
      split == {i \in DOMAIN placements : placements[i].split # 0}
      first(S) == Pick(placements, First(Ascending(S), 1))
      primary == IF one \ split = {} THEN First(placements, 1) ELSE first(one \ split)
      explicit == first(split)
      auto == first(DOMAIN placements \ (one \cup split))
      of(places, tier) == Of(places, tier, tiers)
  IN  FirstDistinct(
        of(primary, "f16") \o of(primary, "q8_0") \o of(primary, "q4_0")
          \o of(explicit, "q4_0") \o of(explicit, "q8_0") \o of(auto, "q4_0")
          \o of(placements, "q4_0") \o of(placements, "q8_0") \o of(placements, "f16"),
        limit)

Variants(objective, budget, placements, tiers) ==
  LET limit == Plan(budget).loads
  IN  IF objective = "max-context" THEN MaxContextAnchors(placements, tiers, limit)
      ELSE PerformanceAnchors(placements, tiers, limit)

-------------------------------------------------------------------------------
(* stratified_select.                                                      *)

Speed(rows) == [i \in DOMAIN rows |-> <<0 - rows[i].score>>]

BySpeed(rows) == Sorted(Speed(rows))

(* The fastest row of every group, in the order in which groups appear.    *)
Leaders(rows, group) ==
  LET like(i) == {j \in DOMAIN rows : group[j] = group[i]}
      heads == Ascending({i \in DOMAIN rows : \A j \in like(i) : i <= j})
  IN  [k \in DOMAIN heads |-> Ranked(like(heads[k]), Speed(rows))[1]]

(* Slip: the fastest rows, whatever their variety.                         *)
StratifiedSelect_Fastest(rows, limit) ==
  IF Len(rows) <= limit THEN rows
  ELSE Pick(rows, FirstDistinct(BySpeed(rows), limit))

(* The leaders of the families, of the tiers and of the flash modes, and   *)
(* then the fastest of the others.                                         *)
StratifiedSelect(rows, limit) ==
  IF Len(rows) <= limit THEN rows
  ELSE LET families == [i \in DOMAIN rows |-> Family(rows[i].config)]
           tiers == [i \in DOMAIN rows |-> Tier(rows[i].config)]
           modes == [i \in DOMAIN rows |-> Flash(rows[i].config)]
           wanted == Leaders(rows, families) \o Leaders(rows, tiers)
                       \o Leaders(rows, modes) \o BySpeed(rows)
       IN  Pick(rows, FirstDistinct(wanted, limit))

(* diverse_partial_seeds: candidates with a small KV cache first.          *)
PartialSeeds(configs, limit) ==
  LET rows == [i \in DOMAIN configs |->
                 [config |-> configs[i], score |-> Efficiency(configs[i])]]
      efficient == Sorted([i \in DOMAIN rows |->
                             <<0 - rows[i].score, FamilyName(configs[i])>>])
  IN  StratifiedSelect(Pick(rows, efficient), limit)

-------------------------------------------------------------------------------
(* max_context_select.                                                     *)

Room(rows) ==
  [i \in DOMAIN rows |-> <<0 - Efficiency(rows[i].config),
                           0 - CapacityClass(rows[i].config), 0 - rows[i].score>>]

ByRoom(rows) == Sorted(Room(rows))

(* Choose the roomiest of S that is still to be chosen, if there is room.  *)
Add(rows, limit, kept, S) ==
  IF Len(kept) >= limit THEN kept
  ELSE kept \o First(Ranked(S \ ToSet(kept), Room(rows)), 1)

(* ... and in a placement that is still to be chosen, if one of S is.      *)
AddElsewhere(rows, limit, kept, S) ==
  LET used == {Family(rows[i].config) : i \in ToSet(kept)}
      elsewhere == {i \in S \ ToSet(kept) : Family(rows[i].config) \notin used}
  IN  Add(rows, limit, kept, IF elsewhere = {} THEN S ELSE elsewhere)

(* ... unless one of S is chosen already.                                  *)
AddMissing(rows, limit, kept, S) ==
  IF ToSet(kept) \cap S # {} THEN kept ELSE Add(rows, limit, kept, S)

(* The smallest KV caches, in different placements, a tensor split and a   *)
(* single device if there are any, the largest KV cache, and then the      *)
(* roomiest of the others.                                                 *)
MaxContextSelect(rows, limit) ==
  IF Len(rows) <= limit THEN rows
  ELSE LET ofTier(tier) == {i \in DOMAIN rows : rows[i].config.tier = tier}
           multi == {i \in DOMAIN rows : Multi(rows[i].config)}
           splits == {i \in DOMAIN rows : Split(rows[i].config)}
           q4 == Add(rows, limit, <<>>, ofTier("q4_0"))
           q8 == AddElsewhere(rows, limit, q4, ofTier("q8_0"))
           split == AddMissing(rows, limit, q8, splits)
           single == AddMissing(rows, limit, split, DOMAIN rows \ multi)
           f16 == AddElsewhere(rows, limit, single, ofTier("f16"))
       IN  Pick(rows, FirstDistinct(f16 \o ByRoom(rows), limit))

-------------------------------------------------------------------------------
(* bounded_layers: the search for the number of layers to offload, as a    *)
(* machine that asks for one number at a time. seen has those answered.     *)

(* Slip: low is not tested for itself.                                     *)
Settle_Untested(search) ==
  IF search.low < search.high /\ Cardinality(search.seen) < Most(1, search.budget - 1)
  THEN [search EXCEPT !.phase = "halve"] ELSE [search EXCEPT !.phase = "end"]

(* From low and high on: halve, or test low last, or stop.                 *)
Settle(search) ==
  LET tested == Cardinality(search.seen)
  IN  IF search.low < search.high /\ tested < Most(1, search.budget - 1)
      THEN [search EXCEPT !.phase = "halve"]
      ELSE IF tested < search.budget /\ search.low \notin search.seen
      THEN [search EXCEPT !.phase = "last"]
      ELSE [search EXCEPT !.phase = "end"]

BoundedLayers(maximum, seed, budget) ==
  [phase |-> "top", low |-> 0, high |-> maximum, maximum |-> maximum,
   seed |-> seed, budget |-> budget, seen |-> {}]

(* Slip: the middle is rounded down.                                       *)
Middle_Down(search) == (search.low + search.high) \div 2
Middle(search) == (search.low + search.high + 1) \div 2

(* The number of layers to test next.                                      *)
Layers(search) ==
  CASE search.phase = "top" -> search.maximum
    [] search.phase = "seed" -> search.seed
    [] search.phase = "halve" -> Middle(search)
    [] search.phase = "last" -> search.low

(* The test answers.                                                       *)
Tested(search, ok) ==
  LET n == Layers(search)
      told == [search EXCEPT !.seen = @ \cup {n}]
  IN  CASE search.phase = "top" /\ ok -> [told EXCEPT !.phase = "end"]
        [] search.phase = "top" /\ ~ok ->
             LET below == [told EXCEPT !.high = search.maximum - 1]
             IN  IF search.seed # 0 /\ 1 < search.budget
                 THEN [below EXCEPT !.phase = "seed"] ELSE Settle(below)
        [] search.phase = "seed" ->
             Settle(IF ok THEN [told EXCEPT !.low = n]
                    ELSE [told EXCEPT !.high = Least(@, n - 1)])
        [] search.phase = "halve" ->
             Settle(IF ok THEN [told EXCEPT !.low = n] ELSE [told EXCEPT !.high = n - 1])
        [] search.phase = "last" -> [told EXCEPT !.phase = "end"]

-------------------------------------------------------------------------------
(* What a selection promises.                                              *)

Represented(rows, kept, Test(_)) ==
  (\E i \in DOMAIN rows : Test(rows[i].config)) =>
    \E i \in DOMAIN kept : Test(kept[i].config)

(* Every family keeps its fastest row if there is a place for each.        *)
KeepsFamilies(rows, limit, kept) ==
  Cardinality({Family(rows[i].config) : i \in DOMAIN rows}) <= limit =>
    \A i \in DOMAIN rows :
      \E j \in DOMAIN kept :
        /\ Family(kept[j].config) = Family(rows[i].config)
        /\ kept[j].score >= rows[i].score

(* Both small KV caches and a tensor split are kept if there are three     *)
(* places, and a single device if there are four.                          *)
KeepsCapacity(rows, limit, kept) ==
  /\ limit >= 1 => Represented(rows, kept, LAMBDA c : c.tier = "q4_0")
  /\ limit >= 2 => Represented(rows, kept, LAMBDA c : c.tier = "q8_0")
  /\ limit >= 3 => Represented(rows, kept, Split)
  /\ limit >= 4 => Represented(rows, kept, LAMBDA c : ~Multi(c))
===============================================================================
