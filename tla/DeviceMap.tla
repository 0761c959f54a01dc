------------------------------- MODULE DeviceMap -------------------------------
(***************************************************************************)
(* map_devices (llama/devices.py): which GPU of nvidia-smi is behind each  *)
(* CUDA device that a server lists, from what little the two have in       *)
(* common; and the placements that policy.py proposes for these devices.   *)
(*                                                                         *)
(* A world fixes the GPUs, the GPU that is truly behind each device, and   *)
(* what is told of each device. Of a device, only the server's own total   *)
(* of its memory is made up here: the GPU's, less an overhead.             *)
(***************************************************************************)
EXTENDS Policy

CONSTANTS
  Gpus,            (* the uuids nvidia-smi lists                           *)
  Worlds,
  Selections,      (* the lists of devices to map, none for all            *)
  Overhead,        (* what a server misses of a GPU's memory, in MiB       *)
  HeadroomMb,
  HeadroomPercent

Evidence == {"uuid", "pci", "visible", "nothing"}
NoGpu == {}
All == <<>>

ASSUME DeviceAssumption ==
  /\ IsFiniteSet(Gpus)
  /\ Overhead \in Nat /\ HeadroomMb \in Nat /\ HeadroomPercent \in 0 .. 99
  /\ \A w \in Worlds :
       /\ \A g \in Gpus :
            /\ w.gpus[g].total \in Nat
            /\ w.gpus[g].total > 20 * Overhead \/ Overhead <= 64
       /\ Len(w.behind) > 0 /\ \A d \in DOMAIN w.behind : w.behind[d] \in Gpus
       /\ IsInjective(w.behind)
       /\ \A d \in DOMAIN w.behind :
            /\ w.told[d] \in Evidence
            /\ w.behind[d] \in w.visible[d] /\ w.visible[d] \subseteq Gpus

VARIABLES
  world, selected,
  placements,      (* what placement_candidates proposes                   *)
  mapping          (* what map_devices returns, or how it fails            *)

vars == <<world, selected, placements, mapping>>

-------------------------------------------------------------------------------
(* map_devices.                                                            *)

Gpu(g) == world.gpus[g]
Devices == DOMAIN world.behind
Behind(d) == world.behind[d]
Advertised(d) == Gpu(Behind(d)).total - Overhead

(* The larger of an amount and a share of the total, rounded up.           *)
Headroom(g) == Most(HeadroomMb, (Gpu(g).total * HeadroomPercent + 99) \div 100)

(* normalize_pci keeps the last four digits of the domain.                 *)
Pci(g) == <<Gpu(g).domain % 2 ^ 16, Gpu(g).bus>>

Near(g, d) ==
  LET apart == Gpu(g).total - Advertised(d)
  IN  /\ Gpu(g).name = Gpu(Behind(d)).name
      /\ Most(apart, 0 - apart) <= 64 \/ 20 * Most(apart, 0 - apart) <= Gpu(g).total

(* The GPUs a device may be: those of its uuid, its bus, the prefix in     *)
(* CUDA_VISIBLE_DEVICES, or its name and size.                             *)
Candidates(d) ==
  CASE world.told[d] = "uuid" -> {Behind(d)}
    [] world.told[d] = "pci" -> {g \in Gpus : Pci(g) = Pci(Behind(d))}
    [] world.told[d] = "visible" -> world.visible[d]
    [] world.told[d] = "nothing" -> {g \in Gpus : Near(g, d)}

(* Slip: the first of several candidates will do.                          *)
Resolved_First(ids, k) ==
  LET free == Candidates(ids[k]) \ UNION {Candidates(ids[m]) : m \in 1 .. k - 1}
  IN  IF free = {} THEN NoGpu ELSE {CHOOSE g \in free : TRUE}

(* The GPU of the k-th device: the only candidate, if not yet taken.       *)
Resolved(ids, k) ==
  IF /\ Cardinality(Candidates(ids[k])) = 1
     /\ \A m \in 1 .. k - 1 : Candidates(ids[m]) # Candidates(ids[k])
  THEN Candidates(ids[k]) ELSE NoGpu

(* The open devices are all of the GPUs they may be, in some order that    *)
(* makes no difference.                                                    *)
Uniform(ids, open, union) ==
  /\ ToSet(ids) = Devices
  /\ Cardinality(union) = Cardinality(open)
  /\ \A k \in DOMAIN ids \ open : Resolved(ids, k) \cap union = {}
  /\ \A k \in open : Candidates(ids[k]) = union
  /\ Cardinality({Gpu(g).total : g \in union}) = 1

Failed == [ok |-> FALSE]

(* margins is empty when there is no fit target.                           *)
MapDevices(choice) ==
  LET ids == IF choice = All THEN [d \in Devices |-> d] ELSE choice
      resolved == [k \in DOMAIN ids |-> Resolved(ids, k)]
      open == {k \in DOMAIN ids : resolved[k] = NoGpu}
      unionOf(S) == UNION {Candidates(ids[k]) : k \in S}
      told(k) == CHOOSE g \in IF k \in open THEN unionOf(open) ELSE resolved[k] : TRUE
      clear == open = {} \/ Uniform(ids, open, unionOf(open))
  IN  IF ~IsInjective(ids) \/ ~(ToSet(ids) \subseteq Devices) THEN Failed
      ELSE [ok |-> TRUE, ids |-> ids, gpus |-> resolved, reliable |-> open = {},
            monitored |-> IF clear THEN unionOf(DOMAIN ids) ELSE Gpus,
            margins |-> IF clear THEN [k \in DOMAIN ids |-> Headroom(told(k))] ELSE <<>>]

-------------------------------------------------------------------------------
(* placement_candidates: the largest device, all devices, and all devices  *)
(* with tensor splits by free memory and by capacity.                      *)

Ordered ==
  Sorted([d \in Devices |-> <<0 - Advertised(d)>>])

(* round(), which rounds halves to even.                                   *)
Rounded(a, b) ==
  LET q == a \div b
      twice == 2 * (a % b)
  IN  IF twice > b \/ (twice = b /\ q % 2 = 1) THEN q + 1 ELSE q

Shares(weights) ==
  LET least == CHOOSE w \in ToSet(weights) : \A v \in ToSet(weights) : w <= v
  IN  [k \in DOMAIN weights |-> Most(1, Rounded(weights[k], least))]

(* The free memory of the GPUs if they are known, and else the capacity.   *)
FreeWeights(ordered, known) ==
  LET gpu(k) == CHOOSE g \in known.gpus[k] : TRUE
  IN  [k \in DOMAIN ordered |->
         IF known.reliable THEN Most(1, Gpu(gpu(k)).free) ELSE Advertised(ordered[k])]

Capacities(ordered) == [k \in DOMAIN ordered |-> Advertised(ordered[k])]

(* The tensor splits by shares of the free memory and of the capacity.     *)
Ratios(free, capacity) ==
  <<free, capacity>> \o
    IF Len(capacity) = 2
    THEN <<<<Most(1, capacity[1] - 1), 1>>, <<capacity[1] + 1, 1>>>> ELSE <<>>

(* A tensor split as a number, as Policy has them.                         *)
SplitNumber(ratio) == FoldLeft(LAMBDA n, share : 100 * n + share, 0, ratio)

PlacementCandidates(ordered, ratios) ==
  LET splits == IF world.splits THEN FirstDistinct(ratios, Len(ratios)) ELSE <<>>
      several == <<[devices |-> Devices, split |-> 0]>>
                   \o [i \in DOMAIN splits |-> [devices |-> Devices, split |-> SplitNumber(splits[i])]]
      single == <<[devices |-> {ordered[1]}, split |-> 0]>>
  IN  IF Len(ordered) > 1 THEN single \o several ELSE single

Limit(objective, budget) ==
  IF objective = "max-context" THEN Most(Plan(budget).placements, 3) ELSE Plan(budget).placements

-------------------------------------------------------------------------------
Init ==
  /\ world \in Worlds
  /\ selected = All
  /\ \E ordered \in {Ordered} : \E known \in {MapDevices(ordered)} :
       \E free \in {Shares(FreeWeights(ordered, known))},
          capacity \in {Shares(Capacities(ordered))} :
         placements = PlacementCandidates(ordered, Ratios(free, capacity))
  /\ mapping = Failed

Map ==
  /\ mapping = Failed
  /\ selected' \in Selections
  /\ mapping' = MapDevices(selected')
  /\ UNCHANGED <<world, placements>>

Returned == mapping.ok /\ UNCHANGED vars

Next == Map \/ Returned

Spec == Init /\ [][Next]_vars

-------------------------------------------------------------------------------
(* Properties.                                                             *)

(* A device is mapped to the GPU behind it or to none, the GPU behind it   *)
(* is monitored, and its margin is that GPU's: also when devices cannot be *)
(* told apart, and whatever else is ambiguous (map_devices).               *)
MappingIsTrue ==
  mapping.ok =>
    \A k \in DOMAIN mapping.ids :
      LET true == Behind(mapping.ids[k])
      IN  /\ mapping.gpus[k] \subseteq {true}
          /\ mapping.reliable => mapping.gpus[k] # NoGpu
          /\ true \in mapping.monitored
          /\ mapping.margins # <<>> => mapping.margins[k] = Headroom(true)

(* The candidates a tune starts with leave out no placement, and no type   *)
(* of KV cache of a placement, except that a quick tune for context has    *)
(* all types only for the single device; it has both small ones for a      *)
(* tensor split and the smallest for all placements (variants).            *)
AnchorsRepresent ==
  mapping = Failed =>
    \A objective \in {"performance", "max-context"}, budget \in {"quick", "normal", "thorough"} :
      LET places == First(placements, Limit(objective, budget))
          anchors == ToSet(Variants(objective, budget, places, FullTiers))
          wanted(i) ==
            IF objective = "performance" \/ budget # "quick" \/ i = 1 THEN ToSet(FullTiers)
            ELSE IF places[i].split # 0 THEN {"q8_0", "q4_0"} ELSE {"q4_0"}
      IN  \A i \in DOMAIN places, tier \in ToSet(FullTiers) :
            tier \in wanted(i) => Candidate(places[i], tier) \in anchors
===============================================================================
