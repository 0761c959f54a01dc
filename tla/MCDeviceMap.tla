------------------------------ MODULE MCDeviceMap ------------------------------
(***************************************************************************)
(* Instances of DeviceMap for TLC: up to three GPUs of two names and three *)
(* sizes, two of which are close, behind one to three devices in any       *)
(* order. The first and the third GPU differ in a digit of the PCI domain  *)
(* that normalize_pci drops.                                               *)
(***************************************************************************)
EXTENDS DeviceMap

Orders == {s \in UNION {[1 .. n -> Gpus] : n \in 1 .. 3} : IsInjective(s)}

Card(g, name, total) ==
  [name |-> name, total |-> total, free |-> total \div g,
   domain |-> IF g = 3 THEN 2 ^ 16 ELSE 0, bus |-> IF g = 2 THEN 2 ELSE 1]

(* What is told of a device, and the GPUs its prefix in                    *)
(* CUDA_VISIBLE_DEVICES stands for: one or all of them.                    *)
Told ==
  {[kind |-> kind, exact |-> TRUE] : kind \in Evidence} \cup {[kind |-> "visible", exact |-> FALSE]}

World(gpus, behind, told) ==
  [gpus |-> gpus, behind |-> behind, told |-> [d \in DOMAIN behind |-> told[d].kind],
   splits |-> told[1].kind # "uuid",
   visible |-> [d \in DOMAIN behind |-> IF told[d].exact THEN {behind[d]} ELSE Gpus]]

WorldsOf(names, totals, behind, told) ==
  {World([g \in Gpus |-> Card(g, names[g], totals[g])], behind, t) : t \in told}

Names == {<<"A", "A", "A">>, <<"A", "A", "B">>, <<"A", "B", "A">>, <<"A", "B", "B">>}
Totals == [Gpus -> {8192, 8500, 24576}]

(* GPUs of all sizes if the same is told of all devices; a few of those    *)
(* that are hard to tell apart if not.                                     *)
Alike(behind) == {[d \in DOMAIN behind |-> told] : told \in Told}
Hard == {<<8192, 8192, 8192>>, <<8192, 8192, 8500>>, <<8192, 24576, 8192>>}

MCWorlds ==
  UNION {WorldsOf(names, totals, behind, Alike(behind)) :
           names \in Names, totals \in Totals, behind \in Orders}
  \cup
  UNION {WorldsOf(names, totals, behind, [DOMAIN behind -> Told]) :
           names \in {<<"A", "A", "A">>, <<"A", "B", "A">>}, totals \in Hard, behind \in Orders}

MCSelections == {<<>>, <<1>>, <<2, 1>>, <<1, 1>>, <<3, 1, 2>>}
===============================================================================
