----------------------------- MODULE MCTuneFunnel -----------------------------
(***************************************************************************)
(* Instances of TuneFunnel for TLC: three equal devices, used one, all, or *)
(* all with a tensor split; three layers and the output layer; and rigs on *)
(* which the stages disagree, full offload fails, or a feature is missing. *)
(***************************************************************************)
EXTENDS TuneFunnel

One == [devices |-> {1}, split |-> 0]
All == [devices |-> {1, 2, 3}, split |-> 0]
Ratio == [devices |-> {1, 2, 3}, split |-> 1]
Places == {NoDevices, One, All, Ratio}

Tune(objective, budget, mode, placements, tiers) ==
  [objective |-> objective, budget |-> budget, mode |-> mode,
   placements |-> placements, tiers |-> tiers,
   cuda |-> TRUE, bench |-> TRUE, flash |-> TRUE, explore |-> FALSE,
   finalists |-> 3, maximum |-> 4]

MCTunings ==
  {Tune("performance", "quick", "auto", <<One, All>>, FullTiers),
   [Tune("performance", "normal", "full", <<One, All, Ratio>>, <<"f16">>)
      EXCEPT !.bench = FALSE],
   [Tune("performance", "quick", "auto", <<One>>, <<"f16">>)
      EXCEPT !.cuda = FALSE, !.flash = FALSE],
   Tune("max-context", "quick", "full", <<One, All, Ratio>>, FullTiers),
   [Tune("max-context", "thorough", "auto", <<One, All, Ratio>>, FullTiers)
      EXCEPT !.explore = TRUE],
   [Tune("balanced", "normal", "auto", <<One, All>>, <<"f16">>)
      EXCEPT !.explore = TRUE]}

(* All devices are slower at first and faster at depth; a tensor split    *)
(* has most room; and leaving layers behind may speed things up.           *)
Rig(fits) ==
  [fits |-> [p \in Places |-> [t \in ToSet(FullTiers) |-> fits[Efficiency([tier |-> t])]]],
   safe |-> [p \in Places |-> [t \in ToSet(FullTiers) |->
               IF p = Ratio THEN 3 ELSE Efficiency([tier |-> t]) - 1]],
   flash |-> {"on", "off"}, bench |-> TRUE, strict |-> TRUE, mapped |-> Places,
   shallow |-> [p \in Places |-> IF p = One THEN 4 ELSE 2],
   deep |-> [p \in Places |-> IF p = All THEN 4 ELSE IF p = Ratio THEN 3 ELSE 2],
   relief |-> 1, base |-> 1, losses |-> 0]

MCRigs ==
  {[Rig(<<4, 4, 4>>) EXCEPT !.losses = 1],
   [Rig(<<3, 4, 4>>) EXCEPT !.flash = {"off"}, !.bench = FALSE],
   [Rig(<<1, 2, 3>>) EXCEPT !.mapped = Places \ {All}],
   Rig(<<1, 2, 3>>),
   Rig(<<0, 0, 0>>),
   [Rig(<<2, 3, 4>>) EXCEPT !.strict = FALSE]}
===============================================================================
