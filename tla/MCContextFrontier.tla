--------------------------- MODULE MCContextFrontier ---------------------------
(***************************************************************************)
(* Instances of ContextFrontier for TLC.  Contexts are scaled down: one    *)
(* resolution step is 40 tokens, just above the 33 tokens every probe sets *)
(* aside, and the largest context is twelve steps.                         *)
(***************************************************************************)
EXTENDS ContextFrontier

(* Aligned searches: the base is at least one step, the limit a multiple.  *)
(* With two slots one step is too small for a probe, two steps are not.    *)
AlignedBases == {60, 100, 120}
AlignedUppers == {120, 210, 480}

(* Searches whose limit is below the base, which then becomes the limit.   *)
UnalignedBases == {60}
UnalignedUppers == {40}
===============================================================================
