---------------------------- MODULE MCMemoryMonitor ----------------------------
(***************************************************************************)
(* Instances of MemoryMonitor: two GPUs; the server uses one of them, or   *)
(* it is not known which.                                                  *)
(***************************************************************************)
EXTENDS MemoryMonitor, TLC

CONSTANTS g1, g2

SymmetricGpus == Permutations({g1, g2})

OneOrUnknown == {{g1}, {g2}, None}
Unknown == {None}
===============================================================================
