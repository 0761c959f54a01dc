------------------------------- MODULE DepthPlan -------------------------------
(***************************************************************************)
(* How deep a trial fills the context (tuning/depth.py, and the frontier's *)
(* own choice of a depth in tuning/frontier.py).  All quantities are       *)
(* tokens; ctx is the context size a server is started with.               *)
(***************************************************************************)
EXTENDS Integers

CONSTANTS
  Parallel,       (* server slots sharing the context                      *)
  Tokens,         (* tokens generated per request                          *)
  SmokeTokens,    (* --frontier-smoke-tokens                               *)
  ReserveTokens,  (* --frontier-reserve-tokens                             *)
  SmokeMode       (* quick max-context search: startup plus smoke request  *)

ASSUME DepthAssumption ==
  /\ Parallel \in Nat \ {0}
  /\ Tokens \in Nat \ {0}
  /\ SmokeTokens \in Nat \ {0}
  /\ ReserveTokens \in Nat \ {0}
  /\ SmokeMode \in BOOLEAN

Larger(m, n) == IF m >= n THEN m ELSE n
Smaller(m, n) == IF m <= n THEN m ELSE n

PerSlot(ctx) == ctx \div Parallel

(* The deepest prompt the depth plan takes: generation, 32 safety tokens   *)
(* and one benchmark token must fit behind it.                             *)
DeepestDepth(ctx) == PerSlot(ctx) - Tokens - 32 - 1

(* The depth a frontier probe asks for.                                    *)
FrontierDepth(ctx) ==
  IF SmokeMode
    THEN Smaller(SmokeTokens, PerSlot(ctx) - Tokens - 32)
    ELSE PerSlot(ctx) - Tokens - ReserveTokens

(* The frontier refuses to probe a context without room for one token ... *)
FrontierFits(ctx) == FrontierDepth(ctx) >= 1

(* ... and the trial refuses a depth outside its own bounds.               *)
DepthAccepted(ctx) == FrontierDepth(ctx) \in 1 .. DeepestDepth(ctx)
===============================================================================
