---------------------------- MODULE MCCachedFrontier ----------------------------
(***************************************************************************)
(* Instances of CachedFrontier for TLC: up to four steps of 40 tokens, and *)
(* machines that give a context one of four results, or several.           *)
(***************************************************************************)
EXTENDS CachedFrontier

Result(status, initialized, context) ==
  [status |-> status, initialized |-> initialized, context |-> context,
   other |-> FALSE]

Works == Result("ok", TRUE, FALSE)
OutOfMemory == Result("oom", FALSE, TRUE)
SlowStart == Result("startup_timeout", FALSE, FALSE)
Crash == Result("server_crash", TRUE, FALSE)
NoHeadroom == Result("unsafe_headroom", TRUE, FALSE)

(* Every context always gives the same result, any of four.                *)
SteadyMachines ==
  {[n \in Points |-> {f[n]}] : f \in [Points -> {Works, OutOfMemory, SlowStart, Crash}]}

(* Contexts may change their mind from trial to trial.                     *)
FlakyMachines ==
  {m \in [Points -> {{Works}, {Works, OutOfMemory}, {Works, SlowStart}, {NoHeadroom}}] :
     \A n \in Points : n < 80 => m[n] = {NoHeadroom}}

(* A server cannot be used with a context that has no room for a probe.    *)
AllMachines ==
  {m \in SteadyMachines \cup FlakyMachines :
     /\ \A n \in Points : m[n] \subseteq Results(n)
     /\ m[1] \in {{OutOfMemory}, {NoHeadroom}}}

Bases == {40, 100}
Uppers == {160}
===============================================================================
