---------------------------- MODULE ContextFrontier ----------------------------
(***************************************************************************)
(* search_context_frontier (tuning/frontier.py): find the largest context  *)
(* a llama-server can be started and used with.  The search probes the     *)
(* base context, doubles until a probe does not pass, refines the bracket  *)
(* by its midpoint, and probes the point it settled on again.  A probe is  *)
(* one trial of a real server, whose result the search only classifies.    *)
(*                                                                         *)
(* 0 stands for Python's None wherever a context size is expected.         *)
(***************************************************************************)
EXTENDS DepthPlan, FiniteSets

CONSTANTS
  Resolution,        (* --context-resolution                               *)
  HeadroomTokens,    (* --context-headroom-tokens                          *)
  HeadroomPercent,   (* --context-headroom-percent                         *)
  Repeats,           (* REPEATS[budget], the probes of the confirmation    *)
  MaxCtx,            (* bounds the contexts considered                     *)
  BaseCtxs,          (* the contexts a search may be started from          *)
  UpperArgs          (* the upper limits it may be called with             *)

ASSUME FrontierAssumption ==
  /\ Resolution \in Nat \ {0}
  /\ HeadroomTokens \in Nat
  /\ HeadroomPercent \in 0 .. 99
  /\ Repeats \in Nat \ {0}
  /\ MaxCtx \in Nat
  /\ BaseCtxs \subseteq 1 .. MaxCtx
  /\ UpperArgs \subseteq 0 .. MaxCtx

VARIABLES
  base,            (* the candidate's own context                          *)
  upper,           (* the largest context to probe                         *)
  pc,              (* the phase of the search                              *)
  low, high,       (* the bracket: last pass and first failure, or 0       *)
  highReason,      (* why high failed: "none", "fail" or "timeout"         *)
  point,           (* where the doubling stands                            *)
  passed,          (* the contexts whose latest run passed (seen)          *)
  trials,          (* what is kept of every trial                           *)
  maxAllocatable,  (* the largest context a server initialized with        *)
  probes,          (* the number of trials                                 *)
  attempt,         (* trials made by the current confirmation              *)
  outcomes,        (* the kinds of outcome these trials had                *)
  verdict,         (* the status handed to result(), "none" for none       *)
  report           (* the FrontierResult, empty until the search ends      *)

search == <<low, high, highReason, point, verdict>>
evidence == <<passed, trials, probes, maxAllocatable, attempt, outcomes>>
vars == <<base, upper, pc, search, evidence, report>>

-------------------------------------------------------------------------------
(* Context sizes.                                                          *)

Floor(n) == (n \div Resolution) * Resolution

(* run() rounds the context it is asked for before it probes it.           *)
ProbedCtx(ctx) == Larger(1, Floor(ctx))

Start == IF Floor(base) < 1 THEN base ELSE Floor(base)

(* Slip: grow by steps.                                                    *)
Doubled_BySteps == Smaller(upper, point + Resolution)

Doubled ==
  LET wanted == Smaller(upper, 2 * point)
  IN  Smaller(Larger(point + Resolution, Floor(wanted)), upper)

Middle ==
  LET middle == Floor((low + high) \div 2)
  IN  IF middle <= low THEN low + Resolution ELSE middle

(* Slips: the smaller margin; no floor at zero.                            *)
Recommended_SmallerMargin(maximum) ==
  LET percent == (maximum * HeadroomPercent + 99) \div 100
  IN  Larger(0, Floor(maximum - Smaller(HeadroomTokens, percent)))
Recommended_Negative(maximum) ==
  LET percent == (maximum * HeadroomPercent + 99) \div 100
  IN  Floor(maximum - Larger(HeadroomTokens, percent))

Recommended(maximum) ==
  LET percent == (maximum * HeadroomPercent + 99) \div 100
  IN  Larger(0, Floor(maximum - Larger(HeadroomTokens, percent)))

-------------------------------------------------------------------------------
(* Results of a trial.  Its text (status, error, child output) matters     *)
(* only for the patterns it matches: context is "some CONTEXT_PATTERN",    *)
(* other is "some NON_CONTEXT_PATTERN".                                    *)

Logged(statuses, initialized) ==
  [status : statuses, initialized : {initialized},
   context : BOOLEAN, other : BOOLEAN]

Silent(statuses, initialized) ==
  [status : statuses, initialized : initialized,
   context : {FALSE}, other : {FALSE}]

UsableResults ==
  Silent({"ok"}, {TRUE}) \cup
  Logged({"request_error", "malformed_output", "server_crash"}, TRUE)

Results(ctx) ==
  Logged({"oom", "unsupported", "startup_failure", "startup_timeout",
          "server_crash", "context_mismatch", "malformed_output"}, FALSE)
  \cup Logged({"telemetry_unavailable", "unsafe_headroom"}, TRUE)
  \cup Silent({"trial_timeout", "backend_error"}, BOOLEAN)
  \cup Silent({"tune_timeout"}, {FALSE})
  \cup IF DepthAccepted(ctx) THEN UsableResults ELSE {}

(* classify_context_failure: the first rule that applies decides.          *)
Classify(r, correlated) ==
  IF r.status = "ok" THEN "success"
  ELSE IF r.status \in {"unsupported", "malformed_output"} \/ r.other
    THEN "non_context"
  ELSE IF r.context THEN "context"
  ELSE IF r.status \in {"request_timeout", "trial_timeout", "startup_timeout"}
    THEN "timeout"
  ELSE IF /\ r.initialized
          /\ \/ r.status \in {"oom", "unsafe_headroom"}
             \/ correlated /\ r.status \in {"server_crash", "backend_error"}
    THEN "context"
  ELSE "unknown"

Kinds == {"success", "context", "timeout", "non_context", "unknown"}

(* Kinds that end a run, and with it the search, at once.                  *)
Inconclusive == {"non_context", "unknown"}

(* Slip: one successful trial is enough.                                   *)
RunState_AnySuccess(kinds) ==
  IF "unknown" \in kinds THEN "unknown"
  ELSE IF "non_context" \in kinds THEN "non_context"
  ELSE IF "success" \in kinds THEN "pass"
  ELSE IF kinds = {"context"} THEN "fail"
  ELSE IF "timeout" \in kinds /\ kinds \cap {"context", "success"} = {} THEN "timeout"
  ELSE "unstable"

(* The state run() gives a context from the outcomes of its trials, of     *)
(* which at most one is inconclusive.                                      *)
RunState(kinds) ==
  IF "unknown" \in kinds THEN "unknown"
  ELSE IF "non_context" \in kinds THEN "non_context"
  ELSE IF kinds = {"success"} THEN "pass"
  ELSE IF kinds = {"context"} THEN "fail"
  ELSE IF "timeout" \in kinds /\ kinds \subseteq {"timeout", "success"} THEN "timeout"
  ELSE "unstable"

-------------------------------------------------------------------------------
(* A probe of ctx: one trial, and what is kept of it.                      *)

KindOf(r, ctx) == Classify(r, \E n \in passed : n < ctx)

Record(r, ctx) ==
  /\ trials' = trials \cup
       {[ctx |-> ctx, outcome |-> KindOf(r, ctx), initialized |-> r.initialized]}
  /\ probes' = probes + 1
  /\ maxAllocatable' =
       IF r.initialized THEN Larger(maxAllocatable, ctx) ELSE maxAllocatable

(* What a finished run leaves in seen, as far as the search looks at it.   *)
Mark(ctx, state) ==
  passed' = IF state = "pass" THEN passed \cup {ctx} ELSE passed \ {ctx}

(* A run of a single trial with the result r, and the state it gives the   *)
(* probed context.                                                         *)
RunOnce(r, ctx, state) ==
  /\ Record(r, ctx)
  /\ state = RunState({KindOf(r, ctx)})
  /\ Mark(ctx, state)

(* A context that did not pass becomes the upper end of the bracket.       *)
Bound(ctx, state) ==
  /\ high' = ctx
  /\ highReason' = IF state = "timeout" THEN "timeout" ELSE "fail"

RunStates == {"pass", "fail", "timeout", "unstable"} \cup Inconclusive

Statuses == RunStates \cup {"time_limited", "upper_reached", "bounded"}

(* Nothing has been probed.                                                *)
Begin ==
  /\ pc = "first"
  /\ low = 0 /\ high = 0 /\ highReason = "none"
  /\ point = 0
  /\ passed = {}
  /\ trials = {}
  /\ maxAllocatable = 0 /\ probes = 0
  /\ attempt = 0 /\ outcomes = {}
  /\ verdict = "none"
  /\ report = <<>>

Init ==
  /\ base \in BaseCtxs
  /\ \E arg \in UpperArgs : upper = Larger(base, Floor(arg))
  /\ Begin

(* Where the search asks for a run, and where a refused one raises.        *)
Target ==
  CASE pc = "first"   -> Start
    [] pc = "grow"    -> Doubled
    [] pc = "refine"  -> Middle
    [] pc = "confirm" -> low
    [] OTHER          -> 0

Growing == pc = "grow" /\ point < upper /\ Doubled > point
(* Slip: stop refining a step early.                                       *)
Refining_Early ==
  pc = "refine" /\ high # 0 /\ high - low > 2 * Resolution /\ Middle < high

Refining == pc = "refine" /\ high # 0 /\ high - low > Resolution /\ Middle < high
Running == pc \in {"first", "confirm"} \/ Growing \/ Refining

(* frontier_workload raises before the trial when the context is too small *)
(* for it; nothing in the search catches that.                             *)
TooSmall ==
  /\ Running
  /\ ~FrontierFits(ProbedCtx(Target))
  /\ pc' = "raised"
  /\ UNCHANGED <<base, upper, search, evidence, report>>

(* The base context.  Anything but a pass ends the search without answer.  *)
First(r) ==
  /\ pc = "first"
  /\ FrontierFits(ProbedCtx(Start))
  /\ \E state \in RunStates :
       /\ RunOnce(r, ProbedCtx(Start), state)
       /\ IF state = "pass"
            THEN /\ pc' = "grow"
                 /\ low' = Start /\ point' = Start
                 /\ UNCHANGED <<high, highReason, verdict>>
            ELSE /\ pc' = "report"
                 /\ verdict' = IF state = "timeout" THEN "time_limited" ELSE state
                 /\ IF state \in Inconclusive
                      THEN UNCHANGED <<high, highReason>>
                      ELSE Bound(Start, state)
                 /\ UNCHANGED <<low, point>>
  /\ UNCHANGED <<base, upper, attempt, outcomes, report>>

(* Double until a probe does not pass or the upper limit has passed.       *)
Grow(r) ==
  /\ Growing
  /\ FrontierFits(ProbedCtx(Doubled))
  /\ \E state \in RunStates :
       /\ RunOnce(r, ProbedCtx(Doubled), state)
       /\ CASE state = "pass" ->
                 /\ low' = Doubled /\ point' = Doubled
                 /\ UNCHANGED <<pc, high, highReason, verdict>>
            [] state \in Inconclusive ->
                 /\ pc' = "report" /\ verdict' = state
                 /\ UNCHANGED <<low, high, highReason, point>>
            [] OTHER ->
                 /\ pc' = "refine"
                 /\ Bound(Doubled, state)
                 /\ UNCHANGED <<low, point, verdict>>
  /\ UNCHANGED <<base, upper, attempt, outcomes, report>>

(* Slip: only a failure ends the growth.                                   *)
EndGrow_AwaitFailure ==
  /\ pc = "grow" /\ ~Growing
  /\ pc' = IF high # 0 THEN "refine" ELSE "grow"
  /\ UNCHANGED <<base, upper, search, evidence, report>>

EndGrow ==
  /\ pc = "grow" /\ ~Growing
  /\ pc' = "refine"
  /\ UNCHANGED <<base, upper, search, evidence, report>>

(* Probe the middle of the bracket while it is wider than the resolution.  *)
Refine(r) ==
  /\ Refining
  /\ FrontierFits(ProbedCtx(Middle))
  /\ \E state \in RunStates :
       /\ RunOnce(r, ProbedCtx(Middle), state)
       /\ CASE state = "pass" ->
                 /\ low' = Middle
                 /\ UNCHANGED <<pc, high, highReason, verdict>>
            [] state \in Inconclusive ->
                 /\ pc' = "report" /\ verdict' = state
                 /\ UNCHANGED <<low, high, highReason>>
            [] OTHER ->
                 /\ Bound(Middle, state)
                 /\ UNCHANGED <<pc, low, verdict>>
  /\ UNCHANGED <<base, upper, point, attempt, outcomes, report>>

EndRefine ==
  /\ pc = "refine" /\ ~Refining
  /\ pc' = IF low # 0 THEN "confirm" ELSE "report"
  /\ UNCHANGED <<base, upper, search, evidence, report>>

(* Slip: read seen before the confirmation is stored in it.                *)
IsFallback_StaleSeen(m) ==
  LET stable == {k \in passed : k <= low}
  IN  IF stable = {} THEN m = 0 ELSE m \in stable /\ \A k \in stable : k <= m

(* m is the largest point below low that still counts as passed once the   *)
(* run is over, 0 without one.                                             *)
IsFallback(m) ==
  LET stable == {k \in passed' : k < low}
  IN  IF stable = {} THEN m = 0 ELSE m \in stable /\ \A k \in stable : k <= m

(* Give up the point that was not confirmed.  high = 0 is Python's None,   *)
(* so a timeout without an upper end gets one.                             *)
Withdraw(state) ==
  \E m \in passed \cup {0} :
    /\ IsFallback(m)
    /\ low' = m
    /\ IF state = "timeout"
         THEN /\ highReason' = "timeout"
              /\ high' = IF high # 0 THEN high
                         ELSE IF m # 0 THEN m + Resolution ELSE base
         ELSE UNCHANGED <<high, highReason>>

(* One trial of the confirmation of low.  The run ends with its last trial *)
(* or its first inconclusive one.                                          *)
Confirm(r) ==
  /\ pc = "confirm"
  /\ FrontierFits(ProbedCtx(low))
  /\ LET kind == KindOf(r, ProbedCtx(low))
         kinds == outcomes \cup {kind}
         state == RunState(kinds)
     IN  /\ Record(r, ProbedCtx(low))
         /\ attempt' = attempt + 1
         /\ outcomes' = kinds
         /\ IF attempt + 1 < Repeats /\ kind \notin Inconclusive
              THEN UNCHANGED <<pc, low, high, highReason, passed>>
              ELSE /\ pc' = "report"
                   /\ Mark(ProbedCtx(low), state)
                   /\ IF state = "pass"
                        THEN UNCHANGED <<low, high, highReason>>
                        ELSE Withdraw(state)
  /\ UNCHANGED <<base, upper, point, verdict, report>>

(* Slip: without a failing upper end the limit must have been reached.     *)
Status_NoUpperEnd ==
  CASE verdict # "none" -> verdict
    [] verdict = "none" /\ highReason = "timeout" -> "time_limited"
    [] verdict = "none" /\ highReason # "timeout" ->
         IF high = 0 THEN "upper_reached" ELSE "bounded"

Status ==
  CASE verdict # "none" -> verdict
    [] verdict = "none" /\ highReason = "timeout" -> "time_limited"
    [] verdict = "none" /\ highReason # "timeout" ->
         IF high = 0 /\ low = upper THEN "upper_reached" ELSE "bounded"

Safe ==
  CASE low = 0 -> 0
    [] low # 0 -> IF Status = "time_limited" THEN low ELSE Recommended(low)

(* result(): low is what the search answers.                               *)
Report ==
  /\ pc = "report"
  /\ pc' = "done"
  /\ report' = [benchmarkable |-> low, safe |-> Safe, status |-> Status,
                allocatable |-> maxAllocatable]
  /\ UNCHANGED <<base, upper, search, evidence>>

Ended == pc \in {"done", "raised"}

Terminating == Ended /\ UNCHANGED vars

(* Evaluate the next context, which a trial answers with r.                *)
Probe(r) == First(r) \/ Grow(r) \/ Refine(r) \/ Confirm(r)

(* Go on without a trial.                                                  *)
Decide == EndGrow \/ EndRefine \/ TooSmall \/ Report

Next ==
  \/ \E r \in Results(ProbedCtx(Target)) : Probe(r)
  \/ Decide
  \/ Terminating

Spec == Init /\ [][Next]_vars

(* The search is one thread of one process, and every trial ends: each     *)
(* request and each wait in it has a timeout.                              *)
FairSpec == Spec /\ WF_vars(Next)

-------------------------------------------------------------------------------
(* Properties.                                                             *)

TypeOK ==
  /\ base \in 1 .. MaxCtx /\ upper \in 1 .. MaxCtx
  /\ pc \in {"first", "grow", "refine", "confirm", "report", "done", "raised"}
  /\ low \in Nat /\ high \in Nat /\ point \in Nat
  /\ highReason \in {"none", "fail", "timeout"}
  /\ passed \subseteq Nat \ {0}
  /\ trials \subseteq [ctx : Nat \ {0}, outcome : Kinds, initialized : BOOLEAN]
  /\ probes \in Nat /\ attempt \in 0 .. Repeats
  /\ maxAllocatable \in Nat
  /\ outcomes \subseteq Kinds
  /\ verdict \in {"none", "time_limited"} \cup RunStates
  /\ pc = "done" => report \in [benchmarkable : Nat, safe : Nat,
                                status : Statuses, allocatable : Nat]

(* The inputs for which the search probes the contexts it reasons about:   *)
(* no multiple of the resolution is stepped over or invented.              *)
AlignedInputs == base >= Resolution /\ Floor(upper) = upper

Successes == {t \in trials : t.outcome = "success"}
Failures == trials \ Successes
ContextsOf(S) == {t.ctx : t \in S}

(* The context answered was itself probed with success, as was every       *)
(* context probed below it, and it is not above the upper limit.           *)
AnswerHasEvidence ==
  pc = "done" /\ report.benchmarkable # 0 =>
    /\ report.benchmarkable \in ContextsOf(Successes)
    /\ \A t \in Failures : t.ctx > report.benchmarkable
    /\ report.benchmarkable <= upper

(* The same of the state the search is in: low passed, and is below every  *)
(* context with a trial that did not succeed.  Only while low is being     *)
(* confirmed may it have failed itself.                                    *)
BracketHasEvidence ==
  pc \in {"grow", "refine", "confirm", "report", "done"} =>
    /\ low # 0 => low \in ContextsOf(Successes)
    /\ \A t \in Failures : low < t.ctx \/ (pc = "confirm" /\ low = t.ctx)

(* A search that ends with a confirmed answer and a failure above it has   *)
(* closed the bracket to one resolution step.                              *)
BracketResolved ==
  pc = "done" /\ verdict = "none" /\ outcomes = {"success"} /\ high # 0 =>
    /\ high - low <= Resolution
    /\ high \in ContextsOf(Failures)

(* The reported status is one the evidence supports.                       *)
StatusHasEvidence ==
  pc = "done" =>
    LET above == {t \in Failures : t.ctx > report.benchmarkable}
        saw(kinds) == \E t \in above : t.outcome \in kinds
    IN  CASE report.status = "upper_reached" ->
               report.benchmarkable = upper /\ Failures = {}
          [] report.status = "time_limited" -> saw({"timeout"})
          [] report.status = "bounded" -> above # {}
          [] report.status \in {"fail", "unstable"} ->
               report.benchmarkable = 0 /\ saw({"context"})
          [] report.status \in Inconclusive -> saw({report.status})

(* Unless the search ran into the time limit, the recommended context      *)
(* keeps the configured distance to every context seen to be too large.    *)
HeadroomBelowFailures ==
  pc = "done" /\ report.safe # 0 /\ report.status # "time_limited" =>
    \A t \in trials :
      t.outcome = "context" =>
        /\ report.safe + HeadroomTokens < t.ctx
        /\ 100 * report.safe < (100 - HeadroomPercent) * t.ctx

(* The resolution, doubled k times.                                        *)
Width[k \in Nat] == IF k = 0 THEN Resolution ELSE 2 * Width[k - 1]

(* The search makes a number of probes logarithmic in the upper limit: one *)
(* for the base, the doublings, the halvings, and the confirmation.        *)
ProbesLogarithmic ==
  \E k \in 0 .. upper :
    /\ \A j \in 0 .. k - 1 : Width[j] < upper
    /\ probes - attempt <= 1 + 2 * k

(* A search comes to an end.                                               *)
SearchEnds == <>Ended

(* The search implements the abstract bracket search.                      *)
BS == INSTANCE BracketSearch WITH
  Sizes   <- {n \in 1 .. MaxCtx : Floor(n) = n},
  good    <- passed \ ContextsOf(Failures),
  bad     <- ContextsOf(Failures),
  answer  <- IF pc = "done" THEN report.benchmarkable ELSE 0,
  stopped <- pc = "done"

ImplementsBracketSearch == BS!Spec

(* Statements of the documentation.                                        *)

(* README: a context point passes when startup and the request complete,   *)
(* and max_smoke_validated_ctx is such a point.                            *)
AnswerWasProbed ==
  pc = "done" /\ report.benchmarkable # 0 =>
    report.benchmarkable \in ContextsOf(trials)

(* depth.py: the depth fits with generation, 32 safety tokens and one      *)
(* benchmark token.  The frontier asks for no other depth.                 *)
ProbeDepthFits ==
  \A n \in ContextsOf(trials) : DepthAccepted(n)
===============================================================================
