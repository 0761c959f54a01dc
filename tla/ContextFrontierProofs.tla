------------------------- MODULE ContextFrontierProofs -------------------------
(***************************************************************************)
(* Theorems about ContextFrontier, for every value of its constants.       *)
(***************************************************************************)
EXTENDS ContextFrontier, WellFoundedInduction, TLAPS

-------------------------------------------------------------------------------
(* Rounding to the resolution.                                             *)

(* Floor rounds down by less than one step.                                *)
LEMMA FloorBounds ==
  ASSUME NEW n \in Nat
  PROVE  Floor(n) \in Nat /\ Floor(n) <= n /\ n < Floor(n) + Resolution
BY FrontierAssumption, SMT DEF Floor

(* Negative sizes, as headroom larger than the context gives, too.         *)
LEMMA FloorInt == ASSUME NEW n \in Int PROVE Floor(n) \in Int
BY FrontierAssumption, SMT DEF Floor

(* A multiple of the resolution is its own floor.                          *)
LEMMA FloorMultiple ==
  ASSUME NEW k \in Nat
  PROVE  Floor(k * Resolution) = k * Resolution
<1>1. (k * Resolution) \div Resolution = k
  BY FrontierAssumption, SMT
<1> QED BY <1>1 DEF Floor

(* A size is its own floor exactly when it is a multiple.                  *)
LEMMA AlignedMultiple ==
  ASSUME NEW n \in Nat, Floor(n) = n
  PROVE  \E k \in Nat : n = k * Resolution
<1>1. n \div Resolution \in Nat
  BY FrontierAssumption, SMT
<1> QED BY <1>1 DEF Floor

(* A context that was rounded down is a multiple of the granularity.       *)
LEMMA FloorIdempotent ==
  ASSUME NEW n \in Nat
  PROVE  Floor(Floor(n)) = Floor(n)
<1>1. n \div Resolution \in Nat
  BY FrontierAssumption, SMT
<1> QED BY <1>1, FloorMultiple DEF Floor

(* One step further is aligned again.                                      *)
LEMMA AlignedStep ==
  ASSUME NEW n \in Nat, Floor(n) = n
  PROVE  Floor(n + Resolution) = n + Resolution
<1>1. PICK k \in Nat : n = k * Resolution
  BY AlignedMultiple
<1>2. n + Resolution = (k + 1) * Resolution /\ k + 1 \in Nat
  BY <1>1, FrontierAssumption, SMT
<1> QED BY <1>2, FloorMultiple

(* Two aligned sizes are at least one step apart.                          *)
LEMMA AlignedGap ==
  ASSUME NEW m \in Nat, NEW n \in Nat, Floor(m) = m, Floor(n) = n, m < n
  PROVE  m + Resolution <= n
<1>1. PICK j \in Nat : m = j * Resolution
  BY AlignedMultiple
<1>2. PICK k \in Nat : n = k * Resolution
  BY AlignedMultiple
<1>3. j < k
  BY <1>1, <1>2, FrontierAssumption, SMT
<1> QED BY <1>1, <1>2, <1>3, FrontierAssumption, SMT

(* A positive aligned size is at least one step, and probed as it is.      *)
LEMMA AlignedProbe ==
  ASSUME NEW n \in Nat \ {0}, Floor(n) = n
  PROVE  ProbedCtx(n) = n
BY DEF ProbedCtx, Larger

(* A probe asks for a positive context.                                    *)
LEMMA ProbedType ==
  ASSUME NEW n \in Nat
  PROVE  ProbedCtx(n) \in Nat \ {0}
BY FloorBounds DEF ProbedCtx, Larger

(* The headroom leaves a natural number.                                   *)
LEMMA RecommendedType ==
  ASSUME NEW n \in Nat
  PROVE  Recommended(n) \in Nat
<1> DEFINE percent == (n * HeadroomPercent + 99) \div 100
           margin == Larger(HeadroomTokens, percent)
<1>1. percent \in Nat
  BY FrontierAssumption, SMT
<1> HIDE DEF percent
<1>2. margin \in Nat
  BY <1>1, FrontierAssumption DEF Larger
<1> HIDE DEF margin
<1>3. n - margin \in Int
  BY <1>2
<1>4. Floor(n - margin) \in Int
  BY <1>3, FloorInt
<1>5. Larger(0, Floor(n - margin)) \in Nat
  BY <1>4 DEF Larger
<1> QED BY <1>5 DEF Recommended, margin, percent

-------------------------------------------------------------------------------
(* Type correctness.                                                       *)

(* The confirmation has trials left while it lasts.                        *)
Counting ==
  /\ pc \in {"first", "grow", "refine"} => attempt = 0
  /\ pc = "confirm" => attempt < Repeats

TypeInv == TypeOK /\ Counting

(* Every result of a trial is of one kind.                                 *)
LEMMA KindOfType ==
  ASSUME NEW r, NEW ctx
  PROVE  KindOf(r, ctx) \in Kinds
BY DEF KindOf, Classify, Kinds

(* A trial that succeeds has initialized the server.                       *)
LEMMA ResultsType ==
  ASSUME NEW ctx, NEW r \in Results(ctx)
  PROVE  r.initialized \in BOOLEAN /\ (r.status = "ok" => r.initialized)
<1>1. ASSUME NEW S, NEW b \in BOOLEAN, r \in Logged(S, b), "ok" \notin S
      PROVE  r.initialized \in BOOLEAN /\ (r.status = "ok" => r.initialized)
  BY <1>1 DEF Logged
<1>2. ASSUME NEW S, NEW B \in SUBSET BOOLEAN, r \in Silent(S, B),
             "ok" \in S => B = {TRUE}
      PROVE  r.initialized \in BOOLEAN /\ (r.status = "ok" => r.initialized)
  BY <1>2 DEF Silent
<1> QED BY <1>1, <1>2 DEF Results, UsableResults

(* record() keeps the types of the evidence.                               *)
LEMMA RecordType ==
  ASSUME TypeOK, NEW ctx \in Nat \ {0}, NEW any, NEW r \in Results(any),
         Record(r, ctx)
  PROVE  /\ trials' \subseteq [ctx : Nat \ {0}, outcome : Kinds, initialized : BOOLEAN]
         /\ probes' \in Nat
         /\ maxAllocatable' \in Nat
<1> DEFINE t == [ctx |-> ctx, outcome |-> KindOf(r, ctx), initialized |-> r.initialized]
<1>1. t \in [ctx : Nat \ {0}, outcome : Kinds, initialized : BOOLEAN]
  BY KindOfType, ResultsType
<1> HIDE DEF t
<1>2. trials' = trials \cup {t}
  BY DEF Record, t
<1>3. probes' \in Nat /\ maxAllocatable' \in Nat
  BY DEF TypeOK, Record, Larger
<1> QED BY <1>1, <1>2, <1>3 DEF TypeOK

(* So does the set of contexts that passed.                                *)
LEMMA MarkType ==
  ASSUME TypeOK, NEW ctx \in Nat \ {0}, NEW state, Mark(ctx, state)
  PROVE  passed' \subseteq Nat \ {0}
BY DEF TypeOK, Mark

(* The search begins with a positive context.                              *)
LEMMA StartType == ASSUME TypeOK PROVE Start \in Nat \ {0}
<1>1. base \in Nat \ {0} /\ Floor(base) \in Nat
  BY FloorBounds DEF TypeOK
<1> QED BY <1>1 DEF Start

(* The next context while the search grows.                                *)
LEMMA DoubledType == ASSUME TypeOK PROVE Doubled \in Nat
<1> DEFINE wanted == Smaller(upper, 2 * point)
<1>1. wanted \in Nat
  BY DEF TypeOK, Smaller
<1> HIDE DEF wanted
<1>2. Floor(wanted) \in Nat
  BY <1>1, FloorBounds
<1>3. Smaller(Larger(point + Resolution, Floor(wanted)), upper) \in Nat
  BY <1>2, FrontierAssumption DEF TypeOK, Smaller, Larger
<1> QED BY <1>3 DEF Doubled, wanted

(* The next context while it refines.                                      *)
LEMMA MiddleType == ASSUME TypeOK PROVE Middle \in Nat
<1> DEFINE half == (low + high) \div 2
<1>1. half \in Nat
  BY DEF TypeOK
<1> HIDE DEF half
<1>2. Floor(half) \in Nat
  BY <1>1, FloorBounds
<1>3. (IF Floor(half) <= low THEN low + Resolution ELSE Floor(half)) \in Nat
  BY <1>2, FrontierAssumption DEF TypeOK
<1> QED BY <1>3 DEF Middle, half

(* run_once() keeps the types of all it changes.                           *)
LEMMA RunOnceType ==
  ASSUME TypeOK, NEW ctx \in Nat \ {0}, NEW any, NEW r \in Results(any),
         NEW state, RunOnce(r, ctx, state)
  PROVE  /\ trials' \subseteq [ctx : Nat \ {0}, outcome : Kinds, initialized : BOOLEAN]
         /\ probes' \in Nat
         /\ maxAllocatable' \in Nat
         /\ passed' \subseteq Nat \ {0}
BY RecordType, MarkType DEF RunOnce

(* Withdrawing a context keeps the types of the bracket.                   *)
LEMMA WithdrawType ==
  ASSUME TypeOK, NEW state, Withdraw(state)
  PROVE  /\ low' \in Nat /\ high' \in Nat
         /\ highReason' \in {"none", "fail", "timeout"}
<1>1. PICK m \in passed \cup {0} :
        /\ low' = m
        /\ IF state = "timeout"
             THEN /\ highReason' = "timeout"
                  /\ high' = IF high # 0 THEN high
                             ELSE IF m # 0 THEN m + Resolution ELSE base
             ELSE UNCHANGED <<high, highReason>>
  BY DEF Withdraw
<1>2. m \in Nat
  BY DEF TypeOK
<1> QED BY <1>1, <1>2, FrontierAssumption DEF TypeOK

(* result() returns a report.                                              *)
LEMMA ReportType ==
  ASSUME TypeOK, Report
  PROVE  report' \in [benchmarkable : Nat, safe : Nat, status : Statuses,
                      allocatable : Nat]
<1>1. Safe \in Nat
  BY RecommendedType DEF Safe, TypeOK
<1>2. Status \in Statuses
  BY DEF Status, Statuses, TypeOK
<1> QED BY <1>1, <1>2 DEF Report, TypeOK

(* Types hold at first.                                                    *)
LEMMA TypeInit == Init => TypeInv
<1> SUFFICES ASSUME Init PROVE TypeInv
  OBVIOUS
<1>1. base \in 1 .. MaxCtx
  BY FrontierAssumption DEF Init
<1>2. PICK arg \in UpperArgs : upper = Larger(base, Floor(arg))
  BY DEF Init
<1>3. arg \in 0 .. MaxCtx
  BY FrontierAssumption
<1>4. Floor(arg) \in Nat /\ Floor(arg) <= arg
  BY <1>3, FloorBounds
<1>5. upper \in 1 .. MaxCtx
  BY <1>1, <1>2, <1>3, <1>4, FrontierAssumption DEF Larger
<1> QED BY <1>1, <1>5, FrontierAssumption DEF Init, Begin, TypeInv, TypeOK, Counting

(* Every step keeps the types.                                             *)
LEMMA TypeNext == TypeInv /\ [Next]_vars => TypeInv'
<1> SUFFICES ASSUME TypeInv, [Next]_vars PROVE TypeInv'
  OBVIOUS
<1> USE DEF TypeInv
<1>1. ASSUME NEW r \in Results(ProbedCtx(Target)), First(r)
      PROVE  TypeInv'
  <2>1. PICK state \in RunStates :
          /\ RunOnce(r, ProbedCtx(Start), state)
          /\ IF state = "pass"
               THEN /\ pc' = "grow"
                    /\ low' = Start /\ point' = Start
                    /\ UNCHANGED <<high, highReason, verdict>>
               ELSE /\ pc' = "report"
                    /\ verdict' = IF state = "timeout" THEN "time_limited"
                                                       ELSE state
                    /\ IF state \in Inconclusive
                         THEN UNCHANGED <<high, highReason>>
                         ELSE Bound(Start, state)
                    /\ UNCHANGED <<low, point>>
    BY <1>1 DEF First
  <2>2. Start \in Nat \ {0} /\ ProbedCtx(Start) \in Nat \ {0}
    BY StartType, ProbedType
  <2>3. /\ trials' \subseteq [ctx : Nat \ {0}, outcome : Kinds, initialized : BOOLEAN]
        /\ probes' \in Nat /\ maxAllocatable' \in Nat
        /\ passed' \subseteq Nat \ {0}
    BY <2>1, <2>2, RunOnceType
  <2>4. UNCHANGED <<base, upper, attempt, outcomes, report>> /\ pc = "first"
    BY <1>1 DEF First
  <2> QED BY <2>1, <2>2, <2>3, <2>4 DEF TypeOK, Counting, Bound
<1>2. ASSUME NEW r \in Results(ProbedCtx(Target)), Grow(r)
      PROVE  TypeInv'
  <2>1. PICK state \in RunStates :
          /\ RunOnce(r, ProbedCtx(Doubled), state)
          /\ CASE state = "pass" ->
                    /\ low' = Doubled /\ point' = Doubled
                    /\ UNCHANGED <<pc, high, highReason, verdict>>
               [] state \in Inconclusive ->
                    /\ pc' = "report" /\ verdict' = state
                    /\ UNCHANGED <<low, high, highReason, point>>
               [] OTHER ->
                    /\ pc' = "refine"
                    /\ Bound(Doubled, state)
                    /\ UNCHANGED <<low, point, verdict>>
    BY <1>2 DEF Grow
  <2>2. Doubled \in Nat /\ ProbedCtx(Doubled) \in Nat \ {0}
    BY DoubledType, ProbedType
  <2>3. /\ trials' \subseteq [ctx : Nat \ {0}, outcome : Kinds, initialized : BOOLEAN]
        /\ probes' \in Nat /\ maxAllocatable' \in Nat
        /\ passed' \subseteq Nat \ {0}
    BY <2>1, <2>2, RunOnceType
  <2>4. UNCHANGED <<base, upper, attempt, outcomes, report>> /\ pc = "grow"
    BY <1>2 DEF Grow, Growing
  <2> QED BY <2>1, <2>2, <2>3, <2>4 DEF TypeOK, Counting, Bound, Inconclusive
<1>3. CASE EndGrow
  BY <1>3, FrontierAssumption DEF EndGrow, TypeOK, Counting, search, evidence
<1>4. ASSUME NEW r \in Results(ProbedCtx(Target)), Refine(r)
      PROVE  TypeInv'
  <2>1. PICK state \in RunStates :
          /\ RunOnce(r, ProbedCtx(Middle), state)
          /\ CASE state = "pass" ->
                    /\ low' = Middle
                    /\ UNCHANGED <<pc, high, highReason, verdict>>
               [] state \in Inconclusive ->
                    /\ pc' = "report" /\ verdict' = state
                    /\ UNCHANGED <<low, high, highReason>>
               [] OTHER ->
                    /\ Bound(Middle, state)
                    /\ UNCHANGED <<pc, low, verdict>>
    BY <1>4 DEF Refine
  <2>2. Middle \in Nat /\ ProbedCtx(Middle) \in Nat \ {0}
    BY MiddleType, ProbedType
  <2>3. /\ trials' \subseteq [ctx : Nat \ {0}, outcome : Kinds, initialized : BOOLEAN]
        /\ probes' \in Nat /\ maxAllocatable' \in Nat
        /\ passed' \subseteq Nat \ {0}
    BY <2>1, <2>2, RunOnceType
  <2>4. /\ UNCHANGED <<base, upper, point, attempt, outcomes, report>>
        /\ pc = "refine"
    BY <1>4 DEF Refine, Refining
  <2> QED BY <2>1, <2>2, <2>3, <2>4 DEF TypeOK, Counting, Bound, Inconclusive
<1>5. CASE EndRefine
  BY <1>5, FrontierAssumption DEF EndRefine, TypeOK, Counting, search, evidence
<1>6. ASSUME NEW r \in Results(ProbedCtx(Target)), Confirm(r)
      PROVE  TypeInv'
  <2> DEFINE ctx == ProbedCtx(low)
  <2>1. /\ Record(r, ctx)
        /\ attempt' = attempt + 1
        /\ outcomes' = outcomes \cup {KindOf(r, ctx)}
        /\ IF attempt + 1 < Repeats /\ KindOf(r, ctx) \notin Inconclusive
             THEN UNCHANGED <<pc, low, high, highReason, passed>>
             ELSE /\ pc' = "report"
                  /\ \E state : Mark(ctx, state)
                  /\ \/ UNCHANGED <<low, high, highReason>>
                     \/ \E state : Withdraw(state)
    BY <1>6 DEF Confirm
  <2>2. ctx \in Nat \ {0}
    BY ProbedType DEF TypeOK
  <2> HIDE DEF ctx
  <2>3. /\ trials' \subseteq [ctx : Nat \ {0}, outcome : Kinds, initialized : BOOLEAN]
        /\ probes' \in Nat /\ maxAllocatable' \in Nat
    BY <2>1, <2>2, RecordType
  <2>4. passed' \subseteq Nat \ {0}
    BY <2>1, <2>2, MarkType DEF TypeOK
  <2>5. /\ low' \in Nat /\ high' \in Nat
        /\ highReason' \in {"none", "fail", "timeout"}
    BY <2>1, WithdrawType DEF TypeOK
  <2>6. outcomes' \subseteq Kinds
    BY <2>1, KindOfType DEF TypeOK
  <2>7. /\ attempt' \in 0 .. Repeats
        /\ pc' \in {"confirm", "report"}
        /\ pc' = "confirm" => attempt' < Repeats
    <3>1. pc = "confirm" /\ attempt < Repeats
      BY <1>6 DEF Confirm, Counting
    <3> QED BY <2>1, <3>1, FrontierAssumption DEF TypeOK
  <2>8. UNCHANGED <<base, upper, point, verdict, report>>
    BY <1>6 DEF Confirm
  <2> QED BY <2>3, <2>4, <2>5, <2>6, <2>7, <2>8 DEF TypeOK, Counting
<1>7. CASE TooSmall
  BY <1>7 DEF TooSmall, TypeOK, Counting, search, evidence
<1>8. CASE Report
  <2>1. report' \in [benchmarkable : Nat, safe : Nat, status : Statuses,
                     allocatable : Nat]
    BY <1>8, ReportType
  <2> QED BY <1>8, <2>1 DEF Report, TypeOK, Counting, search, evidence
<1>9. CASE UNCHANGED vars
  BY <1>9 DEF vars, TypeOK, Counting, search, evidence
<1> QED
  BY <1>1, <1>2, <1>3, <1>4, <1>5, <1>6, <1>7, <1>8, <1>9 DEF Next, Terminating,
     Probe, Decide

(* Every reachable state is well typed, whatever the inputs, aligned to    *)
(* the resolution or not.                                                  *)
THEOREM TypeCorrect == Spec => []TypeOK
<1>1. Init => TypeInv
  BY TypeInit
<1>2. TypeInv /\ [Next]_vars => TypeInv'
  BY TypeNext
<1>3. TypeInv => TypeOK
  BY DEF TypeInv
<1> QED BY <1>1, <1>2, <1>3, PTL DEF Spec

-------------------------------------------------------------------------------
(* The evidence behind the answer.                                         *)

(* What the search knows about its trials, by phase.                       *)
Searching == pc \in {"grow", "refine", "confirm", "report", "done"}

Evidence ==
  /\ base <= upper
  /\ passed \subseteq ContextsOf(Successes)
  /\ \A n \in passed : Floor(n) = n
  /\ pc \in {"first", "grow", "refine"} => outcomes = {}
  /\ pc = "first" => trials = {} /\ passed = {} /\ low = 0 /\ high = 0
  /\ Searching =>
       /\ Floor(low) = low /\ low <= upper
       /\ low # 0 => low \in passed
       /\ \A n \in passed : n <= low
       /\ \A t \in Failures :
            \/ low < t.ctx
            \/ pc = "confirm" /\ low = t.ctx /\ ~(outcomes \subseteq {"success"})
  /\ pc = "grow" => low # 0 /\ point = low /\ high = 0 /\ Failures = {}
  /\ pc = "refine" =>
       /\ low # 0 /\ high <= upper
       /\ \A t \in Failures : high # 0 /\ high <= t.ctx
  /\ pc = "confirm" =>
       /\ low # 0
       /\ outcomes \subseteq {"success"} \/ low \in ContextsOf(Failures)
  /\ pc = "done" => report.benchmarkable = low

EvidenceInv == TypeInv /\ AlignedInputs /\ Evidence

(* A trial adds its context to the successes or to the failures.           *)
LEMMA RecordEffect ==
  ASSUME TypeOK, NEW ctx, NEW r, Record(r, ctx)
  PROVE  /\ ContextsOf(Successes) \subseteq ContextsOf(Successes)'
         /\ KindOf(r, ctx) = "success" =>
              /\ ContextsOf(Failures)' = ContextsOf(Failures)
              /\ Failures' = Failures
              /\ ctx \in ContextsOf(Successes)'
         /\ KindOf(r, ctx) # "success" =>
              /\ ContextsOf(Failures)' = ContextsOf(Failures) \cup {ctx}
              /\ \A t \in Failures' : t \in Failures \/ t.ctx = ctx
<1> DEFINE t0 == [ctx |-> ctx, outcome |-> KindOf(r, ctx), initialized |-> r.initialized]
<1>1. trials' = trials \cup {t0}
  BY DEF Record
<1>2. t0.ctx = ctx /\ t0.outcome = KindOf(r, ctx)
  OBVIOUS
<1> HIDE DEF t0
<1> QED BY <1>1, <1>2, Z3 DEF ContextsOf, Successes, Failures

(* What run_once() does to the evidence: a pass adds a success, anything   *)
(* else a trial that is no success.                                        *)
LEMMA RunOnceEffect ==
  ASSUME TypeOK, NEW ctx, NEW r, NEW state, RunOnce(r, ctx, state)
  PROVE  /\ ContextsOf(Successes) \subseteq ContextsOf(Successes)'
         /\ state = "pass" =>
              /\ ContextsOf(Failures)' = ContextsOf(Failures)
              /\ Failures' = Failures
              /\ ctx \in ContextsOf(Successes)'
              /\ passed' = passed \cup {ctx}
         /\ state # "pass" =>
              /\ ContextsOf(Failures)' = ContextsOf(Failures) \cup {ctx}
              /\ \A t \in Failures' : t \in Failures \/ t.ctx = ctx
              /\ passed' = passed \ {ctx}
<1>1. /\ Record(r, ctx)
      /\ state = RunState({KindOf(r, ctx)})
      /\ Mark(ctx, state)
  BY DEF RunOnce
<1>2. state = "pass" <=> KindOf(r, ctx) = "success"
  <2>1. ASSUME NEW k \in Kinds
        PROVE  RunState({k}) = "pass" <=> k = "success"
    BY DEF RunState, Kinds
  <2> QED BY <1>1, <2>1, KindOfType
<1> QED BY <1>1, <1>2, RecordEffect DEF Mark

(* With aligned inputs, the context that is probed first is the one the    *)
(* search means.                                                           *)
LEMMA StartAligned ==
  ASSUME TypeOK, AlignedInputs, base <= upper
  PROVE  /\ Start \in Nat \ {0} /\ Start <= upper
         /\ Floor(Start) = Start
         /\ ProbedCtx(Start) = Start
<1>1. base \in Nat /\ base >= Resolution
  BY DEF TypeOK, AlignedInputs
<1>2. /\ Floor(base) \in Nat /\ Floor(base) <= base
      /\ base < Floor(base) + Resolution
      /\ Floor(Floor(base)) = Floor(base)
  BY <1>1, FloorBounds, FloorIdempotent
<1>3. Floor(base) # 0
  BY <1>1, <1>2, FrontierAssumption
<1>4. Start = Floor(base)
  BY <1>2, <1>3 DEF Start
<1> QED BY <1>1, <1>2, <1>3, <1>4, AlignedProbe DEF TypeOK

(* So are the contexts while it grows ...                                  *)
LEMMA DoubledAligned ==
  ASSUME TypeOK, Floor(upper) = upper, Floor(point) = point, point # 0,
         point < upper
  PROVE  /\ Doubled \in Nat \ {0} /\ point < Doubled /\ Doubled <= upper
         /\ Floor(Doubled) = Doubled
         /\ ProbedCtx(Doubled) = Doubled
<1> DEFINE wanted == Smaller(upper, 2 * point)
           larger == Larger(point + Resolution, Floor(wanted))
<1>1. wanted \in Nat /\ wanted <= upper
  BY DEF TypeOK, Smaller
<1> HIDE DEF wanted
<1>2. /\ Floor(wanted) \in Nat /\ Floor(wanted) <= wanted
      /\ Floor(Floor(wanted)) = Floor(wanted)
  BY <1>1, FloorBounds, FloorIdempotent
<1>3. point + Resolution <= upper
  BY AlignedGap DEF TypeOK
<1>4. Floor(point + Resolution) = point + Resolution
  BY AlignedStep DEF TypeOK
<1>5. /\ larger \in Nat /\ point < larger /\ larger <= upper
      /\ Floor(larger) = larger
  BY <1>1, <1>2, <1>3, <1>4, FrontierAssumption DEF Larger, TypeOK
<1>6. Doubled = Smaller(larger, upper)
  BY DEF Doubled, wanted
<1> HIDE DEF larger
<1>7. Doubled = larger
  BY <1>5, <1>6 DEF Smaller, TypeOK
<1>8. Doubled \in Nat \ {0}
  BY <1>5, <1>7 DEF TypeOK
<1> QED BY <1>5, <1>7, <1>8, AlignedProbe

(* ... and while it refines, where they lie strictly inside the bracket.   *)
LEMMA MiddleAligned ==
  ASSUME TypeOK, Floor(low) = low, low # 0, Refining
  PROVE  /\ Middle \in Nat \ {0} /\ low < Middle /\ Middle < high
         /\ Floor(Middle) = Middle
         /\ ProbedCtx(Middle) = Middle
<1> DEFINE half == (low + high) \div 2
<1>1. half \in Nat
  BY DEF TypeOK
<1> HIDE DEF half
<1>2. Floor(half) \in Nat /\ Floor(Floor(half)) = Floor(half)
  BY <1>1, FloorBounds, FloorIdempotent
<1>3. Floor(low + Resolution) = low + Resolution
  BY AlignedStep DEF TypeOK
<1>4. Middle = IF Floor(half) <= low THEN low + Resolution ELSE Floor(half)
  BY DEF Middle, half
<1>5. low < Middle /\ Middle \in Nat /\ Floor(Middle) = Middle
  BY <1>2, <1>3, <1>4, FrontierAssumption DEF TypeOK
<1>6. Middle < high
  BY DEF Refining
<1> QED BY <1>5, <1>6, AlignedProbe DEF TypeOK

(* The invariant about the evidence holds at first.                        *)
LEMMA EvidenceInit == Init /\ AlignedInputs => EvidenceInv
<1> SUFFICES ASSUME Init, AlignedInputs PROVE EvidenceInv
  OBVIOUS
<1>1. TypeInv
  BY TypeInit
<1>2. base <= upper
  <2>1. PICK arg \in UpperArgs : upper = Larger(base, Floor(arg))
    BY DEF Init
  <2>2. arg \in Nat /\ base \in Nat
    BY FrontierAssumption DEF Init
  <2>3. Floor(arg) \in Nat
    BY <2>2, FloorBounds
  <2> QED BY <2>1, <2>2, <2>3 DEF Larger
<1> QED BY <1>1, <1>2 DEF EvidenceInv, Evidence, Init, Begin, Searching, ContextsOf

(* Every step keeps the invariant about the evidence.                      *)
LEMMA EvidenceNext == EvidenceInv /\ [Next]_vars => EvidenceInv'
<1> SUFFICES ASSUME EvidenceInv, [Next]_vars PROVE EvidenceInv'
  OBVIOUS
<1>0. TypeInv' /\ TypeOK /\ TypeOK'
  BY TypeNext DEF EvidenceInv, TypeInv
<1>a. UNCHANGED <<base, upper>> /\ AlignedInputs'
  BY DEF EvidenceInv, AlignedInputs, Floor, Next, Probe, Decide, First, Grow,
         EndGrow, Refine, EndRefine, Confirm, TooSmall, Report, Terminating, vars
<1> SUFFICES Evidence'
  BY <1>0, <1>a DEF EvidenceInv
<1> USE DEF EvidenceInv
<1>1. ASSUME NEW r \in Results(ProbedCtx(Target)), First(r)
      PROVE  Evidence'
  <2>1. PICK state \in RunStates :
          /\ RunOnce(r, Start, state)
          /\ IF state = "pass"
               THEN /\ pc' = "grow"
                    /\ low' = Start /\ point' = Start
                    /\ UNCHANGED <<high, highReason, verdict>>
               ELSE /\ pc' = "report"
                    /\ UNCHANGED <<low, point>>
    BY <1>0, <1>1, StartAligned DEF First, Evidence
  <2>2. /\ pc = "first" /\ passed = {} /\ Failures = {} /\ low = 0 /\ high = 0
        /\ outcomes' = {}
    BY <1>1 DEF First, Evidence, Failures, Successes
  <2>3. Start \in Nat \ {0} /\ Start <= upper /\ Floor(Start) = Start
    BY <1>0, StartAligned DEF Evidence
  <2>4. CASE state = "pass"
    <3>1. /\ Failures' = {} /\ passed' = {Start}
          /\ Start \in ContextsOf(Successes)'
      BY <1>0, <2>1, <2>2, <2>4, RunOnceEffect
    <3>2. pc' = "grow" /\ low' = Start /\ point' = Start /\ high' = 0
      BY <2>1, <2>2, <2>4
    <3> QED
      BY <1>a, <2>2, <2>3, <3>1, <3>2 DEF Evidence, Searching, Floor
  <2>5. CASE state # "pass"
    <3>1. passed' = {} /\ \A t \in Failures' : t.ctx = Start
      BY <1>0, <2>1, <2>2, <2>5, RunOnceEffect
    <3>2. pc' = "report" /\ low' = 0
      BY <2>1, <2>2, <2>5
    <3>3. Floor(0) = 0
      BY FloorBounds
    <3>4. 0 < Start /\ 0 <= upper
      BY <1>0, <2>3 DEF TypeOK
    <3> QED
      BY <1>a, <2>2, <2>3, <3>1, <3>2, <3>3, <3>4
      DEF Evidence, Searching, Floor
  <2> QED BY <2>4, <2>5
<1>2. ASSUME NEW r \in Results(ProbedCtx(Target)), Grow(r)
      PROVE  Evidence'
  <2>1. /\ pc = "grow" /\ low # 0 /\ point = low /\ high = 0 /\ Failures = {}
        /\ Floor(low) = low /\ low <= upper /\ point < upper
        /\ passed \subseteq ContextsOf(Successes)
        /\ \A n \in passed : Floor(n) = n
        /\ low \in passed /\ \A n \in passed : n <= low
    BY <1>2 DEF Grow, Growing, Evidence, Searching
  <2>2. /\ Doubled \in Nat \ {0} /\ low < Doubled /\ Doubled <= upper
        /\ Floor(Doubled) = Doubled /\ ProbedCtx(Doubled) = Doubled
    BY <1>0, <2>1, DoubledAligned DEF AlignedInputs
  <2>3. PICK state \in RunStates :
          /\ RunOnce(r, Doubled, state)
          /\ CASE state = "pass" ->
                    /\ low' = Doubled /\ point' = Doubled
                    /\ UNCHANGED <<pc, high, highReason, verdict>>
               [] state \in Inconclusive ->
                    /\ pc' = "report" /\ verdict' = state
                    /\ UNCHANGED <<low, high, highReason, point>>
               [] OTHER ->
                    /\ pc' = "refine"
                    /\ Bound(Doubled, state)
                    /\ UNCHANGED <<low, point, verdict>>
    BY <1>2, <2>2 DEF Grow
  <2>4. outcomes' = {}
    BY <1>2, <2>1 DEF Grow, Evidence
  <2>5. CASE state = "pass"
    <3>1. /\ Failures' = {} /\ passed' = passed \cup {Doubled}
          /\ passed' \subseteq ContextsOf(Successes)'
      BY <1>0, <2>1, <2>3, <2>5, RunOnceEffect
    <3>2. pc' = "grow" /\ low' = Doubled /\ point' = Doubled /\ high' = 0
      BY <2>1, <2>3, <2>5 DEF Inconclusive
    <3>3. \A n \in passed' : n <= Doubled /\ Floor(n) = n
      BY <1>0, <2>1, <2>2, <3>1 DEF TypeOK
    <3> QED
      BY <1>a, <2>2, <2>4, <3>1, <3>2, <3>3 DEF Evidence, Searching, Floor
  <2>6. CASE state # "pass"
    <3>1. /\ \A t \in Failures' : t.ctx = Doubled
          /\ passed' = passed
          /\ passed' \subseteq ContextsOf(Successes)'
      <4>1. Doubled \notin passed
        BY <1>0, <2>1, <2>2 DEF TypeOK
      <4>2. /\ \A t \in Failures' : t \in Failures \/ t.ctx = Doubled
            /\ passed' = passed \ {Doubled}
            /\ ContextsOf(Successes) \subseteq ContextsOf(Successes)'
        BY <1>0, <2>3, <2>6, RunOnceEffect
      <4> QED BY <2>1, <4>1, <4>2
    <3>2. /\ low' = low
          /\ pc' = "report" \/ (pc' = "refine" /\ high' = Doubled)
      BY <2>3, <2>6 DEF Bound
    <3> QED
      BY <1>0, <1>a, <2>1, <2>2, <2>4, <3>1, <3>2
      DEF Evidence, Searching, Floor
  <2> QED BY <2>5, <2>6
<1>3. CASE EndGrow
  <2>1. /\ pc = "grow" /\ pc' = "refine" /\ Failures' = Failures
        /\ ContextsOf(Successes)' = ContextsOf(Successes)
        /\ UNCHANGED <<passed, low, high, outcomes>>
    BY <1>3 DEF EndGrow, search, evidence, Failures, Successes, ContextsOf
  <2> QED BY <1>0, <1>a, <2>1 DEF Evidence, Searching, Floor, TypeOK
<1>4. ASSUME NEW r \in Results(ProbedCtx(Target)), Refine(r)
      PROVE  Evidence'
  <2>1. /\ pc = "refine" /\ Refining /\ low # 0 /\ high # 0
        /\ Floor(low) = low /\ low <= upper /\ high <= upper
        /\ passed \subseteq ContextsOf(Successes)
        /\ \A n \in passed : Floor(n) = n
        /\ low \in passed /\ \A n \in passed : n <= low
        /\ \A t \in Failures : high <= t.ctx
    BY <1>4 DEF Refine, Refining, Evidence, Searching
  <2>2. /\ Middle \in Nat \ {0} /\ low < Middle /\ Middle < high
        /\ Floor(Middle) = Middle /\ ProbedCtx(Middle) = Middle
    BY <1>0, <2>1, MiddleAligned
  <2>3. PICK state \in RunStates :
          /\ RunOnce(r, Middle, state)
          /\ CASE state = "pass" ->
                    /\ low' = Middle
                    /\ UNCHANGED <<pc, high, highReason, verdict>>
               [] state \in Inconclusive ->
                    /\ pc' = "report" /\ verdict' = state
                    /\ UNCHANGED <<low, high, highReason>>
               [] OTHER ->
                    /\ Bound(Middle, state)
                    /\ UNCHANGED <<pc, low, verdict>>
    BY <1>4, <2>2 DEF Refine
  <2>4. outcomes' = {}
    BY <1>4, <2>1 DEF Refine, Evidence
  <2>5. \A t \in Failures : t.ctx \in Nat
    BY <1>0 DEF TypeOK, Failures
  <2>6. CASE state = "pass"
    <3>1. /\ Failures' = Failures /\ passed' = passed \cup {Middle}
          /\ passed' \subseteq ContextsOf(Successes)'
      BY <1>0, <2>1, <2>3, <2>6, RunOnceEffect
    <3>2. pc' = "refine" /\ low' = Middle /\ high' = high
      BY <2>1, <2>3, <2>6 DEF Inconclusive
    <3>3. \A n \in passed' : n <= Middle /\ Floor(n) = n
      BY <1>0, <2>1, <2>2, <3>1 DEF TypeOK
    <3>4. \A t \in Failures' : Middle < t.ctx
      BY <1>0, <2>1, <2>2, <2>5, <3>1 DEF TypeOK
    <3>5. Middle <= upper
      BY <1>0, <2>1, <2>2 DEF TypeOK
    <3>6. \A t \in Failures' : high' # 0 /\ high' <= t.ctx
      BY <2>1, <3>1, <3>2
    <3> QED
      BY <1>a, <2>1, <2>2, <2>4, <3>1, <3>2, <3>3, <3>4, <3>5, <3>6
      DEF Evidence, Searching, Floor
  <2>7. CASE state # "pass"
    <3>1. /\ \A t \in Failures' : t \in Failures \/ t.ctx = Middle
          /\ passed' = passed
          /\ passed' \subseteq ContextsOf(Successes)'
      <4>1. Middle \notin passed
        BY <1>0, <2>1, <2>2 DEF TypeOK
      <4>2. /\ \A t \in Failures' : t \in Failures \/ t.ctx = Middle
            /\ passed' = passed \ {Middle}
            /\ ContextsOf(Successes) \subseteq ContextsOf(Successes)'
        BY <1>0, <2>3, <2>7, RunOnceEffect
      <4> QED BY <2>1, <4>1, <4>2
    <3>2. \A t \in Failures' : low < t.ctx /\ Middle <= t.ctx
      BY <1>0, <2>1, <2>2, <2>5, <3>1 DEF TypeOK
    <3>3. /\ low' = low
          /\ pc' = "report" \/ (pc' = "refine" /\ high' = Middle)
      BY <2>1, <2>3, <2>7 DEF Bound
    <3>4. Middle # 0 /\ Middle <= upper
      BY <1>0, <2>1, <2>2 DEF TypeOK
    <3> QED
      BY <1>a, <2>1, <2>4, <3>1, <3>2, <3>3, <3>4
      DEF Evidence, Searching, Floor
  <2> QED BY <2>6, <2>7
<1>5. CASE EndRefine
  <2>1. /\ pc = "refine" /\ pc' = "confirm" /\ Failures' = Failures
        /\ ContextsOf(Successes)' = ContextsOf(Successes)
        /\ UNCHANGED <<passed, low, high, outcomes>> /\ outcomes = {}
    BY <1>5
    DEF EndRefine, search, evidence, Failures, Successes, ContextsOf, Evidence
  <2> QED BY <1>a, <2>1 DEF Evidence, Searching, Floor
<1>6. ASSUME NEW r \in Results(ProbedCtx(Target)), Confirm(r)
      PROVE  Evidence'
  <2>1. /\ pc = "confirm" /\ low # 0 /\ Floor(low) = low /\ low <= upper
        /\ passed \subseteq ContextsOf(Successes)
        /\ \A n \in passed : Floor(n) = n
        /\ low \in passed /\ \A n \in passed : n <= low
        /\ \A t \in Failures :
             low < t.ctx \/ (low = t.ctx /\ ~(outcomes \subseteq {"success"}))
        /\ outcomes \subseteq {"success"} \/ low \in ContextsOf(Failures)
    BY <1>6 DEF Confirm, Evidence, Searching
  <2>2. low \in Nat \ {0} /\ ProbedCtx(low) = low
    BY <1>0, <2>1, AlignedProbe DEF TypeOK
  <2>3. /\ Record(r, low)
        /\ outcomes' = outcomes \cup {KindOf(r, low)}
        /\ IF attempt + 1 < Repeats /\ KindOf(r, low) \notin Inconclusive
             THEN UNCHANGED <<pc, low, high, highReason, passed>>
             ELSE /\ pc' = "report"
                  /\ Mark(low, RunState(outcomes'))
                  /\ IF RunState(outcomes') = "pass"
                       THEN UNCHANGED <<low, high, highReason>>
                       ELSE Withdraw(RunState(outcomes'))
    BY <1>6, <2>2 DEF Confirm
  <2>4. ContextsOf(Successes) \subseteq ContextsOf(Successes)'
    BY <1>0, <2>3, RecordEffect
  <2>5. \A t \in Failures' :
          low < t.ctx \/ (low = t.ctx /\ ~(outcomes' \subseteq {"success"}))
    <3>1. CASE KindOf(r, low) = "success"
      BY <1>0, <2>1, <2>3, <3>1, RecordEffect
    <3>2. CASE KindOf(r, low) # "success"
      BY <1>0, <2>1, <2>3, <3>2, RecordEffect
    <3> QED BY <3>1, <3>2
  <2>6. CASE UNCHANGED <<pc, low, passed>>
    <3>1. outcomes' \subseteq {"success"} \/ low \in ContextsOf(Failures)'
      BY <1>0, <2>1, <2>3, RecordEffect
    <3> QED
      BY <1>a, <2>1, <2>4, <2>5, <2>6, <3>1 DEF Evidence, Searching, Floor
  <2>7. CASE /\ pc' = "report" /\ Mark(low, RunState(outcomes'))
             /\ RunState(outcomes') = "pass" /\ low' = low
    <3>1. outcomes' = {"success"}
      BY <2>3, <2>7, KindOfType DEF RunState
    <3>2. passed' = passed
      BY <2>1, <2>7 DEF Mark
    <3>3. \A t \in Failures' : low' < t.ctx
      BY <2>5, <2>7, <3>1
    <3> QED
      BY <1>a, <2>1, <2>4, <2>7, <3>2, <3>3 DEF Evidence, Searching, Floor
  <2>8. CASE /\ pc' = "report" /\ Mark(low, RunState(outcomes'))
             /\ RunState(outcomes') # "pass" /\ Withdraw(RunState(outcomes'))
    <3>1. passed' = passed \ {low}
      BY <2>8 DEF Mark
    <3>2. low' \in passed \cup {0} /\ IsFallback(low')
      BY <2>8 DEF Withdraw
    <3>3. {k \in passed' : k < low} = passed'
      <4>1. \A k \in passed' : k < low
        BY <1>0, <2>1, <3>1 DEF TypeOK
      <4> QED BY <4>1, Zenon
    <3>4. IF passed' = {} THEN low' = 0
          ELSE low' \in passed' /\ \A k \in passed' : k <= low'
      BY <3>2, <3>3 DEF IsFallback
    <3>5. low' < low
      BY <1>0, <2>1, <3>1, <3>4 DEF TypeOK
    <3>6. Floor(low') = low' /\ \A n \in passed' : Floor(n) = n
      BY <2>1, <3>1, <3>4, FloorBounds
    <3>7. \A t \in Failures' : low' < t.ctx
      <4>1. \A t \in Failures' : t.ctx \in Nat
        BY <1>0 DEF TypeOK, Failures
      <4> QED BY <1>0, <2>2, <2>5, <3>5, <4>1 DEF TypeOK
    <3>8. low' <= upper
      BY <1>0, <2>1, <3>5 DEF TypeOK
    <3>9. /\ low' # 0 => low' \in passed'
          /\ \A n \in passed' : n <= low'
      BY <3>4
    <3> QED
      BY <1>a, <2>1, <2>4, <2>8, <3>1, <3>6, <3>7, <3>8, <3>9
      DEF Evidence, Searching, Floor
  <2> QED BY <2>3, <2>6, <2>7, <2>8
<1>7. CASE TooSmall
  <2>1. /\ pc' = "raised" /\ ContextsOf(Successes)' = ContextsOf(Successes)
        /\ UNCHANGED passed
    BY <1>7 DEF TooSmall, evidence, Successes, ContextsOf
  <2> QED BY <1>a, <2>1 DEF Evidence, Searching, Floor
<1>8. CASE Report
  <2>1. /\ pc = "report" /\ pc' = "done" /\ Failures' = Failures
        /\ ContextsOf(Successes)' = ContextsOf(Successes)
        /\ UNCHANGED <<passed, low, high, outcomes>>
        /\ report'.benchmarkable = low
    BY <1>8 DEF Report, search, evidence, Failures, Successes, ContextsOf
  <2> QED BY <1>a, <2>1 DEF Evidence, Searching, Floor
<1>9. CASE UNCHANGED vars
  <2>1. /\ Failures' = Failures
        /\ ContextsOf(Successes)' = ContextsOf(Successes)
        /\ ContextsOf(Failures)' = ContextsOf(Failures)
        /\ UNCHANGED <<pc, point, passed, low, high, outcomes, trials, report>>
    BY <1>9 DEF vars, search, evidence, Failures, Successes, ContextsOf
  <2> QED BY <1>a, <2>1 DEF Evidence, Searching, Floor
<1> QED
  BY <1>1, <1>2, <1>3, <1>4, <1>5, <1>6, <1>7, <1>8, <1>9 DEF Next, Terminating,
     Probe, Decide

(* The invariant about the evidence.                                       *)
LEMMA EvidenceInvariant == Spec /\ AlignedInputs => []EvidenceInv
BY EvidenceInit, EvidenceNext, PTL DEF Spec

(* What is reported is what the evidence shows.                            *)
LEMMA AnswerFromEvidence == EvidenceInv => AnswerHasEvidence
<1> SUFFICES ASSUME EvidenceInv, pc = "done", report.benchmarkable # 0
             PROVE  /\ report.benchmarkable \in ContextsOf(Successes)
                    /\ \A t \in Failures : t.ctx > report.benchmarkable
                    /\ report.benchmarkable <= upper
  BY DEF AnswerHasEvidence
<1>1. /\ low = report.benchmarkable /\ low \in Nat /\ low <= upper
      /\ low \in ContextsOf(Successes)
      /\ \A t \in Failures : low < t.ctx
  BY DEF EvidenceInv, Evidence, Searching, TypeInv, TypeOK
<1>2. \A t \in Failures : t.ctx \in Nat
  BY DEF EvidenceInv, TypeInv, TypeOK, Failures
<1> QED BY <1>1, <1>2

(* The context answered succeeded in a probe of its own, no context at or  *)
(* below it failed in any probe, and it is within the limit.               *)
THEOREM AnswerCorrect == Spec /\ AlignedInputs => []AnswerHasEvidence
BY AnswerFromEvidence, EvidenceInvariant, PTL

(* In every phase the lower end of the bracket has succeeded and lies      *)
(* below all failures, but for the one that ends its own confirmation.     *)
THEOREM BracketCorrect == Spec /\ AlignedInputs => []BracketHasEvidence
<1>1. EvidenceInv => BracketHasEvidence
  BY DEF EvidenceInv, Evidence, Searching, BracketHasEvidence
<1> QED BY <1>1, EvidenceInvariant, PTL

-------------------------------------------------------------------------------
(* Refinement of the abstract bracket search.                              *)

Good == passed \ ContextsOf(Failures)

(* The sizes of the bracket are sizes of BracketSearch.                    *)
LEMMA SizesType ==
  ASSUME TypeOK, NEW n \in Nat \ {0}, n <= upper, Floor(n) = n
  PROVE  n \in {m \in 1 .. MaxCtx : Floor(m) = m}
<1>1. n \in 1 .. MaxCtx
  BY FrontierAssumption DEF TypeOK
<1> QED BY <1>1, Zenon

(* A passing probe inside the bracket is accepted, a failing one rejected. *)
LEMMA ProbeRefines ==
  ASSUME EvidenceInv, NEW ctx \in Nat \ {0}, NEW r, NEW state,
         RunOnce(r, ctx, state), ctx <= upper, Floor(ctx) = ctx,
         \A n \in passed : n < ctx,
         \A n \in ContextsOf(Failures) : ctx < n,
         pc # "done", pc' # "done"
  PROVE  BS!Next
<1>1. TypeOK
  BY DEF EvidenceInv, TypeInv
<1>2. ctx \in {m \in 1 .. MaxCtx : Floor(m) = m}
  BY <1>1, SizesType
<1>3. /\ \A n \in Good : n < ctx
      /\ ctx \notin passed /\ ctx \notin ContextsOf(Failures)
  <2>1. ~(ctx < ctx)
    OBVIOUS
  <2> QED BY <2>1 DEF Good
<1>4. CASE state = "pass"
  <2>1. /\ passed' = passed \cup {ctx}
        /\ ContextsOf(Failures)' = ContextsOf(Failures)
    BY <1>1, <1>4, RunOnceEffect
  <2>2. passed' \ ContextsOf(Failures)' = Good \cup {ctx}
    BY <1>3, <2>1 DEF Good
  <2>3. BS!Accept(ctx)
    BY <1>3, <2>1, <2>2 DEF BS!Accept, BS!InBracket, Good
  <2> QED BY <1>2, <2>3 DEF BS!Next
<1>5. CASE state # "pass"
  <2>1. /\ passed' = passed \ {ctx}
        /\ ContextsOf(Failures)' = ContextsOf(Failures) \cup {ctx}
    BY <1>1, <1>5, RunOnceEffect
  <2>2. passed' \ ContextsOf(Failures)' = Good
    BY <1>3, <2>1 DEF Good
  <2>3. BS!Reject(ctx)
    BY <1>3, <2>1, <2>2 DEF BS!Reject, BS!InBracket, Good
  <2> QED BY <1>2, <2>3 DEF BS!Next
<1> QED BY <1>4, <1>5

(* Initial states are initial states of BracketSearch.                     *)
LEMMA RefinementInit == Init => BS!Init
BY DEF Init, Begin, BS!Init, ContextsOf, Failures, Successes

(* Steps that leave the evidence alone and do not answer stutter.          *)
LEMMA Stutters ==
  ASSUME UNCHANGED <<passed, trials>>, pc # "done", pc' # "done"
  PROVE  UNCHANGED BS!vars
BY DEF BS!vars, ContextsOf, Failures, Successes

(* Every step is one of BracketSearch, or changes nothing it sees.         *)
LEMMA RefinementNext ==
  EvidenceInv /\ EvidenceInv' /\ [Next]_vars => [BS!Next]_(BS!vars)
<1> SUFFICES ASSUME EvidenceInv, EvidenceInv', [Next]_vars
             PROVE  BS!Next \/ UNCHANGED BS!vars
  OBVIOUS
<1>0. TypeOK /\ TypeOK' /\ Evidence /\ AlignedInputs
  BY DEF EvidenceInv, TypeInv
<1>f. \A n \in ContextsOf(Failures) : \E t \in Failures : n = t.ctx
  BY DEF ContextsOf
<1>1. ASSUME NEW r \in Results(ProbedCtx(Target)), First(r)
      PROVE  BS!Next \/ UNCHANGED BS!vars
  <2>1. PICK state \in RunStates :
          RunOnce(r, Start, state) /\ pc = "first" /\ pc' \in {"grow", "report"}
    BY <1>0, <1>1, StartAligned DEF First, Evidence
  <2>2. passed = {} /\ ContextsOf(Failures) = {}
    BY <1>0, <2>1 DEF Evidence, Failures, Successes, ContextsOf
  <2>3. Start \in Nat \ {0} /\ Start <= upper /\ Floor(Start) = Start
    BY <1>0, StartAligned DEF Evidence
  <2> QED BY <2>1, <2>2, <2>3, ProbeRefines
<1>2. ASSUME NEW r \in Results(ProbedCtx(Target)), Grow(r)
      PROVE  BS!Next \/ UNCHANGED BS!vars
  <2>1. /\ pc = "grow" /\ point = low /\ point # 0 /\ point < upper
        /\ Floor(point) = point
        /\ \A n \in passed : n <= point
        /\ ContextsOf(Failures) = {}
    BY <1>0, <1>2 DEF Grow, Growing, Evidence, Searching, ContextsOf
  <2>2. /\ Doubled \in Nat \ {0} /\ point < Doubled /\ Doubled <= upper
        /\ Floor(Doubled) = Doubled /\ ProbedCtx(Doubled) = Doubled
    BY <1>0, <2>1, DoubledAligned DEF AlignedInputs
  <2>3. PICK state \in RunStates :
          RunOnce(r, Doubled, state) /\ pc' \in {"grow", "refine", "report"}
    BY <1>2, <2>1, <2>2 DEF Grow
  <2>4. \A n \in passed : n < Doubled
    BY <1>0, <2>1, <2>2 DEF TypeOK
  <2> QED BY <2>1, <2>2, <2>3, <2>4, ProbeRefines
<1>3. CASE EndGrow
  BY <1>3, Stutters DEF EndGrow, search, evidence
<1>4. ASSUME NEW r \in Results(ProbedCtx(Target)), Refine(r)
      PROVE  BS!Next \/ UNCHANGED BS!vars
  <2>1. /\ pc = "refine" /\ Refining /\ low # 0 /\ high <= upper
        /\ Floor(low) = low
        /\ \A n \in passed : n <= low
        /\ \A t \in Failures : high <= t.ctx
    BY <1>0, <1>4 DEF Refine, Refining, Evidence, Searching
  <2>2. /\ Middle \in Nat \ {0} /\ low < Middle /\ Middle < high
        /\ Floor(Middle) = Middle /\ ProbedCtx(Middle) = Middle
    BY <1>0, <2>1, MiddleAligned
  <2>3. PICK state \in RunStates :
          RunOnce(r, Middle, state) /\ pc' \in {"refine", "report"}
    BY <1>4, <2>1, <2>2 DEF Refine
  <2>4. \A n \in passed : n < Middle
    BY <1>0, <2>1, <2>2 DEF TypeOK
  <2>5. \A n \in ContextsOf(Failures) : Middle < n
    <3>1. \A t \in Failures : t.ctx \in Nat
      BY <1>0 DEF TypeOK, Failures
    <3> QED BY <1>0, <1>f, <2>1, <2>2, <3>1 DEF TypeOK
  <2>6. Middle <= upper
    BY <1>0, <2>1, <2>2 DEF TypeOK
  <2> QED BY <2>1, <2>2, <2>3, <2>4, <2>5, <2>6, ProbeRefines
<1>5. CASE EndRefine
  BY <1>5, Stutters DEF EndRefine, search, evidence
<1>6. ASSUME NEW r \in Results(ProbedCtx(Target)), Confirm(r)
      PROVE  BS!Next \/ UNCHANGED BS!vars
  <2>1. /\ pc = "confirm" /\ low # 0 /\ Floor(low) = low /\ low <= upper
        /\ low \in passed /\ \A n \in passed : n <= low
        /\ pc' \in {"confirm", "report"}
        /\ outcomes \subseteq {"success"} \/ low \in ContextsOf(Failures)
    BY <1>0, <1>6 DEF Confirm, Evidence, Searching
  <2>2. low \in Nat \ {0} /\ ProbedCtx(low) = low
    BY <1>0, <2>1, AlignedProbe DEF TypeOK
  <2>3. low \in {m \in 1 .. MaxCtx : Floor(m) = m}
    BY <1>0, <2>1, <2>2, SizesType
  <2>4. /\ Record(r, low)
        /\ outcomes' = outcomes \cup {KindOf(r, low)}
        /\ \/ passed' = passed
           \/ Mark(low, RunState(outcomes'))
    BY <1>6, <2>2 DEF Confirm
  <2>5. passed' = passed \/ (passed' = passed \ {low} /\ outcomes' # {"success"})
    BY <2>1, <2>4 DEF Mark, RunState
  <2>6. CASE KindOf(r, low) = "success"
    <3>1. ContextsOf(Failures)' = ContextsOf(Failures)
      BY <1>0, <2>4, <2>6, RecordEffect
    <3>2. passed' # passed => low \in ContextsOf(Failures)
      BY <2>1, <2>4, <2>5, <2>6
    <3>3. passed' \ ContextsOf(Failures)' = passed \ ContextsOf(Failures)
      BY <2>5, <3>1, <3>2
    <3> QED BY <2>1, <3>1, <3>3 DEF BS!vars
  <2>7. CASE KindOf(r, low) # "success"
    <3>1. ContextsOf(Failures)' = ContextsOf(Failures) \cup {low}
      BY <1>0, <2>4, <2>7, RecordEffect
    <3>2. passed' \ ContextsOf(Failures)' = Good \ {low}
      BY <2>5, <3>1 DEF Good
    <3>3. CASE low \in ContextsOf(Failures)
      <4>1. passed' \ ContextsOf(Failures)' = Good
        BY <3>2, <3>3 DEF Good
      <4> QED BY <2>1, <3>1, <3>3, <4>1 DEF BS!vars, Good
    <3>4. CASE low \notin ContextsOf(Failures)
      <4>1. BS!IsLargest(low, Good)
        BY <2>1, <3>4 DEF Good, BS!IsLargest
      <4>2. BS!Retract(low)
        BY <2>1, <3>1, <3>2, <4>1 DEF BS!Retract, Good
      <4> QED BY <2>3, <4>2 DEF BS!Next
    <3> QED BY <3>3, <3>4
  <2> QED BY <2>6, <2>7
<1>7. CASE TooSmall
  BY <1>7, Stutters DEF TooSmall, Running, Growing, Refining, evidence
<1>8. CASE Report
  <2>1. /\ pc = "report" /\ pc' = "done"
        /\ UNCHANGED <<passed, trials>>
        /\ report'.benchmarkable = low
        /\ low <= upper /\ Floor(low) = low
        /\ low # 0 => low \in passed
        /\ \A n \in passed : n <= low
        /\ \A t \in Failures : low < t.ctx
    BY <1>0, <1>8 DEF Report, search, evidence, Evidence, Searching
  <2>2. low \notin ContextsOf(Failures)
    <3>1. ~(low < low)
      BY <1>0 DEF TypeOK
    <3> QED BY <1>f, <2>1, <3>1
  <2>3. UNCHANGED <<Good, ContextsOf(Failures)>>
    BY <2>1 DEF Good, ContextsOf, Failures, Successes
  <2>4. CASE low = 0
    <3>1. Good = {}
      <4>1. passed \subseteq Nat \ {0} /\ \A n \in passed : n <= 0
        BY <1>0, <2>1, <2>4 DEF TypeOK
      <4>2. \A n \in passed : FALSE
        BY <4>1
      <4> QED BY <4>2 DEF Good
    <3>2. BS!Answer(0)
      BY <2>1, <2>3, <2>4, <3>1 DEF BS!Answer, Good
    <3> QED BY <3>2 DEF BS!Next
  <2>5. CASE low # 0
    <3>1. low \in Good /\ \A n \in Good : n <= low
      BY <2>1, <2>2, <2>5 DEF Good
    <3>2. BS!Answer(low)
      BY <2>1, <2>3, <3>1 DEF BS!Answer, BS!IsLargest, Good
    <3>3. low \in {m \in 1 .. MaxCtx : Floor(m) = m}
      BY <1>0, <2>1, <2>5, SizesType DEF TypeOK
    <3> QED BY <3>2, <3>3 DEF BS!Next
  <2> QED BY <2>4, <2>5
<1>9. CASE UNCHANGED vars
  BY <1>9 DEF vars, search, evidence, BS!vars, ContextsOf, Failures, Successes
<1> QED
  BY <1>1, <1>2, <1>3, <1>4, <1>5, <1>6, <1>7, <1>8, <1>9 DEF Next, Terminating,
     Probe, Decide

(* The search implements the abstract bracket search: every trial narrows  *)
(* the bracket from inside or withdraws its lower end, and the answer is   *)
(* the largest context without a failure.                                  *)
THEOREM Refinement == Spec /\ AlignedInputs => ImplementsBracketSearch
BY RefinementInit, RefinementNext, EvidenceInvariant, PTL
DEF ImplementsBracketSearch, BS!Spec, Spec

-------------------------------------------------------------------------------
(* How good the answer is: how far from the failures the recommended       *)
(* context stays, and how near to one the bracket is closed.               *)

(* The recommendation keeps both distances to any larger context.          *)
LEMMA RecommendedBelow ==
  ASSUME NEW n \in Nat, NEW m \in Nat, n < m, Recommended(n) # 0
  PROVE  /\ Recommended(n) + HeadroomTokens < m
         /\ 100 * Recommended(n) < (100 - HeadroomPercent) * m
<1> DEFINE share == n * HeadroomPercent
           percent == (share + 99) \div 100
           margin == Larger(HeadroomTokens, percent)
           left == n - margin
<1>1. HeadroomPercent \in 0 .. 99 /\ HeadroomTokens \in Nat /\ Resolution \in Nat \ {0}
  BY FrontierAssumption
<1>2. share \in Nat
  BY <1>1
<1> HIDE DEF share
<1>3. percent \in Nat /\ 100 * percent >= share
  BY <1>2
<1> HIDE DEF percent
<1>4. margin \in Nat /\ margin >= HeadroomTokens /\ margin >= percent
  BY <1>1, <1>3 DEF Larger
<1> HIDE DEF margin
<1>5. left \in Int /\ left <= n - HeadroomTokens /\ 100 * left <= 100 * n - share
  BY <1>1, <1>2, <1>3, <1>4
<1>6. Recommended(n) = Larger(0, Floor(n - margin))
  BY DEF Recommended, margin, percent, share
<1>7. Recommended(n) = Floor(left) /\ Floor(left) > 0 /\ Floor(left) \in Int
  BY <1>5, <1>6, FloorInt DEF Larger
<1>8. Floor(left) <= left
  <2> HIDE DEF left
  <2> QED
    BY <1>1, <1>5 DEF Floor
<1> HIDE DEF left
<1>9. Recommended(n) \in Nat /\ Recommended(n) <= left
  BY <1>7, <1>8
<1>10. Recommended(n) + HeadroomTokens < m
  BY <1>1, <1>5, <1>9
<1>11. 100 * Recommended(n) <= 100 * n - n * HeadroomPercent
  BY <1>2, <1>5, <1>9 DEF share
<1>12. (100 - HeadroomPercent) * n < (100 - HeadroomPercent) * m
  BY <1>1
<1>13. 100 * n - n * HeadroomPercent = (100 - HeadroomPercent) * n
  BY <1>1
<1> QED
  BY <1>10, <1>11, <1>12, <1>13, <1>1, <1>9

-------------------------------------------------------------------------------
(* The bracket at the end.                                                 *)

(* The upper end of the bracket failed, and is a step away once the search *)
(* has refined it, unless something else has ended the search.             *)
Undisturbed == verdict = "none" /\ outcomes \subseteq {"success"} /\ high # 0

Closing ==
  /\ pc \in {"first", "grow", "refine", "confirm"} => verdict = "none"
  /\ pc \in {"refine", "confirm", "report", "done"} /\ Undisturbed =>
       high \in ContextsOf(Failures)
  /\ pc \in {"confirm", "report", "done"} /\ Undisturbed => high - low <= Resolution
  /\ pc = "done" /\ report.safe # 0 /\ report.status # "time_limited" =>
       report.safe = Recommended(low)

(* A bracket that is not refined further is closed.                        *)
LEMMA Refined ==
  ASSUME TypeOK, Floor(low) = low, pc = "refine", low < high, ~Refining
  PROVE  high - low <= Resolution
<1> DEFINE half == (low + high) \div 2
<1>1. low \in Nat /\ high \in Nat /\ Resolution \in Nat \ {0}
  BY FrontierAssumption DEF TypeOK
<1>2. half \in Nat /\ half < high
  BY <1>1
<1>3. Middle = IF Floor(half) <= low THEN low + Resolution ELSE Floor(half)
  BY DEF Middle
<1> HIDE DEF half
<1>4. Floor(half) \in Nat /\ Floor(half) <= half
  BY <1>2, FloorBounds
<1>5. SUFFICES ASSUME high - low > Resolution
               PROVE  FALSE
  BY <1>1
<1>6. Middle < high
  BY <1>1, <1>2, <1>3, <1>4, <1>5
<1> QED
  BY <1>1, <1>5, <1>6 DEF Refining

(* Every step keeps what is known of the upper end and the report.         *)
LEMMA ClosingNext == EvidenceInv /\ Closing /\ [Next]_vars => Closing'
<1> SUFFICES ASSUME EvidenceInv, Closing, [Next]_vars
             PROVE  Closing'
  OBVIOUS
<1>0. TypeOK /\ Evidence /\ AlignedInputs
  BY DEF EvidenceInv, TypeInv
<1>1. ASSUME NEW r \in Results(ProbedCtx(Target)), First(r)
      PROVE  Closing'
  BY <1>1 DEF First, Closing, Undisturbed, RunStates, Inconclusive
<1>2. ASSUME NEW r \in Results(ProbedCtx(Target)), Grow(r)
      PROVE  Closing'
  <2>1. /\ pc = "grow" /\ point = low /\ point # 0 /\ point < upper
        /\ Floor(point) = point /\ verdict = "none"
    BY <1>0, <1>2 DEF Grow, Growing, Evidence, Searching, Closing
  <2>2. ProbedCtx(Doubled) = Doubled
    BY <1>0, <2>1, DoubledAligned DEF AlignedInputs
  <2>3. PICK state \in RunStates :
          /\ RunOnce(r, Doubled, state)
          /\ CASE state = "pass" -> UNCHANGED <<pc, high, verdict>>
               [] state \in Inconclusive -> pc' = "report" /\ verdict' = state
               [] OTHER -> pc' = "refine" /\ high' = Doubled /\ UNCHANGED verdict
    BY <1>2, <2>2 DEF Grow, Bound
  <2>4. state # "pass" => Doubled \in ContextsOf(Failures)'
    BY <1>0, <2>3, RunOnceEffect
  <2> QED
    BY <2>1, <2>3, <2>4 DEF Closing, Undisturbed, Inconclusive
<1>3. CASE EndGrow
  BY <1>0, <1>3 DEF EndGrow, search, Evidence, Closing, Undisturbed
<1>4. ASSUME NEW r \in Results(ProbedCtx(Target)), Refine(r)
      PROVE  Closing'
  <2>1. /\ pc = "refine" /\ Refining /\ low # 0 /\ Floor(low) = low /\ verdict = "none"
    BY <1>0, <1>4 DEF Refine, Refining, Evidence, Searching, Closing
  <2>2. ProbedCtx(Middle) = Middle
    BY <1>0, <2>1, MiddleAligned
  <2>3. PICK state \in RunStates :
          /\ RunOnce(r, Middle, state)
          /\ CASE state = "pass" -> UNCHANGED <<pc, high, verdict>>
               [] state \in Inconclusive -> pc' = "report" /\ verdict' = state
               [] OTHER -> high' = Middle /\ UNCHANGED <<pc, verdict>>
    BY <1>4, <2>2 DEF Refine, Bound
  <2>4. /\ state # "pass" => Middle \in ContextsOf(Failures)'
        /\ state = "pass" => ContextsOf(Failures)' = ContextsOf(Failures)
    BY <1>0, <2>3, RunOnceEffect
  <2>5. UNCHANGED outcomes
    BY <1>4 DEF Refine
  <2> QED
    BY <2>1, <2>3, <2>4, <2>5 DEF Closing, Undisturbed, Inconclusive
<1>5. CASE EndRefine
  <2>1. /\ pc = "refine" /\ ~Refining /\ Floor(low) = low /\ pc' = "confirm"
        /\ UNCHANGED <<search, evidence, report>>
    BY <1>0, <1>5 DEF EndRefine, Evidence, Searching
  <2>2. ContextsOf(Failures)' = ContextsOf(Failures)
    BY <2>1 DEF evidence, Failures, Successes, ContextsOf
  <2>3. ASSUME Undisturbed
        PROVE  high \in ContextsOf(Failures) /\ low < high
    BY <1>0, <2>1, <2>3 DEF Closing, Evidence, Searching, ContextsOf
  <2>4. ASSUME Undisturbed
        PROVE  high - low <= Resolution
    BY <1>0, <2>1, <2>3, <2>4, Refined
  <2> QED
    BY <2>1, <2>2, <2>3, <2>4 DEF search, evidence, Closing, Undisturbed
<1>6. ASSUME NEW r \in Results(ProbedCtx(Target)), Confirm(r)
      PROVE  Closing'
  <2>1. pc = "confirm" /\ verdict = "none" /\ ProbedCtx(low) = low
    BY <1>0, <1>6, AlignedProbe DEF Confirm, Evidence, Searching, Closing, TypeOK
  <2>2. /\ Record(r, low) /\ outcomes' = outcomes \cup {KindOf(r, low)} /\ UNCHANGED verdict
        /\ \/ UNCHANGED <<pc, low, high>>
           \/ pc' = "report" /\ (RunState(outcomes') = "pass" => UNCHANGED <<low, high>>)
    BY <1>6, <2>1 DEF Confirm
  <2>3. ASSUME outcomes' \subseteq {"success"}
        PROVE  /\ UNCHANGED <<low, high>> /\ outcomes \subseteq {"success"}
               /\ ContextsOf(Failures)' = ContextsOf(Failures)
    <3>1. outcomes' = {"success"} /\ KindOf(r, low) = "success"
      BY <2>2, <2>3
    <3>2. RunState(outcomes') = "pass"
      BY <3>1 DEF RunState
    <3> QED
      BY <1>0, <2>2, <3>1, <3>2, RecordEffect
  <2>4. pc' \in {"confirm", "report"} /\ verdict' = "none"
    BY <2>1, <2>2
  <2> QED
    BY <2>1, <2>3, <2>4 DEF Closing, Undisturbed
<1>7. CASE TooSmall
  BY <1>7 DEF TooSmall, Closing
<1>8. CASE Report
  <2>1. /\ pc = "report" /\ pc' = "done" /\ UNCHANGED <<search, evidence>>
        /\ report'.safe = Safe /\ report'.status = Status
    BY <1>8 DEF Report
  <2>2. ContextsOf(Failures)' = ContextsOf(Failures)
    BY <2>1 DEF evidence, Failures, Successes, ContextsOf
  <2>3. Safe # 0 /\ Status # "time_limited" => Safe = Recommended(low)
    BY DEF Safe
  <2>4. Recommended(low)' = Recommended(low)
    BY <2>1 DEF search, Recommended, Floor, Larger
  <2> QED
    BY <2>1, <2>2, <2>3, <2>4 DEF search, evidence, Closing, Undisturbed
<1>9. CASE UNCHANGED vars
  <2>1. ContextsOf(Failures)' = ContextsOf(Failures)
    BY <1>9 DEF vars, evidence, Failures, Successes, ContextsOf
  <2> QED
    BY <1>9, <2>1 DEF vars, search, evidence, Closing, Undisturbed
<1> QED
  BY <1>1, <1>2, <1>3, <1>4, <1>5, <1>6, <1>7, <1>8, <1>9 DEF Next, Terminating,
     Probe, Decide

(* It holds throughout.                                                    *)
LEMMA ClosingInvariant == Spec /\ AlignedInputs => []Closing
<1>1. Init => Closing
  BY DEF Init, Begin, Closing
<1> QED
  BY <1>1, ClosingNext, EvidenceInvariant, PTL DEF Spec

(* A search that ends undisturbed, with an answer that was confirmed, has  *)
(* a failure at most one step of the resolution above the answer.          *)
THEOREM ResolvedCorrect == Spec /\ AlignedInputs => []BracketResolved
<1>1. Closing => BracketResolved
  BY DEF Closing, Undisturbed, BracketResolved
<1> QED
  BY <1>1, ClosingInvariant, PTL

(* With the answer below every failure, so is the recommendation.          *)
LEMMA HeadroomFromClosing == EvidenceInv /\ Closing => HeadroomBelowFailures
<1> SUFFICES ASSUME EvidenceInv, Closing, pc = "done", report.safe # 0,
                    report.status # "time_limited",
                    NEW t \in trials, t.outcome = "context"
             PROVE  /\ report.safe + HeadroomTokens < t.ctx
                    /\ 100 * report.safe < (100 - HeadroomPercent) * t.ctx
  BY DEF HeadroomBelowFailures
<1>1. t \in Failures /\ t.ctx \in Nat /\ low \in Nat
  BY DEF Failures, Successes, EvidenceInv, TypeInv, TypeOK
<1>2. low < t.ctx
  BY <1>1 DEF EvidenceInv, Evidence, Searching
<1>3. report.safe = Recommended(low)
  BY DEF Closing
<1> QED
  BY <1>1, <1>2, <1>3, RecommendedBelow

(* The recommended context keeps both configured distances to every        *)
(* context that was too large, unless the search ran out of time.          *)
THEOREM HeadroomCorrect == Spec /\ AlignedInputs => []HeadroomBelowFailures
BY HeadroomFromClosing, ClosingInvariant, EvidenceInvariant, PTL

-------------------------------------------------------------------------------
(* The status.                                                             *)

Saw(kind) == \E t \in trials : t.outcome = kind

(* What stands behind everything that the status is derived from: each     *)
(* outcome the search acts on was seen, an upper end stands for a failure, *)
(* and a bracket without one is at the limit until a confirmation fails.   *)
Reasons ==
  /\ pc = "first" => high = 0
  /\ \A kind \in outcomes : Saw(kind)
  /\ \/ verdict = "none"
     \/ verdict = "time_limited" /\ Saw("timeout")
     \/ verdict = "fail" /\ low = 0 /\ Saw("context")
     \/ verdict \in Inconclusive /\ Saw(verdict)
  /\ highReason = "timeout" => Saw("timeout")
  /\ high # 0 => Failures # {}
  /\ pc \in {"refine", "confirm"} /\ high = 0 =>
       /\ low = upper
       /\ Failures = {} \/ ~(outcomes \subseteq {"success"})
  /\ pc \in {"report", "done"} /\ verdict = "none" /\ high = 0 =>
       (low = upper <=> Failures = {})
  /\ pc = "done" => report.status = Status

(* What was seen stays, and a trial adds its outcome.                      *)
LEMMA RecordSaw ==
  ASSUME TypeOK, NEW ctx, NEW r, Record(r, ctx), NEW outcome, outcome = KindOf(r, ctx)
  PROVE  /\ \A kind : Saw(kind) => Saw(kind)'
         /\ Saw(outcome)'
         /\ Failures' = {} <=> Failures = {} /\ outcome = "success"
<1> DEFINE t0 == [ctx |-> ctx, outcome |-> KindOf(r, ctx), initialized |-> r.initialized]
<1>1. trials' = trials \cup {t0}
  BY DEF Record
<1>2. t0.outcome = outcome
  OBVIOUS
<1> HIDE DEF t0
<1>3. /\ \A kind : Saw(kind) => Saw(kind)'
      /\ Saw(outcome)'
  BY <1>1, <1>2 DEF Saw
<1>4. \A t : t \in Failures' <=> t \in Failures \/ (t = t0 /\ outcome # "success")
  BY <1>1, <1>2 DEF Failures, Successes
<1>5. Failures' = {} <=> Failures = {} /\ outcome = "success"
  BY <1>4
<1> QED
  BY <1>3, <1>5

(* A run of one trial ends in the state its outcome gives.                 *)
LEMMA RunOnceSaw ==
  ASSUME TypeOK, NEW ctx, NEW r, NEW state, RunOnce(r, ctx, state)
  PROVE  /\ \A kind : Saw(kind) => Saw(kind)'
         /\ state \in {"pass", "fail", "timeout"} \cup Inconclusive
         /\ state = "fail" => Saw("context")'
         /\ state = "timeout" => Saw("timeout")'
         /\ state \in Inconclusive => Saw(state)'
         /\ Failures' = {} <=> Failures = {} /\ state = "pass"
<1>1. PICK outcome \in Kinds :
        outcome = KindOf(r, ctx) /\ Record(r, ctx) /\ state = RunState({outcome})
  BY KindOfType DEF RunOnce
<1>2. ASSUME NEW kind \in Kinds
      PROVE  RunState({kind}) = CASE kind = "success" -> "pass"
                                  [] kind = "context" -> "fail"
                                  [] OTHER -> kind
  BY DEF RunState, Kinds
<1>3. /\ \A kind : Saw(kind) => Saw(kind)'
      /\ Saw(outcome)'
      /\ Failures' = {} <=> Failures = {} /\ outcome = "success"
  BY <1>1, RecordSaw
<1> QED
  BY <1>1, <1>2, <1>3 DEF Kinds, Inconclusive

(* A withdrawn point leaves a lower one, and an upper end after a timeout. *)
LEMMA WithdrawLower ==
  ASSUME TypeOK, low # 0, NEW state, Withdraw(state)
  PROVE  /\ low' < low
         /\ IF state = "timeout" THEN high' # 0 /\ highReason' = "timeout"
            ELSE UNCHANGED <<high, highReason>>
<1>1. PICK m \in passed \cup {0} :
        /\ IsFallback(m)
        /\ low' = m
        /\ IF state = "timeout"
             THEN /\ highReason' = "timeout"
                  /\ high' = IF high # 0 THEN high
                             ELSE IF m # 0 THEN m + Resolution ELSE base
             ELSE UNCHANGED <<high, highReason>>
  BY DEF Withdraw
<1>2. m < low
  <2>1. m = 0 \/ m \in {k \in passed' : k < low}
    BY <1>1 DEF IsFallback
  <2> QED
    BY <2>1 DEF TypeOK
<1> QED
  BY <1>1, <1>2, FrontierAssumption DEF TypeOK

(* Every step keeps them.                                                  *)
LEMMA ReasonsNext ==
  EvidenceInv /\ Closing /\ Reasons /\ [Next]_vars => Reasons'
<1> SUFFICES ASSUME EvidenceInv, Closing, Reasons, [Next]_vars
             PROVE  Reasons'
  OBVIOUS
<1>0. TypeOK /\ Evidence /\ AlignedInputs
  BY DEF EvidenceInv, TypeInv
<1>1. ASSUME NEW r \in Results(ProbedCtx(Target)), First(r)
      PROVE  Reasons'
  <2>1. /\ pc = "first" /\ high = 0 /\ low = 0 /\ verdict = "none" /\ outcomes = {}
        /\ Failures = {}
    BY <1>0, <1>1 DEF First, Closing, Reasons, Evidence, Failures
  <2>2. PICK state \in RunStates :
          /\ RunOnce(r, ProbedCtx(Start), state)
          /\ IF state = "pass"
               THEN pc' = "grow" /\ UNCHANGED <<high, highReason, verdict>>
               ELSE /\ pc' = "report"
                    /\ verdict' = IF state = "timeout" THEN "time_limited" ELSE state
                    /\ IF state \in Inconclusive
                         THEN UNCHANGED <<high, highReason>>
                         ELSE highReason' = IF state = "timeout" THEN "timeout" ELSE "fail"
                    /\ UNCHANGED low
    BY <1>1 DEF First, Bound
  <2>3. outcomes' = {}
    BY <1>1, <2>1 DEF First
  <2> QED
    BY <1>0, <2>1, <2>2, <2>3, RunOnceSaw DEF Reasons, Inconclusive
<1>2. ASSUME NEW r \in Results(ProbedCtx(Target)), Grow(r)
      PROVE  Reasons'
  <2>1. /\ pc = "grow" /\ high = 0 /\ verdict = "none" /\ outcomes = {} /\ outcomes' = {}
        /\ point = low /\ point # 0 /\ point < upper /\ Floor(point) = point
    BY <1>0, <1>2 DEF Grow, Growing, Closing, Evidence, Searching
  <2>2. Doubled # 0
    BY <1>0, <2>1, DoubledAligned DEF AlignedInputs
  <2>3. PICK state \in RunStates :
          /\ RunOnce(r, ProbedCtx(Doubled), state)
          /\ CASE state = "pass" -> UNCHANGED <<pc, high, highReason, verdict>>
               [] state \in Inconclusive ->
                    /\ pc' = "report" /\ verdict' = state
                    /\ UNCHANGED <<low, high, highReason>>
               [] OTHER ->
                    /\ pc' = "refine" /\ high' = Doubled
                    /\ highReason' = IF state = "timeout" THEN "timeout" ELSE "fail"
                    /\ UNCHANGED <<low, verdict>>
    BY <1>2 DEF Grow, Bound
  <2> QED
    BY <1>0, <2>1, <2>2, <2>3, RunOnceSaw DEF Reasons, Inconclusive
<1>3. CASE EndGrow
  <2>1. /\ pc = "grow" /\ pc' = "refine" /\ point = low /\ point # 0
        /\ Floor(point) = point /\ low <= upper /\ Failures = {}
        /\ UNCHANGED <<upper, low, high, highReason, verdict, outcomes, trials>>
    BY <1>0, <1>3 DEF EndGrow, search, evidence, Evidence, Searching
  <2>2. low = upper
    <3>1. CASE point < upper
      <4>1. point < Doubled
        BY <1>0, <2>1, <3>1, DoubledAligned DEF AlignedInputs
      <4> QED
        BY <1>3, <2>1, <3>1, <4>1 DEF EndGrow, Growing
    <3> QED
      BY <1>0, <2>1, <3>1 DEF TypeOK
  <2> QED
    BY <2>1, <2>2 DEF Reasons, Saw, Failures, Successes
<1>4. ASSUME NEW r \in Results(ProbedCtx(Target)), Refine(r)
      PROVE  Reasons'
  <2>1. /\ pc = "refine" /\ high # 0 /\ verdict = "none" /\ outcomes = {} /\ outcomes' = {}
        /\ Floor(low) = low /\ low # 0 /\ Refining
    BY <1>0, <1>4 DEF Refine, Refining, Closing, Evidence, Searching
  <2>2. Middle # 0
    BY <1>0, <2>1, MiddleAligned
  <2>3. PICK state \in RunStates :
          /\ RunOnce(r, ProbedCtx(Middle), state)
          /\ CASE state = "pass" -> UNCHANGED <<pc, high, highReason, verdict>>
               [] state \in Inconclusive ->
                    /\ pc' = "report" /\ verdict' = state
                    /\ UNCHANGED <<low, high, highReason>>
               [] OTHER ->
                    /\ high' = Middle
                    /\ highReason' = IF state = "timeout" THEN "timeout" ELSE "fail"
                    /\ UNCHANGED <<pc, low, verdict>>
    BY <1>4 DEF Refine, Bound
  <2> QED
    BY <1>0, <2>1, <2>2, <2>3, RunOnceSaw DEF Reasons, Inconclusive
<1>5. CASE EndRefine
  <2>1. /\ pc = "refine" /\ pc' = "confirm" /\ verdict = "none"
        /\ \A t \in Failures : high # 0
        /\ UNCHANGED <<upper, low, high, highReason, verdict, outcomes, trials>>
    BY <1>0, <1>5 DEF EndRefine, search, evidence, Evidence, Closing
  <2> QED
    BY <2>1 DEF Reasons, Saw, Failures, Successes
<1>6. ASSUME NEW r \in Results(ProbedCtx(Target)), Confirm(r)
      PROVE  Reasons'
  <2>0. PICK kind : kind = KindOf(r, ProbedCtx(low))
    OBVIOUS
  <2>1. pc = "confirm" /\ verdict = "none" /\ verdict' = "none" /\ low # 0 /\ low <= upper
    BY <1>0, <1>6 DEF Confirm, Evidence, Searching, Closing
  <2>2. /\ Record(r, ProbedCtx(low))
        /\ outcomes' = outcomes \cup {kind}
        /\ \/ UNCHANGED <<pc, low, high, highReason>>
           \/ /\ pc' = "report" /\ RunState(outcomes') = "pass"
              /\ UNCHANGED <<low, high, highReason>>
           \/ /\ pc' = "report" /\ RunState(outcomes') # "pass"
              /\ Withdraw(RunState(outcomes'))
        /\ UNCHANGED <<base, upper>>
    BY <1>6, <2>0 DEF Confirm
  <2>3. /\ \A k : Saw(k) => Saw(k)'
        /\ Saw(kind)'
        /\ Failures' = {} <=> Failures = {} /\ kind = "success"
    BY <1>0, <2>0, <2>2, RecordSaw
  <2>4. \A k \in outcomes' : Saw(k)'
    BY <2>2, <2>3 DEF Reasons
  <2>5. ~(outcomes' \subseteq {"success"}) => Failures' # {}
    BY <2>4 DEF Saw, Failures, Successes
  <2>6. CASE UNCHANGED <<pc, low, high, highReason>>
    BY <2>1, <2>2, <2>3, <2>4, <2>6 DEF Reasons
  <2>7. CASE /\ pc' = "report" /\ RunState(outcomes') = "pass"
             /\ UNCHANGED <<low, high, highReason>>
    <3>1. outcomes' = {"success"}
      BY <2>7, KindOfType, <1>0, TypeNext DEF RunState
    <3>2. kind = "success" /\ outcomes \subseteq {"success"}
      BY <2>2, <3>1
    <3> QED
      BY <2>1, <2>2, <2>3, <2>4, <2>7, <3>2 DEF Reasons
  <2>8. CASE /\ pc' = "report" /\ RunState(outcomes') # "pass"
             /\ Withdraw(RunState(outcomes'))
    <3>1. /\ low' < low
          /\ IF RunState(outcomes') = "timeout" THEN high' # 0 /\ highReason' = "timeout"
             ELSE UNCHANGED <<high, highReason>>
      BY <1>0, <2>1, <2>8, WithdrawLower
    <3>2. outcomes' # {} /\ outcomes' # {"success"}
      BY <2>2, <2>8 DEF RunState
    <3>3. Failures' # {}
      BY <2>5, <3>2
    <3>4. RunState(outcomes') = "timeout" => "timeout" \in outcomes'
      BY DEF RunState
    <3>5. low' # upper'
      BY <1>0, <2>1, <2>2, <3>1, WithdrawType, <2>8 DEF TypeOK
    <3> QED
      BY <2>1, <2>2, <2>3, <2>4, <2>8, <3>1, <3>3, <3>4, <3>5 DEF Reasons
  <2> QED
    BY <2>2, <2>6, <2>7, <2>8
<1>7. CASE TooSmall
  BY <1>7 DEF TooSmall, search, evidence, Reasons, Saw, Failures, Successes
<1>8. CASE Report
  <2>1. /\ pc = "report" /\ pc' = "done" /\ report'.status = Status
        /\ UNCHANGED <<upper, low, high, highReason, verdict, outcomes, trials>>
    BY <1>8 DEF Report, search, evidence
  <2>2. Status' = Status
    BY <2>1 DEF Status
  <2> QED
    BY <2>1, <2>2 DEF Reasons, Saw, Failures, Successes
<1>9. CASE UNCHANGED vars
  <2>1. Status' = Status
    BY <1>9 DEF vars, search, Status
  <2> QED
    BY <1>9, <2>1 DEF vars, search, evidence, Reasons, Saw, Failures, Successes
<1> QED
  BY <1>1, <1>2, <1>3, <1>4, <1>5, <1>6, <1>7, <1>8, <1>9 DEF Next, Terminating,
     Probe, Decide

(* What is concluded always has its reason.                                *)
LEMMA ReasonsInvariant == Spec /\ AlignedInputs => []Reasons
<1>1. Init => Reasons
  BY DEF Init, Begin, Reasons
<1> QED
  BY <1>1, ReasonsNext, ClosingInvariant, EvidenceInvariant, PTL DEF Spec

(* The reasons are all that the statement about the status needs.          *)
LEMMA StatusFromReasons == EvidenceInv /\ Reasons => StatusHasEvidence
<1> SUFFICES ASSUME EvidenceInv, Reasons, pc = "done"
             PROVE  StatusHasEvidence
  BY DEF StatusHasEvidence, Inconclusive
<1> DEFINE above == {t \in Failures : t.ctx > report.benchmarkable}
<1>1. \A t : t \in above <=> t \in Failures
  <2>1. \A t \in Failures : report.benchmarkable < t.ctx
    BY DEF EvidenceInv, Evidence, Searching
  <2>2. \A t \in Failures : t.ctx \in Nat
    BY DEF EvidenceInv, TypeInv, TypeOK, Failures
  <2>3. report.benchmarkable \in Nat
    BY DEF EvidenceInv, TypeInv, TypeOK
  <2> QED
    BY <2>1, <2>2, <2>3
<1>2. report.benchmarkable = low /\ report.status = Status
  BY DEF EvidenceInv, Evidence, Reasons
<1>3. ASSUME NEW kind, Saw(kind), kind # "success"
      PROVE  \E t \in above : t.outcome \in {kind}
  BY <1>1, <1>3 DEF Saw, Failures, Successes
<1>4. CASE verdict # "none"
  <2>1. report.status = verdict
    BY <1>2, <1>4 DEF Status
  <2>2. CASE verdict = "time_limited" /\ Saw("timeout")
    BY <1>3, <2>1, <2>2 DEF StatusHasEvidence, Inconclusive
  <2>3. CASE verdict = "fail" /\ low = 0 /\ Saw("context")
    BY <1>2, <1>3, <2>1, <2>3 DEF StatusHasEvidence, Inconclusive
  <2>4. CASE verdict \in Inconclusive /\ Saw(verdict)
    <3>1. \E t \in above : t.outcome \in {verdict}
      BY <1>3, <2>4 DEF Inconclusive
    <3> QED
      BY <2>1, <2>4, <3>1 DEF StatusHasEvidence, Inconclusive
  <2> QED
    BY <1>4, <2>2, <2>3, <2>4 DEF Reasons
<1>5. CASE verdict = "none" /\ highReason = "timeout"
  <2>1. report.status = "time_limited"
    BY <1>2, <1>5 DEF Status
  <2>2. \E t \in above : t.outcome \in {"timeout"}
    BY <1>3, <1>5 DEF Reasons
  <2> QED
    BY <2>1, <2>2 DEF StatusHasEvidence, Inconclusive
<1>6. CASE verdict = "none" /\ highReason # "timeout"
  <2>1. Status = IF high = 0 /\ low = upper THEN "upper_reached" ELSE "bounded"
    BY <1>6 DEF Status
  <2>2. IF high = 0 /\ low = upper THEN Failures = {} ELSE Failures # {}
    BY <1>6 DEF Reasons
  <2> QED
    BY <1>1, <1>2, <1>6, <2>1, <2>2 DEF StatusHasEvidence, Inconclusive
<1> QED
  BY <1>4, <1>5, <1>6

(* The status reported is one that the trials above the answer support:    *)
(* the limit is reported as reached only if nothing failed, a bound only   *)
(* with a failure above the answer, and every other status only with a     *)
(* trial that had that outcome.                                            *)
THEOREM StatusCorrect == Spec /\ AlignedInputs => []StatusHasEvidence
BY StatusFromReasons, ReasonsInvariant, EvidenceInvariant, PTL
-------------------------------------------------------------------------------
(* The number of probes.                                                   *)

(* Some natural numbers have a least one.                                  *)
LEMMA LeastNumber ==
  ASSUME NEW T \in SUBSET Nat, T # {}
  PROVE  \E m \in T : \A k \in T : m <= k
<1> DEFINE R == OpToRel(<, Nat)
<1>1. \A a, b \in Nat : <<a, b>> \in R <=> a < b
  BY DEF OpToRel
<1>2. PICK m \in T : \A k \in T : ~(<<k, m>> \in R)
  BY WFMin, NatLessThanWellFounded
<1>3. \A k \in T : ~(k < m)
  BY <1>1, <1>2
<1> HIDE DEF R
<1>4. \A k \in T : m <= k
  <2> TAKE k \in T
  <2>1. k \in Nat /\ m \in Nat /\ ~(k < m)
    BY <1>2, <1>3
  <2> QED
    BY <2>1
<1> QED
  BY <1>2, <1>4

(* A beginning of the list of widths.                                      *)
Widens(g, n) == /\ g \in [0 .. n -> Nat] /\ g[0] = Resolution
                /\ \A i \in 1 .. n : g[i] = 2 * g[i - 1]

(* There are beginnings of any length, ...                                 *)
LEMMA WidensFar == ASSUME NEW n \in Nat PROVE \E g : Widens(g, n)
<1> DEFINE T == {k \in Nat : ~\E g : Widens(g, k)}
<1>1. SUFFICES ASSUME T # {} PROVE FALSE
  OBVIOUS
<1>2. PICK m \in T : \A k \in T : m <= k
  <2> HIDE DEF T
  <2>1. T \in SUBSET Nat
    BY DEF T
  <2> QED
    BY <1>1, <2>1, LeastNumber
<1>3. CASE m = 0
  <2>1. Widens([i \in 0 .. 0 |-> Resolution], 0)
    BY FrontierAssumption DEF Widens
  <2> QED
    BY <1>2, <1>3, <2>1
<1>4. CASE m # 0
  <2>1. m \in Nat /\ m - 1 \in Nat /\ ~(m <= m - 1)
    BY <1>2, <1>4
  <2>2. PICK g : Widens(g, m - 1)
    BY <1>2, <2>1
  <2> DEFINE h == [i \in 0 .. m |-> IF i = m THEN 2 * g[m - 1] ELSE g[i]]
  <2>3. \A i \in 0 .. m - 1 : h[i] = g[i] /\ g[i] \in Nat
    BY <2>1, <2>2 DEF Widens
  <2>4. h[m] = 2 * g[m - 1] /\ h[m] \in Nat
    <3>1. m - 1 \in 0 .. m - 1 /\ m \in 0 .. m
      BY <2>1
    <3>2. g[m - 1] \in Nat
      BY <2>3, <3>1
    <3> QED
      BY <3>1, <3>2
  <2>5. \A i \in 0 .. m : h[i] \in Nat
    <3> TAKE i \in 0 .. m
    <3>1. i \in 0 .. m - 1 \/ i = m
      BY <2>1
    <3> QED
      BY <2>3, <2>4, <3>1
  <2>6. h \in [0 .. m -> Nat] /\ h[0] = Resolution
    BY <2>1, <2>2, <2>3, <2>5 DEF Widens
  <2>7. \A i \in 1 .. m : h[i] = 2 * h[i - 1]
    <3> TAKE i \in 1 .. m
    <3>1. CASE i = m
      BY <2>1, <2>3, <2>4, <3>1
    <3>2. CASE i # m
      <4>1. i \in 1 .. m - 1 /\ i \in 0 .. m - 1 /\ i - 1 \in 0 .. m - 1
        BY <2>1, <3>2
      <4> HIDE DEF h
      <4>2. g[i] = 2 * g[i - 1]
        BY <2>2, <4>1 DEF Widens
      <4> QED
        BY <2>3, <4>1, <4>2
    <3> QED
      BY <3>1, <3>2
  <2> HIDE DEF h
  <2>8. Widens(h, m)
    BY <2>6, <2>7 DEF Widens
  <2> QED
    BY <1>2, <2>8
<1> QED
  BY <1>3, <1>4

(* ... and they agree.                                                     *)
LEMMA WidensAlike ==
  ASSUME NEW m \in Nat, NEW n \in Nat, NEW g, NEW h, Widens(g, m), Widens(h, n),
         NEW i \in Nat, i <= m, i <= n
  PROVE  g[i] = h[i]
<1> DEFINE T == {k \in Nat : k <= i /\ g[k] # h[k]}
<1>1. SUFFICES ASSUME T # {} PROVE FALSE
  OBVIOUS
<1>2. PICK k \in T : \A j \in T : k <= j
  <2> HIDE DEF T
  <2>1. T \in SUBSET Nat
    BY DEF T
  <2> QED
    BY <1>1, <2>1, LeastNumber
<1>3. k # 0
  BY <1>2 DEF Widens
<1>4. k - 1 \in Nat /\ k - 1 <= i /\ ~(k <= k - 1) /\ k \in 1 .. m /\ k \in 1 .. n
  BY <1>2, <1>3
<1>5. g[k - 1] = h[k - 1]
  BY <1>2, <1>4
<1> QED
  BY <1>2, <1>4, <1>5 DEF Widens

(* So Width is what its definition says.                                   *)
LEMMA WidthIs ==
  /\ Width \in [Nat -> Nat] /\ Width[0] = Resolution
  /\ \A k \in Nat \ {0} : Width[k] = 2 * Width[k - 1]
<1> DEFINE begin(n) == CHOOSE g : Widens(g, n)
           F == [n \in Nat |-> begin(n)[n]]
<1>1. \A n \in Nat : Widens(begin(n), n)
  BY WidensFar
<1> HIDE DEF begin
<1>2. \A n \in Nat : F[n] \in Nat
  <2> TAKE n \in Nat
  <2>1. Widens(begin(n), n) /\ n \in 0 .. n
    BY <1>1
  <2> QED
    BY <2>1 DEF Widens
<1>3. F[0] = Resolution
  BY <1>1 DEF Widens
<1>4. ASSUME NEW k \in Nat \ {0} PROVE F[k] = 2 * F[k - 1]
  <2>1. k - 1 \in Nat /\ k \in Nat /\ k \in 1 .. k /\ k - 1 <= k
    BY <1>4
  <2>2. Widens(begin(k), k) /\ Widens(begin(k - 1), k - 1)
    BY <1>1, <2>1
  <2>3. begin(k)[k - 1] = begin(k - 1)[k - 1]
    BY <2>1, <2>2, WidensAlike
  <2>4. begin(k)[k] = 2 * begin(k)[k - 1]
    BY <2>1, <2>2 DEF Widens
  <2> QED
    BY <2>1, <2>3, <2>4
<1>5. F = [k \in Nat |-> IF k = 0 THEN Resolution ELSE 2 * F[k - 1]]
  <2>1. \A k \in Nat : F[k] = IF k = 0 THEN Resolution ELSE 2 * F[k - 1]
    BY <1>3, <1>4
  <2>2. F = [k \in Nat |-> F[k]]
    OBVIOUS
  <2> HIDE DEF F
  <2> QED
    BY <2>1, <2>2
<1> HIDE DEF F
<1>6. Width = [k \in Nat |-> IF k = 0 THEN Resolution ELSE 2 * Width[k - 1]]
  BY <1>5 DEF Width
<1> DEFINE T == {k \in Nat : Width[k] # F[k]}
<1>7. T = {}
  <2>1. SUFFICES ASSUME T # {} PROVE FALSE
    OBVIOUS
  <2>2. PICK m \in T : \A k \in T : m <= k
    <3> HIDE DEF T
    <3>1. T \in SUBSET Nat
      BY DEF T
    <3> QED
      BY <2>1, <3>1, LeastNumber
  <2>3. CASE m = 0
    BY <1>3, <1>6, <2>2, <2>3
  <2>4. CASE m # 0
    <3>1. m - 1 \in Nat /\ ~(m <= m - 1) /\ m \in Nat \ {0}
      BY <2>2, <2>4
    <3>2. Width[m - 1] = F[m - 1]
      BY <2>2, <3>1
    <3>3. Width[m] = 2 * Width[m - 1]
      BY <1>6, <3>1
    <3> QED
      BY <1>4, <2>2, <3>1, <3>2, <3>3
  <2> QED
    BY <2>3, <2>4
<1>8. \A k \in Nat : Width[k] = F[k]
  BY <1>7
<1>9. DOMAIN Width = Nat /\ Width = [k \in Nat |-> Width[k]]
  BY <1>6
<1>10. Width \in [Nat -> Nat]
  BY <1>2, <1>8, <1>9
<1> QED
  BY <1>6, <1>10

(* Widths grow past every number.                                          *)
LEMMA WidthGrows == \A k \in Nat : Width[k] > k
<1> DEFINE T == {k \in Nat : ~(Width[k] > k)}
<1>1. SUFFICES ASSUME T # {} PROVE FALSE
  OBVIOUS
<1>2. PICK m \in T : \A k \in T : m <= k
  <2> HIDE DEF T
  <2>1. T \in SUBSET Nat
    BY DEF T
  <2> QED
    BY <1>1, <2>1, LeastNumber
<1>3. m # 0
  BY <1>2, WidthIs, FrontierAssumption
<1>4. m - 1 \in Nat /\ ~(m <= m - 1) /\ m \in Nat \ {0}
  BY <1>2, <1>3
<1>5. Width[m - 1] > m - 1
  BY <1>2, <1>4
<1>6. Width[m] = 2 * Width[m - 1] /\ Width[m - 1] \in Nat
  BY <1>4, WidthIs
<1> QED
  BY <1>2, <1>4, <1>5, <1>6

(* Widths are multiples of the resolution.                                 *)
LEMMA WidthAligned == \A k \in Nat : Floor(Width[k]) = Width[k]
<1> DEFINE T == {k \in Nat : Floor(Width[k]) # Width[k]}
<1>1. SUFFICES ASSUME T # {} PROVE FALSE
  OBVIOUS
<1>2. PICK m \in T : \A k \in T : m <= k
  <2> HIDE DEF T
  <2>1. T \in SUBSET Nat
    BY DEF T
  <2> QED
    BY <1>1, <2>1, LeastNumber
<1>3. m # 0
  <2>1. Floor(Resolution) = Resolution
    BY FrontierAssumption DEF Floor
  <2> QED
    BY <1>2, <2>1, WidthIs
<1>4. m - 1 \in Nat /\ ~(m <= m - 1) /\ m \in Nat \ {0}
  BY <1>2, <1>3
<1>5. Width[m] = 2 * Width[m - 1] /\ Width[m - 1] \in Nat
  BY <1>4, WidthIs
<1>6. PICK j \in Nat : Width[m - 1] = j * Resolution
  BY <1>2, <1>4, <1>5, AlignedMultiple
<1>7. Width[m] = (2 * j) * Resolution /\ 2 * j \in Nat
  BY <1>5, <1>6, FrontierAssumption
<1>8. Floor(Width[m]) = Width[m]
  BY <1>7, FloorMultiple
<1> QED
  BY <1>2, <1>8

(* Some width is no less than a number, and begins below it.               *)
LEMMA WidthReaches ==
  ASSUME NEW n \in Nat
  PROVE  \E r \in Nat : n <= Width[r] /\ \A j \in 0 .. r - 1 : Width[j] < n
<1> DEFINE T == {k \in Nat : n <= Width[k]}
<1>1. n \in T
  BY WidthGrows, WidthIs
<1>2. PICK r \in T : \A k \in T : r <= k
  <2> HIDE DEF T
  <2>1. T \in SUBSET Nat
    BY DEF T
  <2> QED
    BY <1>1, <2>1, LeastNumber
<1>3. ASSUME NEW j \in 0 .. r - 1 PROVE Width[j] < n
  <2>1. j \in Nat /\ ~(r <= j)
    BY <1>2, <1>3
  <2>2. Width[j] \in Nat /\ ~(n <= Width[j])
    BY <1>2, <2>1, WidthIs
  <2> QED
    BY <2>2
<1> QED
  BY <1>2, <1>3

(* Doubling is what it says, up to the limit.                              *)
LEMMA DoubledIs ==
  ASSUME TypeOK, Floor(upper) = upper, Floor(point) = point, point # 0, point < upper
  PROVE  Doubled = Smaller(upper, 2 * point)
<1>1. point \in Nat /\ upper \in Nat /\ point + Resolution <= upper
  BY AlignedGap DEF TypeOK
<1>2. PICK k \in Nat : point = k * Resolution
  BY <1>1, AlignedMultiple
<1>3. 2 * point = (2 * k) * Resolution /\ 2 * k \in Nat /\ 2 * point \in Nat
  BY <1>1, <1>2, FrontierAssumption
<1>4. Floor(2 * point) = 2 * point
  BY <1>3, FloorMultiple
<1>5. Floor(0) = 0
  BY FloorBounds
<1>6. 0 + Resolution <= point
  BY <1>1, <1>5, AlignedGap
<1> DEFINE wanted == Smaller(upper, 2 * point)
<1>7. Floor(wanted) = wanted /\ wanted \in Nat /\ wanted <= upper /\ point + Resolution <= wanted
  BY <1>1, <1>3, <1>4, <1>6, FrontierAssumption DEF Smaller
<1> HIDE DEF wanted
<1>8. Larger(point + Resolution, Floor(wanted)) = wanted
  BY <1>1, <1>7, FrontierAssumption DEF Larger
<1>9. Smaller(wanted, upper) = wanted
  BY <1>1, <1>7 DEF Smaller
<1> QED
  BY <1>8, <1>9 DEF Doubled, wanted

(* The middle halves a bracket.                                            *)
LEMMA MiddleHalves ==
  ASSUME TypeOK, Floor(low) = low, Floor(high) = high, low < high,
         NEW w \in Nat, Floor(w) = w, high - low <= 2 * w, Refining
  PROVE  Middle - low <= w /\ high - Middle <= w
<1>1. low \in Nat /\ high \in Nat /\ Resolution \in Nat \ {0}
  BY FrontierAssumption DEF TypeOK
<1>2. PICK a \in Nat : low = a * Resolution
  BY <1>1, AlignedMultiple
<1>3. PICK b \in Nat : high = b * Resolution
  BY <1>1, AlignedMultiple
<1>4. PICK c \in Nat : w = c * Resolution
  BY AlignedMultiple
<1> DEFINE m == (a + b) \div 2
<1>5. b - a > 1 /\ b - a <= 2 * c
  <2>1. (b - a) * Resolution > Resolution /\ (b - a) * Resolution <= (2 * c) * Resolution
    BY <1>1, <1>2, <1>3, <1>4 DEF Refining
  <2>2. b - a \in Int /\ 2 * c \in Int
    OBVIOUS
  <2>3. ASSUME NEW x \in Int, NEW y \in Int, x * Resolution <= y * Resolution PROVE x <= y
    BY <1>1, <2>3
  <2>4. ASSUME NEW x \in Int, x * Resolution > Resolution PROVE x > 1
    BY <1>1, <2>4
  <2> QED
    BY <2>1, <2>2, <2>3, <2>4
<1>6. m \in Nat /\ a < m /\ m < b /\ m - a <= c /\ b - m <= c
  BY <1>5
<1>7. Floor((low + high) \div 2) = m * Resolution
  <2> DEFINE s == a + b
             half == (s * Resolution) \div 2
  <2>1. low + high = s * Resolution
    BY <1>1, <1>2, <1>3
  <2>2. s \in Nat /\ m \in Nat /\ (s = 2 * m \/ s = 2 * m + 1)
    OBVIOUS
  <2> HIDE DEF s, m
  <2>3. s * Resolution = 2 * (m * Resolution) \/ s * Resolution = 2 * (m * Resolution) + Resolution
    BY <1>1, <2>2
  <2> DEFINE q == m * Resolution
  <2>4. q \in Nat /\ half \in Nat /\ q <= half /\ half < q + Resolution
    BY <1>1, <2>2, <2>3
  <2>5. half \div Resolution = m
    <3> HIDE DEF half, q
    <3>1. PICK d \in 0 .. Resolution - 1 : half = q + d
      <4>1. half - q \in 0 .. Resolution - 1 /\ half = q + (half - q)
        BY <1>1, <2>4
      <4> QED
        BY <4>1
    <3>2. (m * Resolution + d) \div Resolution = m
      BY <1>1, <2>2
    <3> QED
      BY <3>1, <3>2 DEF q
  <2> QED
    BY <2>1, <2>5 DEF Floor
<1>8. Middle = m * Resolution
  <2>1. m * Resolution > a * Resolution
    <3>1. m \in Nat /\ a < m
      BY <1>6
    <3> HIDE DEF m
    <3> QED
      BY <1>1, <3>1
  <2> QED
    BY <1>1, <1>2, <1>7, <2>1 DEF Middle
<1>9. /\ (m - a) * Resolution <= c * Resolution /\ (b - m) * Resolution <= c * Resolution
      /\ (m - a) * Resolution = m * Resolution - a * Resolution
      /\ (b - m) * Resolution = b * Resolution - m * Resolution
  <2>1. m \in Nat /\ m - a <= c /\ b - m <= c
    BY <1>6
  <2> HIDE DEF m
  <2>2. ASSUME NEW x \in Int, NEW y \in Int, x <= y PROVE x * Resolution <= y * Resolution
    BY <1>1, <2>2
  <2> QED
    BY <1>1, <2>1, <2>2
<1> QED
  BY <1>2, <1>3, <1>4, <1>8, <1>9

(* k doublings of the resolution all began below the limit.                *)
Room(k) == \A j \in 0 .. k - 1 : Width[j] < upper

(* What a probe has bought: doublings lead away from the resolution, and   *)
(* halvings back to it.                                                    *)
Economical ==
  /\ pc = "first" => probes = 0
  /\ pc = "grow" =>
       \E d \in Nat : /\ probes = 1 + d /\ Room(d)
                      /\ Width[d] <= point \/ point = upper
  /\ pc = "refine" =>
       /\ Floor(high) = high
       /\ \E d, h, r \in Nat :
            /\ probes = 1 + d + h /\ Room(d) /\ Room(h + r)
            /\ high # 0 => high - low <= Width[r]
  /\ pc \in {"confirm", "report", "done", "raised"} =>
       \E k \in Nat : Room(k) /\ probes - attempt <= 1 + 2 * k

(* A bracket leaves as many halvings as doublings have made it wide.       *)
LEMMA BracketRoom ==
  ASSUME TypeOK, NEW n \in Nat, n <= upper
  PROVE  \E r \in Nat : n <= Width[r] /\ Room(r)
<1>1. PICK r \in Nat : n <= Width[r] /\ \A j \in 0 .. r - 1 : Width[j] < n
  BY WidthReaches
<1>2. \A j \in 0 .. r - 1 : Width[j] \in Nat /\ Width[j] < upper
  <2> TAKE j \in 0 .. r - 1
  <2>1. Width[j] \in Nat /\ Width[j] < n
    BY <1>1, WidthIs
  <2> QED
    BY <2>1 DEF TypeOK
<1> QED
  BY <1>1, <1>2 DEF Room

(* The larger of two numbers of doublings.                                 *)
LEMMA RoomForBoth ==
  ASSUME NEW d \in Nat, NEW h \in Nat, Room(d), Room(h)
  PROVE  \E k \in Nat : Room(k) /\ d + h <= 2 * k
<1>1. CASE d <= h
  BY <1>1
<1>2. CASE h < d
  BY <1>2
<1> QED
  BY <1>1, <1>2

(* One more doubling begins below the limit.                               *)
LEMMA RoomGrows ==
  ASSUME NEW d \in Nat, Room(d), Width[d] < upper
  PROVE  Room(d + 1)
<1>1. \A j \in 0 .. d : j \in 0 .. d - 1 \/ j = d
  OBVIOUS
<1> QED
  BY <1>1 DEF Room

(* Every step keeps the account of the probes.                             *)
LEMMA EconomicalNext == EvidenceInv /\ Economical /\ [Next]_vars => Economical'
<1> SUFFICES ASSUME EvidenceInv, Economical, [Next]_vars PROVE Economical'
  OBVIOUS
<1>0. TypeOK /\ Evidence /\ AlignedInputs /\ TypeInv
  BY DEF EvidenceInv, TypeInv
<1>a. UNCHANGED upper /\ \A k : Room(k)' = Room(k)
  <2>1. UNCHANGED upper
    BY DEF Next, Probe, Decide, First, Grow, EndGrow, Refine, EndRefine, Confirm,
           TooSmall, Report, Terminating, vars
  <2> QED
    BY <2>1 DEF Room, Width
<1>b. Room(0) /\ \A n : Floor(n)' = Floor(n)
  BY DEF Room, Floor
<1>c. Floor(upper) = upper /\ upper \in Nat /\ probes \in Nat /\ attempt \in Nat
  BY <1>0 DEF AlignedInputs, TypeOK
<1>d. Width \in [Nat -> Nat] /\ Width[0] = Resolution /\ Width' = Width
  BY WidthIs DEF Width
<1>1. ASSUME NEW r \in Results(ProbedCtx(Target)), First(r)
      PROVE  Economical'
  <2>1. /\ pc = "first" /\ probes' = 1 /\ attempt' = 0
        /\ \/ pc' = "report"
           \/ pc' = "grow" /\ point' = Start
    <3>1. pc = "first" /\ probes = 0 /\ attempt = 0
      BY <1>0, <1>1 DEF First, Economical, TypeInv, Counting
    <3>2. probes' = probes + 1 /\ UNCHANGED attempt
      BY <1>1 DEF First, RunOnce, Record
    <3>3. pc' = "report" \/ (pc' = "grow" /\ point' = Start)
      BY <1>1 DEF First
    <3> QED
      BY <3>1, <3>2, <3>3
  <2>2. CASE pc' = "report"
    <3>1. Room(0)' /\ probes' - attempt' <= 1 + 2 * 0
      BY <1>a, <1>b, <2>1
    <3> QED
      BY <2>2, <3>1 DEF Economical
  <2>3. CASE pc' = "grow" /\ point' = Start
    <3>1. Start \in Nat \ {0} /\ Floor(Start) = Start /\ Floor(0) = 0
      BY <1>0, StartAligned, FloorBounds DEF Evidence
    <3>2. 0 + Resolution <= Start
      BY <3>1, AlignedGap
    <3>3. Width[0] <= point'
      BY <1>d, <2>3, <3>2, FrontierAssumption
    <3>4. probes' = 1 + 0 /\ Room(0)'
      BY <1>a, <1>b, <2>1
    <3> QED
      BY <1>d, <2>3, <3>3, <3>4 DEF Economical
  <2> QED
    BY <2>1, <2>2, <2>3
<1>2. ASSUME NEW r \in Results(ProbedCtx(Target)), Grow(r)
      PROVE  Economical'
  <2>1. /\ pc = "grow" /\ point = low /\ point # 0 /\ point < upper /\ Floor(point) = point
        /\ low \in Nat /\ point \in Nat /\ attempt = 0
    BY <1>0, <1>2 DEF Grow, Growing, Evidence, Searching, TypeOK, TypeInv, Counting
  <2>2. Doubled = Smaller(upper, 2 * point) /\ Floor(Doubled) = Doubled /\ Doubled \in Nat
    BY <1>0, <1>c, <2>1, DoubledIs, DoubledAligned
  <2>3. /\ probes' = probes + 1 /\ attempt' = 0
        /\ \/ pc' = "grow" /\ point' = Doubled
           \/ pc' = "report"
           \/ pc' = "refine" /\ high' = Doubled /\ low' = low
    BY <1>2, <2>1 DEF Grow, RunOnce, Record, Bound, Inconclusive, RunStates
  <2>4. PICK d \in Nat : probes = 1 + d /\ Room(d) /\ (Width[d] <= point \/ point = upper)
    BY <2>1 DEF Economical
  <2>5. Width[d] < upper /\ Width[d] <= point /\ Width[d] \in Nat
    BY <1>c, <1>d, <2>1, <2>4
  <2>6. Room(d + 1) /\ d + 1 \in Nat /\ probes' = 1 + (d + 1)
    BY <2>3, <2>4, <2>5, RoomGrows
  <2>7. CASE pc' = "grow" /\ point' = Doubled
    <3>1. Width[d + 1] = 2 * Width[d]
      <4>1. d + 1 \in Nat \ {0} /\ (d + 1) - 1 = d
        OBVIOUS
      <4> QED
        BY <4>1, WidthIs
    <3>2. Width[d + 1] <= point' \/ point' = upper'
      BY <1>a, <1>c, <2>1, <2>2, <2>5, <2>7, <3>1 DEF Smaller
    <3>3. (Room(d + 1))'
      BY <1>a, <2>6
    <3> QED
      BY <1>d, <2>6, <2>7, <3>2, <3>3 DEF Economical
  <2>8. CASE pc' = "report"
    <3>1. Room(d + 1)' /\ probes' - attempt' <= 1 + 2 * (d + 1)
      BY <1>a, <2>3, <2>6
    <3> QED
      BY <2>6, <2>8, <3>1 DEF Economical
  <2>9. CASE pc' = "refine" /\ high' = Doubled /\ low' = low
    <3>1. Doubled - low \in Nat /\ Doubled - low <= upper
      <4>1. point < Doubled
        BY <1>0, <1>c, <2>1, DoubledAligned
      <4> QED
        BY <1>c, <2>1, <2>2, <4>1 DEF Smaller
    <3>2. PICK w \in Nat : Doubled - low <= Width[w] /\ Room(w)
      BY <1>0, <3>1, BracketRoom
    <3>3. /\ Floor(high)' = high' /\ Room(d + 1)' /\ Room(0 + w)' /\ probes' = 1 + (d + 1) + 0
          /\ high' - low' <= Width'[w]
      BY <1>a, <1>b, <1>d, <2>2, <2>6, <2>9, <3>2
    <3> QED
      BY <2>6, <2>9, <3>3 DEF Economical
  <2> QED
    BY <2>3, <2>7, <2>8, <2>9
<1>3. CASE EndGrow
  <2>1. /\ pc = "grow" /\ high = 0 /\ pc' = "refine" /\ UNCHANGED <<probes, high>>
    BY <1>0, <1>3 DEF EndGrow, search, evidence, Evidence
  <2>2. PICK d \in Nat : probes = 1 + d /\ Room(d)
    BY <2>1 DEF Economical
  <2>3. Floor(high)' = high' /\ Room(d)' /\ Room(0 + 0)' /\ probes' = 1 + d + 0
    BY <1>a, <1>b, <2>1, <2>2, FloorBounds
  <2> QED
    BY <2>1, <2>3 DEF Economical
<1>4. ASSUME NEW r \in Results(ProbedCtx(Target)), Refine(r)
      PROVE  Economical'
  <2>1. /\ pc = "refine" /\ Refining /\ low # 0 /\ Floor(low) = low /\ Floor(high) = high
        /\ low \in Nat /\ high \in Nat /\ high # 0 /\ attempt = 0 /\ high - low > Resolution
    BY <1>0, <1>4 DEF Refine, Refining, Evidence, Searching, Economical, TypeOK, TypeInv, Counting
  <2>2. Middle \in Nat /\ Floor(Middle) = Middle /\ Middle # 0
    BY <1>0, <2>1, MiddleAligned
  <2>3. /\ probes' = probes + 1 /\ attempt' = 0
        /\ \/ pc' = "refine" /\ low' = Middle /\ high' = high
           \/ pc' = "report"
           \/ pc' = "refine" /\ high' = Middle /\ low' = low
    BY <1>4, <2>1 DEF Refine, RunOnce, Record, Bound, Inconclusive, RunStates
  <2>4. PICK d \in Nat, h \in Nat, w \in Nat :
          probes = 1 + d + h /\ Room(d) /\ Room(h + w) /\ high - low <= Width[w]
    BY <2>1 DEF Economical
  <2>5. w # 0 /\ w - 1 \in Nat /\ w \in Nat \ {0} /\ h + 1 \in Nat /\ (h + 1) + (w - 1) = h + w
    <3>1. w # 0
      BY <1>d, <2>1, <2>4, FrontierAssumption
    <3> QED
      BY <3>1
  <2>6. Width[w] = 2 * Width[w - 1] /\ Width[w - 1] \in Nat /\ Floor(Width[w - 1]) = Width[w - 1]
    BY <2>5, WidthIs, WidthAligned
  <2>7. Middle - low <= Width[w - 1] /\ high - Middle <= Width[w - 1]
    <3>1. low < high /\ high - low <= 2 * Width[w - 1]
      BY <2>1, <2>4, <2>6, FrontierAssumption
    <3> QED
      BY <1>0, <2>1, <2>6, <3>1, MiddleHalves
  <2>8. Room(d)' /\ (Room((h + 1) + (w - 1)))' /\ probes' = 1 + d + (h + 1)
    BY <1>a, <2>3, <2>4, <2>5
  <2>9. CASE pc' = "report"
    <3>1. Room(h + 1)
      BY <2>4, <2>5 DEF Room
    <3>2. PICK k \in Nat : Room(k) /\ d + (h + 1) <= 2 * k
      BY <2>4, <2>5, <3>1, RoomForBoth
    <3>3. Room(k)' /\ probes' - attempt' <= 1 + 2 * k
      BY <1>a, <2>3, <2>5, <2>8, <3>2
    <3> QED
      BY <2>9, <3>3 DEF Economical
  <2>10. CASE pc' = "refine"
    <3>1. high' - low' <= Width'[w - 1] /\ Floor(high)' = high'
      BY <1>b, <1>d, <2>1, <2>2, <2>3, <2>7, <2>10
    <3> QED
      BY <2>5, <2>8, <2>10, <3>1 DEF Economical
  <2> QED
    BY <2>3, <2>9, <2>10
<1>5. ASSUME pc = "refine", pc' \in {"confirm", "report", "raised"}, UNCHANGED <<probes, attempt>>
      PROVE  Economical'
  <2>1. PICK d \in Nat, h \in Nat, w \in Nat : probes = 1 + d + h /\ Room(d) /\ Room(h + w)
    BY <1>5 DEF Economical
  <2>2. Room(h)
    BY <2>1 DEF Room
  <2>3. PICK k \in Nat : Room(k) /\ d + h <= 2 * k
    BY <2>1, <2>2, RoomForBoth
  <2>4. attempt = 0
    BY <1>0, <1>5 DEF TypeInv, Counting
  <2>5. Room(k)' /\ probes' - attempt' <= 1 + 2 * k
    BY <1>5, <1>a, <2>1, <2>3, <2>4
  <2> QED
    BY <1>5, <2>5 DEF Economical
<1>6. ASSUME pc \in {"confirm", "report", "done", "raised"}, pc' \in {"confirm", "report", "done", "raised"},
             probes' - attempt' = probes - attempt
      PROVE  Economical'
  <2>1. PICK k \in Nat : Room(k) /\ probes - attempt <= 1 + 2 * k
    BY <1>6 DEF Economical
  <2>2. Room(k)' /\ probes' - attempt' <= 1 + 2 * k
    BY <1>6, <1>a, <2>1
  <2> QED
    BY <1>6, <2>2 DEF Economical
<1>7. CASE EndRefine
  BY <1>5, <1>7 DEF EndRefine, evidence
<1>8. ASSUME NEW r \in Results(ProbedCtx(Target)), Confirm(r)
      PROVE  Economical'
  <2>1. /\ pc = "confirm" /\ pc' \in {"confirm", "report"}
        /\ probes' = probes + 1 /\ attempt' = attempt + 1
    BY <1>8 DEF Confirm, Record
  <2>2. probes' - attempt' = probes - attempt
    BY <1>c, <2>1
  <2> QED
    BY <1>6, <2>1, <2>2
<1>9. CASE TooSmall
  <2>1. pc' = "raised" /\ UNCHANGED <<probes, attempt>>
    BY <1>9 DEF TooSmall, evidence
  <2>2. CASE pc = "first"
    <3>1. Room(0)' /\ probes' - attempt' <= 1 + 2 * 0
      BY <1>0, <1>a, <1>b, <2>1, <2>2 DEF Economical, TypeInv, Counting
    <3> QED
      BY <2>1, <3>1 DEF Economical
  <2>3. CASE pc = "grow"
    <3>1. PICK d \in Nat : probes = 1 + d /\ Room(d)
      BY <2>3 DEF Economical
    <3>2. Room(d)' /\ probes' - attempt' <= 1 + 2 * d
      BY <1>0, <1>a, <2>1, <2>3, <3>1 DEF TypeInv, Counting
    <3> QED
      BY <2>1, <3>2 DEF Economical
  <2>4. CASE pc = "refine"
    BY <1>5, <2>1, <2>4
  <2>5. CASE pc = "confirm"
    BY <1>6, <2>1, <2>5
  <2> QED
    BY <1>9, <2>2, <2>3, <2>4, <2>5 DEF TooSmall, Running, Growing, Refining
<1>10. CASE Report
  BY <1>6, <1>10 DEF Report, evidence
<1>11. CASE UNCHANGED vars
  <2>1. UNCHANGED <<pc, probes, attempt, low, high, point>>
    BY <1>11 DEF vars, search, evidence
  <2> QED
    BY <1>a, <1>b, <1>d, <2>1 DEF Economical
<1> QED
  BY <1>1, <1>2, <1>3, <1>4, <1>7, <1>8, <1>9, <1>10, <1>11 DEF Next, Terminating, Probe, Decide

(* It holds throughout.                                                    *)
LEMMA EconomicalInvariant == Spec /\ AlignedInputs => []Economical
<1>1. Init => Economical
  BY DEF Init, Begin, Economical
<1> QED
  BY <1>1, EconomicalNext, EvidenceInvariant, PTL DEF Spec

(* The number of probes is bounded by the doublings that lead to the limit.*)
LEMMA LogarithmicFromEconomical == TypeInv /\ Economical => ProbesLogarithmic
<1> SUFFICES ASSUME TypeInv, Economical PROVE ProbesLogarithmic
  OBVIOUS
<1>1. TypeOK /\ upper \in Nat /\ probes \in Nat /\ attempt \in Nat
  BY DEF TypeInv, TypeOK
<1>2. \E k \in Nat : Room(k) /\ probes - attempt <= 1 + 2 * k
  <2>1. CASE pc = "first"
    <3>1. Room(0) /\ probes - attempt <= 1 + 2 * 0
      BY <1>1, <2>1 DEF Room, Economical, TypeInv, Counting
    <3> QED
      BY <3>1
  <2>2. CASE pc = "grow"
    <3>1. PICK d \in Nat : probes = 1 + d /\ Room(d)
      BY <2>2 DEF Economical
    <3> QED
      BY <1>1, <2>2, <3>1 DEF TypeInv, Counting
  <2>3. CASE pc = "refine"
    <3>1. PICK d \in Nat, h \in Nat, w \in Nat : probes = 1 + d + h /\ Room(d) /\ Room(h + w)
      BY <2>3 DEF Economical
    <3>2. Room(h) /\ attempt = 0
      BY <2>3, <3>1 DEF Room, TypeInv, Counting
    <3>3. PICK k \in Nat : Room(k) /\ d + h <= 2 * k
      BY <3>1, <3>2, RoomForBoth
    <3> QED
      BY <3>1, <3>2, <3>3
  <2> QED
    BY <1>1, <2>1, <2>2, <2>3 DEF TypeOK, Economical
<1>3. PICK k \in Nat : Room(k) /\ probes - attempt <= 1 + 2 * k
  BY <1>2
<1>4. k <= upper
  <2>1. CASE k = 0
    BY <1>1, <2>1
  <2>2. CASE k # 0
    <3>1. k - 1 \in Nat /\ k - 1 \in 0 .. k - 1
      BY <2>2
    <3>2. Width[k - 1] < upper /\ Width[k - 1] > k - 1 /\ Width[k - 1] \in Nat
      BY <1>3, <3>1, WidthGrows, WidthIs DEF Room
    <3> QED
      BY <1>1, <3>1, <3>2
  <2> QED
    BY <2>1, <2>2
<1> QED
  BY <1>1, <1>3, <1>4 DEF Room, ProbesLogarithmic

(* A search with aligned inputs makes a number of probes logarithmic in    *)
(* the limit, whatever its trials answer.                                  *)
THEOREM LogarithmicCorrect == Spec /\ AlignedInputs => []ProbesLogarithmic
BY EvidenceInvariant, EconomicalInvariant, LogarithmicFromEconomical, PTL DEF EvidenceInv

===============================================================================
