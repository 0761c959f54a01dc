-------------------------- MODULE CachedFrontierProofs --------------------------
(***************************************************************************)
(* Theorems about CachedFrontier, for every value of its constants: what   *)
(* is proved of the search alone survives caching, interruptions, crashes, *)
(* the deadline and any number of restarts.                                *)
(***************************************************************************)
EXTENDS CachedFrontier, ContextFrontierProofs, FiniteSetTheorems

(* A success in the evidence is a success the machine can give.            *)
SuccessesAreReal ==
  \A t \in Successes : \E r \in machine[t.ctx] : r.status = "ok"

CacheInv ==
  /\ machine \in Machines
  /\ rows = [n \in Points |-> rows[n]]
  /\ RowsAreEarned

SearchInv == EvidenceInv /\ CacheInv /\ SuccessesAreReal

-------------------------------------------------------------------------------
(* The rows.                                                               *)

(* A row that is kept was earned: a run of the machine told it, or it says *)
(* that the trial was interrupted.                                         *)
LEMMA KeepEarned ==
  ASSUME CacheInv, NEW n, NEW r \in machine[n] \cup {Interrupted}, Keep(n, r),
         machine' = machine
  PROVE  CacheInv'
<1>1. rows' = [k \in Points |-> IF k = n THEN r ELSE rows[k]]
  BY DEF Keep, CacheInv
<1>2. \A k \in Points : rows'[k] \in machine[k] \cup {Interrupted, NoRow}
  BY <1>1 DEF CacheInv, RowsAreEarned
<1>3. rows' = [k \in Points |-> rows'[k]]
  BY <1>1
<1> QED BY <1>2, <1>3 DEF CacheInv, RowsAreEarned

(* No row has been written yet.                                            *)
LEMMA CacheInit == CInit => CacheInv
BY DEF CInit, CacheInv, RowsAreEarned

(* Every step of the tuner leaves only rows that were earned.              *)
LEMMA CacheNext == CacheInv /\ [CNext]_allVars => CacheInv'
<1> SUFFICES ASSUME CacheInv, [CNext]_allVars PROVE CacheInv'
  OBVIOUS
<1>u. ASSUME UNCHANGED <<machine, rows>> PROVE CacheInv'
  BY <1>u DEF CacheInv, RowsAreEarned
<1>1. CASE OutOfTime
  BY <1>1, <1>u DEF OutOfTime, cache
<1>2. CASE Reuse
  BY <1>2, <1>u DEF Reuse
<1>3. ASSUME NEW r \in machine[Asked], Execute(r) PROVE CacheInv'
  BY <1>3, KeepEarned DEF Execute
<1>4. CASE Interrupt
  BY <1>4, KeepEarned DEF Interrupt
<1>5. CASE Die
  BY <1>5, <1>u DEF Die
<1>6. CASE Search
  BY <1>6, <1>u DEF Search
<1>7. CASE Deadline
  BY <1>7, <1>u DEF Deadline
<1>8. CASE Restart
  BY <1>8, <1>u DEF Restart
<1>9. CASE UNCHANGED allVars
  BY <1>9, <1>u DEF allVars, cache
<1> QED
  BY <1>1, <1>2, <1>3, <1>4, <1>5, <1>6, <1>7, <1>8, <1>9
  DEF CNext, Exhausted

(* A row that answers a probe was earned by a server with that context,    *)
(* however the runs that wrote it ended.                                   *)
THEOREM RowsEarned == CSpec => []RowsAreEarned
<1>1. CacheInv => RowsAreEarned
  BY DEF CacheInv
<1> QED BY <1>1, CacheInit, CacheNext, PTL DEF CSpec

-------------------------------------------------------------------------------
(* Each run of the tuner is a run of the search.                           *)

(* The contexts that are probed for a size are among those the instance    *)
(* has.                                                                    *)
LEMMA PointsType ==
  ASSUME NEW n \in 1 .. MaxCtx
  PROVE  ProbedCtx(n) \in Points
BY DEF Points

(* The search asks for a context the instance has.                         *)
LEMMA AskedIsPoint ==
  ASSUME EvidenceInv, Running
  PROVE  Asked \in Points
<1>0. TypeOK /\ Evidence /\ AlignedInputs
  BY DEF EvidenceInv, TypeInv
<1>m. upper \in 1 .. MaxCtx /\ MaxCtx \in Nat
  BY <1>0, FrontierAssumption DEF TypeOK
<1>1. CASE pc = "first"
  <2>1. Start \in 1 .. MaxCtx
    BY <1>0, <1>m, StartAligned DEF Evidence
  <2> QED BY <1>1, <2>1, PointsType DEF Asked, Target
<1>2. CASE pc = "grow" /\ Growing
  <2>1. /\ Floor(upper) = upper /\ Floor(point) = point
        /\ point # 0 /\ point < upper
    BY <1>0, <1>2 DEF Evidence, Searching, AlignedInputs, Growing
  <2>2. Doubled \in 1 .. MaxCtx
    BY <1>0, <1>m, <2>1, DoubledAligned
  <2> QED BY <1>2, <2>2, PointsType DEF Asked, Target
<1>3. CASE pc = "refine" /\ Refining
  <2>1. Floor(low) = low /\ low # 0 /\ high <= upper
    BY <1>0, <1>3 DEF Evidence, Searching
  <2>2. Middle \in Nat \ {0} /\ Middle < high
    BY <1>0, <1>3, <2>1, MiddleAligned
  <2>3. Middle \in 1 .. MaxCtx
    BY <1>0, <1>m, <2>1, <2>2 DEF TypeOK
  <2> QED BY <1>3, <2>3, PointsType DEF Asked, Target
<1>4. CASE pc = "confirm"
  <2>1. low # 0 /\ low <= upper
    BY <1>0, <1>4 DEF Evidence, Searching
  <2>2. low \in 1 .. MaxCtx
    BY <1>0, <1>m, <2>1 DEF TypeOK
  <2> QED BY <1>4, <2>2, PointsType DEF Asked, Target
<1> QED
  BY <1>1, <1>2, <1>3, <1>4 DEF Running, Growing, Refining

(* What answers a probe is a result that a trial of it may have.           *)
LEMMA ResultIsAnswer ==
  ASSUME CacheInv, Asked \in Points, NEW r,
         \/ r = TuneTimeout
         \/ r = rows[Asked] /\ Reusable(Asked)
         \/ r \in machine[Asked]
  PROVE  /\ r \in Results(Asked)
         /\ r \in machine[Asked] \/ r.status # "ok"
<1>2. machine[Asked] \subseteq Results(Asked)
  BY CacheAssumption DEF CacheInv
<1>3. CASE r = TuneTimeout
  <2>1. TuneTimeout \in Silent({"tune_timeout"}, {FALSE})
    BY DEF TuneTimeout, Silent
  <2>2. r \in Results(Asked)
    BY <1>3, <2>1 DEF Results
  <2>3. r.status # "ok"
    BY <1>3 DEF TuneTimeout
  <2> QED BY <2>2, <2>3
<1>4. CASE r = rows[Asked] /\ Reusable(Asked)
  <2>1. r \in machine[Asked] \cup {Interrupted, NoRow}
    BY <1>4 DEF CacheInv, RowsAreEarned
  <2>2. r # Interrupted /\ r # NoRow
    BY <1>4 DEF Reusable, Transient, Interrupted, NoRow
  <2> QED BY <1>2, <2>1, <2>2
<1> QED BY <1>2, <1>3, <1>4

LEMMA AnswerIsResult ==
  ASSUME SearchInv, Asking, NEW r,
         \/ r = TuneTimeout
         \/ r = rows[Asked] /\ Reusable(Asked)
         \/ r \in machine[Asked]
  PROVE  /\ r \in Results(Asked)
         /\ r \in machine[Asked] \/ r.status # "ok"
BY AskedIsPoint, ResultIsAnswer DEF SearchInv, Asking

(* A probe of the search keeps the successes real.                         *)
LEMMA ProbeIsReal ==
  ASSUME SearchInv, NEW r, Probe(r), Running, machine' = machine,
         r \in machine[Asked] \/ r.status # "ok"
  PROVE  SuccessesAreReal'
<1>1. Record(r, Asked)
  <2>1. CASE First(r)
    BY <2>1 DEF First, RunOnce, Asked, Target
  <2>2. CASE Grow(r)
    BY <2>2 DEF Grow, Growing, RunOnce, Asked, Target
  <2>3. CASE Refine(r)
    BY <2>3 DEF Refine, Refining, RunOnce, Asked, Target
  <2>4. CASE Confirm(r)
    BY <2>4 DEF Confirm, Asked, Target
  <2> QED BY <2>1, <2>2, <2>3, <2>4 DEF Probe
<1>2. KindOf(r, Asked) = "success" => r.status = "ok"
  BY DEF KindOf, Classify
<1> DEFINE t0 == [ctx |-> Asked, outcome |-> KindOf(r, Asked),
                  initialized |-> r.initialized]
<1>3. trials' = trials \cup {t0}
  BY <1>1 DEF Record
<1>4. t0.outcome = "success" => \E q \in machine[t0.ctx] : q.status = "ok"
  BY <1>2
<1> HIDE DEF t0
<1>5. \A t \in trials' :
        t.outcome = "success" => \E q \in machine[t.ctx] : q.status = "ok"
  BY <1>3, <1>4 DEF SearchInv, SuccessesAreReal, Successes
<1> QED BY <1>5 DEF SuccessesAreReal, Successes

(* Every step of the tuner keeps the invariant of the search, whichever    *)
(* run it belongs to.                                                      *)
LEMMA SearchNext == SearchInv /\ [CNext]_allVars => SearchInv'
<1> SUFFICES ASSUME SearchInv, [CNext]_allVars PROVE SearchInv'
  OBVIOUS
<1>0. CacheInv'
  BY CacheNext DEF SearchInv
<1>m. machine' = machine
  BY DEF CNext, OutOfTime, Reuse, Execute, Interrupt, Die, Search, Deadline,
         Restart, Exhausted, cache, allVars
<1>p. ASSUME NEW r, Asking, Probe(r),
             \/ r = TuneTimeout
             \/ r = rows[Asked] /\ Reusable(Asked)
             \/ r \in machine[Asked]
      PROVE  SearchInv'
  <2>1. /\ r \in Results(Asked)
        /\ r \in machine[Asked] \/ r.status # "ok"
    BY <1>p, AnswerIsResult
  <2>2. Next
    BY <1>p, <2>1 DEF Next, Asked
  <2>3. EvidenceInv'
    BY <2>2, EvidenceNext DEF SearchInv
  <2>4. SuccessesAreReal'
    BY <1>p, <1>m, <2>1, ProbeIsReal DEF Asking
  <2> QED BY <1>0, <2>3, <2>4 DEF SearchInv
<1>u. ASSUME UNCHANGED vars PROVE SearchInv'
  <2>1. EvidenceInv'
    BY <1>u, EvidenceNext DEF SearchInv
  <2>2. SuccessesAreReal'
    BY <1>u, <1>m DEF SearchInv, SuccessesAreReal, Successes, vars, evidence
  <2> QED BY <1>0, <2>1, <2>2 DEF SearchInv
<1>1. CASE OutOfTime
  BY <1>1, <1>p DEF OutOfTime
<1>2. CASE Reuse
  BY <1>2, <1>p DEF Reuse
<1>3. ASSUME NEW r \in machine[Asked], Execute(r) PROVE SearchInv'
  BY <1>3, <1>p DEF Execute
<1>4. CASE Interrupt
  BY <1>4, <1>u DEF Interrupt
<1>5. CASE Die
  BY <1>5, <1>u DEF Die
<1>6. CASE Search
  <2>1. EvidenceInv'
    BY <1>6, EvidenceNext DEF Search, SearchInv, Next
  <2>2. trials' = trials
    BY <1>6 DEF Search, Decide, EndGrow, EndRefine, TooSmall, Report, evidence
  <2>3. SuccessesAreReal'
    BY <1>m, <2>2 DEF SearchInv, SuccessesAreReal, Successes
  <2> QED BY <1>0, <2>1, <2>3 DEF SearchInv
<1>7. CASE Deadline
  BY <1>7, <1>u DEF Deadline
<1>8. CASE Restart
  <2>1. Begin' /\ UNCHANGED <<base, upper>>
    BY <1>8 DEF Restart, Begin
  <2>2. AlignedInputs' /\ base' <= upper'
    BY <2>1 DEF SearchInv, EvidenceInv, Evidence, AlignedInputs, Floor
  <2>3. TypeInv'
    BY <2>1, FrontierAssumption
    DEF SearchInv, EvidenceInv, TypeInv, TypeOK, Counting, Begin
  <2>4. Evidence'
    BY <2>1, <2>2 DEF Evidence, Begin, Searching, ContextsOf
  <2>5. SuccessesAreReal'
    BY <2>1 DEF SuccessesAreReal, Successes, Begin
  <2> QED BY <1>0, <2>2, <2>3, <2>4, <2>5 DEF SearchInv, EvidenceInv
<1>9. CASE UNCHANGED allVars
  BY <1>9, <1>u DEF allVars
<1> QED
  BY <1>1, <1>2, <1>3, <1>4, <1>5, <1>6, <1>7, <1>8, <1>9
  DEF CNext, Exhausted

(* The invariant of the search, which ContextFrontierProofs proves of one  *)
(* search, holds of all runs of the tuner.                                 *)
LEMMA SearchInvariant == CSpec /\ AlignedInputs => []SearchInv
<1>1. CInit /\ AlignedInputs => SearchInv
  <2> SUFFICES ASSUME CInit, AlignedInputs PROVE SearchInv
    OBVIOUS
  <2>1. EvidenceInv
    BY EvidenceInit DEF CInit
  <2>2. SuccessesAreReal
    BY DEF CInit, Init, Begin, SuccessesAreReal, Successes
  <2> QED BY <2>1, <2>2, CacheInit DEF SearchInv
<1> QED BY <1>1, SearchNext, PTL DEF CSpec

(* With the cache, too, the context answered succeeded in a probe of the   *)
(* run that answers, and nothing probed at or below it failed in that run. *)
THEOREM CachedAnswerCorrect == CSpec /\ AlignedInputs => []AnswerHasEvidence
<1>1. SearchInv => AnswerHasEvidence
  BY AnswerFromEvidence DEF SearchInv
<1> QED BY <1>1, SearchInvariant, PTL

(* The context answered is one that a server can be used with, however     *)
(* much of the evidence is reused.                                         *)
THEOREM CachedAnswerReal == CSpec /\ AlignedInputs => []AnswerIsReal
<1>1. SearchInv => AnswerIsReal
  <2> SUFFICES ASSUME SearchInv, pc = "done", report.benchmarkable # 0
               PROVE  \E r \in machine[report.benchmarkable] : r.status = "ok"
    BY DEF AnswerIsReal
  <2>1. report.benchmarkable \in ContextsOf(Successes)
    BY AnswerFromEvidence DEF SearchInv, AnswerHasEvidence
  <2> QED BY <2>1 DEF SearchInv, SuccessesAreReal, ContextsOf
<1> QED BY <1>1, SearchInvariant, PTL

-------------------------------------------------------------------------------
(* What else is proved of the search holds with the cache.                 *)

(* A step of the tuner is a step of the search, or begins another one.     *)
LEMMA SearchStep ==
  ASSUME SearchInv, [CNext]_allVars
  PROVE  [Next]_vars \/ (Begin' /\ UNCHANGED <<base, upper>>)
<1>1. ASSUME NEW r, Asking, Probe(r),
             \/ r = TuneTimeout
             \/ r = rows[Asked] /\ Reusable(Asked)
             \/ r \in machine[Asked]
      PROVE  [Next]_vars
  BY <1>1, AnswerIsResult DEF Next, Asked
<1>2. CASE Restart
  BY <1>2 DEF Restart, Begin
<1> QED
  BY <1>1, <1>2
  DEF CNext, OutOfTime, Reuse, Execute, Interrupt, Die, Search, Deadline, Exhausted,
      Next, allVars

CachedInv == SearchInv /\ Closing /\ Reasons /\ Economical

(* ... and so do what closes the bracket, what gives its upper end a       *)
(* reason, and the account of the probes.                                  *)
LEMMA CachedNext == CachedInv /\ [CNext]_allVars => CachedInv'
<1> SUFFICES ASSUME CachedInv, [CNext]_allVars
             PROVE  Closing' /\ Reasons' /\ Economical'
  BY SearchNext DEF CachedInv
<1>1. CASE [Next]_vars
  BY <1>1, ClosingNext, ReasonsNext, EconomicalNext DEF CachedInv, SearchInv
<1>2. CASE Begin'
  <2>1. Closing'
    BY <1>2 DEF Begin, Closing
  <2>2. Reasons'
    BY <1>2 DEF Begin, Reasons
  <2>3. Economical'
    BY <1>2 DEF Begin, Economical
  <2> QED
    BY <2>1, <2>2, <2>3
<1> QED
  BY <1>1, <1>2, SearchStep DEF CachedInv

(* The bracket, the reason of its upper end and the probes, in every run.  *)
LEMMA CachedInvariant == CSpec /\ AlignedInputs => []CachedInv
<1>1. CInit => Closing /\ Reasons /\ Economical
  BY DEF CInit, Init, Begin, Closing, Reasons, Economical
<1>2. CSpec /\ AlignedInputs => SearchInv
  BY SearchInvariant, PTL
<1> QED
  BY <1>1, <1>2, CachedNext, PTL DEF CSpec, CachedInv

(* The status is supported by the trials, reused or made.                  *)
THEOREM CachedStatusCorrect == CSpec /\ AlignedInputs => []StatusHasEvidence
<1>1. CachedInv => StatusHasEvidence
  BY StatusFromReasons DEF CachedInv, SearchInv
<1> QED
  BY <1>1, CachedInvariant, PTL

(* The recommended context keeps its distance to the failures reused, too. *)
THEOREM CachedHeadroomCorrect == CSpec /\ AlignedInputs => []HeadroomBelowFailures
<1>1. CachedInv => HeadroomBelowFailures
  BY HeadroomFromClosing DEF CachedInv, SearchInv
<1> QED
  BY <1>1, CachedInvariant, PTL

(* A row that is reused is a probe, too, and their number is bounded in    *)
(* every run of the tuner as it is without a cache.                        *)
THEOREM CachedLogarithmic == CSpec /\ AlignedInputs => []ProbesLogarithmic
<1>1. CachedInv => ProbesLogarithmic
  BY LogarithmicFromEconomical DEF CachedInv, SearchInv, EvidenceInv
<1> QED
  BY <1>1, CachedInvariant, PTL

(* Every run of the tuner implements the abstract bracket search, which    *)
(* begins anew with it.                                                    *)
THEOREM CachedRefinement ==
  CSpec /\ AlignedInputs => BS!Init /\ [][BS!Next \/ BS!Init']_(BS!vars)
<1>1. CInit => BS!Init
  BY RefinementInit DEF CInit
<1>2. SearchInv /\ SearchInv' /\ [CNext]_allVars => [BS!Next \/ BS!Init']_(BS!vars)
  <2> SUFFICES ASSUME SearchInv, SearchInv', [CNext]_allVars
               PROVE  BS!Next \/ BS!Init' \/ UNCHANGED BS!vars
    OBVIOUS
  <2>1. CASE [Next]_vars
    BY <2>1, RefinementNext DEF SearchInv
  <2>2. CASE Begin'
    BY <2>2 DEF Begin, BS!Init, ContextsOf, Failures, Successes
  <2> QED
    BY <2>1, <2>2, SearchStep
<1> QED
  BY <1>1, <1>2, SearchInvariant, PTL DEF CSpec

-------------------------------------------------------------------------------
(* With any inputs, aligned or not, a run of the tuner is a search.        *)

(* The bracket does not leave the contexts there are.                      *)
Ranged ==
  /\ pc = "first" => high = 0
  /\ pc \in {"grow", "refine", "confirm"} => low <= MaxCtx
  /\ pc \in {"grow", "refine"} => high <= MaxCtx
  /\ pc = "confirm" => low # 0

(* The context that is asked for is among them.                            *)
LEMMA TargetRanged ==
  ASSUME TypeOK, Ranged, Running
  PROVE  Target \in 1 .. MaxCtx
<1>1. /\ base \in 1 .. MaxCtx /\ upper \in 1 .. MaxCtx /\ MaxCtx \in Nat
      /\ low \in Nat /\ high \in Nat /\ point \in Nat /\ Resolution \in Nat \ {0}
  BY FrontierAssumption DEF TypeOK
<1>2. CASE pc = "first"
  <2>1. Floor(base) \in Nat /\ Floor(base) <= base
    BY <1>1, FloorBounds
  <2> QED
    BY <1>1, <1>2, <2>1 DEF Target, Start
<1>3. CASE pc = "grow" /\ Growing
  <2>1. Doubled > point /\ Doubled \in Nat
    BY <1>3, DoubledType DEF Growing
  <2>2. \A n : (Smaller(n, upper) = n /\ n <= upper) \/ Smaller(n, upper) = upper
    BY DEF Smaller
  <2>3. Doubled <= upper
    BY <1>1, <2>1, <2>2 DEF Doubled
  <2> QED
    BY <1>1, <1>3, <2>1, <2>3 DEF Target
<1>4. CASE pc = "refine" /\ Refining
  <2>1. Middle < high /\ high <= MaxCtx /\ Middle \in Nat
    BY <1>4, MiddleType DEF Refining, Ranged
  <2>2. Middle > low
    <3>1. Floor((low + high) \div 2) \in Nat
      BY <1>1, FloorBounds
    <3> QED
      BY <1>1, <3>1 DEF Middle
  <2> QED
    BY <1>1, <1>4, <2>1, <2>2 DEF Target
<1>5. CASE pc = "confirm"
  BY <1>1, <1>5 DEF Target, Ranged
<1> QED
  BY <1>2, <1>3, <1>4, <1>5 DEF Running, Growing, Refining

(* A step of the search stays in range.                                    *)
LEMMA RangedNext == TypeInv /\ Ranged /\ [Next]_vars => Ranged'
<1> SUFFICES ASSUME TypeInv, Ranged, [Next]_vars PROVE Ranged'
  OBVIOUS
<1>0. TypeOK /\ MaxCtx \in Nat /\ low \in Nat /\ high \in Nat
  BY FrontierAssumption DEF TypeInv, TypeOK
<1>1. ASSUME NEW r \in Results(ProbedCtx(Target)), First(r) PROVE Ranged'
  <2>1. Start \in 1 .. MaxCtx /\ high = 0
    BY <1>0, <1>1, TargetRanged DEF First, Running, Target, Ranged
  <2>2. \/ pc' = "report"
        \/ pc' = "grow" /\ low' = Start /\ high' = high
    BY <1>1 DEF First
  <2> QED
    BY <1>0, <2>1, <2>2 DEF Ranged
<1>2. ASSUME NEW r \in Results(ProbedCtx(Target)), Grow(r) PROVE Ranged'
  <2>1. Doubled \in 1 .. MaxCtx /\ low <= MaxCtx /\ high <= MaxCtx
    BY <1>0, <1>2, TargetRanged DEF Grow, Growing, Running, Target, Ranged
  <2>2. \/ pc' = "report"
        \/ pc' = "grow" /\ low' = Doubled /\ high' = high
        \/ pc' = "refine" /\ low' = low /\ high' = Doubled
    BY <1>2 DEF Grow, Growing, Bound
  <2> QED
    BY <1>0, <2>1, <2>2 DEF Ranged
<1>3. CASE EndGrow
  BY <1>3 DEF EndGrow, search, Ranged
<1>4. ASSUME NEW r \in Results(ProbedCtx(Target)), Refine(r) PROVE Ranged'
  <2>1. Middle \in 1 .. MaxCtx /\ low <= MaxCtx /\ high <= MaxCtx
    BY <1>0, <1>4, TargetRanged DEF Refine, Refining, Running, Target, Ranged
  <2>2. \/ pc' = "report"
        \/ pc' = "refine" /\ low' = Middle /\ high' = high
        \/ pc' = "refine" /\ low' = low /\ high' = Middle
    BY <1>4 DEF Refine, Refining, Bound
  <2> QED
    BY <1>0, <2>1, <2>2 DEF Ranged
<1>5. CASE EndRefine
  BY <1>5 DEF EndRefine, search, Ranged
<1>6. ASSUME NEW r \in Results(ProbedCtx(Target)), Confirm(r) PROVE Ranged'
  BY <1>6 DEF Confirm, Ranged
<1>7. CASE TooSmall
  BY <1>7 DEF TooSmall, Ranged
<1>8. CASE Report
  BY <1>8 DEF Report, Ranged
<1>9. CASE UNCHANGED vars
  BY <1>9 DEF vars, search, Ranged
<1> QED
  BY <1>1, <1>2, <1>3, <1>4, <1>5, <1>6, <1>7, <1>8, <1>9 DEF Next, Terminating, Probe, Decide

(* Whatever answers a probe, the search goes on as a search does.          *)
LEMMA RunStep ==
  ASSUME TypeInv, Ranged, CacheInv, [CNext]_allVars
  PROVE  [Next]_vars \/ (Begin' /\ UNCHANGED <<base, upper>>)
<1>1. ASSUME NEW r, Asking, Probe(r),
             \/ r = TuneTimeout
             \/ r = rows[Asked] /\ Reusable(Asked)
             \/ r \in machine[Asked]
      PROVE  [Next]_vars
  <2>1. Asked \in Points
    BY <1>1, TargetRanged, PointsType DEF Asking, Asked, TypeInv
  <2>2. r \in Results(Asked)
    BY <1>1, <2>1, ResultIsAnswer
  <2> QED
    BY <1>1, <2>2 DEF Next, Asked
<1>2. CASE Restart
  BY <1>2 DEF Restart, Begin
<1> QED
  BY <1>1, <1>2
  DEF CNext, OutOfTime, Reuse, Execute, Interrupt, Die, Search, Deadline, Exhausted,
      Next, allVars

RunInv == TypeInv /\ Ranged /\ CacheInv

(* Nothing of a run is left to the next, but the rows.                     *)
LEMMA RunInit == CInit => Init /\ RunInv
<1> SUFFICES ASSUME CInit PROVE Init /\ RunInv
  OBVIOUS
<1>1. Init /\ TypeInv
  BY TypeInit DEF CInit
<1>2. Ranged
  BY <1>1 DEF Init, Begin, Ranged
<1> QED
  BY <1>1, <1>2, CacheInit DEF RunInv

(* Every step of the tuner keeps this.                                     *)
LEMMA RunNext == RunInv /\ [CNext]_allVars => RunInv'
<1> SUFFICES ASSUME RunInv, [CNext]_allVars PROVE RunInv'
  OBVIOUS
<1>1. CacheInv'
  BY CacheNext DEF RunInv
<1>2. CASE [Next]_vars
  BY <1>1, <1>2, TypeNext, RangedNext DEF RunInv
<1>3. CASE Begin' /\ UNCHANGED <<base, upper>>
  <2>1. TypeInv'
    BY <1>3, FrontierAssumption DEF RunInv, TypeInv, TypeOK, Counting, Begin
  <2>2. Ranged'
    BY <1>3 DEF Begin, Ranged
  <2> QED
    BY <1>1, <1>3, <2>1, <2>2 DEF RunInv
<1> QED
  BY <1>2, <1>3, RunStep DEF RunInv

(* With any inputs, each run of the tuner is a search that starts from     *)
(* nothing, whatever the runs before it have left in the cache.            *)
THEOREM RunsAreSearches ==
  CSpec => Init /\ [][Next \/ (Begin' /\ UNCHANGED <<base, upper>>)]_vars
<1>1. RunInv /\ [CNext]_allVars => [Next \/ (Begin' /\ UNCHANGED <<base, upper>>)]_vars
  BY RunStep DEF RunInv
<1> QED
  BY <1>1, RunInit, RunNext, PTL DEF CSpec

-------------------------------------------------------------------------------
(* A probe, seen from the cache.                                           *)

(* There are finitely many contexts to ask for.                            *)
LEMMA PointsBounded == Points \subseteq 1 .. MaxCtx /\ IsFiniteSet(Points)
<1>1. ASSUME NEW n \in 1 .. MaxCtx
      PROVE  ProbedCtx(n) \in 1 .. MaxCtx
  <2>1. n \in Nat /\ Floor(n) \in Nat /\ Floor(n) <= n
    BY FloorBounds, FrontierAssumption
  <2> QED
    BY <2>1, FrontierAssumption DEF ProbedCtx, Larger
<1>2. Points \subseteq 1 .. MaxCtx
  BY <1>1 DEF Points
<1>3. IsFiniteSet(1 .. MaxCtx)
  BY FS_Interval, FrontierAssumption
<1> QED
  BY <1>2, <1>3, FS_Subset

(* What a trial or a row that is reused answers, the machine can give.     *)
LEMMA ReusedIsReal ==
  ASSUME SearchInv, Asking, Reusable(Asked)
  PROVE  rows[Asked] \in machine[Asked]
<1>1. Asked \in Points
  BY AskedIsPoint DEF SearchInv, Asking
<1>2. rows[Asked] \in machine[Asked] \cup {Interrupted, NoRow}
  BY <1>1 DEF SearchInv, CacheInv, RowsAreEarned
<1> QED
  BY <1>2 DEF Reusable, Transient, Interrupted, NoRow

(* A tuner out of time answers a probe with an inconclusive result.        *)
LEMMA TimeoutIsUnknown == KindOf(TuneTimeout, Asked) = "unknown"
BY DEF KindOf, TuneTimeout, Classify

(* A context is asked for afresh, but to be confirmed.                     *)
LEMMA AskedIsFresh ==
  ASSUME EvidenceInv, Running, pc # "confirm",
         pc \in {"grow", "refine"} => \A t \in Successes : t.ctx <= low
  PROVE  Asked \notin ContextsOf(trials)
<1>0. TypeOK /\ Evidence /\ AlignedInputs
  BY DEF EvidenceInv, TypeInv
<1>1. \A t \in trials : t.ctx \in Nat /\ (t \in Successes \/ t \in Failures)
  BY <1>0 DEF TypeOK, Successes, Failures
<1>2. CASE pc = "first"
  BY <1>0, <1>2 DEF Evidence, ContextsOf
<1>3. CASE pc = "grow" /\ Growing
  <2>1. /\ Floor(upper) = upper /\ Floor(point) = point /\ point # 0 /\ point < upper
        /\ point = low /\ Failures = {}
    BY <1>0, <1>3 DEF Evidence, Searching, AlignedInputs, Growing
  <2>2. Asked \in Nat /\ low < Asked /\ low \in Nat
    BY <1>0, <1>3, <2>1, DoubledAligned DEF Asked, Target, TypeOK
  <2> QED
    BY <1>1, <1>3, <2>1, <2>2 DEF ContextsOf
<1>4. CASE pc = "refine" /\ Refining
  <2>1. Floor(low) = low /\ low # 0 /\ \A t \in Failures : high <= t.ctx
    BY <1>0, <1>4 DEF Evidence, Searching
  <2>2. Asked \in Nat /\ low < Asked /\ Asked < high /\ low \in Nat /\ high \in Nat
    BY <1>0, <1>4, <2>1, MiddleAligned DEF Asked, Target, TypeOK
  <2> QED
    BY <1>1, <1>4, <2>1, <2>2 DEF ContextsOf
<1> QED
  BY <1>2, <1>3, <1>4 DEF Running, Growing, Refining

(* What a probe does with the outcome, by phase.                           *)
Searched(kind) ==
  /\ pc \in {"first", "grow", "refine"}
  /\ attempt' = 0 /\ outcomes' = {}
  /\ \/ kind = "success" /\ low' = Asked
        /\ pc' = (IF pc = "first" THEN "grow" ELSE pc) /\ high' = high
     \/ pc = "first" /\ kind # "success" /\ pc' = "report" /\ low' = 0
     \/ pc # "first" /\ kind \in {"context", "timeout"}
        /\ pc' = "refine" /\ low' = low /\ high' = Asked
     \/ kind \in Inconclusive /\ pc' = "report"

Confirmed(kind) ==
  /\ pc = "confirm" /\ Asked = low
  /\ attempt' = attempt + 1 /\ outcomes' = outcomes \cup {kind}
  /\ \/ pc' = "confirm" /\ low' = low /\ kind \notin Inconclusive
     \/ /\ pc' = "report"
        /\ outcomes' = {"success"} => attempt' >= Repeats /\ low' = low

(* What a probe does to the evidence, and that it is a step of the search  *)
(* or a confirmation.                                                      *)
LEMMA ProbeEffect ==
  ASSUME EvidenceInv, Running, NEW r, Probe(r), NEW kind, kind = KindOf(r, Asked)
  PROVE  /\ UNCHANGED <<base, upper>>
         /\ ContextsOf(trials)' = ContextsOf(trials) \cup {Asked}
         /\ \A t \in trials' : t \in trials \/ (t.ctx = Asked /\ t.outcome = kind)
         /\ Searched(kind) \/ Confirmed(kind)
<1>0. TypeOK /\ Evidence /\ AlignedInputs /\ Counting
  BY DEF EvidenceInv, TypeInv
<1>k. kind \in Kinds
  BY KindOfType
<1>s. RunState({kind}) = CASE kind = "success" -> "pass"
                           [] kind = "context" -> "fail"
                           [] OTHER -> kind
  BY <1>k DEF RunState, Kinds
<1>r. ASSUME Record(r, Asked)
      PROVE  /\ ContextsOf(trials)' = ContextsOf(trials) \cup {Asked}
             /\ \A t \in trials' : t \in trials \/ (t.ctx = Asked /\ t.outcome = kind)
  <2> DEFINE t0 == [ctx |-> Asked, outcome |-> kind, initialized |-> r.initialized]
  <2>1. trials' = trials \cup {t0}
    BY <1>r DEF Record
  <2>2. t0.ctx = Asked /\ t0.outcome = kind
    OBVIOUS
  <2> HIDE DEF t0
  <2> QED
    BY <2>1, <2>2, Z3 DEF ContextsOf
<1>1. CASE First(r)
  <2>1. Asked = Start /\ pc = "first" /\ attempt = 0 /\ outcomes = {} /\ low = 0
    BY <1>0, <1>1, StartAligned DEF First, Asked, Target, Evidence, Counting
  <2>2. /\ Record(r, Asked) /\ UNCHANGED <<base, upper, attempt, outcomes>>
        /\ IF RunState({kind}) = "pass"
             THEN pc' = "grow" /\ low' = Start /\ UNCHANGED high
             ELSE pc' = "report" /\ UNCHANGED low
    BY <1>1 DEF First, RunOnce, Asked, Target
  <2>3. Searched(kind)
    BY <1>k, <1>s, <2>1, <2>2 DEF Searched, Kinds
  <2> QED
    BY <1>r, <2>2, <2>3
<1>2. CASE Grow(r)
  <2>1. /\ pc = "grow" /\ attempt = 0 /\ outcomes = {} /\ point # 0 /\ point < upper
        /\ Floor(point) = point
    BY <1>0, <1>2 DEF Grow, Growing, Evidence, Searching, Counting
  <2>2. Asked = Doubled
    BY <1>0, <2>1, DoubledAligned DEF Asked, Target, AlignedInputs
  <2>3. /\ Record(r, Asked) /\ UNCHANGED <<base, upper, attempt, outcomes>>
        /\ CASE RunState({kind}) = "pass" -> low' = Doubled /\ UNCHANGED <<pc, high>>
             [] RunState({kind}) \in Inconclusive -> pc' = "report"
             [] OTHER -> pc' = "refine" /\ high' = Doubled /\ UNCHANGED low
    BY <1>2, <2>1 DEF Grow, RunOnce, Asked, Target, Bound
  <2>4. Searched(kind)
    BY <1>k, <1>s, <2>1, <2>2, <2>3 DEF Searched, Kinds, Inconclusive
  <2> QED
    BY <1>r, <2>3, <2>4
<1>3. CASE Refine(r)
  <2>1. pc = "refine" /\ attempt = 0 /\ outcomes = {} /\ low # 0 /\ Floor(low) = low /\ Refining
    BY <1>0, <1>3 DEF Refine, Refining, Evidence, Searching, Counting
  <2>2. Asked = Middle
    BY <1>0, <2>1, MiddleAligned DEF Asked, Target
  <2>3. /\ Record(r, Asked) /\ UNCHANGED <<base, upper, attempt, outcomes>>
        /\ CASE RunState({kind}) = "pass" -> low' = Middle /\ UNCHANGED <<pc, high>>
             [] RunState({kind}) \in Inconclusive -> pc' = "report"
             [] OTHER -> high' = Middle /\ UNCHANGED <<pc, low>>
    BY <1>3, <2>1 DEF Refine, RunOnce, Asked, Target, Bound
  <2>4. Searched(kind)
    BY <1>k, <1>s, <2>1, <2>2, <2>3 DEF Searched, Kinds, Inconclusive
  <2> QED
    BY <1>r, <2>3, <2>4
<1>4. CASE Confirm(r)
  <2>1. pc = "confirm" /\ Asked = low
    BY <1>0, <1>4, AlignedProbe DEF Confirm, Evidence, Searching, Asked, Target, TypeOK
  <2>2. /\ Record(r, Asked) /\ UNCHANGED <<base, upper>>
        /\ attempt' = attempt + 1 /\ outcomes' = outcomes \cup {kind}
        /\ IF attempt + 1 < Repeats /\ kind \notin Inconclusive
             THEN UNCHANGED <<pc, low>>
             ELSE pc' = "report" /\ (RunState(outcomes') = "pass" => UNCHANGED low)
    BY <1>4, <2>1 DEF Confirm, Asked, Target
  <2>3. outcomes' = {"success"} => RunState(outcomes') = "pass" /\ kind = "success"
    BY <2>2 DEF RunState
  <2>4. attempt + 1 < Repeats \/ attempt + 1 >= Repeats
    BY <1>0, FrontierAssumption DEF TypeOK
  <2>5. Confirmed(kind)
    BY <2>1, <2>2, <2>3, <2>4 DEF Confirmed, Inconclusive
  <2> QED
    BY <1>r, <2>2, <2>5
<1> QED
  BY <1>1, <1>2, <1>3, <1>4 DEF Probe

-------------------------------------------------------------------------------
(* Trials made by the run that answers.                                    *)

(* The contexts asked for have been probed, the point to be confirmed is   *)
(* one of them, and so every confirmation is a trial.                      *)
Afresh ==
  /\ executed \in [Points -> Nat]
  /\ asked \subseteq ContextsOf(trials) \cap Points
  /\ pc \in {"grow", "refine"} => \A t \in Successes : t.ctx <= low
  /\ pc \in {"grow", "refine", "confirm"} => low \in asked
  /\ pc = "confirm" /\ outcomes \subseteq {"success"} => executed[low] >= attempt
  /\ pc \in {"report", "done"} /\ outcomes = {"success"} =>
       low \in Points /\ executed[low] >= Repeats

(* A trial that is started, and nothing else that the search looks at.     *)
LEMMA SpendAfresh ==
  ASSUME SearchInv, Afresh, Asking, Spend(Asked),
         UNCHANGED <<asked, trials, pc, low, outcomes, attempt>>
  PROVE  Afresh'
<1>1. \A n \in Points : executed'[n] \in Nat /\ executed'[n] >= executed[n]
  BY DEF Spend, Afresh
<1>2. executed' \in [Points -> Nat]
  BY AskedIsPoint DEF Spend, Afresh, SearchInv, Asking
<1>3. attempt \in Nat /\ Repeats \in Nat
  BY FrontierAssumption DEF SearchInv, EvidenceInv, TypeInv, TypeOK
<1> QED
  BY <1>1, <1>2, <1>3 DEF Afresh, Successes, ContextsOf

(* A probe that is answered, by a row or by a trial, and then asked for.   *)
LEMMA ProbeAfresh ==
  ASSUME SearchInv, Afresh, Asking, NEW r, Probe(r),
         asked' = asked \cup {Asked},
         \/ Spend(Asked)
         \/ executed' = executed /\ Asked \notin asked
  PROVE  Afresh'
<1>0. EvidenceInv /\ Running /\ TypeOK /\ Evidence /\ Asked \in Points
  BY AskedIsPoint DEF SearchInv, EvidenceInv, TypeInv, Asking
<1>1. PICK kind \in Kinds : kind = KindOf(r, Asked)
  BY KindOfType
<1>2. /\ ContextsOf(trials)' = ContextsOf(trials) \cup {Asked}
      /\ \A t \in trials' : t \in trials \/ (t.ctx = Asked /\ t.outcome = kind)
      /\ Searched(kind) \/ Confirmed(kind)
  BY <1>0, <1>1, ProbeEffect
<1>3. /\ executed' \in [Points -> Nat]
      /\ \A n \in Points : executed'[n] >= executed[n]
      /\ Asked \in asked => executed'[Asked] = executed[Asked] + 1
  BY <1>0 DEF Spend, Afresh
<1>4. asked' \subseteq ContextsOf(trials)' \cap Points
  BY <1>0, <1>2 DEF Afresh
<1>5. Asked \in Nat /\ low \in Nat /\ attempt \in Nat /\ Repeats \in Nat
  BY <1>0, PointsBounded, FrontierAssumption DEF TypeOK
<1>6. CASE Searched(kind)
  <2>1. \A t \in Successes' : t \in Successes \/ (t.ctx = Asked /\ kind = "success")
    BY <1>2 DEF Successes
  <2>2. \A t \in Successes : t.ctx \in Nat
    BY <1>0 DEF Successes, TypeOK
  <2>3. pc = "first" => Successes = {}
    BY <1>0 DEF Evidence, Successes
  <2>4. pc \in {"grow", "refine"} => low <= Asked
    <3>1. CASE pc = "grow"
      BY <1>0, <3>1, <1>5, DoubledAligned
      DEF Running, Growing, Refining, Asked, Target, Evidence, Searching, EvidenceInv,
          AlignedInputs
    <3>2. CASE pc = "refine"
      BY <1>0, <3>2, <1>5, MiddleAligned
      DEF Running, Growing, Refining, Asked, Target, Evidence, Searching
    <3> QED
      BY <3>1, <3>2
  <2>5. pc' \in {"grow", "refine"} => \A t \in Successes' : t.ctx <= low'
    BY <1>5, <1>6, <2>1, <2>2, <2>3, <2>4 DEF Searched, Afresh, Inconclusive
  <2>6. pc' \in {"grow", "refine"} => low' \in asked'
    BY <1>6 DEF Searched, Afresh, Inconclusive
  <2> QED
    BY <1>3, <1>4, <1>6, <2>5, <2>6 DEF Searched, Afresh
<1>7. CASE Confirmed(kind)
  <2>1. low \in asked /\ Asked = low /\ executed'[low] = executed[low] + 1
    BY <1>3, <1>7 DEF Confirmed, Afresh
  <2>2. executed[low] \in Nat
    BY <1>0, <2>1 DEF Afresh
  <2>3. outcomes' \subseteq {"success"} => executed'[low] >= attempt'
    BY <1>5, <1>7, <2>1, <2>2 DEF Confirmed, Afresh
  <2>4. attempt' \in Nat /\ executed'[low] \in Nat
    BY <1>5, <1>7, <2>1, <2>2 DEF Confirmed
  <2> QED
    BY <1>0, <1>3, <1>4, <1>5, <1>7, <2>1, <2>3, <2>4 DEF Confirmed, Afresh
<1> QED
  BY <1>2, <1>6, <1>7

(* A confirmation is a trial that this run of the tuner has made.          *)
LEMMA AfreshNext == SearchInv /\ Afresh /\ [CNext]_allVars => Afresh'
<1> SUFFICES ASSUME SearchInv, Afresh, [CNext]_allVars PROVE Afresh'
  OBVIOUS
<1>0. TypeOK /\ Evidence /\ Counting
  BY DEF SearchInv, EvidenceInv, TypeInv
<1>u. ASSUME UNCHANGED <<executed, asked, trials, pc, low, outcomes, attempt>>
      PROVE  Afresh'
  BY <1>u DEF Afresh, Successes, ContextsOf
<1>1. CASE OutOfTime
  <2>1. /\ EvidenceInv /\ Running /\ Probe(TuneTimeout) /\ UNCHANGED <<executed, asked>>
    BY <1>1 DEF OutOfTime, Asking, SearchInv, cache, session
  <2>2. /\ ContextsOf(trials)' = ContextsOf(trials) \cup {Asked}
        /\ Searched("unknown") \/ Confirmed("unknown")
    BY <2>1, TimeoutIsUnknown, ProbeEffect
  <2>3. pc' = "report" /\ outcomes' # {"success"}
    BY <2>2 DEF Searched, Confirmed, Inconclusive
  <2> QED
    BY <2>1, <2>2, <2>3 DEF Afresh
<1>2. CASE Reuse
  BY <1>2, ProbeAfresh DEF Reuse, Reusable
<1>3. ASSUME NEW r \in machine[Asked], Execute(r) PROVE Afresh'
  BY <1>3, ProbeAfresh DEF Execute
<1>4. CASE Interrupt
  BY <1>4, SpendAfresh DEF Interrupt, vars, search, evidence
<1>5. CASE Die
  BY <1>5, <1>u, SpendAfresh DEF Die, vars, search, evidence
<1>6. CASE Search
  <2>1. UNCHANGED <<executed, asked, trials, low, outcomes, attempt>>
    BY <1>6 DEF Search, session, Decide, EndGrow, EndRefine, TooSmall, Report, search, evidence
  <2>2. CASE EndGrow
    BY <2>1, <2>2 DEF EndGrow, Afresh, Successes, ContextsOf
  <2>3. CASE EndRefine
    <3>1. pc = "refine" /\ pc' = "confirm" /\ attempt = 0
      BY <1>0, <2>3 DEF EndRefine, Evidence, Counting
    <3>2. executed[low] >= 0
      BY <3>1 DEF Afresh
    <3> QED
      BY <2>1, <3>1, <3>2 DEF Afresh, ContextsOf
  <2>4. CASE TooSmall
    BY <2>1, <2>4 DEF TooSmall, Afresh, ContextsOf
  <2>5. CASE Report
    BY <2>1, <2>5 DEF Report, Afresh, ContextsOf
  <2> QED
    BY <1>6, <2>2, <2>3, <2>4, <2>5 DEF Search, Decide
<1>7. CASE Deadline
  BY <1>7, <1>u DEF Deadline, vars, search, evidence
<1>8. CASE Restart
  BY <1>8 DEF Restart, Afresh
<1>9. CASE UNCHANGED allVars
  BY <1>9, <1>u DEF allVars, vars, search, evidence, cache, session
<1> QED
  BY <1>1, <1>2, <1>3, <1>4, <1>5, <1>6, <1>7, <1>8, <1>9
  DEF CNext, Exhausted

(* Confirmations are made afresh, in every run.                            *)
LEMMA AfreshInvariant == CSpec /\ AlignedInputs => []Afresh
<1>1. CInit => Afresh
  BY DEF CInit, Init, Begin, Afresh
<1> QED
  BY <1>1, AfreshNext, SearchInvariant, PTL DEF CSpec

(* A confirmed answer rests on trials made by this very run of the tuner,  *)
(* one for every confirmation: the cache never confirms.                   *)
THEOREM ConfirmedCorrect == CSpec /\ AlignedInputs => []ConfirmedAfresh
<1>1. SearchInv /\ Afresh => ConfirmedAfresh
  <2> SUFFICES ASSUME SearchInv, Afresh, pc = "done", outcomes = {"success"}
               PROVE  executed[ProbedCtx(low)] >= Repeats
    BY DEF ConfirmedAfresh
  <2>1. low \in Points /\ executed[low] >= Repeats /\ Floor(low) = low
    BY DEF Afresh, SearchInv, EvidenceInv, Evidence, Searching
  <2>2. ProbedCtx(low) = low
    BY <2>1, PointsBounded, AlignedProbe, FrontierAssumption
  <2> QED
    BY <2>1, <2>2
<1> QED
  BY <1>1, AfreshInvariant, SearchInvariant, PTL

-------------------------------------------------------------------------------
(* The price of interruptions and crashes.                                 *)

Lasting(status) == status \notin Transient \cup {"none"}

(* The contexts with a row that another run may reuse.                     *)
Settled == {n \in Points : Lasting(rows[n].status)}

(* Every trial that was not for a confirmation left such a row, or has     *)
(* been counted as lost.                                                   *)
Paid ==
  /\ spent \in Nat /\ losses \in Nat
  /\ ~RetryFailed => spent <= losses + Cardinality(Settled)

(* There are finitely many contexts whose row will not be tried again.     *)
LEMMA SettledFinite == IsFiniteSet(Settled) /\ Cardinality(Settled) \in Nat
<1>1. Settled \subseteq Points
  BY DEF Settled
<1>2. IsFiniteSet(Settled)
  BY <1>1, PointsBounded, FS_Subset
<1> QED
  BY <1>2, FS_CardinalityType

(* A row that is kept settles its context, or unsettles it.                *)
LEMMA KeepSettled ==
  ASSUME CacheInv, NEW n \in Points, NEW r, Keep(n, r)
  PROVE  Settled' = IF Lasting(r.status) THEN Settled \cup {n} ELSE Settled \ {n}
<1>1. rows' = [k \in Points |-> IF k = n THEN r ELSE rows[k]]
  BY DEF Keep, CacheInv
<1>2. \A k : k \in Settled' <=>
               IF k = n THEN Lasting(r.status) ELSE k \in Settled
  BY <1>1 DEF Settled
<1> QED
  BY <1>2

(* No result of a trial has the status of a missing row.                   *)
LEMMA ResultStatus ==
  ASSUME NEW ctx, NEW r \in Results(ctx)
  PROVE  r.status # "none"
<1>1. ASSUME NEW S, NEW b, r \in Logged(S, b) \cup Silent(S, b), "none" \notin S
      PROVE  r.status # "none"
  BY <1>1 DEF Logged, Silent
<1> QED
  BY <1>1 DEF Results, UsableResults

(* A trial for a context is paid for, whether its row lasts or not.        *)
LEMMA TrialPaid ==
  ASSUME SearchInv, Afresh, Paid, Asking, ~Reusable(Asked), NEW r, Keep(Asked, r),
         Spend(Asked),
         \/ ~Lasting(r.status) /\ losses' = losses + 1
         \/ Lasting(r.status) /\ losses' = losses
  PROVE  Paid'
<1>0. CacheInv /\ Asked \in Points /\ losses' \in Nat
  BY AskedIsPoint DEF SearchInv, Asking, Paid
<1>1. spent' = IF pc = "confirm" THEN spent ELSE spent + 1
  BY DEF Spend
<1>2. spent' \in Nat
  BY <1>1 DEF Paid
<1>3. ASSUME ~RetryFailed
      PROVE  spent' <= losses' + Cardinality(Settled')
  <2>1. pc = "confirm" \/ Asked \notin Settled
    <3>1. CASE pc # "confirm"
      <4>1. Asked \notin asked
        BY <3>1, AskedIsFresh DEF SearchInv, Asking, Afresh
      <4> QED
        BY <1>3, <4>1 DEF Reusable, Settled, Lasting
    <3> QED
      BY <3>1
  <2>2. IsFiniteSet(Settled) /\ Cardinality(Settled) \in Nat
    BY SettledFinite
  <2>3. CASE Lasting(r.status)
    <3>1. Settled' = Settled \cup {Asked}
      BY <1>0, <2>3, KeepSettled
    <3>2. Cardinality(Settled') = IF Asked \in Settled THEN Cardinality(Settled)
                                  ELSE Cardinality(Settled) + 1
      BY <2>2, <3>1, FS_AddElement
    <3> QED
      BY <1>0, <1>1, <1>3, <2>1, <2>2, <2>3, <3>2 DEF Paid
  <2>4. CASE ~Lasting(r.status)
    <3>1. Settled' = Settled \ {Asked}
      BY <1>0, <2>4, KeepSettled
    <3>2. Cardinality(Settled') = IF Asked \in Settled THEN Cardinality(Settled) - 1
                                  ELSE Cardinality(Settled)
      BY <2>2, <3>1, FS_RemoveElement
    <3> QED
      BY <1>0, <1>1, <1>3, <2>1, <2>2, <2>4, <3>2 DEF Paid
  <2> QED
    BY <2>3, <2>4
<1> QED
  BY <1>0, <1>2, <1>3 DEF Paid

(* Every trial is paid for by a row that stays, by a confirmation, or by a *)
(* trial that was lost.                                                    *)
LEMMA PaidNext == SearchInv /\ Afresh /\ Paid /\ [CNext]_allVars => Paid'
<1> SUFFICES ASSUME SearchInv, Afresh, Paid, [CNext]_allVars PROVE Paid'
  OBVIOUS
<1>u. ASSUME UNCHANGED <<rows, spent, losses>> PROVE Paid'
  BY <1>u DEF Paid, Settled
<1>1. CASE OutOfTime
  BY <1>1, <1>u DEF OutOfTime, cache, ledger
<1>2. CASE Reuse
  BY <1>2, <1>u DEF Reuse, ledger
<1>3. ASSUME NEW r \in machine[Asked], Execute(r) PROVE Paid'
  <2>1. r.status # "none"
    BY <1>3, AnswerIsResult, ResultStatus DEF Execute
  <2>2. Lasting(r.status) <=> r.status \notin Transient
    BY <2>1 DEF Lasting
  <2> QED
    BY <1>3, <2>2, TrialPaid DEF Execute
<1>4. CASE Interrupt
  <2>1. ~Lasting(Interrupted.status)
    BY DEF Lasting, Interrupted, Transient
  <2> QED
    BY <1>4, <2>1, TrialPaid DEF Interrupt
<1>5. CASE Die
  <2>1. losses' = losses + 1 /\ spent' \in {spent, spent + 1} /\ rows' = rows
    BY <1>5 DEF Die, Spend
  <2>2. Settled' = Settled
    BY <2>1 DEF Settled
  <2> QED
    BY <2>1, <2>2, SettledFinite DEF Paid
<1>6. CASE Search
  BY <1>6, <1>u DEF Search
<1>7. CASE Deadline
  BY <1>7, <1>u DEF Deadline, ledger
<1>8. CASE Restart
  BY <1>8, <1>u DEF Restart
<1>9. CASE UNCHANGED allVars
  BY <1>9, <1>u DEF allVars, cache, ledger
<1> QED
  BY <1>1, <1>2, <1>3, <1>4, <1>5, <1>6, <1>7, <1>8, <1>9
  DEF CNext, Exhausted

(* Outside of confirmations a context is tried again only for a trial that *)
(* was lost: what an interrupted or killed run has finished is not redone. *)
THEOREM WorkKept == CSpec /\ AlignedInputs => []WorkIsKept
<1>1. CInit => Paid
  BY SettledFinite DEF CInit, Paid
<1>2. Paid => WorkIsKept
  <2> SUFFICES ASSUME Paid, ~RetryFailed
               PROVE  spent <= losses + Cardinality({n \in Points : rows[n] # NoRow})
    BY DEF WorkIsKept
  <2> DEFINE written == {n \in Points : rows[n] # NoRow}
  <2>1. Settled \subseteq written
    BY DEF Settled, Lasting, NoRow, Interrupted
  <2>2. IsFiniteSet(written)
    BY PointsBounded, FS_Subset
  <2>3. Cardinality(Settled) <= Cardinality(written) /\ Cardinality(written) \in Nat
    BY <2>1, <2>2, FS_Subset, FS_CardinalityType
  <2> HIDE DEF written
  <2>4. spent <= losses + Cardinality(written)
    BY <2>3, SettledFinite DEF Paid
  <2> QED
    BY <2>4 DEF written
<1> QED
  BY <1>1, <1>2, PaidNext, AfreshInvariant, SearchInvariant, PTL DEF CSpec

-------------------------------------------------------------------------------
(* Finding the threshold of a machine that has one.                        *)

Candidates == {n \in Points : Start <= n /\ n <= upper}
Within == {n \in Candidates : Usable(n)}

(* The machine has a threshold: FindsThreshold's hypothesis.               *)
Divided ==
  \A n \in Candidates \ Within : TooLarge(n) /\ \A k \in Within : k < n

Largest(n) ==
  IF Within = {} THEN n = 0 ELSE n \in Within /\ \A k \in Within : k <= n

(* The bracket holds the threshold, and closes on it.                      *)
Narrowed ==
  Divided /\ ~late =>
    /\ outcomes \subseteq {"success"}
    /\ pc \in {"grow", "refine"} => low \in Within
    /\ pc = "refine" /\ high # 0 => high \in Candidates \ Within
    /\ pc \in {"confirm", "report", "done"} => Largest(low)

(* The candidates lie on the grid of the resolution.                       *)
LEMMA CandidatesAligned ==
  ASSUME EvidenceInv, NEW n \in Candidates
  PROVE  n \in Nat \ {0} /\ Floor(n) = n
<1>0. TypeOK /\ Evidence /\ AlignedInputs
  BY DEF EvidenceInv, TypeInv
<1>1. /\ Start \in Nat \ {0} /\ Floor(Start) = Start
      /\ Start <= n /\ n \in Nat /\ Resolution \in Nat \ {0}
  BY <1>0, StartAligned, PointsBounded, FrontierAssumption DEF Candidates, Evidence
<1>2. PICK m \in 1 .. MaxCtx : n = ProbedCtx(m)
  BY DEF Candidates, Points
<1>3. m \in Nat \ {0} /\ Floor(m) \in Nat /\ m < Floor(m) + Resolution
  BY FloorBounds, FrontierAssumption
<1>4. CASE Floor(m) # 0
  <2>1. n = Floor(m)
    BY <1>2, <1>3, <1>4 DEF ProbedCtx, Larger
  <2> QED
    BY <1>3, <1>4, <2>1, FloorIdempotent
<1>5. CASE Floor(m) = 0
  <2>1. n = 1
    BY <1>2, <1>5 DEF ProbedCtx, Larger
  <2>2. 0 + Resolution <= Start
    <3>1. Floor(0) = 0
      BY FloorBounds
    <3> QED
      BY <1>1, <3>1, AlignedGap
  <2> QED
    BY <1>1, <1>3, <1>5, <2>1, <2>2
<1> QED
  BY <1>4, <1>5

(* What is asked for is a candidate.                                       *)
LEMMA AskedIsCandidate ==
  ASSUME EvidenceInv, Running, pc \in {"grow", "refine"} => Start <= low
  PROVE  pc # "confirm" => Asked \in Candidates
<1> SUFFICES ASSUME pc # "confirm"
             PROVE  Asked \in Candidates
  OBVIOUS
<1>0. TypeOK /\ Evidence /\ AlignedInputs /\ Asked \in Points
  BY AskedIsPoint DEF EvidenceInv, TypeInv
<1>1. Start \in Nat /\ Start <= upper /\ ProbedCtx(Start) = Start /\ upper \in Nat
  BY <1>0, StartAligned DEF Evidence, TypeOK
<1>2. CASE pc = "first"
  BY <1>0, <1>1, <1>2 DEF Candidates, Asked, Target
<1>3. CASE pc = "grow" /\ Growing
  <2>1. /\ Floor(upper) = upper /\ Floor(point) = point /\ point # 0 /\ point < upper
        /\ point = low
    BY <1>0, <1>3 DEF Evidence, Searching, AlignedInputs, Growing
  <2>2. Asked \in Nat /\ low < Asked /\ Asked <= upper /\ low \in Nat
    BY <1>0, <1>3, <2>1, DoubledAligned DEF Asked, Target, TypeOK
  <2> QED
    BY <1>0, <1>1, <1>3, <2>2 DEF Candidates
<1>4. CASE pc = "refine" /\ Refining
  <2>1. Floor(low) = low /\ low # 0 /\ high <= upper
    BY <1>0, <1>4 DEF Evidence, Searching
  <2>2. Asked \in Nat /\ low < Asked /\ Asked < high /\ low \in Nat /\ high \in Nat
    BY <1>0, <1>4, <2>1, MiddleAligned DEF Asked, Target, TypeOK
  <2> QED
    BY <1>0, <1>1, <1>4, <2>1, <2>2 DEF Candidates
<1> QED
  BY <1>2, <1>3, <1>4 DEF Running, Growing, Refining

(* A divided machine answers by the threshold.                             *)
LEMMA DividedOutcome ==
  ASSUME Divided, NEW n \in Candidates, NEW r \in machine[n]
  PROVE  /\ n \in Within => KindOf(r, n) = "success"
         /\ n \notin Within => KindOf(r, n) \in {"context", "timeout"}
<1>1. CASE n \in Within
  BY <1>1 DEF Within, Usable, KindOf, Classify
<1>2. CASE n \notin Within
  <2>1. Classify(r, FALSE) \in {"context", "timeout"}
    BY <1>2 DEF Divided, TooLarge
  <2>2. \A b \in BOOLEAN : Classify(r, b) = Classify(r, FALSE)
    BY <2>1 DEF Classify
  <2> QED
    BY <1>2, <2>1, <2>2 DEF KindOf
<1> QED
  BY <1>1, <1>2

(* An answered probe narrows the bracket around the threshold.             *)
LEMMA ProbeNarrows ==
  ASSUME SearchInv, Narrowed, Asking, NEW r \in machine[Asked], Probe(r), ~late,
         UNCHANGED machine
  PROVE  Narrowed'
<1>0. EvidenceInv /\ Running /\ TypeOK /\ Evidence
  BY DEF SearchInv, EvidenceInv, TypeInv, Asking
<1>1. PICK kind \in Kinds : kind = KindOf(r, Asked)
  BY KindOfType
<1>2. UNCHANGED <<base, upper>> /\ (Searched(kind) \/ Confirmed(kind))
  BY <1>0, <1>1, ProbeEffect
<1>3. Candidates' = Candidates /\ Within' = Within
  BY <1>2 DEF Candidates, Within, Usable, Start, Floor
<1>4. Divided' <=> Divided
  BY <1>3 DEF Divided, TooLarge
<1> SUFFICES ASSUME Divided
             PROVE  /\ outcomes' \subseteq {"success"}
                    /\ pc' \in {"grow", "refine"} => low' \in Within
                    /\ pc' = "refine" /\ high' # 0 => high' \in Candidates \ Within
                    /\ pc' \in {"confirm", "report", "done"} => Largest(low')
  BY <1>3, <1>4 DEF Narrowed, Largest
<1>5. /\ outcomes \subseteq {"success"}
      /\ pc \in {"grow", "refine"} => low \in Within
      /\ pc = "refine" /\ high # 0 => high \in Candidates \ Within
      /\ pc = "confirm" => Largest(low) /\ low # 0 /\ Asked = low
  <2>1. pc = "confirm" => low # 0 /\ Floor(low) = low /\ low \in Nat
    BY <1>0 DEF Evidence, Searching, TypeOK
  <2> QED
    BY <2>1, AlignedProbe DEF Narrowed, Asked, Target
<1>6. Asked \in Candidates
  <2>1. pc # "confirm" => Asked \in Candidates
    BY <1>0, <1>5, AskedIsCandidate DEF Within, Candidates
  <2>2. pc = "confirm" => Asked \in Candidates
    BY <1>5 DEF Largest, Within
  <2> QED
    BY <2>1, <2>2
<1>7. /\ Asked \in Within => kind = "success"
      /\ Asked \notin Within => kind \in {"context", "timeout"}
  BY <1>1, <1>6, DividedOutcome
<1>8. CASE Confirmed(kind)
  <2>1. Asked \in Within
    BY <1>5, <1>8 DEF Confirmed, Largest
  <2>2. outcomes' = {"success"}
    BY <1>5, <1>7, <1>8, <2>1 DEF Confirmed
  <2> QED
    BY <1>5, <1>8, <2>2 DEF Confirmed
<1>9. CASE Searched(kind)
  <2>1. CASE kind = "success"
    <3>1. Asked \in Within /\ low' = Asked /\ high' = high /\ outcomes' = {}
          /\ pc' = IF pc = "first" THEN "grow" ELSE pc
      BY <1>7, <1>9, <2>1 DEF Searched, Inconclusive
    <3> QED
      BY <1>5, <1>9, <3>1 DEF Searched
  <2>2. CASE kind # "success" /\ pc = "first"
    <3>1. Asked = Start /\ Start \in Nat
      BY <1>0, <2>2, StartAligned DEF Asked, Target, EvidenceInv, Evidence
    <3>2. Within = {}
      <4>1. ASSUME NEW k \in Within PROVE FALSE
        <5>1. k < Start /\ Start <= k /\ k \in Nat
          BY <1>0, <1>6, <1>7, <2>2, <3>1, <4>1, CandidatesAligned DEF Divided, Within, Candidates
        <5> QED
          BY <3>1, <5>1
      <4> QED
        BY <4>1
    <3>3. pc' = "report" /\ low' = 0 /\ outcomes' = {}
      BY <1>7, <1>9, <2>2 DEF Searched, Inconclusive
    <3> QED
      BY <3>2, <3>3 DEF Largest
  <2>3. CASE kind # "success" /\ pc # "first"
    <3>1. pc' = "refine" /\ low' = low /\ high' = Asked /\ outcomes' = {}
      BY <1>7, <1>9, <2>3 DEF Searched, Inconclusive
    <3> QED
      BY <1>5, <1>6, <1>7, <1>9, <2>3, <3>1 DEF Searched
  <2> QED
    BY <2>1, <2>2, <2>3
<1> QED
  BY <1>2, <1>8, <1>9

(* A bracket that is left has its lower end at the threshold.              *)
LEMMA LeftNarrowed ==
  ASSUME CachedInv, Divided, EndRefine, low \in Within,
         high # 0 => high \in Candidates \ Within
  PROVE  Largest(low)
<1>0. EvidenceInv /\ TypeOK /\ Evidence /\ Reasons
  BY DEF CachedInv, SearchInv, EvidenceInv, TypeInv
<1>1. pc = "refine" /\ ~Refining /\ low \in Nat /\ Floor(low) = low /\ upper \in Nat
  BY <1>0 DEF EndRefine, Evidence, Searching, TypeOK
<1>2. ASSUME NEW k \in Within
      PROVE  k <= low
  <2>1. k \in Nat /\ Floor(k) = k /\ k <= upper
    BY <1>0, CandidatesAligned DEF Within, Candidates
  <2>2. CASE high = 0
    BY <1>0, <1>1, <2>1, <2>2 DEF Reasons
  <2>3. CASE high # 0
    <3>1. high \in Nat /\ k < high /\ low < high
      BY <1>0, <1>2, <2>3, CandidatesAligned DEF Divided, Within
    <3>2. high - low <= Resolution
      BY <1>0, <1>1, <3>1, Refined
    <3>3. low < k => low + Resolution <= k
      BY <1>1, <2>1, AlignedGap
    <3> QED
      BY <1>1, <2>1, <3>1, <3>2, <3>3, FrontierAssumption
  <2> QED
    BY <2>2, <2>3
<1> QED
  BY <1>2 DEF Largest

(* The bracket stays around the threshold of a machine that has one.       *)
LEMMA NarrowedNext == CachedInv /\ Narrowed /\ [CNext]_allVars => Narrowed'
<1> SUFFICES ASSUME CachedInv, Narrowed, [CNext]_allVars PROVE Narrowed'
  OBVIOUS
<1>0. SearchInv /\ Evidence /\ Reasons
  BY DEF CachedInv, SearchInv, EvidenceInv
<1>c. /\ UNCHANGED <<base, upper, machine>> => (Divided' <=> Divided)
      /\ UNCHANGED <<base, upper, machine>> => Candidates' = Candidates /\ Within' = Within
  BY DEF Divided, TooLarge, Candidates, Within, Usable, Start, Floor
<1>u. ASSUME UNCHANGED <<base, upper, machine, late, outcomes, pc, low, high>>
      PROVE  Narrowed'
  BY <1>c, <1>u DEF Narrowed, Largest
<1>1. CASE OutOfTime
  BY <1>1 DEF OutOfTime, cache, session, Narrowed
<1>2. CASE Reuse
  BY <1>0, <1>2, ReusedIsReal, ProbeNarrows DEF Reuse
<1>3. ASSUME NEW r \in machine[Asked], Execute(r) PROVE Narrowed'
  BY <1>0, <1>3, ProbeNarrows DEF Execute
<1>4. CASE Interrupt
  BY <1>4, <1>u DEF Interrupt, vars, search, evidence
<1>5. CASE Die
  BY <1>5, <1>u DEF Die, vars, search, evidence
<1>6. CASE Search
  <2>1. UNCHANGED <<base, upper, machine, late, outcomes, low, high>>
    BY <1>6 DEF Search, session, Decide, EndGrow, EndRefine, TooSmall, Report, search, evidence
  <2>2. CASE EndGrow
    <3>1. pc = "grow" /\ pc' = "refine" /\ high = 0
      BY <1>0, <2>2 DEF EndGrow, Evidence
    <3> QED
      BY <1>c, <2>1, <3>1 DEF Narrowed
  <2>3. CASE EndRefine
    <3>1. pc = "refine" /\ pc' = "confirm"
      BY <1>0, <2>3 DEF EndRefine, Evidence
    <3>2. Divided /\ ~late => Largest(low)
      BY <2>3, <3>1, LeftNarrowed DEF Narrowed
    <3> QED
      BY <1>c, <2>1, <3>1, <3>2 DEF Narrowed, Largest
  <2>4. CASE TooSmall
    BY <1>c, <2>1, <2>4 DEF TooSmall, Narrowed
  <2>5. CASE Report
    BY <1>c, <2>1, <2>5 DEF Report, Narrowed, Largest
  <2> QED
    BY <1>6, <2>2, <2>3, <2>4, <2>5 DEF Search, Decide
<1>7. CASE Deadline
  BY <1>7 DEF Deadline, Narrowed
<1>8. CASE Restart
  BY <1>8 DEF Restart, Narrowed
<1>9. CASE UNCHANGED allVars
  BY <1>9, <1>u DEF allVars, vars, search, evidence, cache, session
<1> QED
  BY <1>1, <1>2, <1>3, <1>4, <1>5, <1>6, <1>7, <1>8, <1>9
  DEF CNext, Exhausted

(* On a machine with a threshold, a run that has the time for it answers   *)
(* the threshold itself, however many runs were cut short before it and    *)
(* whatever it reuses of them.                                             *)
THEOREM ThresholdFound == CSpec /\ AlignedInputs => []FindsThreshold
<1>1. CInit => Narrowed
  BY DEF CInit, Init, Begin, Narrowed
<1>2. CachedInv /\ Narrowed => FindsThreshold
  <2> SUFFICES ASSUME CachedInv, Narrowed, pc = "done", ~late, Divided
               PROVE  Largest(report.benchmarkable)
    BY DEF FindsThreshold, Divided, Candidates, Within, Largest
  <2>1. report.benchmarkable = low
    BY DEF CachedInv, SearchInv, EvidenceInv, Evidence
  <2> QED
    BY <2>1 DEF Narrowed
<1> QED
  BY <1>1, <1>2, NarrowedNext, CachedInvariant, PTL DEF CSpec

-------------------------------------------------------------------------------
(* What a run reports is determined by the machine.  On a machine with one *)
(* result for each context, every step of a search is the value of a       *)
(* function of the search so far, and a function leads from one start to   *)
(* one end at most, however many steps it takes.                           *)

(* A set that f does not lead out of, as long as it stays within U; and    *)
(* what it leads to from x.                                                *)
Closed(f, U, X) == \A x \in X : f[x] \in U => f[x] \in X
Reach(f, U, x) == {s \in U : \A X \in SUBSET U : x \in X /\ Closed(f, U, X) => s \in X}

(* f leads on from where it leads to.                                      *)
LEMMA ReachGoesOn ==
  ASSUME NEW f, NEW U, NEW x \in U
  PROVE  /\ x \in Reach(f, U, x)
         /\ \A s \in Reach(f, U, x) : f[s] \in U => f[s] \in Reach(f, U, x)
BY DEF Reach, Closed

(* It leads to one end.                                                    *)
LEMMA ReachEnds ==
  ASSUME NEW f, NEW U, NEW x \in U, NEW d \in Reach(f, U, x), NEW e \in Reach(f, U, x),
         f[d] = d, f[e] = e
  PROVE  d = e
<1> DEFINE before == {s \in U : d \in Reach(f, U, s)}
<1>1. ASSUME NEW s \in before, f[s] \in U PROVE f[s] \in before
  <2>1. CASE s = d
    BY <1>1, <2>1
  <2>2. CASE s # d
    <3> DEFINE X == {s} \cup Reach(f, U, f[s])
    <3>1. f[s] \in Reach(f, U, f[s])
      BY <1>1, ReachGoesOn
    <3>2. \A y \in Reach(f, U, f[s]) : f[y] \in U => f[y] \in Reach(f, U, f[s])
      BY <1>1, ReachGoesOn
    <3>3. Closed(f, U, X)
      BY <3>1, <3>2 DEF Closed
    <3>4. X \in SUBSET U /\ s \in X
      BY <1>1 DEF Reach
    <3>5. d \in X
      BY <1>1, <3>3, <3>4 DEF Reach
    <3> QED
      BY <1>1, <2>2, <3>5
  <2> QED
    BY <2>1, <2>2
<1>2. Closed(f, U, before)
  BY <1>1 DEF Closed
<1>3. x \in before /\ before \in SUBSET U
  OBVIOUS
<1>4. e \in before
  <2> HIDE DEF before
  <2> QED
    BY <1>2, <1>3 DEF Reach
<1>5. Closed(f, U, {e}) /\ {e} \in SUBSET U
  BY DEF Closed, Reach
<1> QED
  BY <1>4, <1>5 DEF Reach

(* A search between two steps, without its account of trials and without   *)
(* the report, and the present one.                                        *)
Core ==
  [pc : {"first", "grow", "refine", "confirm", "report"},
   low : Nat, high : Nat, reason : {"none", "fail", "timeout"}, point : Nat,
   passed : SUBSET Nat, max : Nat, attempt : Nat, outcomes : SUBSET Kinds,
   verdict : {"none", "time_limited"} \cup RunStates]

Now ==
  [pc |-> pc, low |-> low, high |-> high, reason |-> highReason, point |-> point,
   passed |-> passed, max |-> maxAllocatable, attempt |-> attempt, outcomes |-> outcomes,
   verdict |-> verdict]

Fresh ==
  [pc |-> "first", low |-> 0, high |-> 0, reason |-> "none", point |-> 0,
   passed |-> {}, max |-> 0, attempt |-> 0, outcomes |-> {}, verdict |-> "none"]

(* Where it stands: the operators of ContextFrontier, of a given search    *)
(* with the base b and the upper limit u.                                  *)
StartOf(b) == IF Floor(b) < 1 THEN b ELSE Floor(b)
DoubledOf(u, s) ==
  Smaller(Larger(s.point + Resolution, Floor(Smaller(u, 2 * s.point))), u)
MiddleOf(s) ==
  LET middle == Floor((s.low + s.high) \div 2)
  IN  IF middle <= s.low THEN s.low + Resolution ELSE middle

(* What machine m answers, if there is only one answer; and what becomes   *)
(* of it.                                                                  *)
Told(m, ctx) == CHOOSE r : r \in m[ctx]
KindTold(m, s, ctx) == Classify(Told(m, ctx), \E n \in s.passed : n < ctx)
MaxTold(m, s, ctx) == IF Told(m, ctx).initialized THEN Larger(s.max, ctx) ELSE s.max
Marked(s, ctx, state) == IF state = "pass" THEN s.passed \cup {ctx} ELSE s.passed \ {ctx}
ReasonOf(state) == IF state = "timeout" THEN "timeout" ELSE "fail"

(* The search s with only its phase changed.                               *)
Phased(s, phase) ==
  [pc |-> phase, low |-> s.low, high |-> s.high, reason |-> s.reason, point |-> s.point,
   passed |-> s.passed, max |-> s.max, attempt |-> s.attempt, outcomes |-> s.outcomes,
   verdict |-> s.verdict]

(* A step of each phase: the handlers of ContextFrontier.                  *)
OnFirst(b, m, s) ==
  LET n == StartOf(b)
      ctx == ProbedCtx(n)
      state == RunState({KindTold(m, s, ctx)})
      bounds == state \notin {"pass"} \cup Inconclusive
  IN  [pc |-> IF state = "pass" THEN "grow" ELSE "report",
       low |-> IF state = "pass" THEN n ELSE s.low,
       high |-> IF bounds THEN n ELSE s.high,
       reason |-> IF bounds THEN ReasonOf(state) ELSE s.reason,
       point |-> IF state = "pass" THEN n ELSE s.point,
       passed |-> Marked(s, ctx, state), max |-> MaxTold(m, s, ctx),
       attempt |-> s.attempt, outcomes |-> s.outcomes,
       verdict |-> IF state = "pass" THEN s.verdict
                   ELSE IF state = "timeout" THEN "time_limited" ELSE state]

OnGrow(u, m, s) ==
  LET n == DoubledOf(u, s)
      ctx == ProbedCtx(n)
      state == RunState({KindTold(m, s, ctx)})
      bounds == state \notin {"pass"} \cup Inconclusive
  IN  IF ~(s.point < u /\ n > s.point) THEN Phased(s, "refine")
      ELSE [pc |-> IF bounds THEN "refine" ELSE IF state = "pass" THEN "grow" ELSE "report",
            low |-> IF state = "pass" THEN n ELSE s.low,
            high |-> IF bounds THEN n ELSE s.high,
            reason |-> IF bounds THEN ReasonOf(state) ELSE s.reason,
            point |-> IF state = "pass" THEN n ELSE s.point,
            passed |-> Marked(s, ctx, state), max |-> MaxTold(m, s, ctx),
            attempt |-> s.attempt, outcomes |-> s.outcomes,
            verdict |-> IF state \in Inconclusive THEN state ELSE s.verdict]

OnRefine(m, s) ==
  LET n == MiddleOf(s)
      ctx == ProbedCtx(n)
      state == RunState({KindTold(m, s, ctx)})
      bounds == state \notin {"pass"} \cup Inconclusive
  IN  IF ~(s.high # 0 /\ s.high - s.low > Resolution /\ n < s.high)
      THEN Phased(s, IF s.low # 0 THEN "confirm" ELSE "report")
      ELSE [pc |-> IF state \in Inconclusive THEN "report" ELSE "refine",
            low |-> IF state = "pass" THEN n ELSE s.low,
            high |-> IF bounds THEN n ELSE s.high,
            reason |-> IF bounds THEN ReasonOf(state) ELSE s.reason,
            point |-> s.point,
            passed |-> Marked(s, ctx, state), max |-> MaxTold(m, s, ctx),
            attempt |-> s.attempt, outcomes |-> s.outcomes,
            verdict |-> IF state \in Inconclusive THEN state ELSE s.verdict]

(* The largest of some contexts, 0 of none.                                *)
Best(S) == IF S = {} THEN 0 ELSE CHOOSE n \in S : \A k \in S : k <= n

OnConfirm(b, m, s) ==
  LET ctx == ProbedCtx(s.low)
      kind == KindTold(m, s, ctx)
      kinds == s.outcomes \cup {kind}
      state == RunState(kinds)
      more == s.attempt + 1 < Repeats /\ kind \notin Inconclusive
      holds == more \/ state = "pass"
      n == Best({k \in Marked(s, ctx, state) : k < s.low})
  IN  [pc |-> IF more THEN "confirm" ELSE "report",
       low |-> IF holds THEN s.low ELSE n,
       high |-> IF holds \/ state # "timeout" \/ s.high # 0 THEN s.high
                ELSE IF n # 0 THEN n + Resolution ELSE b,
       reason |-> IF holds \/ state # "timeout" THEN s.reason ELSE "timeout",
       point |-> s.point,
       passed |-> IF more THEN s.passed ELSE Marked(s, ctx, state),
       max |-> MaxTold(m, s, ctx),
       attempt |-> s.attempt + 1, outcomes |-> kinds,
       verdict |-> s.verdict]

(* A step of the search, none at its end.                                  *)
Onward(b, u, m, s) ==
  CASE s.pc = "first" -> OnFirst(b, m, s)
    [] s.pc = "grow" -> OnGrow(u, m, s)
    [] s.pc = "refine" -> OnRefine(m, s)
    [] s.pc = "confirm" -> OnConfirm(b, m, s)
    [] s.pc = "report" -> s

(* What a search reports at its end.                                       *)
StatusOf(u, s) ==
  CASE s.verdict # "none" -> s.verdict
    [] s.verdict = "none" /\ s.reason = "timeout" -> "time_limited"
    [] s.verdict = "none" /\ s.reason # "timeout" ->
         IF s.high = 0 /\ s.low = u THEN "upper_reached" ELSE "bounded"

ReportOf(u, s) ==
  [benchmarkable |-> s.low,
   safe |-> CASE s.low = 0 -> 0
              [] s.low # 0 -> IF StatusOf(u, s) = "time_limited" THEN s.low
                              ELSE Recommended(s.low),
   status |-> StatusOf(u, s), allocatable |-> s.max]

(* The searches a run can come to that is not late.                        *)
Course(b, u, m) == [s \in Core |-> Onward(b, u, m, s)]
Reached(b, u, m) == Reach(Course(b, u, m), Core, Fresh)

(* The results a trial may have are finitely many.                         *)
LEMMA FourThings ==
  ASSUME NEW a, NEW b, NEW c, NEW d
  PROVE  IsFiniteSet({a, b, c, d})
<1>1. IsFiniteSet({a})
  BY FS_Singleton
<1>2. IsFiniteSet({a} \cup {b})
  BY <1>1, FS_AddElement
<1>3. IsFiniteSet(({a} \cup {b}) \cup {c})
  BY <1>2, FS_AddElement
<1>4. IsFiniteSet((({a} \cup {b}) \cup {c}) \cup {d})
  BY <1>3, FS_AddElement
<1>5. (({a} \cup {b}) \cup {c}) \cup {d} = {a, b, c, d}
  OBVIOUS
<1> QED
  BY <1>4, <1>5

LEMMA ResultsFinite ==
  ASSUME NEW n
  PROVE  IsFiniteSet(Results(n))
<1> DEFINE A == {"oom", "unsupported", "startup_failure", "startup_timeout"}
           B == {"server_crash", "context_mismatch", "malformed_output", "request_error"}
           C == {"telemetry_unavailable", "unsafe_headroom", "trial_timeout", "backend_error"}
           D == {"tune_timeout", "ok", "ok", "ok"}
           S == (A \cup B) \cup (C \cup D)
           T == (S \X BOOLEAN) \X (BOOLEAN \X BOOLEAN)
           h == [r \in Results(n) |-> <<<<r.status, r.initialized>>, <<r.context, r.other>>>>]
<1>1. IsFiniteSet(S)
  <2>1. IsFiniteSet(A) /\ IsFiniteSet(B) /\ IsFiniteSet(C) /\ IsFiniteSet(D)
    BY FourThings
  <2> HIDE DEF A, B, C, D
  <2>2. IsFiniteSet(A \cup B) /\ IsFiniteSet(C \cup D)
    BY <2>1, FS_Union
  <2> QED
    BY <2>2, FS_Union
<1>2. IsFiniteSet(T)
  <2>1. IsFiniteSet(BOOLEAN)
    <3>1. BOOLEAN = {TRUE, FALSE, TRUE, FALSE}
      OBVIOUS
    <3> QED
      BY <3>1, FourThings
  <2>2. IsFiniteSet(S \X BOOLEAN) /\ IsFiniteSet(BOOLEAN \X BOOLEAN)
    <3> HIDE DEF S
    <3> QED
      BY <1>1, <2>1, FS_Product
  <2> HIDE DEF S
  <2> QED
    BY <2>2, FS_Product
<1>3. ASSUME NEW r \in Results(n)
      PROVE  /\ r = [status |-> r.status, initialized |-> r.initialized,
                     context |-> r.context, other |-> r.other]
             /\ r.status \in S /\ r.initialized \in BOOLEAN
             /\ r.context \in BOOLEAN /\ r.other \in BOOLEAN
  <2>1. r \in [status : S, initialized : BOOLEAN, context : BOOLEAN, other : BOOLEAN]
    BY <1>3 DEF Results, UsableResults, Logged, Silent
  <2> HIDE DEF S
  <2> QED
    BY <2>1
<1>4. h \in Injection(Results(n), T)
  <2> HIDE DEF S
  <2>1. \A r \in Results(n) : h[r] \in T
    BY <1>3
  <2>2. h \in [Results(n) -> T]
    BY <2>1
  <2>3. ASSUME NEW r \in Results(n), NEW q \in Results(n), h[r] = h[q]
        PROVE  r = q
    <3>1. /\ r.status = q.status /\ r.initialized = q.initialized
          /\ r.context = q.context /\ r.other = q.other
      BY <2>3
    <3> QED
      BY <1>3, <3>1
  <2> HIDE DEF T, h
  <2> QED
    BY <2>2, <2>3 DEF Injection, IsInjective
<1> HIDE DEF T, h
<1> QED
  BY <1>2, <1>4, FS_Injection

(* Such a machine answers a probe with its only result, be it reused or    *)
(* not.                                                                    *)
LEMMA SoleResult ==
  ASSUME RunInv, Deterministic, Asking, NEW r,
         \/ r = rows[Asked] /\ Reusable(Asked)
         \/ r \in machine[Asked]
  PROVE  r = Told(machine, Asked)
<1>1. Asked \in Points
  <2>1. Target \in 1 .. MaxCtx
    BY TargetRanged DEF RunInv, TypeInv, Asking
  <2> QED
    BY <2>1, PointsType DEF Asked
<1>2. r \in machine[Asked]
  <2>1. rows[Asked] \in machine[Asked] \cup {Interrupted, NoRow}
    BY <1>1 DEF RunInv, CacheInv, RowsAreEarned
  <2> QED
    BY <2>1 DEF Reusable, Transient, Interrupted, NoRow
<1>3. IsFiniteSet(machine[Asked])
  <2>1. machine[Asked] \in SUBSET Results(Asked)
    BY <1>1, CacheAssumption DEF RunInv, CacheInv
  <2> QED
    BY <2>1, ResultsFinite, FS_Subset
<1>4. \E q : machine[Asked] = {q}
  BY <1>1, <1>3, FS_Singleton DEF Deterministic
<1> QED
  BY <1>2, <1>4 DEF Told

(* What a trial leaves behind, if the machine told its result.             *)
LEMMA TrialTold ==
  ASSUME NEW m, NEW ctx, NEW r, r = Told(m, ctx), Record(r, ctx)
  PROVE  /\ KindOf(r, ctx) = KindTold(m, Now, ctx)
         /\ maxAllocatable' = MaxTold(m, Now, ctx)
         /\ \A state : Mark(ctx, state) => passed' = Marked(Now, ctx, state)
BY DEF Record, KindOf, KindTold, MaxTold, Mark, Marked, Now

LEMMA RunTold ==
  ASSUME NEW m, NEW ctx, NEW r, r = Told(m, ctx), NEW state, RunOnce(r, ctx, state)
  PROVE  /\ state = RunState({KindTold(m, Now, ctx)})
         /\ passed' = Marked(Now, ctx, state)
         /\ maxAllocatable' = MaxTold(m, Now, ctx)
BY TrialTold DEF RunOnce

(* The present search, read by its fields.                                 *)
LEMMA NowHas ==
  /\ Now.pc = pc /\ Now.low = low /\ Now.high = high /\ Now.reason = highReason
  /\ Now.point = point /\ Now.passed = passed /\ Now.max = maxAllocatable
  /\ Now.attempt = attempt /\ Now.outcomes = outcomes /\ Now.verdict = verdict
BY DEF Now

LEMMA FirstTurns ==
  ASSUME NEW m, NEW r, First(r), r = Told(m, Asked)
  PROVE  Now' = Onward(base, upper, m, Now)
<1>1. Asked = ProbedCtx(Start) /\ pc = "first" /\ StartOf(base) = Start
  BY DEF First, Asked, Target, StartOf, Start
<1>2. PICK state \in RunStates :
        /\ RunOnce(r, Asked, state)
        /\ IF state = "pass"
            THEN /\ pc' = "grow"
                 /\ low' = Start /\ point' = Start
                 /\ UNCHANGED <<high, highReason, verdict>>
            ELSE /\ pc' = "report"
                 /\ verdict' = IF state = "timeout" THEN "time_limited" ELSE state
                 /\ IF state \in Inconclusive
                      THEN UNCHANGED <<high, highReason>>
                      ELSE Bound(Start, state)
                 /\ UNCHANGED <<low, point>>
  BY <1>1 DEF First
<1> DEFINE bounds == state \notin {"pass"} \cup Inconclusive
<1>3. /\ pc' = (IF state = "pass" THEN "grow" ELSE "report")
      /\ low' = (IF state = "pass" THEN Start ELSE low)
      /\ high' = (IF bounds THEN Start ELSE high)
      /\ highReason' = (IF bounds THEN ReasonOf(state) ELSE highReason)
      /\ point' = (IF state = "pass" THEN Start ELSE point)
      /\ verdict' = IF state = "pass" THEN verdict
                    ELSE IF state = "timeout" THEN "time_limited" ELSE state
  BY <1>2 DEF Bound, ReasonOf, Inconclusive
<1>4. attempt' = attempt /\ outcomes' = outcomes
  BY DEF First
<1>5. /\ state = RunState({KindTold(m, Now, Asked)})
      /\ passed' = Marked(Now, Asked, state) /\ maxAllocatable' = MaxTold(m, Now, Asked)
  BY <1>2, RunTold
<1>6. Onward(base, upper, m, Now) = OnFirst(base, m, Now)
  BY <1>1, NowHas DEF Onward
<1>7. OnFirst(base, m, Now) =
        [pc |-> pc', low |-> low', high |-> high', reason |-> highReason', point |-> point',
         passed |-> passed', max |-> maxAllocatable', attempt |-> attempt',
         outcomes |-> outcomes', verdict |-> verdict']
  BY <1>1, <1>3, <1>4, <1>5, NowHas DEF OnFirst
<1> QED
  BY <1>6, <1>7 DEF Now

LEMMA GrowTurns ==
  ASSUME NEW m, NEW r, Grow(r), r = Told(m, Asked)
  PROVE  Now' = Onward(base, upper, m, Now)
<1>1. /\ Asked = ProbedCtx(Doubled) /\ pc = "grow" /\ point < upper /\ Doubled > point
      /\ DoubledOf(upper, Now) = Doubled
  BY NowHas DEF Grow, Growing, Asked, Target, DoubledOf, Doubled
<1>2. PICK state \in RunStates :
       /\ RunOnce(r, Asked, state)
       /\ CASE state = "pass" ->
                 /\ low' = Doubled /\ point' = Doubled
                 /\ UNCHANGED <<pc, high, highReason, verdict>>
            [] state \in Inconclusive ->
                 /\ pc' = "report" /\ verdict' = state
                 /\ UNCHANGED <<low, high, highReason, point>>
            [] OTHER ->
                 /\ pc' = "refine"
                 /\ Bound(Doubled, state)
                 /\ UNCHANGED <<low, point, verdict>>
  BY <1>1 DEF Grow
<1> DEFINE bounds == state \notin {"pass"} \cup Inconclusive
<1>3. /\ pc' = (IF bounds THEN "refine" ELSE IF state = "pass" THEN "grow" ELSE "report")
      /\ low' = (IF state = "pass" THEN Doubled ELSE low)
      /\ high' = (IF bounds THEN Doubled ELSE high)
      /\ highReason' = (IF bounds THEN ReasonOf(state) ELSE highReason)
      /\ point' = (IF state = "pass" THEN Doubled ELSE point)
      /\ verdict' = IF state \in Inconclusive THEN state ELSE verdict
  BY <1>1, <1>2 DEF Bound, ReasonOf, Inconclusive
<1>4. attempt' = attempt /\ outcomes' = outcomes
  BY DEF Grow
<1>5. /\ state = RunState({KindTold(m, Now, Asked)})
      /\ passed' = Marked(Now, Asked, state) /\ maxAllocatable' = MaxTold(m, Now, Asked)
  BY <1>2, RunTold
<1>6. Onward(base, upper, m, Now) = OnGrow(upper, m, Now)
  BY <1>1, NowHas DEF Onward
<1>7. OnGrow(upper, m, Now) =
        [pc |-> pc', low |-> low', high |-> high', reason |-> highReason', point |-> point',
         passed |-> passed', max |-> maxAllocatable', attempt |-> attempt',
         outcomes |-> outcomes', verdict |-> verdict']
  BY <1>1, <1>3, <1>4, <1>5, NowHas DEF OnGrow
<1> QED
  BY <1>6, <1>7 DEF Now

LEMMA RefineTurns ==
  ASSUME NEW m, NEW r, Refine(r), r = Told(m, Asked)
  PROVE  Now' = Onward(base, upper, m, Now)
<1>1. /\ Asked = ProbedCtx(Middle) /\ pc = "refine"
      /\ high # 0 /\ high - low > Resolution /\ Middle < high
      /\ MiddleOf(Now) = Middle
  BY NowHas DEF Refine, Refining, Asked, Target, MiddleOf, Middle
<1>2. PICK state \in RunStates :
       /\ RunOnce(r, Asked, state)
       /\ CASE state = "pass" ->
                 /\ low' = Middle
                 /\ UNCHANGED <<pc, high, highReason, verdict>>
            [] state \in Inconclusive ->
                 /\ pc' = "report" /\ verdict' = state
                 /\ UNCHANGED <<low, high, highReason>>
            [] OTHER ->
                 /\ Bound(Middle, state)
                 /\ UNCHANGED <<pc, low, verdict>>
  BY <1>1 DEF Refine
<1> DEFINE bounds == state \notin {"pass"} \cup Inconclusive
<1>3. /\ pc' = (IF state \in Inconclusive THEN "report" ELSE "refine")
      /\ low' = (IF state = "pass" THEN Middle ELSE low)
      /\ high' = (IF bounds THEN Middle ELSE high)
      /\ highReason' = (IF bounds THEN ReasonOf(state) ELSE highReason)
      /\ verdict' = IF state \in Inconclusive THEN state ELSE verdict
  BY <1>1, <1>2 DEF Bound, ReasonOf, Inconclusive
<1>4. point' = point /\ attempt' = attempt /\ outcomes' = outcomes
  BY DEF Refine
<1>5. /\ state = RunState({KindTold(m, Now, Asked)})
      /\ passed' = Marked(Now, Asked, state) /\ maxAllocatable' = MaxTold(m, Now, Asked)
  BY <1>2, RunTold
<1>6. Onward(base, upper, m, Now) = OnRefine(m, Now)
  BY <1>1, NowHas DEF Onward
<1>7. OnRefine(m, Now) =
        [pc |-> pc', low |-> low', high |-> high', reason |-> highReason', point |-> point',
         passed |-> passed', max |-> maxAllocatable', attempt |-> attempt',
         outcomes |-> outcomes', verdict |-> verdict']
  BY <1>1, <1>3, <1>4, <1>5, NowHas DEF OnRefine
<1> QED
  BY <1>6, <1>7 DEF Now

(* The point a confirmation falls back to is the only one it can.          *)
LEMMA FallbackIsBest ==
  ASSUME passed' \subseteq Nat, NEW n, IsFallback(n)
  PROVE  n = Best({k \in passed' : k < low})
<1> DEFINE S == {k \in passed' : k < low}
<1>1. S \subseteq Nat
  OBVIOUS
<1>2. IF S = {} THEN n = 0 ELSE n \in S /\ \A k \in S : k <= n
  BY DEF IsFallback
<1>e. Best(S) = IF S = {} THEN 0 ELSE CHOOSE k0 \in S : \A k \in S : k <= k0
  BY DEF Best
<1> HIDE DEF S
<1>3. n = Best(S)
  <2>1. CASE S = {}
    BY <1>2, <1>e, <2>1
  <2>2. CASE S # {}
    <3>1. Best(S) = CHOOSE k0 \in S : \A k \in S : k <= k0
      BY <1>e, <2>2
    <3>2. Best(S) \in S /\ \A k \in S : k <= Best(S)
      BY <1>2, <2>2, <3>1
    <3>3. Best(S) \in Nat /\ n \in Nat /\ Best(S) <= n /\ n <= Best(S)
      BY <1>1, <1>2, <2>2, <3>2
    <3> QED
      BY <3>3
  <2> QED
    BY <2>1, <2>2
<1> QED
  BY <1>3 DEF S

LEMMA ConfirmTurns ==
  ASSUME NEW m, NEW r, Confirm(r), r = Told(m, Asked), passed' \subseteq Nat
  PROVE  Now' = Onward(base, upper, m, Now)
<1> DEFINE kind == KindTold(m, Now, Asked)
           kinds == outcomes \cup {kind}
           state == RunState(kinds)
           more == attempt + 1 < Repeats /\ kind \notin Inconclusive
           holds == more \/ state = "pass"
           n == Best({k \in Marked(Now, Asked, state) : k < low})
<1>1. Asked = ProbedCtx(low) /\ pc = "confirm" /\ point' = point /\ verdict' = verdict
  BY DEF Confirm, Asked, Target
<1>2. Record(r, Asked) /\ kind = KindOf(r, Asked) /\ maxAllocatable' = MaxTold(m, Now, Asked)
  BY <1>1, TrialTold DEF Confirm
<1>3. /\ attempt' = attempt + 1
      /\ outcomes' = kinds
      /\ IF more
           THEN UNCHANGED <<pc, low, high, highReason, passed>>
           ELSE /\ pc' = "report"
                /\ Mark(Asked, state)
                /\ IF state = "pass"
                     THEN UNCHANGED <<low, high, highReason>>
                     ELSE Withdraw(state)
  <2> HIDE DEF kind
  <2> QED
    BY <1>1, <1>2 DEF Confirm
<1>4. ASSUME ~holds
      PROVE  /\ low' = n
             /\ IF state = "timeout"
                THEN /\ highReason' = "timeout"
                     /\ high' = IF high # 0 THEN high
                                ELSE IF n # 0 THEN n + Resolution ELSE base
                ELSE UNCHANGED <<high, highReason>>
  <2>1. passed' = Marked(Now, Asked, state)
    BY <1>2, <1>3, <1>4, TrialTold
  <2> HIDE DEF state
  <2>2. PICK k : /\ IsFallback(k)
                 /\ low' = k
                 /\ IF state = "timeout"
                    THEN /\ highReason' = "timeout"
                         /\ high' = IF high # 0 THEN high
                                    ELSE IF k # 0 THEN k + Resolution ELSE base
                    ELSE UNCHANGED <<high, highReason>>
    BY <1>3, <1>4 DEF Withdraw
  <2>3. k = Best({j \in passed' : j < low})
    BY <2>2, FallbackIsBest
  <2>4. k = n
    BY <2>1, <2>3
  <2> QED
    BY <2>2, <2>4
<1>m. ~more => passed' = Marked(Now, Asked, state)
  BY <1>2, <1>3, TrialTold
<1>5. /\ pc' = (IF more THEN "confirm" ELSE "report")
      /\ passed' = IF more THEN passed ELSE Marked(Now, Asked, state)
  <2> HIDE DEF state, more
  <2> QED
    BY <1>1, <1>3, <1>m
<1>6. /\ low' = (IF holds THEN low ELSE n)
      /\ high' = (IF holds \/ state # "timeout" \/ high # 0 THEN high
                  ELSE IF n # 0 THEN n + Resolution ELSE base)
      /\ highReason' = (IF holds \/ state # "timeout" THEN highReason ELSE "timeout")
  <2> HIDE DEF state, more, n
  <2> QED
    BY <1>3, <1>4
<1>7. Onward(base, upper, m, Now) = OnConfirm(base, m, Now)
  BY <1>1, NowHas DEF Onward
<1>8. OnConfirm(base, m, Now) =
        [pc |-> pc', low |-> low', high |-> high', reason |-> highReason', point |-> point',
         passed |-> passed', max |-> maxAllocatable', attempt |-> attempt',
         outcomes |-> outcomes', verdict |-> verdict']
  BY <1>1, <1>2, <1>3, <1>5, <1>6, NowHas DEF OnConfirm
<1> QED
  BY <1>7, <1>8 DEF Now

(* A step that goes on without a trial.                                    *)
LEMMA DecideTurns ==
  ASSUME NEW m, EndGrow \/ EndRefine
  PROVE  Now' = Onward(base, upper, m, Now)
<1>1. CASE EndGrow
  <2>1. pc = "grow" /\ ~(point < upper /\ DoubledOf(upper, Now) > point)
    BY <1>1, NowHas DEF EndGrow, Growing, DoubledOf, Doubled
  <2>2. Onward(base, upper, m, Now) = OnGrow(upper, m, Now)
    BY <2>1, NowHas DEF Onward
  <2>3. OnGrow(upper, m, Now) = Phased(Now, "refine")
    BY <2>1, NowHas DEF OnGrow
  <2>4. Now' = Phased(Now, "refine")
    BY <1>1, NowHas DEF EndGrow, search, evidence, Phased, Now
  <2> QED
    BY <2>2, <2>3, <2>4
<1>2. CASE EndRefine
  <2>1. pc = "refine" /\ ~(high # 0 /\ high - low > Resolution /\ MiddleOf(Now) < high)
    BY <1>2, NowHas DEF EndRefine, Refining, MiddleOf, Middle
  <2>2. Onward(base, upper, m, Now) = OnRefine(m, Now)
    BY <2>1, NowHas DEF Onward
  <2>3. OnRefine(m, Now) = Phased(Now, IF low # 0 THEN "confirm" ELSE "report")
    BY <2>1, NowHas DEF OnRefine
  <2>4. Now' = Phased(Now, IF low # 0 THEN "confirm" ELSE "report")
    BY <1>2, NowHas DEF EndRefine, search, evidence, Phased, Now
  <2> QED
    BY <2>2, <2>3, <2>4
<1> QED
  BY <1>1, <1>2

(* Where a search is led, and that it is led to one report at most.        *)
LEMMA ReachedOn ==
  ASSUME NEW b, NEW u, NEW m
  PROVE  /\ Fresh \in Reached(b, u, m)
         /\ \A s \in Reached(b, u, m) :
              Onward(b, u, m, s) \in Core => Onward(b, u, m, s) \in Reached(b, u, m)
         /\ \A s, t \in Reached(b, u, m) : s.pc = "report" /\ t.pc = "report" => s = t
<1> DEFINE f == Course(b, u, m)
<1>1. Fresh \in Core
  BY DEF Fresh, Core
<1>2. \A s \in Core : f[s] = Onward(b, u, m, s)
  BY DEF Course
<1> HIDE DEF f
<1>3. Reached(b, u, m) = Reach(f, Core, Fresh)
  BY DEF Reached, f
<1>4. Reach(f, Core, Fresh) \subseteq Core
  BY DEF Reach
<1>5. Fresh \in Reach(f, Core, Fresh)
  BY <1>1, ReachGoesOn
<1>6. ASSUME NEW s \in Reach(f, Core, Fresh), Onward(b, u, m, s) \in Core
      PROVE  Onward(b, u, m, s) \in Reach(f, Core, Fresh)
  BY <1>1, <1>2, <1>4, <1>6, ReachGoesOn
<1>7. ASSUME NEW s \in Reach(f, Core, Fresh), NEW t \in Reach(f, Core, Fresh),
             s.pc = "report", t.pc = "report"
      PROVE  s = t
  <2>1. Onward(b, u, m, s) = s /\ Onward(b, u, m, t) = t
    BY <1>7 DEF Onward
  <2>2. f[s] = s /\ f[t] = t
    BY <1>2, <1>4, <2>1
  <2> QED
    BY <1>1, <2>2, ReachEnds
<1> QED
  BY <1>3, <1>5, <1>6, <1>7

(* A run that is not late goes the way the machine determines, and so did  *)
(* every run that has answered.                                            *)
OnCourse ==
  ~late /\ pc \in {"first", "grow", "refine", "confirm", "report"} =>
    Now \in Reached(base, upper, machine)

Reproduced ==
  Deterministic =>
    /\ OnCourse
    /\ \A a \in answers :
         \E s \in Reached(base, upper, machine) : s.pc = "report" /\ a = ReportOf(upper, s)

(* A step of the search stays on course.                                   *)
LEMMA TurnStays ==
  ASSUME TypeInv', OnCourse, UNCHANGED <<base, upper, machine, late>>,
         pc \in {"first", "grow", "refine", "confirm"},
         Now' = Onward(base, upper, machine, Now)
  PROVE  OnCourse'
<1> SUFFICES ASSUME ~late', pc' \in {"first", "grow", "refine", "confirm", "report"}
             PROVE  Now' \in Reached(base, upper, machine)
  BY DEF OnCourse
<1>1. Now \in Reached(base, upper, machine)
  BY DEF OnCourse
<1>2. Now' \in Core
  <2>1. TypeOK'
    BY DEF TypeInv
  <2> QED
    BY <2>1 DEF TypeOK, Now, Core
<1> QED
  BY <1>1, <1>2, ReachedOn

(* A probe does, whatever answers it.                                      *)
LEMMA ProbeStays ==
  ASSUME RunInv, TypeInv', Deterministic, OnCourse, UNCHANGED <<machine, late>>,
         Asking, NEW r, Probe(r),
         \/ r = rows[Asked] /\ Reusable(Asked)
         \/ r \in machine[Asked]
  PROVE  OnCourse'
<1>1. r = Told(machine, Asked)
  BY SoleResult
<1>2. passed' \subseteq Nat
  BY DEF TypeInv, TypeOK
<1>3. UNCHANGED <<base, upper>> /\ pc \in {"first", "grow", "refine", "confirm"}
  BY DEF Probe, First, Grow, Growing, Refine, Refining, Confirm
<1>4. Now' = Onward(base, upper, machine, Now)
  BY <1>1, <1>2, FirstTurns, GrowTurns, RefineTurns, ConfirmTurns DEF Probe
<1> QED
  BY <1>3, <1>4, TurnStays

(* The report of a search.                                                 *)
LEMMA ReportIs ==
  ASSUME Report
  PROVE  report' = ReportOf(upper, Now) /\ Now.pc = "report"
<1>1. StatusOf(upper, Now) = Status
  BY NowHas DEF StatusOf, Status
<1> QED
  BY <1>1, NowHas DEF Report, ReportOf, Safe

LEMMA ReproducedNext == RunInv /\ Reproduced /\ [CNext]_allVars => Reproduced'
<1> SUFFICES ASSUME RunInv, Reproduced, [CNext]_allVars, Deterministic'
             PROVE  /\ OnCourse'
                    /\ \A a \in answers' :
                         \E s \in Reached(base, upper, machine)' :
                           s.pc = "report" /\ a = ReportOf(upper', s)
  BY DEF Reproduced
<1>m. UNCHANGED <<base, upper, machine>>
  BY DEF CNext, OutOfTime, Reuse, Execute, Interrupt, Die, Search, Deadline, Restart, Exhausted,
         Probe, First, Grow, Refine, Confirm, Decide, EndGrow, EndRefine, TooSmall, Report,
         vars, cache, allVars
<1>0. /\ Deterministic /\ OnCourse /\ TypeInv'
      /\ \A a \in answers :
           \E s \in Reached(base, upper, machine) : s.pc = "report" /\ a = ReportOf(upper, s)
  <2>1. Deterministic
    BY <1>m DEF Deterministic
  <2> QED
    BY <2>1, RunNext DEF Reproduced, RunInv
<1>c. Reached(base, upper, machine)' = Reached(base, upper, machine)
  BY <1>m
<1>k. ASSUME answers' = answers
      PROVE  \A a \in answers' :
               \E s \in Reached(base, upper, machine)' :
                 s.pc = "report" /\ a = ReportOf(upper', s)
  BY <1>0, <1>c, <1>k, <1>m
<1>u. ASSUME UNCHANGED <<vars, late>>
      PROVE  OnCourse'
  BY <1>0, <1>c, <1>u DEF OnCourse, Now, vars, search, evidence
<1>1. CASE OutOfTime
  BY <1>1, <1>k DEF OutOfTime, OnCourse, cache, session, ledger
<1>2. CASE Reuse
  <2>1. OnCourse'
    BY <1>0, <1>2, ProbeStays DEF Reuse
  <2> QED
    BY <1>2, <1>k, <2>1 DEF Reuse, ledger
<1>3. ASSUME NEW r \in machine[Asked], Execute(r)
      PROVE  OnCourse' /\ answers' = answers
  <2>1. OnCourse'
    BY <1>0, <1>3, ProbeStays DEF Execute
  <2> QED
    BY <1>3, <2>1 DEF Execute
<1>4. CASE Interrupt
  BY <1>4, <1>k, <1>u DEF Interrupt
<1>5. CASE Die
  BY <1>5, <1>k, <1>u DEF Die
<1>6. CASE Search
  <2>1. /\ UNCHANGED late
        /\ answers' = IF pc' = "done" /\ ~late THEN answers \cup {report'} ELSE answers
    BY <1>6 DEF Search, session
  <2>2. CASE EndGrow \/ EndRefine
    <3>1. pc \in {"grow", "refine"} /\ pc' # "done"
      BY <2>2 DEF EndGrow, EndRefine
    <3>2. OnCourse'
      BY <1>0, <1>m, <2>1, <2>2, <3>1, DecideTurns, TurnStays
    <3> QED
      BY <1>k, <2>1, <3>1, <3>2
  <2>3. CASE TooSmall
    BY <1>k, <2>1, <2>3 DEF TooSmall, OnCourse
  <2>4. CASE Report
    <3>1. pc = "report" /\ pc' = "done"
      BY <2>4 DEF Report
    <3>2. ~late => Now \in Reached(base, upper, machine)
      BY <1>0, <3>1 DEF OnCourse
    <3>3. report' = ReportOf(upper, Now) /\ Now.pc = "report"
      BY <2>4, ReportIs
    <3>4. ASSUME NEW a \in answers'
          PROVE  \E s \in Reached(base, upper, machine) :
                   s.pc = "report" /\ a = ReportOf(upper, s)
      BY <1>0, <2>1, <3>2, <3>3
    <3>5. OnCourse'
      BY <3>1 DEF OnCourse
    <3> QED
      BY <1>c, <1>m, <3>4, <3>5
  <2> QED
    BY <1>6, <2>2, <2>3, <2>4 DEF Search, Decide
<1>7. CASE Deadline
  BY <1>7, <1>k DEF Deadline, OnCourse, ledger
<1>8. CASE Restart
  <2>1. Now' = Fresh
    BY <1>8 DEF Restart, Now, Fresh
  <2>2. OnCourse'
    BY <1>c, <2>1, ReachedOn DEF OnCourse
  <2> QED
    BY <1>8, <1>k, <2>2 DEF Restart
<1>9. CASE UNCHANGED allVars
  BY <1>9, <1>k, <1>u DEF allVars, cache, session, ledger
<1> QED
  BY <1>1, <1>2, <1>3, <1>4, <1>5, <1>6, <1>7, <1>8, <1>9, <1>k DEF CNext, Exhausted

(* On a machine that always gives the same result for a context, the       *)
(* answer does not depend on how often the tuner was cut short before and  *)
(* what it reused: all runs that had the time for it report the same.      *)
THEOREM ResumeReproduced == CSpec => []ResumeReproduces
<1>1. CInit => Reproduced
  <2> SUFFICES ASSUME CInit PROVE Reproduced
    OBVIOUS
  <2>1. answers = {} /\ Now = Fresh
    BY DEF CInit, Init, Begin, Now, Fresh
  <2> QED
    BY <2>1, ReachedOn DEF Reproduced, OnCourse
<1>2. Reproduced => ResumeReproduces
  <2> SUFFICES ASSUME Reproduced, Deterministic PROVE Cardinality(answers) <= 1
    BY DEF ResumeReproduces
  <2>1. ASSUME NEW a \in answers, NEW b \in answers
        PROVE  a = b
    BY <2>1, ReachedOn DEF Reproduced
  <2>2. CASE answers = {}
    BY <2>2, FS_EmptySet
  <2>3. CASE answers # {}
    <3>1. PICK a : answers = {a}
      BY <2>1, <2>3
    <3>2. Cardinality(answers) = 1
      BY <3>1, FS_Singleton
    <3> QED
      BY <3>2
  <2> QED
    BY <2>2, <2>3
<1> QED
  BY <1>1, <1>2, RunInit, RunNext, ReproducedNext, PTL DEF CSpec
===============================================================================
