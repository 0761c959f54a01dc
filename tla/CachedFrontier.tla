---------------------------- MODULE CachedFrontier ----------------------------
(***************************************************************************)
(* The context search over the result cache: frontier_trial and            *)
(* cached_trial (tuning/engine.py) answer each probe from the results      *)
(* table (storage/store.py) or by a trial, whose result they keep.         *)
(* A tuner that dies, is interrupted or has finished may be started again  *)
(* with the same arguments: the same scope, hence the same rows.           *)
(* Store.lock keeps other tuners out of the table meanwhile.               *)
(***************************************************************************)
EXTENDS ContextFrontier

CONSTANTS
  RetryFailed,     (* --retry-failed                                       *)
  Machines,        (* what servers may answer, by context                  *)
  MaxSessions      (* bounds the runs of the tuner                         *)

(* The contexts that run() can ask for.                                    *)
Points == {ProbedCtx(n) : n \in 1 .. MaxCtx}

ASSUME CacheAssumption ==
  /\ RetryFailed \in BOOLEAN
  /\ MaxSessions \in Nat
  /\ \A m \in Machines :
       /\ DOMAIN m = Points
       /\ \A n \in Points : m[n] # {} /\ m[n] \subseteq Results(n)

VARIABLES
  machine,         (* the results a trial may have, by context             *)
  rows,            (* the latest row of the table, by context              *)
  alive,           (* the tuner is running                                 *)
  asked,           (* frontier_seen: the contexts asked for in this run    *)
  late,            (* tune_deadline has passed                             *)
  executed,        (* the trials made by this run, by context              *)
  sessions,        (* runs of the tuner                                    *)
  spent,           (* trials started other than to confirm, in all runs    *)
  losses,          (* runs cut short and transient results, in all runs    *)
  answers          (* the reports of runs that were not late               *)

session == <<alive, asked, late, executed>>
ledger == <<sessions, spent, losses, answers>>
cache == <<machine, rows, session, ledger>>
allVars == <<vars, cache>>

-------------------------------------------------------------------------------

(* A row written for a trial that was interrupted, and no row at all.      *)
Interrupted ==
  [status |-> "interrupted", initialized |-> FALSE,
   context |-> FALSE, other |-> FALSE]

NoRow == [Interrupted EXCEPT !.status = "none"]

(* Slip: so does an interruption.                                          *)
Transient_NotInterrupted ==
  {"startup_timeout", "request_timeout", "trial_timeout",
   "telemetry_unavailable", "unsafe_headroom"}

(* Statuses whose rows are not reused.                                     *)
Transient ==
  {"interrupted", "startup_timeout", "request_timeout", "trial_timeout",
   "telemetry_unavailable", "unsafe_headroom"}

(* Slips: reuse successes only; reuse a row for repeated probes, too.      *)
Reusable_OnlySuccess(ctx) ==
  rows[ctx].status = "ok" /\ ctx \notin asked /\ ~RetryFailed
Reusable_Repeated(ctx) ==
  rows[ctx].status \notin Transient \cup {"none"} /\ ~RetryFailed

Reusable(ctx) ==
  rows[ctx].status \notin Transient \cup {"none"} /\ ctx \notin asked /\ ~RetryFailed

(* What frontier_trial answers once the tuner is out of time.              *)
TuneTimeout ==
  [status |-> "tune_timeout", initialized |-> FALSE,
   context |-> FALSE, other |-> FALSE]

(* The context being asked for.                                            *)
Asked == ProbedCtx(Target)

(* The search has reached an evaluate() call.                              *)
Asking == alive /\ Running /\ FrontierFits(Asked)

-------------------------------------------------------------------------------

CInit ==
  /\ Init
  /\ machine \in Machines
  /\ rows = [n \in Points |-> NoRow]
  /\ alive = TRUE /\ asked = {} /\ late = FALSE
  /\ executed = [n \in Points |-> 0]
  /\ sessions = 1 /\ spent = 0 /\ losses = 0
  /\ answers = {}

(* Slip: the row is kept for the candidate, whatever the context.          *)
Keep_Candidate(ctx, r) == rows' = [n \in Points |-> r]

(* Store.add: the row that previous() finds from now on.                   *)
Keep(ctx, r) == rows' = [rows EXCEPT ![ctx] = r]

(* A trial is started for ctx.                                             *)
Spend(ctx) ==
  /\ executed' = [executed EXCEPT ![ctx] = @ + 1]
  /\ spent' = IF pc = "confirm" THEN spent ELSE spent + 1

(* The tuner is out of time: no trial, no row, and no trace in asked.      *)
OutOfTime ==
  /\ Asking /\ late
  /\ Probe(TuneTimeout)
  /\ UNCHANGED cache

(* The latest row answers, unless the context was asked for before.        *)
Reuse ==
  /\ Asking /\ ~late
  /\ Reusable(Asked)
  /\ Probe(rows[Asked])
  /\ asked' = asked \cup {Asked}
  /\ UNCHANGED <<machine, rows, alive, late, executed, ledger>>

(* A trial answers, and its result becomes the latest row.                 *)
Execute(r) ==
  /\ Asking /\ ~late
  /\ ~Reusable(Asked)
  /\ r \in machine[Asked]
  /\ Probe(r)
  /\ Keep(Asked, r)
  /\ Spend(Asked)
  /\ asked' = asked \cup {Asked}
  /\ losses' = IF r.status \in Transient THEN losses + 1 ELSE losses
  /\ UNCHANGED <<machine, alive, late, sessions, answers>>

(* An exception ends a trial: cached_trial leaves a row and raises.        *)
Interrupt ==
  /\ Asking /\ ~late
  /\ ~Reusable(Asked)
  /\ Keep(Asked, Interrupted)
  /\ Spend(Asked)
  /\ alive' = FALSE
  /\ losses' = losses + 1
  /\ UNCHANGED <<vars, machine, asked, late, sessions, answers>>

(* The tuner dies, during a trial or elsewhere, and leaves no row.         *)
Die ==
  /\ alive /\ ~Ended
  /\ \/ Asking /\ ~late /\ ~Reusable(Asked) /\ Spend(Asked)
     \/ UNCHANGED <<executed, spent>>
  /\ alive' = FALSE
  /\ losses' = losses + 1
  /\ UNCHANGED <<vars, machine, rows, asked, late, sessions, answers>>

(* The search goes on without a trial.                                     *)
Search ==
  /\ alive
  /\ Decide
  /\ answers' = IF pc' = "done" /\ ~late THEN answers \cup {report'} ELSE answers
  /\ UNCHANGED <<machine, rows, session, sessions, spent, losses>>

(* The deadline passes.                                                    *)
Deadline ==
  /\ alive /\ ~Ended /\ ~late
  /\ late' = TRUE
  /\ UNCHANGED <<vars, machine, rows, alive, asked, executed, ledger>>

(* The user starts the tuner again, with the same arguments.               *)
Restart ==
  /\ ~alive \/ Ended
  /\ sessions < MaxSessions
  /\ sessions' = sessions + 1
  /\ pc' = "first"
  /\ low' = 0 /\ high' = 0 /\ highReason' = "none" /\ point' = 0 /\ verdict' = "none"
  /\ passed' = {} /\ trials' = {} /\ maxAllocatable' = 0 /\ probes' = 0
  /\ attempt' = 0 /\ outcomes' = {} /\ report' = <<>>
  /\ UNCHANGED <<base, upper>>
  /\ alive' = TRUE /\ asked' = {} /\ late' = FALSE
  /\ executed' = [n \in Points |-> 0]
  /\ UNCHANGED <<machine, rows, spent, losses, answers>>

(* No run is left to be started.                                           *)
Exhausted ==
  /\ ~alive \/ Ended
  /\ sessions = MaxSessions
  /\ UNCHANGED allVars

CNext ==
  \/ OutOfTime \/ Reuse
  \/ Asking /\ \E r \in machine[Asked] : Execute(r)
  \/ Interrupt \/ Die \/ Search \/ Deadline \/ Restart \/ Exhausted

CSpec == CInit /\ [][CNext]_allVars

-------------------------------------------------------------------------------
(* Properties.                                                             *)

(* A row that answers a probe was earned by a server with that context.    *)
RowsAreEarned ==
  \A n \in Points : rows[n] \in machine[n] \cup {Interrupted, NoRow}

(* A confirmed answer rests on trials made by this very run of the tuner,  *)
(* one for every confirmation, whatever earlier runs have left in the      *)
(* cache.                                                                  *)
ConfirmedAfresh ==
  pc = "done" /\ verdict = "none" /\ outcomes = {"success"} =>
    executed[ProbedCtx(low)] >= Repeats

(* The context answered is one that a server can be used with.             *)
AnswerIsReal ==
  pc = "done" /\ report.benchmarkable # 0 =>
    \E r \in machine[report.benchmarkable] : r.status = "ok"

(* A machine that always gives the same result for a context.              *)
Deterministic == \A n \in Points : Cardinality(machine[n]) = 1

(* The answer does not depend on how often the tuner was cut short before  *)
(* and what it reused: all runs that had the time report the same.         *)
ResumeReproduces == Deterministic => Cardinality(answers) <= 1

(* An interruption or a crash costs the one trial it hit: no context is    *)
(* tried again outside of confirmations but for a trial lost before.       *)
WorkIsKept ==
  ~RetryFailed =>
    spent <= losses + Cardinality({n \in Points : rows[n] # NoRow})

(* On a machine with one threshold, up to which every context can be used  *)
(* and above which every server says the context does not fit, a run with  *)
(* the time for it answers the threshold or the limit, and nothing when    *)
(* the base is above the threshold.                                        *)
Usable(n) == \A r \in machine[n] : r.status = "ok"
TooLarge(n) == \A r \in machine[n] : Classify(r, FALSE) \in {"context", "timeout"}

FindsThreshold ==
  LET candidates == {n \in Points : Start <= n /\ n <= upper}
      usable == {n \in candidates : Usable(n)}
  IN  /\ pc = "done" /\ ~late
      /\ \A n \in candidates \ usable :
           TooLarge(n) /\ \A k \in usable : k < n
      => IF usable = {} THEN report.benchmarkable = 0
         ELSE /\ report.benchmarkable \in usable
              /\ \A k \in usable : k <= report.benchmarkable
===============================================================================
