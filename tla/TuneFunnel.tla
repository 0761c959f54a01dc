------------------------------ MODULE TuneFunnel ------------------------------
(***************************************************************************)
(* tune (tuning/engine.py): candidates go through a funnel of stages, and  *)
(* the configuration that is best for the objective becomes the profile.   *)
(*                                                                         *)
(* Every measurement goes through cached_trial, whose rows outlive a run   *)
(* of the tuner: a run that dies, is interrupted or is out of time may be  *)
(* started again, with the same arguments. Measurements are abstract: a    *)
(* rig determines what a configuration can do, and how many trials may be  *)
(* lost to a timeout or to missing telemetry. The context search, which    *)
(* CachedFrontier details, answers in one step here.                       *)
(***************************************************************************)
EXTENDS Policy

CONSTANTS
  Tunings,         (* the arguments a tune may be started with             *)
  Rigs,            (* what models and machines may do                      *)
  RetryFailed,     (* --retry-failed                                       *)
  MaxSessions      (* bounds the runs of the tuner                         *)

Objectives == {"performance", "balanced", "max-context"}
Budgets == {"quick", "normal", "thorough"}
Modes == {"auto", "off", "full"}
Stages == {"begin", "startup", "coarse", "diagnose", "fallback", "target",
           "validate", "frontier", "done", "failed"}

(* The placement on no device.                                             *)
NoDevices == [devices |-> {}, split |-> 0]

ASSUME FunnelAssumption ==
  /\ RetryFailed \in BOOLEAN /\ MaxSessions \in Nat \ {0}
  /\ \A t \in Tunings :
       /\ t.objective \in Objectives /\ t.budget \in Budgets /\ t.mode \in Modes
       /\ t.cuda \in BOOLEAN /\ t.bench \in BOOLEAN /\ t.explore \in BOOLEAN
       /\ t.flash \in BOOLEAN /\ t.tiers \in {FullTiers, <<"f16">>}
       /\ t.finalists \in Nat \ {0} /\ t.maximum \in Nat \ {0, 1}
  /\ \A r \in Rigs :
       /\ r.losses \in Nat /\ r.base \in Int /\ r.relief \in Int
       /\ {r.shallow, r.deep} \subseteq [DOMAIN r.fits -> Int]
       /\ r.safe \in [DOMAIN r.fits -> [ToSet(FullTiers) -> Nat]]
       /\ NoDevices \in DOMAIN r.fits
       /\ \A p \in DOMAIN r.fits : p.split \in Nat /\ r.fits[p] \in [ToSet(FullTiers) -> Nat]
       /\ \A t \in Tunings : t.placements \in Seq(DOMAIN r.fits) /\ IsInjective(t.placements)

VARIABLES
  tuning, rig,
  stage,           (* what tune is at                                      *)
  todo,            (* the configurations the stage has still to measure    *)
  again,           (* the first of them is measured in a second way        *)
  passed,          (* the rows that this stage has kept                    *)
  search,          (* the search for layers, in diagnose and in fallback   *)
  admitted,        (* candidate_trace: the configurations met              *)
  frontiers,       (* the safe context of a configuration, 0 for none      *)
  late,            (* tune_deadline has passed                             *)
  session,         (* this run of the tuner                                *)
  table,           (* the latest row of a configuration in a stage         *)
  losses,          (* trials lost to a timeout or missing telemetry        *)
  profile          (* the latest profile written, by its run               *)

args == <<tuning, rig>>
run == <<stage, todo, again, passed, search, admitted, frontiers>>
vars == <<args, run, late, session, table, losses, profile>>

-------------------------------------------------------------------------------
(* Measurements.                                                           *)

Ok(score, full) == [status |-> "ok", score |-> score, full |-> full]
Failure(status) == [status |-> status, score |-> 0, full |-> FALSE]

(* "timeout" stands for request_timeout and trial_timeout, "lost" for the  *)
(* other transient statuses of a trial, "failed" for all definitive ones   *)
(* but "unsupported".                                                      *)
(* Slip: an interruption counts as a definitive result.                    *)
Transient_NotInterrupted == {"timeout", "lost"}

(* Statuses whose rows are not reused.                                     *)
Transient == {"interrupted", "timeout", "lost"}

Key(config, kind) == <<config, kind>>
Row(key) == IF key \in DOMAIN table THEN table[key] ELSE Failure("none")

Reusable(key) == Row(key).status \notin Transient \cup {"none"} /\ ~RetryFailed

Keep(key, r) ==
  table' = [k \in DOMAIN table \cup {key} |-> IF k = key THEN r ELSE table[k]]

(* What the rig does with a configuration.                                 *)
Fits(config) == config.ngl <= rig.fits[config.placement][config.tier]

Safe(config) == rig.safe[config.placement][config.tier]

BenchKinds == {"coarse", "target-depth"}
ByBench(kind) == tuning.bench /\ kind \in BenchKinds

Rate(config, kind) ==
  LET smoke == {"startup", "coarse", "coarse-server", "partial-feasibility",
                "partial-diagnostic"}
      rate == IF kind \in smoke THEN rig.shallow ELSE rig.deep
  IN  rate[config.placement] + (IF config.ngl < tuning.maximum THEN rig.relief ELSE 0)

Definitive(config, kind) ==
  IF \/ kind = "coarse" /\ ~tuning.bench
     \/ ByBench(kind) /\ ~rig.bench
  THEN Failure("failed")
  ELSE IF config.flash \notin rig.flash THEN Failure("unsupported")
  ELSE IF ~Fits(config) /\ rig.strict THEN Failure("failed")
  ELSE Ok(Rate(config, kind), Fits(config))

Losable(kind) ==
  IF kind = "coarse" /\ ~tuning.bench THEN {}
  ELSE IF ByBench(kind) THEN {Failure("timeout")}
  ELSE {Failure("timeout"), Failure("lost")}

-------------------------------------------------------------------------------
(* What is being measured.                                                 *)

Budget == Plan(tuning.budget)
Capacity == tuning.objective = "max-context"
Quick == tuning.budget = "quick"

Offload(candidate, layers) ==
  [placement |-> candidate.placement, tier |-> candidate.tier, flash |-> candidate.flash,
   ngl |-> layers]

(* Slip: the output layer is counted twice.                                *)
Anchors_OneMore ==
  LET configs == Variants(tuning.objective, tuning.budget, tuning.placements, tuning.tiers)
  IN  [i \in DOMAIN configs |-> Offload(configs[i], tuning.maximum + 1)]

(* The candidates a tune starts with, which offload every layer.           *)
Anchors ==
  LET configs == Variants(tuning.objective, tuning.budget, tuning.placements, tuning.tiers)
  IN  IF tuning.cuda THEN [i \in DOMAIN configs |-> Offload(configs[i], tuning.maximum)]
      ELSE <<[placement |-> NoDevices, tier |-> "f16",
              flash |-> "on", ngl |-> 0]>>

Rows(s) == [i \in DOMAIN s |-> s[i].config]

Seeds == Rows(PartialSeeds(Anchors, Budget.seeds))

Alternate(config) == [config EXCEPT !.flash = IF @ = "on" THEN "off" ELSE "on"]

Layered == stage \in {"diagnose", "fallback"}

Config ==
  CASE stage = "startup" /\ again -> Alternate(Head(todo))
    [] Layered -> [Head(todo) EXCEPT !.ngl = Layers(search)]
    [] OTHER -> Head(todo)

Kind ==
  CASE stage = "coarse" -> IF again THEN "coarse-server" ELSE "coarse"
    [] stage = "target" -> IF again THEN "target-depth-server" ELSE "target-depth"
    [] stage = "diagnose" -> "partial-diagnostic"
    [] stage = "fallback" -> "partial-feasibility"
    [] OTHER -> stage

(* A measurement is next, and diagnose refuses full offload by itself.     *)
Measuring ==
  /\ stage \in {"startup", "coarse", "diagnose", "fallback", "target", "validate"}
  /\ todo # <<>>
  /\ ~(stage = "diagnose" /\ Layers(search) = tuning.maximum)

Mapped == Config.placement \in rig.mapped

(* Slip: what a diagnosis finds is a row as any other.                     *)
Passes_Diagnosed(r) ==
  /\ r.status = "ok"
  /\ stage = "startup" => r.full \/ (~tuning.cuda /\ ~again)

(* The measurement counts as a row of the stage.                           *)
Passes(r) ==
  /\ stage # "diagnose"
  /\ r.status = "ok"
  /\ stage = "startup" => r.full \/ (~tuning.cuda /\ ~again)

(* The configuration is measured in a second way: with the other mode of   *)
(* flash attention, or by a server.                                        *)
Retries(r) ==
  /\ ~again
  /\ CASE stage = "startup" ->
            r.status = "unsupported" /\ tuning.flash /\ Alternate(Config) \notin admitted
       [] stage = "coarse" -> r.status \notin {"ok", "timeout"}
       [] stage = "target" -> r.status \notin {"ok", "timeout"} /\ tuning.bench
       [] OTHER -> FALSE

NewSearch(where) ==
  BoundedLayers(tuning.maximum, IF where = "diagnose" THEN tuning.maximum - 1 ELSE 0,
                IF Quick THEN 4 ELSE 6)

(* The search for layers goes on, or is over for this seed.                *)
Sought(ok) ==
  LET next == Tested(search, ok)
  IN  /\ todo' = IF next.phase = "end" THEN Tail(todo) ELSE todo
      /\ search' = IF next.phase = "end" THEN NewSearch(stage) ELSE next

(* The stage makes use of a result.                                        *)
Use(r) ==
  /\ admitted' = admitted \cup {Config} \cup
                   (IF Retries(r) /\ stage = "startup" THEN {Alternate(Config)} ELSE {})
  /\ passed' = IF Passes(r) THEN Append(passed, [config |-> Config, score |-> r.score])
               ELSE passed
  /\ again' = Retries(r)
  /\ IF Layered THEN Sought(r.status = "ok")
     ELSE todo' = (IF Retries(r) THEN todo ELSE Tail(todo)) /\ UNCHANGED search
  /\ UNCHANGED <<stage, frontiers>>

(* The run ends with an error.                                             *)
Fail == stage' = "failed" /\ UNCHANGED <<todo, again, passed, search, admitted, frontiers>>

-------------------------------------------------------------------------------
(* Steps of a stage.                                                       *)

(* execute_stage raises when the tuner is out of time.                     *)
OutOfTime ==
  /\ Measuring /\ late /\ (stage = "startup" => again \/ Mapped)
  /\ Fail
  /\ UNCHANGED <<args, late, session, table, losses, profile>>

(* A row answers.                                                          *)
Reuse ==
  /\ Measuring /\ ~late /\ (stage = "startup" => Mapped)
  /\ Reusable(Key(Config, Kind))
  /\ Use(Row(Key(Config, Kind)))
  /\ UNCHANGED <<args, late, session, table, losses, profile>>

(* A trial answers, and its result becomes the row.                        *)
Execute ==
  /\ Measuring /\ ~late /\ Mapped
  /\ ~Reusable(Key(Config, Kind))
  /\ \E r \in {Definitive(Config, Kind)} \cup
               (IF losses < rig.losses THEN Losable(Kind) ELSE {}) :
       /\ Use(r)
       /\ Keep(Key(Config, Kind), r)
       /\ losses' = IF r.status \in {"timeout", "lost"} THEN losses + 1 ELSE losses
  /\ UNCHANGED <<args, late, session, profile>>

(* A placement that cannot be mapped to devices is not even tried ...      *)
StaticReject ==
  /\ Measuring /\ stage = "startup" /\ ~again /\ ~Mapped
  /\ Keep(Key(Config, "static-rejection"), Failure("unsupported"))
  /\ todo' = Tail(todo)
  /\ UNCHANGED <<args, stage, again, passed, search, admitted, frontiers,
                 late, session, losses, profile>>

(* ... but as a seed of the fallback it ends the run.                      *)
Unmappable ==
  /\ Measuring /\ ~late /\ stage # "startup" /\ ~Mapped
  /\ ~Reusable(Key(Config, Kind))
  /\ Keep(Key(Config, Kind), Failure("interrupted"))
  /\ Fail
  /\ UNCHANGED <<args, late, session, losses, profile>>

(* diagnose says no to full offload without a trial.                       *)
RefuseFull ==
  /\ stage = "diagnose" /\ todo # <<>> /\ Layers(search) = tuning.maximum
  /\ Sought(FALSE)
  /\ UNCHANGED <<args, stage, again, passed, admitted, frontiers,
                 late, session, table, losses, profile>>

-------------------------------------------------------------------------------
(* From stage to stage.                                                    *)

(* A stage with its configurations to measure starts with no rows.         *)
Enter(where, configs, rows) ==
  stage' = where /\ todo' = configs /\ passed' = rows /\ search' = NewSearch(where)

Fastest(winners) ==
  Pick(winners, Sorted([i \in DOMAIN winners |-> <<0 - winners[i].score,
                                                   FamilyName(winners[i].config),
                                                   TierName(winners[i].config)>>]))

Mode == IF tuning.cuda THEN tuning.mode ELSE "off"

(* How many contexts are to be searched.                                   *)
Desired(winners) ==
  LET planned == Budget.frontiers[IF Capacity THEN "capacity" ELSE tuning.objective]
  IN  CASE Mode = "off" \/ (Mode = "auto" /\ Quick /\ tuning.objective = "performance") -> 0
        [] Mode = "full" -> IF Capacity THEN Least(Len(winners), planned) ELSE Len(winners)
        [] OTHER -> planned

(* The winners whose contexts are searched.                                *)
Candidates(winners) ==
  IF tuning.objective = "performance" THEN First(winners, Desired(winners))
  ELSE MaxContextSelect(winners, Least(Desired(winners), Len(winners)))

(* The validated rows compete, or there are none.                          *)
Compete(rows) ==
  LET winners == Fastest(rows)
  IN  IF rows = <<>> THEN Enter("failed", <<>>, <<>>)
      ELSE Enter("frontier", Rows(Candidates(winners)), winners)

(* The rows that are left are measured at the target depth; max-context    *)
(* goes on to the context search.                                          *)
Target(ranked) ==
  CASE ranked = <<>> -> Enter("failed", <<>>, <<>>)
    [] ranked # <<>> /\ ~Capacity -> Enter("target", Rows(ranked), <<>>)
    [] ranked # <<>> /\ Capacity ->
         Compete(MaxContextSelect(ranked, Least(tuning.finalists, Budget.frontiers.capacity)))

(* Partial offload is explored on request, or when there is no row.        *)
Partial(ranked) ==
  IF tuning.cuda /\ (ranked = <<>> \/ tuning.explore)
  THEN Enter(IF ranked = <<>> THEN "fallback" ELSE "diagnose", Seeds, ranked)
  ELSE Target(ranked)

(* How many rows of startup go on.                                         *)
StartupLimit(planned, rows) ==
  IF Capacity
  THEN Most(planned, Least(Len(rows), IF Quick THEN 4 ELSE Budget.frontiers.capacity + 2))
  ELSE planned

Select(rows, limit) ==
  IF Capacity THEN MaxContextSelect(rows, limit) ELSE StratifiedSelect(rows, limit)

EndStartup ==
  /\ stage = "startup"
  /\ LET rows == Select(passed, StartupLimit(Budget.startup, passed))
         smoke == Select(rows, StartupLimit(Budget.smoke, rows))
     IN  IF Capacity THEN Partial(smoke) ELSE Enter("coarse", Rows(smoke), <<>>)

EndCoarse == stage = "coarse" /\ Partial(StratifiedSelect(passed, Budget.coarse))

EndDiagnose == stage = "diagnose" /\ Target(passed)

EndFallback == stage = "fallback" /\ Target(StratifiedSelect(passed, Budget.coarse))

(* Slip: the finalists are not validated.                                  *)
EndTarget_Unvalidated == stage = "target" /\ Compete(passed)

EndTarget ==
  /\ stage = "target"
  /\ Enter("validate",
           Rows(StratifiedSelect(passed, Least(tuning.finalists, Budget.finalists))), <<>>)

EndValidate == stage = "validate" /\ Compete(passed)

EndStage ==
  /\ todo = <<>>
  /\ EndStartup \/ EndCoarse \/ EndDiagnose \/ EndFallback \/ EndTarget \/ EndValidate
  /\ UNCHANGED <<args, again, admitted, frontiers, late, session, table, losses, profile>>

(* tune starts.                                                            *)
Begin ==
  /\ stage = "begin"
  /\ Enter("startup", Anchors, <<>>)
  /\ admitted' = ToSet(Anchors)
  /\ UNCHANGED <<args, again, frontiers, late, session, table, losses, profile>>

-------------------------------------------------------------------------------
(* The context search and the choice.                                      *)

(* The search of one candidate, which misses some of the context when the  *)
(* tuner runs out of time meanwhile or a probe is lost.                    *)
Frontier ==
  /\ stage = "frontier" /\ todo # <<>> /\ ~late
  /\ \E found \in 0 .. Safe(Head(todo)) :
       /\ frontiers' = [c \in DOMAIN frontiers \cup {Head(todo)} |->
                          IF c = Head(todo) THEN found ELSE frontiers[c]]
       /\ \/ found = Safe(Head(todo)) /\ UNCHANGED <<late, losses>>
          \/ late' = TRUE /\ UNCHANGED losses
          \/ losses < rig.losses /\ losses' = losses + 1 /\ UNCHANGED late
  /\ todo' = Tail(todo)
  /\ UNCHANGED <<args, stage, again, passed, search, admitted, session, table, profile>>

(* The other candidates are left alone when there is no time for them.     *)
StopSearching ==
  /\ stage = "frontier" /\ todo # <<>> /\ late
  /\ todo' = <<>>
  /\ UNCHANGED <<args, stage, again, passed, search, admitted, frontiers,
                 late, session, table, losses, profile>>

Found(config) == IF config \in DOMAIN frontiers THEN frontiers[config] ELSE 0

(* Slip: the fastest of the winners, whatever its context.                 *)
Winner_Fastest == passed[1]

Fourth(n) == n * n * n * n

(* The choice: the largest safe context, the best balance of speed and     *)
(* safe context, or the greatest speed. The balance is the fourth power of *)
(* the code's, to stay with integers.                                      *)
Winner ==
  LET candidates == Candidates(passed)
      searched == {i \in DOMAIN candidates : candidates[i].config \in DOMAIN frontiers}
      balanced == IF candidates = <<>> THEN passed ELSE candidates
      safe(row) == IF Found(row.config) = 0 THEN rig.base ELSE Found(row.config)
      roomy == [i \in searched |-> <<0 - Found(candidates[i].config), 0 - candidates[i].score>>]
      balance == [i \in DOMAIN balanced |->
                    LET row == balanced[i] IN
                      <<0 - safe(row) * Fourth(row.score), 0 - safe(row), 0 - row.score,
                        0 - FamilyName(row.config)>>]
  IN  IF Capacity /\ searched # {} THEN candidates[Sorted(roomy)[1]]
      ELSE IF tuning.objective = "balanced" THEN balanced[Sorted(balance)[1]]
      ELSE passed[1]

Result == [session |-> session, config |-> Winner.config, score |-> Winner.score,
           safe |-> Found(Winner.config)]

(* The choice becomes the profile.  In which order the files are written   *)
(* is the subject of Workspace.                                            *)
Write ==
  /\ stage = "frontier" /\ todo = <<>>
  /\ profile' = Result
  /\ stage' = "done"
  /\ UNCHANGED <<args, todo, again, passed, search, admitted, frontiers,
                 late, session, table, losses>>

-------------------------------------------------------------------------------
(* What happens to a run.                                                  *)

Ended == stage \in {"done", "failed"}

(* An exception ends a trial: cached_trial leaves a row and raises.        *)
Interrupt ==
  /\ Measuring /\ ~late /\ Mapped /\ Losable(Kind) # {}
  /\ ~Reusable(Key(Config, Kind))
  /\ Keep(Key(Config, Kind), Failure("interrupted"))
  /\ Fail
  /\ UNCHANGED <<args, late, session, losses, profile>>

(* The tuner dies, or is interrupted between two trials.                   *)
Die ==
  /\ ~Ended
  /\ Fail
  /\ UNCHANGED <<args, late, session, table, losses, profile>>

Deadline ==
  /\ ~Ended /\ stage # "begin" /\ ~late
  /\ late' = TRUE
  /\ UNCHANGED <<args, run, session, table, losses, profile>>

(* The user starts the tuner again, with the same arguments.               *)
Restart ==
  /\ Ended /\ session < MaxSessions
  /\ session' = session + 1
  /\ stage' = "begin" /\ todo' = <<>> /\ again' = FALSE /\ passed' = <<>>
  /\ search' = NewSearch("begin") /\ admitted' = {} /\ frontiers' = <<>> /\ late' = FALSE
  /\ UNCHANGED <<args, table, losses, profile>>

(* No run is left to be started.                                           *)
Exhausted == Ended /\ session = MaxSessions /\ UNCHANGED vars

NoResult == [session |-> 0, config |-> <<>>, score |-> 0, safe |-> 0]

Init ==
  /\ tuning \in Tunings /\ rig \in Rigs
  /\ stage = "begin" /\ todo = <<>> /\ again = FALSE /\ passed = <<>>
  /\ search = NewSearch("begin") /\ admitted = {} /\ frontiers = <<>> /\ late = FALSE
  /\ session = 1 /\ table = <<>> /\ losses = 0
  /\ profile = NoResult

(* What the tuner does about the first configuration that is left to do.   *)
Work ==
  \/ OutOfTime \/ Reuse \/ Execute \/ StaticReject \/ Unmappable \/ RefuseFull
  \/ Frontier \/ StopSearching

Next ==
  \/ Begin \/ Work \/ EndStage \/ Write
  \/ Interrupt \/ Die \/ Deadline \/ Restart \/ Exhausted

Spec == Init /\ [][Next]_vars /\ WF_vars(Work)

-------------------------------------------------------------------------------
(* Properties.                                                             *)

Configs == [placement : DOMAIN rig.fits, tier : ToSet(FullTiers),
            flash : {"on", "off"}, ngl : 0 .. tuning.maximum]

Measured == [config : Configs, score : Int]

Results == [status : {"ok", "failed", "unsupported"} \cup Transient,
            score : Int, full : BOOLEAN]

TypeOK ==
  /\ stage \in Stages /\ again \in BOOLEAN /\ late \in BOOLEAN
  /\ todo \in Seq(Configs) /\ passed \in Seq(Measured) /\ admitted \subseteq Configs
  /\ Layered => Layers(search) \in 0 .. tuning.maximum
  /\ \A c \in DOMAIN frontiers : c \in Configs /\ frontiers[c] \in Nat
  /\ \A k \in DOMAIN table : k[1] \in Configs /\ table[k] \in Results
  /\ losses \in 0 .. rig.losses
  /\ profile.session \in 0 .. session
  /\ session \in 1 .. MaxSessions

(* A choice rests on a measurement that succeeded and is still on record:  *)
(* the server validation with its score, or for max-context a startup.     *)
Backed(choice) ==
  LET row(kind) == Row(Key(choice.config, kind))
  IN  IF Capacity THEN \E kind \in {"startup", "partial-feasibility"} : row(kind).status = "ok"
      ELSE row("validate").status = "ok" /\ row("validate").score = choice.score

(* The profile does, even if it is one of an earlier run.                  *)
ProfileWasValidated == profile.session # 0 /\ ~RetryFailed => Backed(profile)

(* The configurations a tune could choose on this rig: anchors that fit,   *)
(* with flash attention if it works or else without.                       *)
Viable ==
  LET flash == IF "on" \in rig.flash THEN "on" ELSE "off"
      reachable == ToSet(Anchors) \cup
                     (IF tuning.flash THEN {Alternate(c) : c \in ToSet(Anchors)} ELSE {})
  IN  {c \in reachable : /\ c.placement \in rig.mapped
                         /\ c.flash = flash /\ flash \in rig.flash /\ Fits(c)}

(* The run has completed, and no trial was lost.                           *)
Complete == stage = "done" /\ losses = 0

(* Unless there are more viable configurations than finalists, tuning for  *)
(* performance finds the fastest, however often it was interrupted or died *)
(* before and whatever rows those runs have left.                          *)
FastestWins ==
  /\ Complete /\ tuning.objective = "performance" /\ tuning.cuda
  /\ Cardinality(Viable) <= Least(tuning.finalists, Budget.finalists)
  => \A c \in Viable : profile.score >= Rate(c, "validate")

(* ... and tuning for context finds the one with most room, given time.    *)
RoomiestWins ==
  /\ Complete /\ Capacity /\ ~late /\ Mode # "off"
  /\ Cardinality(Viable) <= Least(tuning.finalists, Budget.frontiers.capacity)
  => \A c \in Viable : profile.safe >= Safe(c)

(* The fallback finds the largest offload that works for every seed, if    *)
(* its four or six tests can tell that many numbers of layers apart.       *)
FallbackFindsMost ==
  /\ stage = "fallback" /\ todo = <<>> /\ losses = 0
  /\ tuning.maximum <= IF Quick THEN 4 ELSE 16
  => \A i \in DOMAIN Seeds, n \in 0 .. tuning.maximum :
       LET seed == Seeds[i]
       IN  /\ "on" \in rig.flash
           /\ Fits([seed EXCEPT !.ngl = n])
           => \E k \in DOMAIN passed :
                /\ passed[k].config.placement = seed.placement
                /\ passed[k].config.tier = seed.tier
                /\ passed[k].config.ngl >= n

(* Partial offload is a fallback: a profile that leaves layers behind was  *)
(* written in want of a viable configuration.                              *)
PartialIsFallback ==
  [][profile' # profile /\ profile'.config.ngl < tuning.maximum /\ tuning.cuda /\ losses = 0
       => Viable = {}]_vars

(* Selections keep variety: the fastest of every placement goes on if      *)
(* there is room for each, and tuning for context keeps small KV caches    *)
(* and a tensor split.                                                     *)
SelectionsKeepVariety ==
  [][LET kept == Pick(passed, Ascending({i \in DOMAIN passed : passed[i].config \in ToSet(todo')}))
     IN  /\ stage = "coarse" /\ stage' = "target" =>
              KeepsFamilies(passed, Budget.coarse, kept)
         /\ stage = "target" /\ stage' = "validate" =>
              KeepsFamilies(passed, Least(tuning.finalists, Budget.finalists), kept)
         /\ Capacity /\ stage # "frontier" /\ stage' = "frontier" =>
              KeepsCapacity(passed, Least(tuning.finalists, Budget.frontiers.capacity),
                            passed')]_vars

(* Every stage comes to an end, the search for layers included.            *)
StagesEnd == todo # <<>> ~> todo = <<>> \/ Ended

===============================================================================
