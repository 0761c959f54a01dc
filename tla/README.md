# Specifications of llama-autotune

llama-autotune finds a configuration of llama.cpp's `llama-server` for one
model on one machine: it starts servers, sends them requests, keeps every
result in a database, and writes the configuration that is best for an
objective as a profile. This directory holds TLA+ models of the parts that
decide whether a profile can be believed and whether the machine is left as it
was found, the TLC instances that check them, and TLAPS proofs.

Paths below are relative to `src/src/llama_autotune/` unless they start with
`src/`.

## The system

| Component | State | Operations | Modelled in |
|---|---|---|---|
| Tuning funnel, `tuning/engine.py` `tune` | rows of the current stage, trace, frontiers, deadline | stages startup, coarse, (partial diagnosis or fallback), target depth, validation, frontier; choice; three file writes | `TuneFunnel` (the frontier as one step), the writes in `Workspace` |
| Selection policy, `tuning/policy.py` | none | `placement_candidates`, anchors, `stratified_select`, `max_context_select`, `diverse_partial_seeds`, `bounded_layers` | `Policy`, placements in `DeviceMap` |
| Context search, `tuning/frontier.py` | bracket, evidence, confirmation | probe, grow, refine, confirm, report | `ContextFrontier`, `BracketSearch` |
| Depth plan, `tuning/depth.py` | none | bounds of a prompt's depth | `DepthPlan` |
| Result cache, `cached_trial`, `frontier_trial`, `storage/store.py` | table of results, lock, files of profiles, contexts asked | reuse, execute, keep, resume, read, write | `CachedFrontier`, the rows of `TuneFunnel`, the files and the lock of `Workspace` |
| Managed processes, `executor.py` | child, its group, signal handlers, record | start, wait, stop, record | `ManagedProcess` |
| Memory monitor, `server/runner.py` | samples, minimum per GPU, inventory, `missing` | sample (two threads), check, join | `MemoryMonitor` |
| Trial, `server/runner.py` | clock, limits, outstanding requests, status | sample, launch, poll, request, stop | `Trial` |
| Command line, `cli.py` | profile, build and fingerprints a command has read | inspect, build, tune, run, report, each under or without the lock; interruption | `Workspace`; its signals also in `ManagedProcess` |
| Model inspection, `model/gguf.py` | an entry per file of a model | fingerprint, second look, keep | `Workspace` |
| Build planner, `build/planner.py` | record of the last build | commit, cmake, record | `Workspace` |
| Capabilities, `llama/capabilities.py` | none | find and fingerprint a binary; help texts to flags, flags to command lines | `Workspace` (finding and fingerprint) |
| Report, `reporting/report.py` | none | reads profile, manifest, history | `Workspace` |
| Environment probe, `probe/environment.py` | none | parses system tools | `Readings` of `MemoryMonitor`, what a job sees in `Workspace` |
| Device mapping, `llama/devices.py` | none | joins two inventories | `DeviceMap` |
| Configuration, `config.py` | none | records, defaults, digests | CONSTANTS of the modules |

How they interact: `tune` calls `execute_stage`, which asks `cached_trial`,
which asks the table and otherwise runs a `trial`. A trial is a
`MemoryMonitor` around a `Server` that `Executor.managed` starts and stops. The
frontier search knows none of that: it is given a callback that turns a
configuration into a result. What is shared is the table (between runs of the
tuner, one at a time by `Store.lock`), the fields of the monitor (between two
threads), the signal handlers (between `cli.main` and `stop`), and the files
of the store: profiles and manifests (between a tune, `run` and `report`, of
which the last takes no lock), the entries of a model's files (between all
commands that inspect it, `inspect` without the lock), and the record of the
last build (between `build` and whoever picks a binary).

### What is hard, and what makes each part correct

- *Context search.* A sequence of successes, failures, timeouts and
  contradictory confirmations decides a bracket, and rounding can make the
  point that is reasoned about another than the point that is probed. Correct
  when the answer rests on a probe of its own, nothing at or below it failed,
  the bracket closes, and the number of probes is logarithmic.
- *Cache.* A row answers for a trial of another run. Correct when rows are
  earned, a confirmation is fresh, an interruption costs one trial, and
  resuming changes no answer of a steady machine.
- *Funnel.* Many stages narrow rows down by different criteria, each stage may
  be cut short by an interruption, a crash or the deadline, and the next run
  starts with whatever rows are left. Correct when the profile is backed by
  rows, is the best by its objective, and files never mix.
- *Processes.* Signals arrive between any two steps; the child may hang, and
  its children may outlive it. Correct when nothing of the group is left, the
  handlers are back and the record is final, or it is known which signal prevents it.
- *Monitor.* Two threads without a lock. Correct when a passed check is
  backed by the samples.
- *Trial.* Many nested timeouts. Correct when it ends soon after its cap.
- *Workspace.* Commands run beside each other while models are downloaded,
  binaries are rebuilt, drivers fail and users lose patience; what one command
  found out is believed by the next. Correct when the cache tells what the
  files hold, what is served is what was measured, a manifest names the right
  build, a report is of one piece, and two servers are on the machine only if a
  command has left one behind.
- *Device mapping.* Two inventories that share a uuid, a bus, a name or only a
  size. Correct when no device is taken for another's GPU.

`PROJECT.json` lists the hazards line by line, with the properties about each.

## Modules

Words in backquotes are definitions of the module. Every module opens with a
comment on its abstraction. Definitions named `X_Y` next to a definition `X`
are slips of `X`: plausible bugs, each of which a property is known to catch.

**`DepthPlan`** has the two formulas for the depth of a prompt that must agree:
the frontier's (`FrontierDepth`) and the bounds of `resolve_depth`
(`DepthAccepted`).

**`ContextFrontier`** is `search_context_frontier`. `pc` is the loop the code
is in; `First`, `Grow`, `Refine` and `Confirm` make one call of `run()` each,
with any of the `Results` that a trial can return at that context; `EndGrow`,
`EndRefine` and `Report` are the tests between the loops. `RunOnce` is the
body of `run()` after the trial (rounding, `Classify`, `Record`, `Mark`), and
`Withdraw` the fallback when a confirmation fails. `trials` holds what the
properties speak about, for all trials of the search; the code keeps the same
as its list of attempts.

**`BracketSearch`** is the abstract promise: evidence only ever narrows a
bracket, except that the largest good size may lose its standing, and the
answer is the largest good size. `ImplementsBracketSearch` is the refinement.

**`CachedFrontier`** composes the search with `frontier_trial` and
`cached_trial`. `rows` is the latest row per context, `asked` is
`frontier_seen`. A probe is one of `OutOfTime`, `Reuse`, `Execute`; a trial may
end in `Interrupt` (a row is written, the exception goes on) or `Die` (no row);
`Restart` is another run with the same arguments. A machine fixes the results
that a context may have.

**`Policy`** has the pure functions of `policy.py`. `bounded_layers`, which
takes a callback, is a machine that asks for one number at a time: `Layers` is
the number it asks for, `Tested` continues with the answer. Scores are
integers; the two KV caches of a candidate are always of one type, as
`variants` makes them.

**`TuneFunnel`** is `tune` from its anchors to its files. `stage` is the loop
it is in, `todo` the configurations left to the loop, `again` the second
attempt that some loops make (the other flash attention mode, or a server in
place of llama-bench), `passed` the rows the loop has appended. `Config` and
`Kind` are the arguments of `execute_stage`. `OutOfTime`, `Reuse`, `Execute` and
`Interrupt` are `execute_stage` and `cached_trial`; `StaticReject` and
`Unmappable` the two outcomes of a placement that cannot be mapped; one
`EndStage` action per loop does what the code does between that loop and the
next; `Frontier` is the search of one candidate, `Winner` the choice, and
`Write` makes it the profile. A *rig* fixes what fits, how fast it is
when shallow and at depth, and how many trials may be lost. The balanced
objective compares fourth powers to stay with integers. Left out: accounting and
trace (but for the set of traced configurations, which decides whether the
alternate flash mode is tried), and the checks of arguments.

**`ManagedProcess`** is `managed`, `stop`, `_stop` and `wait`, one step per
statement that a signal may separate; `Signal` raises or is ignored as the
handlers are, before any step up to the end; `Child` moves the child and a worker
process of its group. `struck` is not in the code: it says before which steps a
signal has raised, so that the properties can say exactly which signals do harm.

**`MemoryMonitor`** splits `sample()` into query, comparison, inventory, and
the read and the write of each GPU's minimum, for both threads. `samples[i].alone`
is not in the code: it says that the other thread was outside `sample()`.

**`Trial`** is a clock: each step takes any time up to its own limit, and the
limits are those that the code computes from what is left.

**`Workspace`** has the commands of `cli.execute` as processes on one store.
`job[j]` holds the program counter and the local variables of command `j`; a
step is what the code does between two looks at something shared. `Start` is
the probe, before the lock (`inspect` and `report` have neither); `LookUp`, `Metadata`, `Hash`, `Confirm` (the second
stat) and `Remember` (the write) are `fingerprint_file`, once per shard; `Locate`, `Help` and `Digest` are the choice
of a binary and `discover`, which runs it and later reads it; `Commit`, `Compile`
and `RecordBuild` are `compile_plan`; `BeginTune`, `Reuse`, `Try`, `EndTrial`,
`WriteManifest` and `WriteLatest` are a `tune` of one configuration; `Check`,
`Serve` and `Leave` are `run`; the three `Read` actions are `report`. A command
may be left at any step by `Interrupt`, which like every other end goes through
`Stop` and `Unlock`, or by `Die`, which goes through nothing. `Stop` may leave the
server running, as `ManagedProcess` shows that `managed` may: interrupted at the fork or
before the signals are masked, or unable to reap the child (`TimeoutExpired`); the
row is added and the lock released all the same. A command that dies or leaves its
server is one of the `deserters`. A file holds
the sequence of its contents, so that its stat, the number of writes, tells two
writes apart even if they leave the same content; `Change` is everything others
do. A scope is what a tune saw: the machine with or without GPUs, the content of
each shard, and both looks at the binary. The field `steady` of servers and
builds, `tuned`, `turn` and `deserters` are not in the code: they say whether the world
stood still meanwhile, which tune came last, and who left a server.

**`DeviceMap`** is `map_devices` and `placement_candidates` as operators. A
*world* fixes the GPUs, the GPU that is truly behind each device, and what is told
of each device (its uuid, its bus, a place in `CUDA_VISIBLE_DEVICES`, or no more than
name and size); `Map` is the one call. It assumes that a server's GPUs are all
listed by nvidia-smi, and that a server reports as total memory what nvidia-smi
does, less an overhead below the tolerance of the comparison (`DeviceAssumption`).

The `MC*` modules only give values to constants, and `*Proofs` only hold proofs.

## What is checked

| Run | Bounds | Shows |
|---|---|---|
| `frontier_search` | contexts up to twelve resolution steps, two slots, two confirmations; bases and limits aligned | the invariants of the search, refinement, termination |
| `frontier_unaligned` | a base of one and a half steps, a limit below it | **violation**: a reported context that was never probed |
| `frontier_smoke_depth` | a smoke prompt longer than a small context allows | **violation**: the frontier asks for a depth that the depth plan refuses |
| `cached` | four steps, three runs of the tuner, steady and changing machines | earned rows, fresh confirmations, reproducible answers, no repeated work |
| `process_settled` | four signals, before any steps | which signals leave a process or lose a handler, and that no other does; record final, termination |
| `process_interrupted` | two signals, before any steps | **violation**: a signal in the instant of the fork leaves a server |
| `monitor` | two GPUs, two levels, two samples of the daemon | inventories agree, checks are backed by samples |
| `monitor_overlap` | one GPU, three levels | **violation**: an overlapping sample raises the minimum |
| `trial_clock` | cap of 8 units, larger configured timeouts | bounded overrun, answers in time |
| `funnel` | six tunes, six rigs, two runs of the tuner | the winner, its evidence, variety, resumption |
| `workspace` | four triples of commands, two shards, one change of the world, one command that is killed or leaves its server, one command whose probe may fail | true cache entries, served is measured, traced builds, whole reports, fresh profiles run, no server beside another but a deserter's |
| `devices` | three GPUs, one to three devices in any order, one kind of evidence for all, and every mix of kinds for GPUs that are hard to tell apart | no device is taken for another's GPU; anchors represent placements |

Why the bounds are enough. *Twelve steps* are two doublings past the largest
base of the search and leave brackets of several halvings; the logarithmic
bound needs a limit this large to be violated by a linear search. *Two
confirmations* are what can disagree. *Four steps* and *three runs* suffice
for a row to be written, hidden by an interruption, and reused. *Four signals*
cover one that raises in the body, one in each of the two calls of `stop`, which
may be at a different step of each, and one more that is ignored or not; two
suffice for a server to be left. *Two levels of memory* are at and below the margin; three are needed to
overwrite a lower amount by a middle one. The *six tunes* take each objective
and each budget at least once, each way out of the coarse stage, and a tune
without CUDA; the *six rigs* have a lost trial, flash attention that only works
when off together with a failing llama-bench, a placement that cannot be mapped,
one, two and three layers that fit, for each type of cache another, no offload at
all, and servers that start with fewer layers than asked.
Layers are four, which `bounded_layers` can tell apart with the quick budget's
four tests; `FallbackFindsMost` states that condition (four layers with four tests,
sixteen with six), as a model of more layers is searched incompletely by design.

*Four triples of commands* are those that share something: an inspection without
the lock beside a tune, and the run after it; two tunes of which one dies, with
the run or the report of what they leave; two builds, one overtaken by a
hand, before a tune. *Two shards* let one change while the other is read. *One
change* suffices for each property to be violated by its slip; two would mostly
tell that a world in motion cannot be measured, which the properties except.
Sizes of GPUs in `devices` are two within the tolerance and one without, and two
GPUs differ only in the digits of the PCI domain that the code drops.

What is named as a bound and is not in the code: `MaxCtx`, `MaxSessions`,
`MaxSignals`, `MaxTicks`, the `losses` of a rig, `MaxChanges`, `MaxDeserters`, `Blind`.

Deadlock is checked everywhere. Models that come to an end have a step of their own
for it (`Terminating`, `Over`, `Exhausted`, `AllOver`, `Returned`), possible only where the code has
returned.

### Fairness

- `FairSpec` of `ContextFrontier`: weak fairness of the search's steps. Each is
  sequential code around a trial, which ends (`Trial`, `BoundedOverrun`).
- `FairSpec` of `ManagedProcess`: weak fairness of the managing thread. All its
  waits have timeouts. Nothing is assumed of the child, nor of the user. The suite of
  tests hangs on some runs in a "process-cleanup race" of which `src/README.md:200`
  and `src/AUDIT.md:61` know no cause; `ManagedEnds` says that it is not a wait of `managed` or
  `stop` without a timeout. The threads and processes of the suite are not modelled.
- `Spec` of `TuneFunnel`: weak fairness of `Work`, the treatment of the next
  configuration, for the same reason. Nothing makes a run die or start again.

### Violations

Each contradicts a line of the documentation or a message of the program; the
`findings` of `PROJECT.json` quote it.

1. *A context that was not probed.* `run()` rounds the context it is given;
   the search goes on with the value before rounding. With a limit that is no
   multiple of the resolution both differ, and the latter is reported.
2. *Off by one.* The frontier reserves `tokens + 32`, `resolve_depth` needs
   `tokens + 33`. It matters when the context, not the configured number,
   limits the smoke prompt.
3. *A server that nobody stops.* A signal between the fork and the assignment
   of its result finds `p` unassigned, so the `finally` clause stops nothing.
   There is a second such window, from the end of the `with` body until the `stop` of
   `managed` ignores both signals (`executor.py:137`-`139`, `64`-`65`). `GroupGone` names
   both as its exceptions, and shows that there is no third.
4. *A minimum that is not the lowest.* Two threads replace it without a lock.

### Observations

What the models show of the code and is neither a run nor a contradiction:

- The "60-second per-trial hard cap" limits startup and requests: the last
  sample and the cleanup come on top, so a trial may take about twice as long,
  and be `ok`; `BoundedOverrun` says by how much.
- A placement that startup had rejected statically ends the tune with an error
  when the partial fallback seeds it (`Unmappable`), although other seeds may
  work.
- Classification looks at the text of a failure before its status: a server out
  of memory whose log also matches another pattern, or none, makes the context
  search inconclusive instead of bounding it (`Classify`).
- With fewer finalists than placements, `stratified_select` keeps the placement
  that comes first before rows are ranked: the fastest may be dropped.
  `FastestWins` excludes that case.
- The probe precedes the lock and takes a failing nvidia-smi for a machine
  without GPUs. A tune that starts then measures on the CPU and replaces the latest
  profile of the model, which `run` refuses once nvidia-smi works again: that is why
  `FreshProfileRuns` asks that both saw the same.
- A tune of a scope that has a profile begins by writing a manifest without a
  result: until it ends, or if it dies, a report shows the old profile with that
  manifest (`ReportIsWhole` allows a later one). A report of a scope given by
  the user reads the manifest first and may show an older one than the profile.
- `stop` masks and restores the two signals one after the other, and a signal that
  raises between the two turns of a loop ends the loop. Between the turns of the
  masking loop (`executor.py:64`-`65`, a SIGTERM) SIGINT stays ignored, and nothing is
  stopped by that call; between those of the restoring loop (`69`-`70`, a SIGINT)
  SIGTERM stays ignored, with the group already killed. The command is on its way
  out then, but if that takes time, the signal has no effect on it any more. No
  document promises that handlers are restored, so this is no violation:
  `HandlersRestored` is an equivalence, which says that a handler is lost there and
  nowhere else.
- A server keeps running, without the lock and with nothing to look for it, after a
  tuner or `run` that was killed; but also after one that was interrupted in either
  window of the third violation, or whose `stop` waited in vain for a killed
  child (`executor.py:91`): both release the lock on their way out. `AloneOnMachine`
  excepts the servers of these commands, the `deserters`, and no others.
- A binary that is replaced between the help text and the digest gives a
  fingerprint of both, which no later look at it repeats.
- ctime has the granularity of the kernel's clock. The model gives each write
  a stat of its own.

## What is proved

For all values of the constants that satisfy the modules' assumptions:

| Theorem | Assumes | Says |
|---|---|---|
| `TypeCorrect` (`ContextFrontierProofs`) | | the search is well typed |
| `AnswerCorrect` | `AlignedInputs` | the answer succeeded itself, and nothing at or below it failed |
| `BracketCorrect` | `AlignedInputs` | so does the lower end of the bracket, in each phase |
| `Refinement` | `AlignedInputs` | the search implements `BracketSearch` |
| `ResolvedCorrect`, `HeadroomCorrect` | `AlignedInputs` | the bracket is closed to one step, the recommendation keeps its distances |
| `StatusCorrect` | `AlignedInputs` | the status has its reason above the answer |
| `LogarithmicCorrect` | `AlignedInputs` | probes are logarithmically many, confirmations aside |
| `RowsEarned` (`CachedFrontierProofs`) | | rows are results of that very context |
| `CachedAnswerCorrect`, `CachedAnswerReal` | `AlignedInputs` | answers over the cache have the evidence of answers without it, and a server behind them |
| `CachedStatusCorrect`, `CachedHeadroomCorrect` | `AlignedInputs` | so do status and recommendation |
| `CachedLogarithmic` | `AlignedInputs` | each run asks for logarithmically many contexts, confirmations aside |
| `RunsAreSearches` | | every run of the tuner is a search that starts from nothing |
| `CachedRefinement` | `AlignedInputs` | over the cache, the search implements `BracketSearch`, begun anew with each run |
| `ResumeReproduced` | | on a steady machine, all runs that had the time report the same |
| `ConfirmedCorrect` | `AlignedInputs` | confirmations are trials of this run |
| `WorkKept` | `AlignedInputs` | interruptions cost the trials they hit |
| `ThresholdFound` | `AlignedInputs` | a machine's one threshold is found, from whatever rows |
| `TypeCorrect` (`ManagedProcessProofs`) | | a managed process is well typed |
| `GroupGoneCorrect`, `HandlersCorrect`, `RecordCorrect` | | for signals at any step: nothing is left and the record is final, but for the windows they name; exactly when a handler is lost |
| `MonitorTypeCorrect`, `SamplesComplete` (`MemoryMonitorProofs`) | | types; unless `missing` is set, all samples list all GPUs |
| `PassedChecksAreSafe` | | an action property: a check that passes is backed by the samples |
| `OverrunBounded`, `OkAnsweredInTime` (`TrialProofs`) | | the cap, for all timeouts |
| `CacheCorrect`, `AloneCorrect`, `WorkspaceTypeCorrect` (`WorkspaceProofs`) | | entries of the model cache are true, of two servers one is a deserter's, types |
| `ReportCorrect`, `ServedCorrect` | | reports are whole, what is served is what was measured |
| `TracedCorrect`, `FreshCorrect` | | manifests name the commit, a profile that is current is taken |
| `MappingCorrect` (`DeviceMapProofs`) | | what is told of a device is true |
| `AnchorsCorrect` | | the candidates of a tune leave out no placement it considers |
| `FunnelTypeCorrect` (`FunnelProofs`) | | a tune is well typed: its configurations are of this rig |
| `ProfileCorrect` | | a profile rests on a row that succeeded and is still there |
| `FastestCorrect`, `RoomiestCorrect` | | of few viable configurations, the best for the objective wins |
| `PartialCorrect` | | an action property: partial offload only for want of a viable configuration |
| `VarietyCorrect` | | an action property: selections keep every placement, and what a large context needs |
| `FallbackCorrect` | | the fallback finds the most layers that work, if its tests can tell |
| `FamiliesKept`, `CapacityKept` | | what each of the two selections keeps of any list |

Those of the workspace hold for any number of commands, shards, changes and deserters,
those of the managed processes for any number of signals,
those of the monitor for any GPUs and amounts of memory, and those of
the cached search for any number of runs and any machine.

`AlignedInputs` (the base is at least one resolution step, the limit a multiple of
it) excludes the first violation above. Of the named assumptions on constants, three
say that a value which stands for "none" is not one of the values it stands
beside (`MonitorAssumption`), two that sets are finite (the commands of
`WorkspaceAssumption`, the GPUs of `DeviceAssumption`), one that the placements of a
tune differ (`FunnelAssumption`: `placement_candidates` remembers those it has `seen`),
and the rest are types and what the sections above say.

### The arguments

*Context search.* `EvidenceInv` strengthens `AnswerHasEvidence`: every point the
search holds is a multiple of the resolution, lies in the bracket, and the
set `passed` agrees with the trials; without alignment a probe could fall
on a point already judged. Each of the search's actions has a step in the proof,
and `RunOnceEffect` says once what a call of `run()` does to the evidence. The
refinement maps a probe to `Accept`, `Reject` or `Retract` depending on where the
invariant puts it, and `Report` to `Answer`. `Closing` adds what is known of the
upper end; that a bracket which is not refined further is closed (`Refined`) needs
aligned ends, and the distances of the recommendation (`RecommendedBelow`) only that
rounding goes down. `Reasons` has, for each thing the search may conclude, the
trial it concluded that from.

`Economical` is the account of the probes: while the search grows, each probe but the
first has doubled the point it stands at, `Room` for which is left below the limit; while it
refines, the bracket is no wider than `Width[r]`, and each probe takes one from `r`. When the
growth ends, the bracket is narrower than the limit, so there are as many halvings as
there may be doublings (`BracketRoom`): hence two probes for each. With
aligned ends, rounding the middle down to a multiple of the resolution leaves no more
than half of an aligned width on either side (`MiddleHalves`). `Width` is a recursive
function: that there is such a function, and that it grows past every number, is shown
from the least number at which it would not be so, as the library's induction theorems
take operators.

*Cached search.* It preserves the invariants of the search because each of its probes
is a probe of the search (`ProbeIsReal`), whoever answered, and every run begins
like a search (`SearchStep`). `ProbeEffect` says once what a probe does to the
evidence; three invariants rest on it. `Afresh`: a point that is to be
confirmed has been asked for, so no row answers and each confirmation is a trial.
`Paid`: a trial that is no confirmation either leaves a row that no run tries
again, or is counted as lost; the rows that stay are counted by their contexts, of
which there are finitely many. `Narrowed`: on a machine with a threshold,
what answers below it is a success and above it a failure, whether it is a row or
a trial, so the bracket stays around the threshold and closes on it.

`CachedRefinement` needs only `SearchStep`: a step of the tuner is one of the search,
which `RefinementNext` maps, or begins another search, which is `BS!Init` again. Neither
`RunsAreSearches` nor `ResumeReproduced` needs aligned inputs: `Ranged` is
enough to know that the contexts asked for are among those of the machine.
`ResumeReproduced` compares runs, which no invariant of a single run
can. `Onward` therefore writes the handlers of the search as a function of its
state (`Core`) and the machine. If the machine has one result for each context, a probe has
the value of this function (`FirstTurns` and the lemmas after it), whether a row or a trial
answers, because a row that is reused is a result of the machine (`SoleResult`). So a
run that is not late only goes where the function leads (`Reach`), and each report is
made at a place the function does not leave. Of those it leads to one
at most (`ReachEnds`): from every place on the way to one end, the function only leads
to that end. No number of steps is counted, so no induction is needed.

*Processes and trials.* `Inv` of `ManagedProcessProofs` relates `pc`, `known` and the
child: if no signal has struck at the assignment, there is no child that `managed` does not
know; and it says for each step of `stop` which handlers are changed, to what they will
be restored, and which signal must have struck if that is not what they were at
first. So the windows need no assumption: what has struck is part of the state.
`IInv` of `TrialProofs` bounds the clock at each step by the steps before it,
as a sum of their limits.

*Monitor.* `MonitorInv` has four parts besides types: `Positions`, what each thread
holds at each step; `Known`, that the inventory is set once, before the daemon
thread exists; `Complete`, that a reading which passed the comparison is
full; and `Covered`. A minimum may be too high, as the violation
`monitor_overlap` shows, so `Covered` says less: the minimum is no higher than the
samples that no other thread overlapped, because only a thread that was in between
its read and its write at the same time could have raised it again, and then
the sample would not have been alone.

*Workspace.* `IInv` of `WorkspaceProofs` has two halves. `Files`: a job between the
two looks at a file has read what the file contains, unless the stat has moved on,
because a file never comes back to an earlier stat; so what is kept is true.
`Machine`: past the lock a command holds it, and a server belongs to a deserter, which
is past its `Stop` and will launch no other, or is the one server of the holder. Both need no more than which job moved where
(`GotoEffect`, `MachineAlone`), so that most steps are one line. `Typed` carries
the types, for which the number of servers is bounded by the commands and the
changes by the lengths of the files. `Story` says what a profile rests on (`Founded`): its row, and a manifest of
its scope that is final or later; the turn of a manifest only grows, and between
`BeginTune` and `WriteLatest` the manifest is that of the tune because no other
command has the lock. `Sight` says what a job knows if the world
has stood still since its command was given, file by file and look by look; `Cached`
is what makes an old entry as good as reading. `Tracing` follows a commit from where
git names it over the two looks at the binary to the record and from there to the
manifest. A build replaces a binary without
being a change of the world: it has the lock, and nobody else knows a binary then.
That is also why `FreshCorrect` holds: `run` looks for the binary that the profile names
and, while it holds the lock, sees what the tune saw.

*Devices.* One call, so no induction over steps: `CandidateBehind` is that the GPU
behind a device is always among its candidates, for each kind of evidence; the
rest is that a set of one has no other element, and that GPUs of one size have one
margin, so that it does not matter which of several alike is meant.

`AnchorsCorrect` is about lists. `first_distinct` has all of a prefix whose distinct elements
fit the limit, so it suffices to count: three types times the placements a tune considers are no
more than its load limit (`FewLoads`), for every objective and budget but one. A quick
tune for context has six candidates for up to three placements; `QuickHas` lists which six
come first. That needs to know that the list of placements starts with the single device
and that the second has no split, which `PlacesInv` says of `placement_candidates` whatever
the devices, their memory and the shares.

*Funnel.* First the order: `LeastNumber` is from the library's well-founded orders,
`PrecedesTotal` and the lemmas after it make `Before` a strict total order, and in such
an order of a finite set every element has a rank of its own (`RankedLists`), so a
sorted list has each row once and the first before all others. That is all that
the selections need: they keep rows of the list they are given, at most as many as
the limit, each once. `Inv` then says of each stage what its rows rest on (`Kept`):
while a tune for a large context goes on, or once rows are validated, each has a row
of the cache that succeeded. Such a row is never overwritten (`Replaces`), except with
`--retry-failed`, which `ProfileWasValidated` therefore excludes; so neither a later
stage nor a later run takes it from the profile. `FamiliesKept` and
`CapacityKept` are about the selections alone: what is chosen first stays (`DistinctStarts`),
and each choice adds one of its kind if one is left (`Goes`).

That the best wins needs a second invariant, `Best`, about tunes on GPUs that have lost no
trial. `Truthful`: a row is what the rig answers, or of an interruption, which is
tried again; so it makes no difference whether a run measures or reuses. `Surveyed`: of
the anchors it has dealt with, startup has chosen those that work, with the mode
of flash attention that works (`Chosen`), each once; these are the viable
configurations (`ViableAre`). `Narrowed`: from there on, the rows that a stage has
kept and the configurations it has still to measure form a line of viable
configurations (`Lined`). A stage passes all of them, if need be in the second way
(`ViablePasses`), which moves the line; the end of a stage takes nothing from it if they
are few (`SelectLined`, `Places`). `Rated` and `Ordered` say that the
scores are those of the validation and the first is the greatest, `Explored` and
`Pursued` that the frontiers found are the safe ones and none is missing. Without
the hypothesis that there are few, the line still is one of viable
configurations; that is `PartialCorrect`.

Variety is kept from one selection to the next. For placements one selection is enough:
each stage hands on the rows whose configurations it will measure, and these have the
leaders of all families (`FamiliesGoOn`). A tune for a large context selects
several times before it searches, and what one selection drops the next cannot bring
back. `HandsOn` follows the rows there: each `max_context_select` keeps the
kinds (`CapacityKept`) and so does a chain of them (`CapacityGoesOn`). The rows of a fallback go
through `stratified_select` first, which knows nothing of these kinds; but it keeps
one row of each family and of each tier if there is a place for each pair of them
(`GroupsKept`), and `Seeded` says that all rows are those of a seed, of which there are
no more than places.

`Deepest` is the invariant behind the fallback. A seed that has been dealt with is covered:
some row has its placement and tier and as many layers as work. The search at hand is `Fit`:
no more than `high` layers work, `low` of them are covered once they were tested, and
the numbers between the two can be told apart by the tests left (`Apart`), which a test in the middle halves
(`TestedFit`). `Apart` lists 1, 2, 4 and so on instead of raising two to a power. That an
answer says which half, whether a trial or a row gave it, is `Truthful` again.

### Only model-checked

- All liveness (`SearchEnds`, `ManagedEnds`, `StagesEnd`): beyond the prover.

All invariants and action properties of the passing runs are stated by a theorem, those of
the context search for aligned inputs.

`BracketCorrect` and `CachedAnswerReal` state
invariants that no run repeats: the runs check what follows from them.

### What the proofs found in the models

Several definitions had a `CASE` with arms that overlap. TLC takes the first that
holds, as the code does; TLA+ leaves the choice open, and the proof of `FreshCorrect`
could not choose (`Locate`). They are chains of `IF` or have disjoint
arms now, here and in `Status`, `RunState`, `FamilyName`, `Settle` and what a rig answers. The types of
`Workspace` had left the first element of a file's entry
unrelated to the others, and nothing said that "none" is no GPU. That the number of
layers which a rig can start with is a number was an assumption nobody had stated
(`FunnelAssumption`), and `FallbackFindsMost` bounded the layers by a power of two, for
which the budget has two values only: they are written out.

## Not modelled, and the plan

Without aligned inputs, `AnswerHasEvidence` fails (the first violation). What a search
promises for a base below one resolution step is open: there `TypeCorrect`,
`RunsAreSearches`, `RowsEarned` and `ResumeReproduced` are all that is proved.

Left out for good: parsing of help texts, of benchmark output, of GGUF headers and
of system tools, the assembly of command lines, the choice of CMake definitions,
the validation of arguments, and the wording of reports. They keep no state and
what could go wrong in them is a matter of text. `config.py` is records and
digests; a digest is modelled as what it is of. The identifiers of processes may
be given anew by the operating system and samples of a monitor are truncated
after 4096: both are outside the bounds of the models.
