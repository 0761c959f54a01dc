----------------------------- MODULE MemoryMonitor -----------------------------
(***************************************************************************)
(* MemoryMonitor (server/runner.py): the free memory of the GPUs, sampled  *)
(* by the thread of a trial before the server is launched, once it is      *)
(* ready and after its requests, and every half second in between by a     *)
(* daemon thread.  Both run sample() on the same fields, without a lock.   *)
(* The trial goes on only if check() finds that no sample lacked a GPU and *)
(* that the lowest amounts leave the margin free.                          *)
(*                                                                         *)
(* A reading is a function from the GPUs that nvidia-smi listed to their   *)
(* free memory; a query that failed lists none.                            *)
(***************************************************************************)
EXTENDS Naturals, Sequences, FiniteSets

CONSTANTS
  Gpus,            (* all GPUs                                             *)
  None,
  Selections,      (* what selected_uuids may be: sets of GPUs, or None    *)
  Levels,          (* amounts of free memory                               *)
  Margin,          (* what has to stay free                                *)
  MaxTicks         (* bounds the samples of the daemon thread              *)

ASSUME MonitorAssumption ==
  /\ Selections \subseteq (SUBSET Gpus) \cup {None}
  /\ Levels \subseteq Nat
  /\ Margin \in Nat
  /\ MaxTicks \in Nat
  /\ None \notin Levels
  /\ \A listed \in SUBSET Gpus : listed # None
  /\ \A read \in [gpu : Gpus, row : Levels \cup {None}] : read # None

Threads == {"trial", "sampler"}
Readings == UNION {[listed -> Levels] : listed \in SUBSET Gpus}

VARIABLES
  selected,        (* selected_uuids                                       *)
  step,            (* where each thread is in sample() or around it        *)
  rows,            (* the reading it works on                              *)
  left,            (* the GPUs of it that are still to be compared         *)
  old,             (* the row it has read of lowest                        *)
  lowest,          (* self.lowest: a row per GPU, None for no entry     *)
  inventory,       (* self.inventory                                       *)
  missing,         (* self.missing                                         *)
  samples,         (* self.samples: readings, and whether the other thread *)
                   (* was outside sample() all the time (not in the code)  *)
  alone,           (* ... so far                                           *)
  phase,           (* of the trial: "enter", "use", "exit", "join", "over" *)
  checks,          (* checks passed, of two                                *)
  ticks            (* samples begun by the daemon thread                   *)

fields == <<lowest, inventory, missing, samples>>
locals == <<rows, left, old>>
trial == <<selected, phase, checks>>
vars == <<step, locals, fields, alone, trial, ticks>>

Init ==
  /\ selected \in Selections
  /\ step = [trial |-> "query", sampler |-> "unborn"]
  /\ rows = [t \in Threads |-> <<>>]
  /\ left = [t \in Threads |-> {}]
  /\ old = [t \in Threads |-> None]
  /\ lowest = [g \in Gpus |-> None]
  /\ inventory = None
  /\ missing = FALSE
  /\ samples = <<>>
  /\ alone = [t \in Threads |-> TRUE]
  /\ phase = "enter" /\ checks = 0
  /\ ticks = 0

-------------------------------------------------------------------------------
(* sample(), run by thread t.                                              *)

Sampling(t) == step[t] \in {"query", "compare", "inventory", "read", "write"}
Goto(t, s) == step' = [step EXCEPT ![t] = s]

(* t begins: from now on neither thread is alone if the other is sampling. *)
Begun(t) ==
  alone' = [u \in Threads |->
              IF u = t THEN \A v \in Threads \ {t} : ~Sampling(v) ELSE FALSE]

(* nvidia_memory, and the selection of its rows.                           *)
Query(t) ==
  /\ step[t] = "query"
  /\ \E reading \in Readings :
       /\ selected # None => DOMAIN reading \subseteq selected
       /\ rows' = [rows EXCEPT ![t] = reading]
  /\ Goto(t, "compare")
  /\ UNCHANGED <<left, old, fields, alone, trial, ticks>>

(* A reading that lacks, or adds, a GPU.                                   *)
Incomplete(reading) ==
  \/ selected # None /\ DOMAIN reading # selected
  \/ DOMAIN reading = {}
  \/ inventory # None /\ DOMAIN reading # inventory

Compare(t) ==
  /\ step[t] = "compare"
  /\ missing' = (missing \/ Incomplete(rows[t]))
  /\ Goto(t, "inventory")
  /\ UNCHANGED <<locals, lowest, inventory, samples, alone, trial, ticks>>

(* Slip: compare the GPUs expected instead of those listed.                *)
Remember_All(t) ==
  /\ step[t] = "inventory"
  /\ inventory' = IF inventory = None THEN DOMAIN rows[t] ELSE inventory
  /\ left' = [left EXCEPT ![t] = inventory']
  /\ Goto(t, "read")
  /\ UNCHANGED <<rows, old, lowest, missing, samples, alone, trial, ticks>>

(* The first sample says which GPUs there are.                             *)
Remember(t) ==
  /\ step[t] = "inventory"
  /\ inventory' = IF inventory = None THEN DOMAIN rows[t] ELSE inventory
  /\ left' = [left EXCEPT ![t] = DOMAIN rows[t]]
  /\ Goto(t, "read")
  /\ UNCHANGED <<rows, old, lowest, missing, samples, alone, trial, ticks>>

Read(t) ==
  /\ step[t] = "read"
  /\ \E g \in left[t] : old' = [old EXCEPT ![t] = [gpu |-> g, row |-> lowest[g]]]
  /\ Goto(t, "write")
  /\ UNCHANGED <<rows, left, fields, alone, trial, ticks>>

(* What lowest holds after a comparison with the row that was read.        *)
Lower(new, row, now) == IF row = None THEN new ELSE IF new < row THEN new ELSE now

Write(t) ==
  /\ step[t] = "write"
  /\ LET g == old[t].gpu IN
       /\ lowest' = [lowest EXCEPT ![g] = Lower(rows[t][g], old[t].row, @)]
       /\ left' = [left EXCEPT ![t] = @ \ {g}]
  /\ old' = [old EXCEPT ![t] = None]
  /\ Goto(t, "read")
  /\ UNCHANGED <<rows, inventory, missing, samples, alone, trial, ticks>>

(* The sample is kept; beyond 4096 the older half would be dropped, which  *)
(* the bounds keep out of reach.                                           *)
Keep(t) ==
  /\ step[t] = "read" /\ left[t] = {}
  /\ samples' = Append(samples, [row |-> rows[t], alone |-> alone[t]])
  /\ rows' = [rows EXCEPT ![t] = <<>>]
  /\ Goto(t, IF t = "trial" /\ phase = "use" THEN "check" ELSE "idle")
  /\ UNCHANGED <<left, old, lowest, inventory, missing, alone, trial, ticks>>

Sample(t) == Query(t) \/ Compare(t) \/ Remember(t) \/ Read(t) \/ Write(t) \/ Keep(t)

-------------------------------------------------------------------------------
(* The trial.                                                              *)

(* Slip: the daemon thread starts before the first sample is complete.     *)
Enter_Early ==
  /\ phase = "enter" /\ step["sampler"] = "unborn"
  /\ Goto("sampler", "idle")
  /\ phase' = "use"
  /\ UNCHANGED <<locals, fields, alone, selected, checks, ticks>>

(* __enter__: after the first sample, the daemon thread is started.        *)
Enter ==
  /\ phase = "enter" /\ step["trial"] = "idle"
  /\ Goto("sampler", "idle")
  /\ phase' = "use"
  /\ UNCHANGED <<locals, fields, alone, selected, checks, ticks>>

(* The server is ready, or its requests are answered.                      *)
Ready ==
  /\ phase = "use" /\ step["trial"] = "idle"
  /\ Begun("trial")
  /\ Goto("trial", "query")
  /\ UNCHANGED <<locals, fields, trial, ticks>>

(* Any other end of the server or of a request.                            *)
Fail ==
  /\ phase = "use" /\ step["trial"] = "idle"
  /\ phase' = "exit"
  /\ UNCHANGED <<step, locals, fields, alone, selected, checks, ticks>>

(* check(): the samples are complete ...                                   *)
CheckMissing ==
  /\ step["trial"] = "check"
  /\ IF missing \/ samples = <<>>
       THEN Goto("trial", "idle") /\ phase' = "exit"
       ELSE Goto("trial", "margin") /\ UNCHANGED phase
  /\ UNCHANGED <<locals, fields, alone, selected, checks, ticks>>

(* Slip: one GPU with enough memory suffices.                              *)
Safe_Any == \E g \in Gpus : lowest[g] # None /\ lowest[g] >= Margin

Safe == \A g \in Gpus : lowest[g] # None => lowest[g] >= Margin

(* ... and leave the margin free, or TrialError is raised.                 *)
CheckMargin ==
  /\ step["trial"] = "margin"
  /\ Goto("trial", "idle")
  /\ IF Safe
       THEN checks' = checks + 1 /\ phase' = IF checks = 1 THEN "exit" ELSE "use"
       ELSE phase' = "exit" /\ UNCHANGED checks
  /\ UNCHANGED <<locals, fields, alone, selected, ticks>>

(* __exit__: the daemon thread is told to end ...                          *)
Exit ==
  /\ phase = "exit"
  /\ phase' = "join"
  /\ UNCHANGED <<step, locals, fields, alone, selected, checks, ticks>>

(* ... and joined, for 25 seconds at most: a query may take longer.        *)
Join ==
  /\ phase = "join" /\ step["sampler"] \in {"ended", "query"}
  /\ phase' = "over"
  /\ UNCHANGED <<step, locals, fields, alone, selected, checks, ticks>>

-------------------------------------------------------------------------------
(* The daemon thread.                                                      *)

Done == phase \in {"join", "over"}

(* Half a second later ...                                                 *)
Tick ==
  /\ step["sampler"] = "idle" /\ ~Done
  /\ ticks < MaxTicks
  /\ ticks' = ticks + 1
  /\ Begun("sampler")
  /\ Goto("sampler", "query")
  /\ UNCHANGED <<locals, fields, trial>>

(* ... or as soon as the trial is over.                                    *)
Finish ==
  /\ step["sampler"] = "idle" /\ Done
  /\ Goto("sampler", "ended")
  /\ UNCHANGED <<locals, fields, alone, trial, ticks>>

Over == phase = "over" /\ step["sampler"] = "ended" /\ UNCHANGED vars

Next ==
  \/ \E t \in Threads : Sample(t)
  \/ Enter \/ Ready \/ Fail \/ CheckMissing \/ CheckMargin \/ Exit \/ Join
  \/ Tick \/ Finish
  \/ Over

Spec == Init /\ [][Next]_vars

-------------------------------------------------------------------------------
(* Properties.                                                             *)

TypeOK ==
  /\ step \in [Threads -> {"query", "compare", "inventory", "read", "write",
                           "check", "margin", "idle", "unborn", "ended"}]
  /\ rows \in [Threads -> Readings]
  /\ \A t \in Threads : left[t] \subseteq DOMAIN rows[t]
  /\ \A t \in Threads : step[t] = "write" <=> old[t] # None
  /\ lowest \in [Gpus -> Levels \cup {None}]
  /\ inventory = None \/ inventory \subseteq Gpus
  /\ missing \in BOOLEAN
  /\ \A i \in DOMAIN samples : samples[i].row \in Readings
  /\ phase \in {"enter", "use", "exit", "join", "over"}
  /\ checks \in 0 .. 2 /\ ticks \in 0 .. MaxTicks

(* Unless missing has been set, all samples list the same GPUs, at least   *)
(* one, and exactly the selected ones: what check() then says of the       *)
(* lowest amounts, it says of all GPUs and of the whole trial.             *)
CompleteUnlessMissing ==
  ~missing =>
    \A i \in DOMAIN samples :
      LET listed == DOMAIN samples[i].row IN
        /\ listed = inventory /\ listed # {}
        /\ selected # None => listed = selected

(* A check passes only if every sample that did not overlap with another   *)
(* left the margin free on every GPU.                                      *)
PassedSafely ==
  [][checks' > checks =>
       \A i \in DOMAIN samples :
         samples[i].alone =>
           \A g \in DOMAIN samples[i].row : samples[i].row[g] >= Margin]_vars

(* Statement of the documentation.                                         *)

(* README: the placement evidence of a trial is conservative: its minimum  *)
(* free memory is no more than any of the samples recorded beside it.      *)
MinimumIsLowest ==
  phase = "over" /\ step["sampler"] = "ended" =>
    \A i \in DOMAIN samples :
      \A g \in DOMAIN samples[i].row : lowest[g] <= samples[i].row[g]
===============================================================================
