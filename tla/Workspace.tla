------------------------------- MODULE Workspace -------------------------------
(***************************************************************************)
(* The commands of cli.py as processes that share the files of a Store and *)
(* its lock, in a world that moves on meanwhile: the model, the source     *)
(* tree and the binaries change, nvidia-smi fails, a command is            *)
(* interrupted or killed.                                                  *)
(*                                                                         *)
(* One model and one choice of arguments: the scope of a tune is what it   *)
(* saw of the machine, the model and the binary. A tune measures one       *)
(* configuration; how it comes to that is the subject of TuneFunnel.       *)
(***************************************************************************)
EXTENDS Integers, Sequences, SequencesExt, FiniteSets, TLC

CONSTANTS
  Jobs,            (* the commands that are given, each at most once       *)
  Scripts,         (* which commands these are                             *)
  Shards,          (* how many files the model has                         *)
  Contents,        (* what a file of the model may contain                 *)
  MaxChanges,      (* bounds the changes of the world                      *)
  MaxDeserters,    (* bounds the commands that are killed or leave their   *)
                   (* server behind                                        *)
  Blind            (* bounds the commands for which nvidia-smi may fail    *)

Commands == {"inspect", "build", "tune", "run", "report"}
Nobody == "nobody"
Places == {"path", "built"}

ASSUME WorkspaceAssumption ==
  /\ Scripts \subseteq [Jobs -> Commands]
  /\ Shards \in Nat \ {0} /\ MaxChanges \in Nat /\ MaxDeserters \in Nat
  /\ Contents # {} /\ Nobody \notin Jobs /\ IsFiniteSet(Jobs)

VARIABLES
  script,
  shards,          (* what each file has contained, its stat is their number *)
  source,          (* the version of the source tree                       *)
  binaries,        (* the version a server was built from, 0 for no file   *)
  changes,         (* how often the world has changed                      *)
  job,             (* where each command is, and its local variables       *)
  lock,            (* the job that holds execution.lock                    *)
  servers,         (* those that are running                               *)
  deserters,       (* not in the code: the commands that were killed, or   *)
                   (* have left a running server behind                    *)
  models,          (* models/: the entry of each shard                     *)
  builds,          (* builds/latest                                        *)
  manifests,       (* profiles/: the manifest of a scope                   *)
  latest,          (* profiles/: the latest profile of the model           *)
  rows,            (* results.sqlite: the servers whose end it records     *)
  turn,            (* counts the tunes that have written                   *)
  tuned            (* the profile of the last tune that came to its end    *)

world == <<script, shards, source, binaries, changes>>
machine == <<lock, servers, deserters>>
files == <<models, builds, manifests, latest, rows>>
history == <<turn, tuned>>
vars == <<world, job, machine, files, history>>

NoEntry == [stat |-> 0, meta |-> 0, sha |-> 0]
NoBuild == [commit |-> 0, cap |-> <<>>, steady |-> FALSE]
NoProfile == [scope |-> <<>>, turn |-> 0, where |-> "path", row |-> <<>>]

NoJob(pc) ==
  [pc |-> pc, since |-> 0, sees |-> TRUE, model |-> <<>>, entry |-> NoEntry,
   build |-> NoBuild, profile |-> NoProfile, cap |-> <<>>, where |-> "path",
   row |-> <<>>, turn |-> 0, manifest |-> <<>>, seen |-> {}]

At(j, pc) == job[j].pc = pc

(* Job j goes on at pc, with some of its variables changed.                *)
Goto(j, pc, locals) ==
  job' = [job EXCEPT ![j] = [f \in DOMAIN @ |-> IF f = "pc" THEN pc
                                               ELSE IF f \in DOMAIN locals THEN locals[f]
                                               ELSE @[f]]]

(* Job j goes to its end, through the context managers it has entered.     *)
Quit(j) == job' = [job EXCEPT ![j] = NoJob("stop")]

-------------------------------------------------------------------------------
(* The start of a command. The machine is looked at before the lock is     *)
(* taken, if at all; a failure of nvidia-smi shows it without GPUs.        *)

Start(j) ==
  /\ At(j, "idle")
  /\ \/ script[j] = "inspect" /\ Goto(j, "stat", <<>>)
     \/ script[j] = "report" /\ Goto(j, "profile", <<>>)
     \/ /\ script[j] \in {"build", "tune", "run"}
        /\ \E sees \in IF j \in Blind THEN BOOLEAN ELSE {TRUE} :
             Goto(j, "lock", [sees |-> sees, since |-> changes])
  /\ UNCHANGED <<world, machine, files, history>>

(* Store.lock does not wait.                                               *)
Acquire(j) ==
  /\ At(j, "lock")
  /\ IF lock = Nobody
     THEN lock' = j /\ Goto(j, IF script[j] = "build" THEN "commit" ELSE "stat", <<>>)
     ELSE job' = [job EXCEPT ![j] = NoJob("done")] /\ UNCHANGED lock
  /\ UNCHANGED <<world, servers, deserters, files, history>>

-------------------------------------------------------------------------------
(* inspect: the files of the model, one after the other.                   *)

Stat(n) == Len(shards[n])
Shard(j) == Len(job[j].model) + 1

(* Slip: the last file is added once more, as the model itself.            *)
Fingerprinted_Twice(j, sha) ==
  IF Shard(j) = Shards /\ script[j] = "inspect" THEN Quit(j)
  ELSE Goto(j, IF Shard(j) < Shards THEN "stat" ELSE "read",
            [model |-> job[j].model \o (IF Shard(j) < Shards THEN <<sha>> ELSE <<sha, sha>>),
             entry |-> NoEntry])

(* The job knows the fingerprint of one more file.                         *)
Fingerprinted(j, sha) ==
  IF Shard(j) = Shards /\ script[j] = "inspect" THEN Quit(j)
  ELSE Goto(j, IF Shard(j) < Shards THEN "stat" ELSE "read",
            [model |-> Append(job[j].model, sha), entry |-> NoEntry])

(* Slip: an entry answers for the path, whatever has become of the file.   *)
Known_ByPath(n) == models[n] # NoEntry

(* The entry is of the file as it is.                                      *)
Known(n) == models[n].stat = Stat(n)

(* --rehash may refuse the entry that is there.                            *)
LookUp(j) ==
  /\ At(j, "stat")
  /\ \/ Known(Shard(j)) /\ Fingerprinted(j, models[Shard(j)].sha)
     \/ Goto(j, "metadata", [entry |-> [NoEntry EXCEPT !.stat = Stat(Shard(j))]])
  /\ UNCHANGED <<world, machine, files, history>>

Metadata(j) ==
  /\ At(j, "metadata")
  /\ Goto(j, "hash", [entry |-> [job[j].entry EXCEPT !.meta = Last(shards[Shard(j)])]])
  /\ UNCHANGED <<world, machine, files, history>>

Hash(j) ==
  /\ At(j, "hash")
  /\ Goto(j, "again", [entry |-> [job[j].entry EXCEPT !.sha = Last(shards[Shard(j)])]])
  /\ UNCHANGED <<world, machine, files, history>>

(* Slip: the entry is kept without a second look at the file.              *)
Confirm_Unchecked(j) ==
  /\ At(j, "again")
  /\ Goto(j, "keep", <<>>)
  /\ UNCHANGED <<world, machine, files, history>>

(* The file is looked at again: it must be the same ...                    *)
Confirm(j) ==
  /\ At(j, "again")
  /\ IF job[j].entry.stat = Stat(Shard(j)) THEN Goto(j, "keep", <<>>) ELSE Quit(j)
  /\ UNCHANGED <<world, machine, files, history>>

(* ... for the entry to be kept, whatever it is by now.                    *)
Remember(j) ==
  /\ At(j, "keep")
  /\ models' = [models EXCEPT ![Shard(j)] = job[j].entry]
  /\ Fingerprinted(j, job[j].entry.sha)
  /\ UNCHANGED <<world, machine, builds, manifests, latest, rows, history>>

-------------------------------------------------------------------------------
(* The binary: run takes the one of its profile, and otherwise the last    *)
(* build goes before PATH. discover looks at it twice.                     *)

Locate(j) ==
  /\ At(j, "read")
  /\ LET profile == IF script[j] = "run" THEN latest ELSE NoProfile
         where == IF profile # NoProfile THEN profile.where
                  ELSE IF builds # NoBuild THEN "built" ELSE "path"
     IN  IF binaries[where] = 0 THEN Quit(j)
         ELSE Goto(j, "help", [profile |-> profile, build |-> builds, where |-> where])
  /\ UNCHANGED <<world, machine, files, history>>

Help(j) ==
  /\ At(j, "help")
  /\ Goto(j, "digest", [cap |-> <<binaries[job[j].where]>>])
  /\ UNCHANGED <<world, machine, files, history>>

(* Slip: the last build is taken for the binary's, whatever it produced.   *)
OfBuild_Any(build, cap) == build

(* The last build, if it produced this binary.                             *)
OfBuild(build, cap) == IF build.cap = cap THEN build ELSE NoBuild

Digest(j) ==
  /\ At(j, "digest")
  /\ LET cap == Append(job[j].cap, binaries[job[j].where])
     IN  IF script[j] = "build" THEN Goto(j, "record", [cap |-> cap])
         ELSE Goto(j, IF script[j] = "tune" THEN "tune" ELSE "check",
                   [cap |-> cap, build |-> OfBuild(job[j].build, cap)])
  /\ UNCHANGED <<world, machine, files, history>>

-------------------------------------------------------------------------------
(* compile_plan: what git says, the build, and what has come out of it.    *)

Commit(j) ==
  /\ At(j, "commit")
  /\ Goto(j, "cmake", [build |-> [NoBuild EXCEPT !.commit = source],
                       where |-> "built", since |-> changes])
  /\ UNCHANGED <<world, machine, files, history>>

(* A failed build may have replaced the server before it failed.           *)
Compile(j) ==
  /\ At(j, "cmake")
  /\ \/ binaries' = [binaries EXCEPT !["built"] = source] /\ Goto(j, "help", <<>>)
     \/ binaries' = [binaries EXCEPT !["built"] = source] /\ Quit(j)
     \/ Quit(j) /\ UNCHANGED binaries
  /\ UNCHANGED <<script, shards, source, changes, machine, files, history>>

RecordBuild(j) ==
  /\ At(j, "record")
  /\ builds' = [job[j].build EXCEPT !.cap = job[j].cap, !.steady = job[j].since = changes]
  /\ Quit(j)
  /\ UNCHANGED <<world, machine, models, manifests, latest, rows, history>>

-------------------------------------------------------------------------------
(* tune and run.                                                           *)

(* What a job has seen of the machine, the model and the binary.           *)
Scope(j) == <<job[j].sees, job[j].model, job[j].cap>>

(* A server holds what it has found at its start; steady is not in the     *)
(* code: the world has not changed since the command was given.            *)
Launch(j, scope) ==
  servers' = servers \cup
    {[job |-> j, scope |-> scope, end |-> "none",
      loaded |-> [n \in 1 .. Shards |-> Last(shards[n])],
      binary |-> binaries[job[j].where], steady |-> job[j].since = changes]}

Own(j) == {s \in servers : s.job = j}
Ended(s, end) == [s EXCEPT !.end = end]

(* A row of this scope answers in place of a trial.                        *)
Evidence(scope) == {r \in rows : r.scope = scope /\ r.end \in {"ok", "failed"}}

BeginTune(j) ==
  /\ At(j, "tune")
  /\ turn' = turn + 1
  /\ manifests' = [scope \in DOMAIN manifests \cup {Scope(j)} |->
                     IF scope = Scope(j)
                     THEN [turn |-> turn', final |-> FALSE, build |-> job[j].build]
                     ELSE manifests[scope]]
  /\ Goto(j, "measure", [turn |-> turn'])
  /\ UNCHANGED <<world, machine, models, builds, latest, rows, tuned>>

(* The one configuration has passed, or there is none.                     *)
Judge(j, row) == IF row.end = "ok" THEN Goto(j, "manifest", [row |-> row]) ELSE Quit(j)

Reuse(j) ==
  /\ At(j, "measure")
  /\ \E row \in Evidence(Scope(j)) : Judge(j, row)
  /\ UNCHANGED <<world, machine, files, history>>

Try(j) ==
  /\ At(j, "measure") /\ Evidence(Scope(j)) = {}
  /\ Launch(j, Scope(j))
  /\ Goto(j, "trial", <<>>)
  /\ UNCHANGED <<world, lock, deserters, files, history>>

EndTrial(j) ==
  /\ At(j, "trial")
  /\ \E s \in Own(j), end \in {"ok", "failed"} :
       rows' = rows \cup {Ended(s, end)} /\ Judge(j, Ended(s, end))
  /\ servers' = servers \ Own(j)
  /\ UNCHANGED <<world, lock, deserters, models, builds, manifests, latest, history>>

(* Slip: the manifest stays as it was before the search.                   *)
WriteManifest_Early(j) ==
  /\ At(j, "manifest")
  /\ Goto(j, "write", <<>>)
  /\ UNCHANGED <<world, machine, files, history>>

WriteManifest(j) ==
  /\ At(j, "manifest")
  /\ manifests' = [manifests EXCEPT ![Scope(j)].final = TRUE]
  /\ Goto(j, "write", <<>>)
  /\ UNCHANGED <<world, machine, models, builds, latest, rows, history>>

Profile(j) == [scope |-> Scope(j), turn |-> job[j].turn, where |-> job[j].where,
               row |-> job[j].row]

(* Slip: a model keeps its first profile.                                  *)
WriteLatest_First(j) ==
  /\ At(j, "write")
  /\ latest' = (IF latest = NoProfile THEN Profile(j) ELSE latest) /\ tuned' = Profile(j)
  /\ Quit(j)
  /\ UNCHANGED <<world, machine, models, builds, manifests, rows, turn>>

WriteLatest(j) ==
  /\ At(j, "write")
  /\ latest' = Profile(j) /\ tuned' = Profile(j)
  /\ Quit(j)
  /\ UNCHANGED <<world, machine, models, builds, manifests, rows, turn>>

(* run takes a profile of the machine, the model and the binary it sees.   *)
Current(j, profile) == profile # NoProfile /\ profile.scope = Scope(j)

Check(j) ==
  /\ At(j, "check")
  /\ Goto(j, IF Current(j, job[j].profile) THEN "launch" ELSE "refuse", <<>>)
  /\ UNCHANGED <<world, machine, files, history>>

Serve(j) ==
  /\ At(j, "launch")
  /\ Launch(j, job[j].profile.scope)
  /\ Goto(j, "serving", <<>>)
  /\ UNCHANGED <<world, lock, deserters, files, history>>

(* The server exits, or the profile has been refused.                      *)
Leave(j) ==
  /\ At(j, "serving") \/ At(j, "refuse")
  /\ Quit(j)
  /\ UNCHANGED <<world, machine, files, history>>

-------------------------------------------------------------------------------
(* report reads three times, and takes no lock.                            *)

ReadProfile(j) ==
  /\ At(j, "profile")
  /\ IF latest = NoProfile THEN Goto(j, "done", <<>>)
     ELSE Goto(j, "describe", [profile |-> latest])
  /\ UNCHANGED <<world, machine, files, history>>

ReadManifest(j) ==
  /\ At(j, "describe")
  /\ LET scope == job[j].profile.scope
     IN  Goto(j, "history", [manifest |-> IF scope \in DOMAIN manifests
                                          THEN manifests[scope] ELSE <<>>])
  /\ UNCHANGED <<world, machine, files, history>>

ReadHistory(j) ==
  /\ At(j, "history")
  /\ Goto(j, "told", [seen |-> {r \in rows : r.scope = job[j].profile.scope}])
  /\ UNCHANGED <<world, machine, files, history>>

-------------------------------------------------------------------------------
(* The end of a command.                                                   *)

Over(j) == job[j].pc \in {"done", "told", "killed"}

Interrupt(j) ==
  /\ ~Over(j) /\ job[j].pc \notin {"idle", "stop", "unlock"}
  /\ Quit(j)
  /\ UNCHANGED <<world, machine, files, history>>

(* Slip: the server is left to itself.                                     *)
Stop_Orphaned(j) ==
  /\ At(j, "stop")
  /\ Goto(j, "unlock", <<>>)
  /\ rows' = rows \cup {Ended(s, "interrupted") : s \in Own(j)}
  /\ UNCHANGED <<world, machine, models, builds, manifests, latest, history>>

(* The context managers on the way out stop the server and add its row.    *)
(* The server stays if the interruption came at the fork, where p is not   *)
(* assigned, or before stop had masked the signals (see GroupGone of       *)
(* ManagedProcess), or if stop has killed it and waits for it in vain      *)
(* (TimeoutExpired, executor.py:91). The exception takes the same way out  *)
(* then, past the row and the lock.                                        *)
Stop(j) ==
  /\ At(j, "stop")
  /\ Goto(j, "unlock", <<>>)
  /\ rows' = rows \cup {Ended(s, IF script[j] = "run" THEN "run" ELSE "interrupted") :
                          s \in Own(j)}
  /\ \/ servers' = servers \ Own(j) /\ UNCHANGED deserters
     \/ /\ Own(j) # {} /\ Cardinality(deserters) < MaxDeserters
        /\ deserters' = deserters \cup {j}
        /\ UNCHANGED servers
  /\ UNCHANGED <<world, lock, models, builds, manifests, latest, history>>

Unlock(j) ==
  /\ At(j, "unlock")
  /\ lock' = IF lock = j THEN Nobody ELSE lock
  /\ job' = [job EXCEPT ![j] = NoJob("done")]
  /\ UNCHANGED <<world, servers, deserters, files, history>>

(* SIGKILL: the kernel releases the lock, and the server stays. Without    *)
(* the lock there is nothing to leave behind, as in Interrupt.             *)
Die(j) ==
  /\ lock = j
  /\ Cardinality(deserters) < MaxDeserters
  /\ lock' = Nobody
  /\ deserters' = deserters \cup {j}
  /\ job' = [job EXCEPT ![j] = NoJob("killed")]
  /\ UNCHANGED <<world, servers, files, history>>

-------------------------------------------------------------------------------
(* The world: a file of the model is written, sources are edited, or a     *)
(* server is replaced by one of the current version.                       *)

Change ==
  /\ changes < MaxChanges
  /\ changes' = changes + 1
  /\ \/ /\ \E n \in 1 .. Shards, c \in Contents :
             shards' = [shards EXCEPT ![n] = Append(@, c)]
        /\ UNCHANGED <<source, binaries>>
     \/ source' = source + 1 /\ UNCHANGED <<shards, binaries>>
     \/ /\ \E where \in Places :
             binaries[where] # source /\ binaries' = [binaries EXCEPT ![where] = source]
        /\ UNCHANGED <<shards, source>>
  /\ UNCHANGED <<script, job, machine, files, history>>

AllOver == (\A j \in Jobs : Over(j)) /\ UNCHANGED vars

Init ==
  /\ script \in Scripts
  /\ shards = [n \in 1 .. Shards |-> <<CHOOSE c \in Contents : TRUE>>]
  /\ source = 2 /\ binaries = [path |-> 1, built |-> 0] /\ changes = 0
  /\ job = [j \in Jobs |-> NoJob("idle")]
  /\ lock = Nobody /\ servers = {} /\ deserters = {}
  /\ models = [n \in 1 .. Shards |-> NoEntry] /\ builds = NoBuild
  /\ manifests = <<>> /\ latest = NoProfile /\ rows = {}
  /\ turn = 0 /\ tuned = NoProfile

Inspect(j) == LookUp(j) \/ Metadata(j) \/ Hash(j) \/ Confirm(j) \/ Remember(j)
Discover(j) == Locate(j) \/ Help(j) \/ Digest(j)
Build(j) == Commit(j) \/ Compile(j) \/ RecordBuild(j)
Tune(j) == BeginTune(j) \/ Reuse(j) \/ Try(j) \/ EndTrial(j) \/ WriteManifest(j) \/ WriteLatest(j)
Run(j) == Check(j) \/ Serve(j) \/ Leave(j)
Report(j) == ReadProfile(j) \/ ReadManifest(j) \/ ReadHistory(j)
Exit(j) == Interrupt(j) \/ Stop(j) \/ Unlock(j) \/ Die(j)

Next ==
  \/ \E j \in Jobs : \/ Start(j) \/ Acquire(j) \/ Inspect(j) \/ Discover(j) \/ Build(j)
                     \/ Tune(j) \/ Run(j) \/ Report(j) \/ Exit(j)
  \/ Change \/ AllOver

Spec == Init /\ [][Next]_vars

-------------------------------------------------------------------------------
(* Properties.                                                             *)

Versions == 0 .. MaxChanges + 2
Caps == {<<>>} \cup {<<a>> : a \in Versions} \cup (Versions \X Versions)
Entries == [stat : Nat, meta : Contents, sha : Contents] \cup
           [stat : 0 .. MaxChanges + 1, meta : Contents \cup {0}, sha : {0}]
TypeOK ==
  /\ script \in Scripts
  /\ \A n \in 1 .. Shards : shards[n] \in Seq(Contents) /\ models[n] \in Entries
  /\ source \in Versions /\ binaries \in [Places -> Versions]
  /\ changes \in 0 .. MaxChanges
  /\ lock \in Jobs \cup {Nobody} /\ deserters \subseteq Jobs
  /\ \A j \in Jobs :
       /\ job[j].model \in Seq(Contents) /\ Len(job[j].model) <= Shards
       /\ job[j].entry \in Entries /\ job[j].cap \in Caps /\ job[j].where \in Places
       /\ job[j].turn <= turn /\ job[j].since <= changes
       /\ job[j].seen \subseteq rows
  /\ builds.commit \in Versions /\ builds.cap \in Caps
  /\ latest.turn <= turn /\ tuned.turn <= turn
  /\ turn <= Cardinality(Jobs)

(* An entry of models/ holds what the file contained when it had the stat  *)
(* that the entry is kept for, whoever wrote to the file while it was      *)
(* read (fingerprint_file): later commands believe it without a look.      *)
CacheTellsContent ==
  \A n \in 1 .. Shards :
    models[n] # NoEntry =>
      /\ models[n].sha = shards[n][models[n].stat]
      /\ models[n].meta = models[n].sha

(* What run serves is what was measured: all servers of one scope, those   *)
(* of trials, of tunes that reuse their rows and of run, have loaded one   *)
(* model into one binary, if the world stood still from the command to the *)
(* launch. Nothing is asked of the time between the commands.              *)
ServesWhatWasMeasured ==
  \A s, t \in servers \cup rows :
    s.scope = t.scope /\ s.steady /\ t.steady =>
      s.loaded = t.loaded /\ s.binary = t.binary

(* A manifest names the commit its binary was built from, or none, however *)
(* builds fail, are killed or are overtaken by builds by hand; if nothing  *)
(* changed during that build (compile_plan, cli.py:128).                   *)
TracedBuild ==
  \A scope \in DOMAIN manifests :
    LET build == manifests[scope].build
    IN  build.steady => scope[3] = <<build.commit, build.commit>>

(* A report, though it takes no lock, shows a profile with the row it      *)
(* rests on and with the final manifest of the tune that wrote it, or the  *)
(* manifest of a later tune of the same scope, wherever tunes have died.   *)
ReportIsWhole ==
  \A j \in Jobs :
    At(j, "told") =>
      LET told == job[j]
      IN  /\ told.profile.row \in told.seen
          /\ told.manifest # <<>>
          /\ told.manifest.turn >= told.profile.turn
          /\ told.manifest.turn = told.profile.turn => told.manifest.final

(* run refuses no profile without a reason: if the last tune that came to  *)
(* its end saw the machine as run does, and the model and the binary as    *)
(* they are, then run takes its profile.                                   *)
FreshProfileRuns ==
  \A j \in Jobs :
    At(j, "refuse") /\ job[j].since = changes /\ tuned # NoProfile =>
      tuned.scope # <<job[j].sees, [n \in 1 .. Shards |-> Last(shards[n])],
                      <<binaries[tuned.where], binaries[tuned.where]>>>>

(* Two servers are on the machine only if one of them is a deserter's:     *)
(* measurements are not disturbed by each other or by a served model,      *)
(* unless a tuner or run was killed, or interrupted where its server       *)
(* escapes it, or could not reap it. For the lock outlives no command, and *)
(* who takes it next does not look for servers.                            *)
AloneOnMachine ==
  \A s, t \in servers : s # t => s.job \in deserters \/ t.job \in deserters
===============================================================================
