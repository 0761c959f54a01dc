---------------------------- MODULE WorkspaceProofs ----------------------------
(***************************************************************************)
(* The entries of the model cache are true, servers are alone on the       *)
(* machine, and variables keep their types, for any number of commands,    *)
(* files and changes. On top of that, what commands tell each other        *)
(* through the files of a workspace: a report is whole, what is served is  *)
(* what was measured, a manifest names the commit of its binary, and run   *)
(* takes a profile that is current.                                        *)
(***************************************************************************)
EXTENDS Workspace, SequenceTheorems, FiniteSetTheorems, TLAPS

Fields == {"pc", "since", "sees", "model", "entry", "build", "profile", "cap",
           "where", "row", "turn", "manifest", "seen"}

Sums == Contents \cup {0}
Entry == [stat : Nat, meta : Sums, sha : Sums]

(* Where a job is looking at a file of the model, until where it has not   *)
(* looked at all of them, where it has the lock whatever it does, where it *)
(* may have a server, and where it has none that it could still stop.      *)
Looking == {"stat", "metadata", "hash", "again", "keep"}
Early == {"idle", "lock"} \cup Looking
Exclusive == {"read", "help", "digest", "commit", "cmake", "record", "tune", "measure",
              "trial", "manifest", "write", "check", "launch", "serving", "refuse"}
Hosting == {"trial", "serving", "stop"}
Leaving == {"unlock", "done", "killed"}

JobType == job = [j \in Jobs |-> job[j]] /\ \A j \in Jobs : DOMAIN job[j] = Fields

FileType ==
  /\ shards \in [1 .. Shards -> Seq(Contents)]
  /\ \A n \in 1 .. Shards : Len(shards[n]) >= 1
  /\ models \in [1 .. Shards -> Entry]

LookType ==
  \A j \in Jobs :
    /\ job[j].entry \in Entry /\ job[j].model \in Seq(Sums)
    /\ job[j].pc \in Early => Len(job[j].model) < Shards

(* An entry is of a stat that the file has had, and true of it.            *)
Cached ==
  \A n \in 1 .. Shards :
    models[n] # NoEntry =>
      /\ models[n].stat \in 1 .. Len(shards[n])
      /\ models[n].sha = shards[n][models[n].stat]
      /\ models[n].meta = models[n].sha

(* If the file still has the stat a job has seen at first, then what the   *)
(* job has read meanwhile is what the file contains. Once the job has made *)
(* sure of that, it is what the file contained when it had this stat.      *)
Read(j, n) ==
  /\ job[j].entry.stat \in 1 .. Len(shards[n])
  /\ job[j].entry.stat = Len(shards[n]) =>
       /\ job[j].pc \in {"hash", "again"} => job[j].entry.meta = Last(shards[n])
       /\ job[j].pc = "again" => job[j].entry.sha = Last(shards[n])
  /\ job[j].pc = "keep" =>
       /\ job[j].entry.sha = shards[n][job[j].entry.stat]
       /\ job[j].entry.meta = job[j].entry.sha

Reading ==
  \A j \in Jobs :
    job[j].pc \in {"metadata", "hash", "again", "keep"} => Read(j, Len(job[j].model) + 1)

(* A command but inspect and report has the lock from there on.            *)
Holding ==
  \A j \in Jobs :
    \/ job[j].pc \in Exclusive
    \/ job[j].pc \in Looking /\ script[j] # "inspect"
    => lock = j

(* A server is that of a deserter, or the one server of the command that   *)
(* has the lock.                                                           *)
Serving ==
  /\ \A j \in deserters : j \in Jobs /\ job[j].pc \in Leaving
  /\ \A s \in servers :
       /\ s.job \in Jobs
       /\ s.job \in deserters \/ (job[s.job].pc \in Hosting /\ lock = s.job)
  /\ \A s, t \in servers : s.job = t.job /\ s.job \notin deserters => s = t

Files == JobType /\ FileType /\ LookType /\ Cached /\ Reading
Machine == Holding /\ Serving
IInv == Files /\ Machine

-------------------------------------------------------------------------------
(* What the steps do to the jobs.                                          *)

(* Only job j has moved, to pc.                                            *)
Moved(j, pc) ==
  /\ JobType' /\ job'[j].pc = pc
  /\ \A k \in Jobs : k # j => job'[k] = job[k]

(* Goto changes what it is told to, and nothing of another job.            *)
LEMMA GotoEffect ==
  ASSUME JobType, NEW j \in Jobs, NEW pc, NEW locals, Goto(j, pc, locals)
  PROVE  /\ Moved(j, pc)
         /\ \A f \in Fields \ {"pc"} :
              job'[j][f] = IF f \in DOMAIN locals THEN locals[f] ELSE job[j][f]
<1> DEFINE next == [f \in Fields |-> IF f = "pc" THEN pc
                                     ELSE IF f \in DOMAIN locals THEN locals[f]
                                     ELSE job[j][f]]
<1>1. job' = [job EXCEPT ![j] = next]
  BY DEF Goto, JobType
<1>2. job'[j] = next /\ \A k \in Jobs : k # j => job'[k] = job[k]
  BY <1>1 DEF JobType
<1>3. JobType'
  BY <1>1, <1>2 DEF JobType
<1> QED
  BY <1>2, <1>3 DEF Moved, Fields

(* A search keeps what it has seen of the machine, the model, the binary.  *)
LEMMA ScopeStays ==
  ASSUME JobType, NEW j \in Jobs, NEW pc, NEW locals, Goto(j, pc, locals),
         {"sees", "model", "cap"} \cap DOMAIN locals = {}
  PROVE  Moved(j, pc) /\ Scope(j)' = Scope(j)
BY GotoEffect DEF Scope, Fields

(* A job that starts or comes to an end has forgotten what it has read.    *)
LEMMA NoJobEffect ==
  ASSUME JobType, NEW j \in Jobs, NEW pc, job' = [job EXCEPT ![j] = NoJob(pc)]
  PROVE  Moved(j, pc) /\ job'[j].entry = NoEntry /\ job'[j].model = <<>>
<1>1. job'[j] = NoJob(pc) /\ \A k \in Jobs : k # j => job'[k] = job[k]
  BY DEF JobType
<1>2. DOMAIN NoJob(pc) = Fields
  BY DEF NoJob, Fields
<1>3. JobType'
  BY <1>1, <1>2 DEF JobType
<1> QED
  BY <1>1, <1>3 DEF Moved, NoJob

(* What a job knows of the files at its start.                             *)
LEMMA NoEntryType == NoEntry \in Entry /\ <<>> \in Seq(Sums)
BY DEF NoEntry, Entry, Sums

(* Where a step leaves a job that looks at the files in order.             *)
LEMMA LooksOn ==
  ASSUME Files, NEW j \in Jobs, NEW pc, Moved(j, pc),
         job'[j].entry \in Entry, job'[j].model \in Seq(Sums),
         pc \in Early => Len(job'[j].model) < Shards,
         pc \in {"metadata", "hash", "again", "keep"} => Read(j, Len(job[j].model) + 1)',
         UNCHANGED shards, FileType', Cached'
  PROVE  Files'
<1>1. LookType'
  BY DEF Files, LookType, Moved
<1>2. Reading'
  BY DEF Files, Reading, Read, Moved
<1> QED
  BY <1>1, <1>2 DEF Files, Moved

(* A step that looks at no file keeps what is known of them.               *)
LEMMA LooksElsewhere ==
  ASSUME Files, NEW j \in Jobs, NEW pc, Moved(j, pc), pc \notin Early,
         job'[j].entry \in Entry, job'[j].model \in Seq(Sums),
         UNCHANGED <<shards, models>>
  PROVE  Files'
<1>1. FileType' /\ Cached'
  BY DEF Files, FileType, Cached
<1> QED
  BY <1>1, LooksOn DEF Early, Looking

(* So does one that only moves and changes other variables of the job.     *)
LEMMA GoesElsewhere ==
  ASSUME Files, NEW j \in Jobs, NEW pc, NEW locals, Goto(j, pc, locals), pc \notin Early,
         {"entry", "model"} \cap DOMAIN locals = {}, UNCHANGED <<shards, models>>
  PROVE  Files' /\ Moved(j, pc)
<1>1. JobType /\ job[j].entry \in Entry /\ job[j].model \in Seq(Sums)
  BY DEF Files, LookType
<1>2. Moved(j, pc) /\ job'[j].entry = job[j].entry /\ job'[j].model = job[j].model
  BY <1>1, GotoEffect DEF Fields
<1> QED
  BY <1>1, <1>2, LooksElsewhere

(* And so does one with which the job starts or ends.                      *)
LEMMA EndsElsewhere ==
  ASSUME Files, NEW j \in Jobs, NEW pc, job' = [job EXCEPT ![j] = NoJob(pc)],
         pc \notin Early, UNCHANGED <<shards, models>>
  PROVE  Files' /\ Moved(j, pc)
<1>1. Moved(j, pc) /\ job'[j].entry = NoEntry /\ job'[j].model = <<>>
  BY NoJobEffect DEF Files
<1> QED
  BY <1>1, NoEntryType, LooksElsewhere

(* A step that leaves the lock and the servers alone.                      *)
LEMMA MachineAlone ==
  ASSUME Machine, NEW j \in Jobs, NEW pc, Moved(j, pc),
         UNCHANGED <<script, lock, servers, deserters>>, job[j].pc \notin Leaving,
         job[j].pc \in Hosting => pc \in Hosting,
         pc \in Exclusive => lock = j,
         pc \in Looking => script[j] = "inspect" \/ lock = j
  PROVE  Machine'
<1>1. Holding'
  BY DEF Machine, Holding, Moved
<1>2. Serving'
  BY DEF Machine, Serving, Moved
<1> QED
  BY <1>1, <1>2 DEF Machine

-------------------------------------------------------------------------------
(* The files of the model.                                                 *)

(* A file that has been written to has a content.                          *)
LEMMA LastIsContent ==
  ASSUME FileType, NEW n \in 1 .. Shards
  PROVE  Last(shards[n]) \in Contents /\ Last(shards[n]) = shards[n][Len(shards[n])]
BY DEF FileType, Last

(* A job that looks at the files in order looks at one there is.           *)
LEMMA ShardExists ==
  ASSUME WorkspaceAssumption, Files, NEW j \in Jobs, job[j].pc \in Early
  PROVE  Shard(j) \in 1 .. Shards
BY DEF WorkspaceAssumption, Files, LookType, Shard

(* With one more file known, the job looks at the next or is through.      *)
LEMMA FingerprintedFiles ==
  ASSUME WorkspaceAssumption, Files, NEW j \in Jobs, job[j].pc \in Looking,
         NEW sha \in Sums, Fingerprinted(j, sha), UNCHANGED shards, FileType', Cached'
  PROVE  /\ Files'
         /\ \/ Moved(j, "stop") \/ Moved(j, "stat")
            \/ Moved(j, "read") /\ script[j] # "inspect"
<1>1. CASE Shard(j) = Shards /\ script[j] = "inspect"
  <2>1. Moved(j, "stop") /\ job'[j].entry = NoEntry /\ job'[j].model = <<>>
    BY <1>1, NoJobEffect DEF Fingerprinted, Quit, Files
  <2> QED
    BY <2>1, NoEntryType, LooksOn DEF Early, Looking
<1>2. CASE ~(Shard(j) = Shards /\ script[j] = "inspect")
  <2> DEFINE pc == IF Shard(j) < Shards THEN "stat" ELSE "read"
             locals == [model |-> Append(job[j].model, sha), entry |-> NoEntry]
  <2>1. Goto(j, pc, locals) /\ JobType
    BY <1>2 DEF Fingerprinted, Files
  <2>2. /\ Moved(j, pc) /\ job'[j].entry = NoEntry
        /\ job'[j].model = Append(job[j].model, sha)
    BY <2>1, GotoEffect DEF Fields
  <2>3. /\ job[j].model \in Seq(Sums) /\ Shard(j) \in 1 .. Shards
        /\ Shard(j) = Len(job[j].model) + 1
    BY ShardExists DEF Files, LookType, Shard, Early
  <2>4. job'[j].model \in Seq(Sums) /\ Len(job'[j].model) = Shard(j)
    BY <2>2, <2>3
  <2>5. Files'
    BY <2>2, <2>4, NoEntryType, LooksOn DEF Early, Looking
  <2>6. pc = "stat" \/ (pc = "read" /\ script[j] # "inspect")
    BY <1>2, <2>3 DEF WorkspaceAssumption
  <2> QED
    BY <2>2, <2>5, <2>6
<1> QED
  BY <1>1, <1>2

(* A fingerprint that is taken from an entry or from the file.             *)
LEMMA LookUpFiles ==
  ASSUME WorkspaceAssumption, Files, NEW j \in Jobs, LookUp(j)
  PROVE  /\ Files'
         /\ \/ Moved(j, "stop") \/ Moved(j, "stat") \/ Moved(j, "metadata")
            \/ Moved(j, "read") /\ script[j] # "inspect"
<1>1. /\ FileType' /\ Cached' /\ job[j].pc = "stat" /\ Shard(j) \in 1 .. Shards
      /\ UNCHANGED <<shards, models>>
  BY ShardExists DEF LookUp, At, world, files, Files, FileType, Cached, Early, Looking
<1>2. CASE Known(Shard(j)) /\ Fingerprinted(j, models[Shard(j)].sha)
  <2>1. models[Shard(j)].sha \in Sums
    BY <1>1 DEF Files, FileType, Entry
  <2> QED
    BY <1>1, <1>2, <2>1, FingerprintedFiles DEF Looking
<1>3. CASE Goto(j, "metadata", [entry |-> [NoEntry EXCEPT !.stat = Stat(Shard(j))]])
  <2> DEFINE entry == [NoEntry EXCEPT !.stat = Stat(Shard(j))]
  <2>1. Moved(j, "metadata") /\ job'[j].entry = entry /\ job'[j].model = job[j].model
    BY <1>3, GotoEffect DEF Files, Fields
  <2>2. entry \in Entry /\ entry.stat = Len(shards[Shard(j)]) /\ entry.stat >= 1
    BY <1>1 DEF NoEntry, Entry, Sums, Stat, Files, FileType
  <2>3. job[j].model \in Seq(Sums) /\ Len(job[j].model) < Shards
    BY <1>1 DEF Files, LookType, Early, Looking
  <2>4. Read(j, Len(job[j].model) + 1)'
    BY <1>1, <2>1, <2>2 DEF Read, Moved, Shard, Files, FileType
  <2> QED
    BY <1>1, <2>1, <2>2, <2>3, <2>4, LooksOn
<1> QED
  BY <1>2, <1>3 DEF LookUp

(* What is read of a file is what it contains then.                        *)
LEMMA MetadataFiles ==
  ASSUME WorkspaceAssumption, Files, NEW j \in Jobs, Metadata(j)
  PROVE  Files' /\ Moved(j, "hash")
<1> DEFINE entry == [job[j].entry EXCEPT !.meta = Last(shards[Shard(j)])]
<1>1. /\ FileType' /\ Cached' /\ job[j].pc = "metadata" /\ Shard(j) \in 1 .. Shards
      /\ UNCHANGED <<shards, models>>
  BY ShardExists DEF Metadata, At, world, files, Files, FileType, Cached, Early, Looking
<1>2. Moved(j, "hash") /\ job'[j].entry = entry /\ job'[j].model = job[j].model
  BY GotoEffect DEF Metadata, Files, Fields
<1>3. /\ job[j].entry \in Entry /\ Last(shards[Shard(j)]) \in Contents
      /\ Last(shards[Shard(j)]) = shards[Shard(j)][Len(shards[Shard(j)])]
  BY <1>1, LastIsContent DEF Files, LookType
<1>4. /\ entry \in Entry /\ entry.stat = job[j].entry.stat
      /\ entry.meta = Last(shards[Shard(j)])
  BY <1>3 DEF Entry, Sums
<1>5. job[j].model \in Seq(Sums) /\ Len(job[j].model) < Shards
  BY <1>1 DEF Files, LookType, Early, Looking
<1>6. Read(j, Shard(j))
  BY <1>1 DEF Files, Reading, Shard
<1>7. Read(j, Len(job[j].model) + 1)'
  BY <1>1, <1>2, <1>4, <1>6 DEF Read, Moved, Shard, Last
<1> QED
  BY <1>1, <1>2, <1>4, <1>5, <1>7, LooksOn

(* The same of the checksum.                                               *)
LEMMA HashFiles ==
  ASSUME WorkspaceAssumption, Files, NEW j \in Jobs, Hash(j)
  PROVE  Files' /\ Moved(j, "again")
<1> DEFINE entry == [job[j].entry EXCEPT !.sha = Last(shards[Shard(j)])]
<1>1. /\ FileType' /\ Cached' /\ job[j].pc = "hash" /\ Shard(j) \in 1 .. Shards
      /\ UNCHANGED <<shards, models>>
  BY ShardExists DEF Hash, At, world, files, Files, FileType, Cached, Early, Looking
<1>2. Moved(j, "again") /\ job'[j].entry = entry /\ job'[j].model = job[j].model
  BY GotoEffect DEF Hash, Files, Fields
<1>3. /\ job[j].entry \in Entry /\ Last(shards[Shard(j)]) \in Contents
      /\ Last(shards[Shard(j)]) = shards[Shard(j)][Len(shards[Shard(j)])]
  BY <1>1, LastIsContent DEF Files, LookType
<1>4. /\ entry \in Entry /\ entry.stat = job[j].entry.stat
      /\ entry.meta = job[j].entry.meta /\ entry.sha = Last(shards[Shard(j)])
  BY <1>3 DEF Entry, Sums
<1>5. job[j].model \in Seq(Sums) /\ Len(job[j].model) < Shards
  BY <1>1 DEF Files, LookType, Early, Looking
<1>6. Read(j, Shard(j))
  BY <1>1 DEF Files, Reading, Shard
<1>7. Read(j, Len(job[j].model) + 1)'
  BY <1>1, <1>2, <1>4, <1>6 DEF Read, Moved, Shard, Last
<1> QED
  BY <1>1, <1>2, <1>4, <1>5, <1>7, LooksOn

(* What a job has read is true of its stat: it has not changed between.    *)
LEMMA ConfirmFiles ==
  ASSUME WorkspaceAssumption, Files, NEW j \in Jobs, Confirm(j)
  PROVE  Files' /\ (Moved(j, "stop") \/ Moved(j, "keep"))
<1>1. /\ job[j].pc = "again" /\ Shard(j) \in 1 .. Shards /\ UNCHANGED <<shards, models>>
      /\ FileType' /\ Cached'
  BY ShardExists DEF Confirm, At, world, files, Files, FileType, Cached, Early, Looking
<1>2. CASE job[j].entry.stat = Stat(Shard(j))
  <2>1. Moved(j, "keep") /\ job'[j].entry = job[j].entry /\ job'[j].model = job[j].model
    BY <1>2, GotoEffect DEF Confirm, Files, Fields
  <2>2. /\ job[j].entry \in Entry /\ job[j].model \in Seq(Sums)
        /\ Len(job[j].model) < Shards /\ Read(j, Shard(j))
    BY <1>1 DEF Files, LookType, Reading, Shard, Early, Looking
  <2>3. /\ job[j].entry.stat \in 1 .. Len(shards[Shard(j)])
        /\ job[j].entry.sha = shards[Shard(j)][job[j].entry.stat]
        /\ job[j].entry.meta = job[j].entry.sha
    BY <1>1, <1>2, <2>2 DEF Read, Stat, Last
  <2>4. Read(j, Len(job[j].model) + 1)'
    BY <1>1, <2>1, <2>3 DEF Read, Moved, Shard
  <2> QED
    BY <1>1, <2>1, <2>2, <2>4, LooksOn
<1>3. CASE job[j].entry.stat # Stat(Shard(j))
  <2>1. Quit(j) /\ UNCHANGED <<shards, models>>
    BY <1>1, <1>3 DEF Confirm
  <2> QED
    BY <2>1, EndsElsewhere DEF Quit, Early, Looking
<1> QED
  BY <1>2, <1>3

(* An entry that is kept is true of its stat.                              *)
LEMMA RememberFiles ==
  ASSUME WorkspaceAssumption, Files, NEW j \in Jobs, Remember(j)
  PROVE  /\ Files'
         /\ \/ Moved(j, "stop") \/ Moved(j, "stat")
            \/ Moved(j, "read") /\ script[j] # "inspect"
<1>1. /\ job[j].pc = "keep" /\ Shard(j) \in 1 .. Shards /\ UNCHANGED shards
      /\ models' = [models EXCEPT ![Shard(j)] = job[j].entry]
      /\ Fingerprinted(j, job[j].entry.sha)
  BY ShardExists DEF Remember, At, world, Early, Looking
<1>2. job[j].entry \in Entry /\ Read(j, Shard(j)) /\ FileType /\ Cached
  BY <1>1 DEF Files, LookType, Reading, Shard
<1>3. FileType'
  BY <1>1, <1>2 DEF FileType
<1>4. /\ job[j].entry.stat \in 1 .. Len(shards[Shard(j)])
      /\ job[j].entry.sha = shards[Shard(j)][job[j].entry.stat]
      /\ job[j].entry.meta = job[j].entry.sha
  BY <1>1, <1>2 DEF Read
<1>5. Cached'
  BY <1>1, <1>2, <1>4 DEF Cached, FileType
<1>6. job[j].entry.sha \in Sums
  BY <1>2 DEF Entry
<1> QED
  BY <1>1, <1>3, <1>5, <1>6, FingerprintedFiles DEF Looking

(* A file that changes has a new stat: what was known of it is of the past. *)
LEMMA ChangeFiles ==
  ASSUME WorkspaceAssumption, Files, Change
  PROVE  Files'
<1>1. UNCHANGED <<job, models>>
  BY DEF Change, files
<1>2. CASE UNCHANGED shards
  BY <1>1, <1>2 DEF Files, JobType, FileType, LookType, Cached, Reading, Read
<1>3. ASSUME NEW n \in 1 .. Shards, NEW c \in Contents,
             shards' = [shards EXCEPT ![n] = Append(@, c)]
      PROVE  Files'
  <2>1. FileType /\ Cached /\ LookType /\ Reading
    BY DEF Files
  <2>2. \A m \in 1 .. Shards :
          /\ shards[m] \in Seq(Contents) /\ shards'[m] \in Seq(Contents)
          /\ Len(shards'[m]) >= Len(shards[m]) /\ Len(shards[m]) >= 1
          /\ \A i \in 1 .. Len(shards[m]) : shards'[m][i] = shards[m][i]
          /\ shards'[m] = shards[m] \/ Len(shards'[m]) > Len(shards[m])
    BY <1>3, <2>1 DEF FileType
  <2>3. FileType'
    BY <1>1, <1>3, <2>1, <2>2 DEF FileType
  <2>4. Cached'
    BY <1>1, <2>1, <2>2 DEF Cached
  <2>5. Reading'
    <3> SUFFICES ASSUME NEW k \in Jobs, job[k].pc \in {"metadata", "hash", "again", "keep"}
                 PROVE  Read(k, Len(job[k].model) + 1)'
      BY <1>1 DEF Reading
    <3>1. Shard(k) \in 1 .. Shards /\ Read(k, Shard(k)) /\ Shard(k) = Len(job[k].model) + 1
      BY <2>1, ShardExists DEF Reading, Shard, Early, Looking
    <3> DEFINE file == Shard(k)
                  stat == job[k].entry.stat
    <3>2. /\ job'[k] = job[k] /\ Shard(k)' = file
          /\ file \in 1 .. Shards /\ stat \in 1 .. Len(shards[file])
      BY <1>1, <3>1 DEF Read, Shard
    <3>3. shards'[file][stat] = shards[file][stat] /\ stat \in 1 .. Len(shards'[file])
      BY <2>2, <3>2
    <3>4. stat = Len(shards'[file]) => shards'[file] = shards[file]
      BY <2>2, <3>2
    <3> QED
      BY <3>1, <3>2, <3>3, <3>4 DEF Read, Shard
  <2> QED
    BY <1>1, <2>1, <2>3, <2>4, <2>5 DEF Files, JobType, LookType
<1> QED
  BY <1>2, <1>3 DEF Change

-------------------------------------------------------------------------------
(* The steps of a command.                                                 *)

Unmoved == <<shards, models, script, lock, servers, deserters>>

(* A job that moves, or changes variables that are its own.                *)
LEMMA QuietStep ==
  ASSUME IInv, NEW j \in Jobs, NEW pc, NEW locals, Goto(j, pc, locals), pc \notin Early,
         {"entry", "model"} \cap DOMAIN locals = {}, UNCHANGED Unmoved,
         job[j].pc \notin Leaving, job[j].pc \in Hosting => pc \in Hosting,
         pc \in Exclusive => lock = j
  PROVE  IInv'
<1>1. Files' /\ Moved(j, pc)
  BY GoesElsewhere DEF IInv, Unmoved
<1> QED
  BY <1>1, MachineAlone DEF IInv, Unmoved, Early

(* A job on its way out keeps its server and its lock.                     *)
LEMMA QuitStep ==
  ASSUME IInv, NEW j \in Jobs, Quit(j), UNCHANGED Unmoved,
         job[j].pc \notin Leaving
  PROVE  IInv'
<1>1. Files' /\ Moved(j, "stop")
  BY EndsElsewhere DEF Quit, IInv, Unmoved, Early, Looking
<1> QED
  BY <1>1, MachineAlone DEF IInv, Unmoved, Exclusive, Looking, Hosting, Leaving

(* Where the lock is needed it is held.                                    *)
LEMMA HasLock ==
  ASSUME IInv, NEW j \in Jobs, job[j].pc \in Exclusive
  PROVE  lock = j
BY DEF IInv, Machine, Holding

(* Where a command starts, and what it knows then.                         *)
LEMMA StartGoes ==
  ASSUME NEW j \in Jobs, Start(j)
  PROVE  \E pc \in {"stat", "profile", "lock"} : \E locals :
           /\ Goto(j, pc, locals) /\ DOMAIN locals \subseteq {"sees", "since"}
           /\ "since" \in DOMAIN locals => locals["since"] = changes
           /\ pc = "stat" => script[j] = "inspect"
           /\ pc = "profile" => script[j] = "report"
           /\ pc = "lock" => script[j] \in {"build", "tune", "run"}
<1>1. CASE script[j] = "inspect" /\ Goto(j, "stat", <<>>)
  BY <1>1
<1>2. CASE script[j] = "report" /\ Goto(j, "profile", <<>>)
  BY <1>2
<1>3. ASSUME script[j] \in {"build", "tune", "run"}, NEW sees,
             Goto(j, "lock", [sees |-> sees, since |-> changes])
      PROVE  \E locals :
               /\ Goto(j, "lock", locals) /\ DOMAIN locals \subseteq {"sees", "since"}
               /\ "since" \in DOMAIN locals => locals["since"] = changes
  BY <1>3
<1> QED
  BY <1>1, <1>2, <1>3 DEF Start

(* A command starts: it has no lock and looks at no file, but for inspect. *)
LEMMA StartStep ==
  ASSUME WorkspaceAssumption, IInv, NEW j \in Jobs, Start(j)
  PROVE  IInv'
<1>1. PICK pc \in {"stat", "profile", "lock"} : \E locals :
        /\ Goto(j, pc, locals) /\ DOMAIN locals \subseteq {"sees", "since"}
        /\ pc = "stat" => script[j] = "inspect"
  BY StartGoes
<1>2. job[j].pc = "idle" /\ UNCHANGED Unmoved
  BY DEF Start, At, Unmoved, world, machine, files
<1>3. /\ Moved(j, pc) /\ job'[j].entry = job[j].entry /\ job'[j].model = job[j].model
  BY <1>1, GotoEffect DEF IInv, Files, Fields
<1>4. pc \in {"stat", "profile", "lock"} /\ (pc = "stat" => script[j] = "inspect")
  BY <1>1
<1>5. FileType' /\ Cached' /\ UNCHANGED shards
  BY <1>2 DEF IInv, Files, FileType, Cached, Unmoved
<1>6. /\ job[j].entry \in Entry /\ job[j].model \in Seq(Sums)
      /\ Len(job[j].model) < Shards
  BY <1>2 DEF IInv, Files, LookType, Early
<1>7. Files'
  BY <1>3, <1>4, <1>5, <1>6, LooksOn DEF IInv
<1>8. Machine'
  BY <1>2, <1>3, <1>4, MachineAlone DEF IInv, Unmoved, Exclusive, Hosting, Leaving, Looking
<1> QED
  BY <1>7, <1>8 DEF IInv

(* Nobody has the lock when it is taken: no command has a server then.     *)
LEMMA AcquireStep ==
  ASSUME WorkspaceAssumption, IInv, NEW j \in Jobs, Acquire(j)
  PROVE  IInv'
<1>1. job[j].pc = "lock" /\ UNCHANGED <<shards, models, script, servers, deserters>>
  BY DEF Acquire, At, world, files
<1>2. CASE lock = Nobody
  <2> DEFINE pc == IF script[j] = "build" THEN "commit" ELSE "stat"
  <2>1. lock' = j /\ Goto(j, pc, <<>>)
    BY <1>2 DEF Acquire
  <2>2. /\ Moved(j, pc) /\ job'[j].entry = job[j].entry /\ job'[j].model = job[j].model
    BY <2>1, GotoEffect DEF IInv, Files, Fields
  <2>3. FileType' /\ Cached' /\ UNCHANGED shards
    BY <1>1 DEF IInv, Files, FileType, Cached
  <2>4. /\ job[j].entry \in Entry /\ job[j].model \in Seq(Sums)
        /\ Len(job[j].model) < Shards
    BY <1>1 DEF IInv, Files, LookType, Early
  <2>5. Files'
    BY <2>2, <2>3, <2>4, LooksOn DEF IInv
  <2>6. Holding'
    BY <1>1, <1>2, <2>1, <2>2 DEF WorkspaceAssumption, IInv, Machine, Holding, Moved
  <2>7. Serving'
    BY <1>1, <1>2, <2>1, <2>2 DEF WorkspaceAssumption, IInv, Machine, Serving, Moved,
       Leaving
  <2> QED
    BY <2>5, <2>6, <2>7 DEF IInv, Machine
<1>3. CASE lock # Nobody
  <2>1. job' = [job EXCEPT ![j] = NoJob("done")] /\ UNCHANGED lock
    BY <1>3 DEF Acquire
  <2>2. Files' /\ Moved(j, "done")
    BY <1>1, <2>1, EndsElsewhere DEF IInv, Early, Looking
  <2> QED
    BY <1>1, <2>1, <2>2, MachineAlone DEF IInv, Exclusive, Hosting, Leaving, Looking
<1> QED
  BY <1>2, <1>3

(* The files of the model, in every command but report.                    *)
LEMMA InspectStep ==
  ASSUME WorkspaceAssumption, IInv, NEW j \in Jobs, Inspect(j)
  PROVE  IInv'
<1>1. /\ job[j].pc \in Looking /\ UNCHANGED <<script, lock, servers, deserters>>
  BY DEF Inspect, LookUp, Metadata, Hash, Confirm, Remember, At, world, machine, Looking
<1>2. script[j] = "inspect" \/ lock = j
  BY <1>1 DEF IInv, Machine, Holding
<1>3. PICK pc \in {"stop", "read"} \cup Looking :
        Files' /\ Moved(j, pc) /\ (pc = "read" => script[j] # "inspect")
  BY LookUpFiles, MetadataFiles, HashFiles, ConfirmFiles, RememberFiles DEF Inspect, IInv, Looking
<1>4. /\ job[j].pc \notin Hosting
      /\ pc \in Exclusive => pc = "read"
  BY <1>1, <1>3 DEF Looking, Hosting, Leaving, Exclusive
<1> QED
  BY <1>1, <1>2, <1>3, <1>4, MachineAlone DEF IInv, Looking, Leaving

(* The binary.                                                             *)
LEMMA DiscoverStep ==
  ASSUME IInv, NEW j \in Jobs, Discover(j)
  PROVE  IInv'
<1>1. job[j].pc \in {"read", "help", "digest"} /\ UNCHANGED Unmoved
  BY DEF Discover, Locate, Help, Digest, At, world, machine, files, Unmoved
<1>2. lock = j
  BY <1>1, HasLock DEF Exclusive
<1>3. CASE Quit(j)
  BY <1>1, <1>3, QuitStep DEF Leaving
<1>4. ASSUME NEW pc \in {"help", "digest", "record", "tune", "check"}, NEW locals,
             {"entry", "model"} \cap DOMAIN locals = {}, Goto(j, pc, locals)
      PROVE  IInv'
  BY <1>1, <1>2, <1>4, QuietStep DEF Early, Looking, Hosting, Leaving
<1>5. CASE Locate(j)
  BY <1>3, <1>4, <1>5 DEF Locate
<1>6. CASE Help(j)
  BY <1>4, <1>6 DEF Help
<1>7. CASE Digest(j)
  BY <1>4, <1>7 DEF Digest
<1> QED
  BY <1>5, <1>6, <1>7 DEF Discover

(* build touches neither the servers nor the entries.                      *)
LEMMA BuildStep ==
  ASSUME IInv, NEW j \in Jobs, Build(j)
  PROVE  IInv'
<1>1. job[j].pc \in {"commit", "cmake", "record"} /\ UNCHANGED Unmoved
  BY DEF Build, Commit, Compile, RecordBuild, At, world, machine, files, Unmoved
<1>2. lock = j
  BY <1>1, HasLock DEF Exclusive
<1>3. CASE Quit(j)
  BY <1>1, <1>3, QuitStep DEF Leaving
<1>4. ASSUME NEW pc \in {"cmake", "help"}, NEW locals,
             {"entry", "model"} \cap DOMAIN locals = {}, Goto(j, pc, locals)
      PROVE  IInv'
  BY <1>1, <1>2, <1>4, QuietStep DEF Early, Looking, Hosting, Leaving
<1>5. CASE Commit(j)
  BY <1>4, <1>5 DEF Commit
<1>6. CASE Compile(j)
  BY <1>3, <1>4, <1>6 DEF Compile
<1>7. CASE RecordBuild(j)
  BY <1>3, <1>7 DEF RecordBuild
<1> QED
  BY <1>5, <1>6, <1>7 DEF Build

(* What is launched is the server of its job, of the scope that is given.  *)
LEMMA Launched ==
  ASSUME NEW j, NEW scope, Launch(j, scope)
  PROVE  \E new : /\ servers' = servers \cup {new} /\ new.job = j
                  /\ "scope" \in DOMAIN new /\ new.scope = scope
<1> DEFINE new == [job |-> j, scope |-> scope, end |-> "none",
                   loaded |-> [n \in 1 .. Shards |-> Last(shards[n])],
                   binary |-> binaries[job[j].where], steady |-> job[j].since = changes]
<1>1. servers' = servers \cup {new}
  BY DEF Launch
<1>2. new.job = j /\ new.scope = scope /\ "scope" \in DOMAIN new
  OBVIOUS
<1> HIDE DEF new
<1> QED
  BY <1>1, <1>2

(* A command that launches a server has the lock and no other server.      *)
LEMMA LaunchStep ==
  ASSUME IInv, NEW j \in Jobs, job[j].pc \in Exclusive \ Hosting, NEW scope,
         Launch(j, scope), NEW pc \in {"trial", "serving"}, Goto(j, pc, <<>>),
         UNCHANGED <<shards, models, script, lock, deserters>>
  PROVE  IInv'
<1>1. Files' /\ Moved(j, pc)
  BY GoesElsewhere DEF IInv, Early, Looking
<1>2. lock = j
  BY HasLock
<1>3. Holding'
  BY <1>1, <1>2 DEF IInv, Machine, Holding, Moved, Looking
<1>4. PICK new : servers' = servers \cup {new} /\ new.job = j
  BY Launched
<1>5. \A s \in servers : s.job \in Jobs /\ s.job \in deserters
  BY <1>2 DEF IInv, Machine, Serving, Exclusive, Hosting, Leaving
<1>6. Serving'
  <2>1. \A d \in deserters : d \in Jobs /\ d # j /\ job[d].pc \in Leaving
    BY DEF IInv, Machine, Serving, Exclusive, Leaving
  <2>2. /\ \A d \in deserters : job'[d].pc \in Leaving
        /\ job'[j].pc \in Hosting /\ lock' = j
    BY <1>1, <1>2, <2>1 DEF Moved, Hosting
  <2> QED
    BY <1>4, <1>5, <2>1, <2>2 DEF Serving
<1> QED
  BY <1>1, <1>3, <1>6 DEF IInv, Machine

(* A command on its way out stops its server, or deserts it.               *)
LEMMA StoppedStep ==
  ASSUME IInv, NEW j \in Jobs, NEW pc, Files', Moved(j, pc),
         job[j].pc \notin Leaving, pc \notin Looking, pc \in Exclusive => lock = j, UNCHANGED <<script, lock>>,
         \/ servers' = servers \ Own(j) /\ UNCHANGED deserters
         \/ pc \in Leaving /\ deserters' = deserters \cup {j} /\ UNCHANGED servers
  PROVE  IInv'
<1>1. Holding'
  BY DEF IInv, Machine, Holding, Moved
<1>2. /\ \A s \in servers' : s \in servers /\ (s.job # j \/ j \in deserters')
      /\ deserters \subseteq deserters'
  BY DEF Own
<1>3. Serving'
  BY <1>2 DEF IInv, Machine, Serving, Moved
<1> QED
  BY <1>1, <1>3 DEF IInv, Machine

(* tune has a server during its trial.                                     *)
LEMMA TuneStep ==
  ASSUME IInv, NEW j \in Jobs, Tune(j)
  PROVE  IInv'
<1>1. /\ job[j].pc \in {"tune", "measure", "trial", "manifest", "write"}
      /\ UNCHANGED <<shards, models, script, lock, deserters>>
  BY DEF Tune, BeginTune, Reuse, Try, EndTrial, WriteManifest, WriteLatest, At,
         world, machine, files
<1>2. lock = j
  BY <1>1, HasLock DEF Exclusive
<1>3. ASSUME Quit(j), UNCHANGED servers
      PROVE  IInv'
  BY <1>1, <1>3, QuitStep DEF Unmoved, Leaving
<1>4. ASSUME NEW pc \in {"measure", "manifest", "write"}, NEW locals, UNCHANGED servers,
             {"entry", "model"} \cap DOMAIN locals = {}, Goto(j, pc, locals),
             job[j].pc # "trial"
      PROVE  IInv'
  BY <1>1, <1>2, <1>4, QuietStep DEF Early, Looking, Hosting, Leaving, Unmoved
<1>5. CASE BeginTune(j)
  BY <1>4, <1>5 DEF BeginTune, At, machine
<1>6. CASE Reuse(j)
  BY <1>3, <1>4, <1>6 DEF Reuse, Judge, At, machine
<1>7. CASE Try(j)
  BY <1>1, <1>7, LaunchStep DEF Try, At, Exclusive, Hosting, Leaving
<1>8. CASE EndTrial(j)
  <2>1. PICK row : Judge(j, row)
    BY <1>8 DEF EndTrial
  <2>2. PICK pc \in {"manifest", "stop"} : Files' /\ Moved(j, pc)
    BY <1>1, <2>1, GoesElsewhere, EndsElsewhere DEF Judge, Quit, IInv, Early, Looking
  <2> QED
    BY <1>1, <1>2, <1>8, <2>2, StoppedStep DEF EndTrial, Looking, Exclusive, Leaving
<1>9. CASE WriteManifest(j)
  BY <1>4, <1>9 DEF WriteManifest, At, machine
<1>10. CASE WriteLatest(j)
  BY <1>3, <1>10 DEF WriteLatest, At, machine
<1> QED
  BY <1>5, <1>6, <1>7, <1>8, <1>9, <1>10 DEF Tune

(* run has one while it serves.                                            *)
LEMMA RunStep ==
  ASSUME IInv, NEW j \in Jobs, Run(j)
  PROVE  IInv'
<1>1. CASE Check(j)
  <2>1. job[j].pc = "check" /\ lock = j /\ UNCHANGED Unmoved
    BY <1>1, HasLock DEF Check, At, Exclusive, Unmoved, world, machine, files
  <2>2. PICK pc \in {"launch", "refuse"} : Goto(j, pc, <<>>)
    BY <1>1 DEF Check
  <2> QED
    BY <2>1, <2>2, QuietStep DEF Early, Looking, Hosting, Leaving
<1>2. CASE Serve(j)
  BY <1>2, LaunchStep DEF Serve, At, Exclusive, Hosting, Leaving, world, files
<1>3. CASE Leave(j)
  BY <1>3, QuitStep DEF Leave, Leaving, At, Unmoved, world, machine, files
<1> QED
  BY <1>1, <1>2, <1>3 DEF Run

(* report only reads.                                                      *)
LEMMA ReportStep ==
  ASSUME IInv, NEW j \in Jobs, Report(j)
  PROVE  IInv'
<1>1. job[j].pc \in {"profile", "describe", "history"} /\ UNCHANGED Unmoved
  BY DEF Report, ReadProfile, ReadManifest, ReadHistory, At, Unmoved, world, machine, files
<1>2. PICK pc \in {"done", "describe", "history", "told"} :
        \E locals : Goto(j, pc, locals) /\ {"entry", "model"} \cap DOMAIN locals = {}
  <2>1. ASSUME ReadProfile(j)
        PROVE  Goto(j, "done", <<>>) \/ Goto(j, "describe", [profile |-> latest])
    BY <2>1 DEF ReadProfile
  <2>2. CASE ReadProfile(j)
    BY <2>1, <2>2
  <2>3. CASE ReadManifest(j)
    BY <2>3 DEF ReadManifest
  <2>4. CASE ReadHistory(j)
    BY <2>4 DEF ReadHistory
  <2> QED
    BY <2>2, <2>3, <2>4 DEF Report
<1> QED
  BY <1>1, <1>2, QuietStep DEF Early, Looking, Hosting, Leaving, Exclusive

(* The lock goes with the command, and the server of a deserter stays.     *)
LEMMA ExitStep ==
  ASSUME WorkspaceAssumption, IInv, NEW j \in Jobs, Exit(j)
  PROVE  IInv'
<1>1. CASE Interrupt(j)
  BY <1>1, QuitStep DEF Interrupt, Over, Leaving, Unmoved, world, machine, files
<1>2. CASE Stop(j)
  <2>1. /\ job[j].pc = "stop" /\ Goto(j, "unlock", <<>>)
        /\ UNCHANGED <<shards, models, script, lock>>
        /\ \/ servers' = servers \ Own(j) /\ UNCHANGED deserters
           \/ deserters' = deserters \cup {j} /\ UNCHANGED servers
    BY <1>2 DEF Stop, At, world
  <2>2. Files' /\ Moved(j, "unlock")
    BY <2>1, GoesElsewhere DEF IInv, Early, Looking
  <2> QED
    BY <2>1, <2>2, StoppedStep DEF Looking, Exclusive, Leaving
<1>3. CASE Unlock(j)
  <2>1. /\ job[j].pc = "unlock" /\ job' = [job EXCEPT ![j] = NoJob("done")]
        /\ UNCHANGED <<shards, models, script, servers, deserters>>
        /\ lock' = IF lock = j THEN Nobody ELSE lock
    BY <1>3 DEF Unlock, At, world, files
  <2>2. Files' /\ Moved(j, "done")
    BY <2>1, EndsElsewhere DEF IInv, Early, Looking
  <2>3. Holding'
    BY <2>1, <2>2 DEF IInv, Machine, Holding, Moved, Exclusive, Looking
  <2>4. Serving'
    BY <2>1, <2>2 DEF IInv, Machine, Serving, Moved, Hosting, Leaving
  <2> QED
    BY <2>2, <2>3, <2>4 DEF IInv, Machine
<1>4. CASE Die(j)
  <2>1. /\ lock = j /\ job' = [job EXCEPT ![j] = NoJob("killed")]
        /\ UNCHANGED <<shards, models, script, servers>> /\ lock' = Nobody
        /\ deserters' = deserters \cup {j}
    BY <1>4 DEF Die, world, files
  <2>2. Files' /\ Moved(j, "killed")
    BY <2>1, EndsElsewhere DEF IInv, Early, Looking
  <2>3. Holding'
    BY <2>1, <2>2 DEF IInv, Machine, Holding, Moved, Exclusive, Looking
  <2>4. Serving'
    BY <2>1, <2>2 DEF IInv, Machine, Serving, Moved, Leaving
  <2> QED
    BY <2>2, <2>3, <2>4 DEF IInv, Machine
<1> QED
  BY <1>1, <1>2, <1>3, <1>4 DEF Exit

-------------------------------------------------------------------------------
(* The theorems.                                                           *)

(* There are no entries and no servers at first.                           *)
LEMMA Initially ==
  ASSUME WorkspaceAssumption, Init
  PROVE  IInv
<1>1. \A j \in Jobs : job[j] = NoJob("idle")
  BY DEF Init
<1>2. DOMAIN NoJob("idle") = Fields
  BY DEF NoJob, Fields
<1>3. \A j \in Jobs : job[j].pc = "idle" /\ job[j].entry = NoEntry /\ job[j].model = <<>>
  BY <1>1 DEF NoJob
<1>4. JobType
  BY <1>1, <1>2 DEF Init, JobType
<1>5. FileType
  <2>1. (CHOOSE c \in Contents : TRUE) \in Contents
    BY DEF WorkspaceAssumption
  <2> QED
    BY <2>1, NoEntryType DEF Init, FileType
<1>6. LookType
  <2>1. Len(<<>>) < Shards
    BY DEF WorkspaceAssumption
  <2> QED
    BY <1>3, <2>1, NoEntryType DEF LookType
<1>7. Cached /\ Reading
  BY <1>3 DEF Init, Cached, Reading
<1>8. Machine
  BY <1>3 DEF Init, Machine, Holding, Serving, Exclusive, Looking
<1> QED
  BY <1>4, <1>5, <1>6, <1>7, <1>8 DEF IInv, Files

(* Every step keeps the invariant.                                         *)
LEMMA Inductive ==
  ASSUME WorkspaceAssumption, IInv, [Next]_vars
  PROVE  IInv'
<1>1. ASSUME UNCHANGED vars
      PROVE  IInv'
  BY <1>1 DEF vars, world, machine, files, IInv, Files, Machine, JobType, FileType,
     LookType, Cached, Reading, Read, Holding, Serving
<1>2. CASE Change
  <2>1. UNCHANGED <<script, job, lock, servers, deserters>>
    BY <1>2 DEF Change, machine
  <2>2. Machine'
    BY <2>1 DEF IInv, Machine, Holding, Serving
  <2> QED
    BY <1>2, <2>2, ChangeFiles DEF IInv
<1>3. CASE AllOver
  BY <1>1, <1>3 DEF AllOver
<1> QED
  BY <1>1, <1>2, <1>3, StartStep, AcquireStep, InspectStep, DiscoverStep, BuildStep,
     TuneStep, RunStep, ReportStep, ExitStep DEF Next

(* The invariant holds throughout.                                         *)
LEMMA Invariant == Spec => []IInv
<1>1. Init => IInv
  BY WorkspaceAssumption, Initially
<1>2. IInv /\ [Next]_vars => IInv'
  BY WorkspaceAssumption, Inductive
<1> QED
  BY <1>1, <1>2, PTL DEF Spec

(* Whatever other commands read and remember, and whoever writes to the    *)
(* files of the model meanwhile: an entry of models/ holds what the file   *)
(* contained when it had the stat that the entry is kept for.              *)
THEOREM CacheCorrect == Spec => []CacheTellsContent
<1>1. IInv => CacheTellsContent
  BY DEF IInv, Files, Cached, CacheTellsContent
<1> QED
  BY <1>1, Invariant, PTL

(* For any number of commands under one lock, however they end: of two     *)
(* servers on the machine one is that of a command that was killed, or     *)
(* whose stop was not reached or waited in vain.                           *)
THEOREM AloneCorrect == Spec => []AloneOnMachine
<1>1. IInv => AloneOnMachine
  BY DEF IInv, Machine, Serving, AloneOnMachine
<1> QED
  BY <1>1, Invariant, PTL

-------------------------------------------------------------------------------
(* Types.                                                                  *)

Builds == [commit : Versions, cap : Caps, steady : BOOLEAN]
Stats == 0 .. MaxChanges + 1
Blank(stat, meta) == [stat |-> stat, meta |-> meta, sha |-> 0]

(* The world has moved on no oftener than it may.                          *)
Clock ==
  /\ changes \in 0 .. MaxChanges /\ source \in 0 .. changes + 2
  /\ binaries \in [Places -> Versions]
  /\ \A n \in 1 .. Shards : Len(shards[n]) <= changes + 1

(* What a job knows, and how far its entry is filled in.                   *)
JobTyped(j) ==
  /\ job[j].since \in 0 .. changes /\ job[j].turn \in 0 .. turn /\ job[j].seen \subseteq rows
  /\ job[j].where \in Places /\ job[j].build \in Builds /\ job[j].cap \in Caps
  /\ job[j].pc = "digest" => \E a \in Versions : job[j].cap = <<a>>
  /\ job[j].model \in Seq(Contents) /\ Len(job[j].model) <= Shards
  /\ job[j].entry \in Entries
  /\ job[j].pc = "metadata" => \E k \in Stats : job[j].entry = Blank(k, 0)
  /\ job[j].pc = "hash" => \E k \in Stats, c \in Contents : job[j].entry = Blank(k, c)
  /\ job[j].pc \in {"again", "keep"} =>
       job[j].entry \in [stat : Nat, meta : Contents, sha : Contents]

JobsTyped == \A j \in Jobs : JobTyped(j)

FilesTyped ==
  /\ builds \in Builds
  /\ latest.turn \in 0 .. turn /\ latest.where \in Places
  /\ tuned.turn \in 0 .. turn

(* Every command that tunes has taken at most one turn.                    *)
Before == Looking \cup {"idle", "lock", "read", "help", "digest", "commit", "cmake", "tune"}
Tuned == {j \in Jobs : job[j].pc \notin Before}
Turns == turn \in Nat /\ turn <= Cardinality(Tuned)

Decided == script \in Scripts /\ lock \in Jobs \cup {Nobody} /\ deserters \subseteq Jobs
Typed == Clock /\ JobsTyped /\ FilesTyped /\ Turns /\ Decided

(* Appending to a sequence of one.                                         *)
LEMMA AppendToOne ==
  ASSUME NEW a, NEW b
  PROVE  Append(<<a>>, b) = <<a, b>>
<1> DEFINE S == {a, b}
<1>1. <<a>> \in Seq(S) /\ b \in S /\ <<a, b>> \in Seq(S)
  OBVIOUS
<1>2. Append(<<a>>, b) \in Seq(S) /\ Len(Append(<<a>>, b)) = 2
  BY <1>1
<1>3. Append(<<a>>, b)[1] = a /\ Append(<<a>>, b)[2] = b
  OBVIOUS
<1>4. Len(<<a, b>>) = 2 /\ <<a, b>>[1] = a /\ <<a, b>>[2] = b
  OBVIOUS
<1>5. \A i \in 1 .. 2 : Append(<<a>>, b)[i] = <<a, b>>[i]
  <2> TAKE i \in 1 .. 2
  <2>1. i = 1 \/ i = 2
    OBVIOUS
  <2> QED
    BY <2>1, <1>3, <1>4
<1> QED
  BY <1>1, <1>2, <1>4, <1>5, SeqEqual

(* There need not be an entry, a build or anything that a job knows.       *)
LEMMA NothingTyped ==
  ASSUME WorkspaceAssumption
  PROVE  /\ NoBuild \in Builds /\ NoEntry \in Entries
         /\ <<>> \in Caps /\ "path" \in Places
         /\ <<>> \in Seq(Contents) /\ Len(<<>>) <= Shards
<1>1. 0 \in Versions /\ <<>> \in Caps
  BY DEF WorkspaceAssumption, Versions, Caps
<1>2. NoBuild \in Builds
  BY <1>1 DEF NoBuild, Builds
<1>4. 0 \in 0 .. MaxChanges + 1
  BY DEF WorkspaceAssumption
<1>5. NoEntry \in Entries
  BY <1>4 DEF NoEntry, Entries
<1>6. Len(<<>>) <= Shards
  BY DEF WorkspaceAssumption
<1> QED
  BY <1>1, <1>2, <1>5, <1>6 DEF Places

(* A job that starts or ends knows nothing.                                *)
LEMMA NoJobTyped ==
  ASSUME WorkspaceAssumption, NEW j \in Jobs, NEW pc,
         pc \notin {"digest", "metadata", "hash", "again", "keep"},
         job[j] = NoJob(pc), changes \in Nat, turn \in Nat
  PROVE  JobTyped(j)
<1>1. /\ job[j].since = 0 /\ job[j].turn = 0 /\ job[j].seen = {} /\ job[j].where = "path"
      /\ job[j].build = NoBuild /\ job[j].cap = <<>> /\ job[j].pc = pc
      /\ job[j].model = <<>> /\ job[j].entry = NoEntry
  BY DEF NoJob
<1>2. 0 \in 0 .. changes /\ 0 \in 0 .. turn
  OBVIOUS
<1> QED
  BY <1>1, <1>2, NothingTyped DEF JobTyped

(* The initial types.                                                      *)
LEMMA TypedInit == ASSUME WorkspaceAssumption, Init PROVE Typed
<1> USE DEF Init
<1>1. NoBuild \in Builds
  BY NothingTyped
<1>2. Clock
  <2>1. (CHOOSE c \in Contents : TRUE) \in Contents
    BY DEF WorkspaceAssumption
  <2>2. \A n \in 1 .. Shards : Len(shards[n]) = 1
    OBVIOUS
  <2>3. binaries \in [Places -> Versions]
    BY DEF WorkspaceAssumption, Places, Versions
  <2> QED
    BY <2>2, <2>3 DEF Clock, WorkspaceAssumption
<1>3. JobsTyped
  <2> SUFFICES ASSUME NEW j \in Jobs PROVE JobTyped(j)
    BY DEF JobsTyped
  <2>1. job[j] = NoJob("idle") /\ changes \in Nat /\ turn \in Nat
    OBVIOUS
  <2> HIDE DEF Init
  <2> QED
    BY <2>1, NoJobTyped
<1>4. FilesTyped
  BY <1>1 DEF FilesTyped, NoProfile, Places
<1>5. Turns
  <2>1. IsFiniteSet(Tuned)
    BY FS_Subset DEF Tuned, WorkspaceAssumption
  <2> QED
    BY <2>1, FS_CardinalityType DEF Turns
<1>6. Decided
  BY DEF Decided
<1> QED
  BY <1>2, <1>3, <1>4, <1>5, <1>6 DEF Typed

(* The world moves on by one change at a time; a build takes the sources.  *)
LEMMA ClockNext == ASSUME WorkspaceAssumption, IInv, Typed, [Next]_vars PROVE Clock'
<1> USE DEF Typed, Clock, Versions
<1>t. FileType
  BY DEF IInv, Files
<1>1. CASE Change
  <2>1. changes' = changes + 1 /\ changes < MaxChanges
    BY <1>1 DEF Change
  <2>2. source' \in 0 .. changes' + 2 /\ binaries' \in [Places -> 0 .. MaxChanges + 2]
    BY <1>1, <2>1 DEF Change, WorkspaceAssumption
  <2>3. \A n \in 1 .. Shards : Len(shards'[n]) <= Len(shards[n]) + 1
    <3>1. CASE UNCHANGED shards
      BY <3>1, <1>t DEF FileType
    <3>2. ASSUME NEW m \in 1 .. Shards, NEW c \in Contents,
                 shards' = [shards EXCEPT ![m] = Append(@, c)]
          PROVE  \A n \in 1 .. Shards : Len(shards'[n]) <= Len(shards[n]) + 1
      BY <3>2, <1>t DEF FileType
    <3> QED
      BY <1>1, <3>1, <3>2 DEF Change
  <2>4. \A n \in 1 .. Shards : Len(shards[n]) \in Nat /\ Len(shards'[n]) \in Nat
    BY <1>t, Inductive DEF IInv, Files, FileType
  <2> QED
    BY <2>1, <2>2, <2>3, <2>4 DEF WorkspaceAssumption
<1>2. ASSUME NEW j \in Jobs, Compile(j) PROVE Clock'
  <2>1. UNCHANGED <<shards, source, changes>>
    BY <1>2 DEF Compile
  <2>2. source \in 0 .. MaxChanges + 2
    BY DEF WorkspaceAssumption
  <2>3. binaries' \in [Places -> 0 .. MaxChanges + 2]
    BY <1>2, <2>2 DEF Compile
  <2> QED
    BY <2>1, <2>3
<1>3. ASSUME UNCHANGED world PROVE Clock'
  BY <1>3 DEF world
<1>4. Change \/ (\E j \in Jobs : Compile(j)) \/ UNCHANGED world
  BY DEF Next, vars, Start, Acquire, Inspect, LookUp, Metadata,
     Hash, Confirm, Remember, Discover, Locate, Help, Digest, Build, Commit, RecordBuild,
     Tune, BeginTune, Reuse, Try, EndTrial, WriteManifest, WriteLatest, Run, Check, Serve, Leave,
     Report, ReadProfile, ReadManifest, ReadHistory, Exit, Interrupt, Stop, Unlock, Die,
     AllOver
<1> QED
  BY <1>1, <1>2, <1>3, <1>4

-------------------------------------------------------------------------------
(* What the jobs know.                                                     *)

Grown ==
  /\ turn \in Nat /\ turn' \in Nat /\ turn <= turn' /\ rows \subseteq rows'
  /\ changes' = changes /\ changes \in Nat

(* A step of one job, for the others.                                      *)
LEMMA TypedByOthers ==
  ASSUME JobsTyped, Grown, NEW j \in Jobs, NEW pc, Moved(j, pc), JobTyped(j)'
  PROVE  JobsTyped'
<1> SUFFICES ASSUME NEW k \in Jobs, k # j PROVE JobTyped(k)'
  BY DEF JobsTyped
<1> DEFINE known == job[k]
<1>1. job'[k] = known /\ JobTyped(k)
  BY DEF Moved, JobsTyped
<1>2. known.turn \in 0 .. turn' /\ known.since \in 0 .. changes' /\ known.seen \subseteq rows'
  BY <1>1 DEF JobTyped, Grown
<1>3. /\ known.where \in Places /\ known.build \in Builds /\ known.cap \in Caps
      /\ known.pc = "digest" => \E a \in Versions : known.cap = <<a>>
      /\ known.model \in Seq(Contents) /\ Len(known.model) <= Shards
      /\ known.entry \in Entries
      /\ known.pc = "metadata" => \E n \in Stats : known.entry = Blank(n, 0)
      /\ known.pc = "hash" => \E n \in Stats, c \in Contents : known.entry = Blank(n, c)
      /\ known.pc \in {"again", "keep"} =>
           known.entry \in [stat : Nat, meta : Contents, sha : Contents]
  BY <1>1 DEF JobTyped
<1> HIDE DEF known
<1> QED
  BY <1>1, <1>2, <1>3 DEF JobTyped

Loose == {"profile", "row", "manifest", "sees"}

(* A job that changes none of the variables that are typed, or forgets all *)
(* of them.                                                                *)
LEMMA TypedAside ==
  ASSUME WorkspaceAssumption, IInv, Typed, Grown, NEW j \in Jobs, NEW pc,
         pc \notin {"digest", "metadata", "hash", "again", "keep"},
         \/ \E locals : Goto(j, pc, locals) /\ DOMAIN locals \subseteq Loose
         \/ job' = [job EXCEPT ![j] = NoJob(pc)]
  PROVE  JobsTyped' /\ Moved(j, pc)
<1>1. JobType /\ JobTyped(j)
  BY DEF IInv, Files, Typed, JobsTyped
<1>2. CASE job' = [job EXCEPT ![j] = NoJob(pc)]
  <2>1. job'[j] = NoJob(pc) /\ Moved(j, pc)
    BY <1>1, <1>2, NoJobEffect DEF JobType
  <2>2. /\ job'[j].since = 0 /\ job'[j].turn = 0 /\ job'[j].seen = {}
        /\ job'[j].where = "path" /\ job'[j].build = NoBuild /\ job'[j].cap = <<>>
        /\ job'[j].pc = pc /\ job'[j].model = <<>> /\ job'[j].entry = NoEntry
    BY <2>1 DEF NoJob
  <2>3. JobTyped(j)'
    BY <2>2, NothingTyped DEF JobTyped, Grown
  <2> QED
    BY <2>1, <2>3, TypedByOthers DEF Typed
<1>3. ASSUME NEW locals, Goto(j, pc, locals), DOMAIN locals \subseteq Loose
      PROVE  JobsTyped' /\ Moved(j, pc)
  <2>1. Moved(j, pc) /\ \A f \in Fields \ (Loose \cup {"pc"}) : job'[j][f] = job[j][f]
    BY <1>1, <1>3, GotoEffect
  <2>2. /\ job'[j].since = job[j].since /\ job'[j].turn = job[j].turn
        /\ job'[j].seen = job[j].seen /\ job'[j].where = job[j].where
        /\ job'[j].build = job[j].build /\ job'[j].cap = job[j].cap
        /\ job'[j].model = job[j].model /\ job'[j].entry = job[j].entry /\ job'[j].pc = pc
    BY <2>1 DEF Fields, Loose, Moved
  <2>3. job[j].turn \in 0 .. turn' /\ job[j].seen \subseteq rows' /\ job[j].since \in 0 .. changes'
    BY <1>1 DEF JobTyped, Grown
  <2>4. JobTyped(j)'
    BY <1>1, <2>2, <2>3 DEF JobTyped
  <2> QED
    BY <2>1, <2>4, TypedByOthers DEF Typed
<1> QED
  BY <1>2, <1>3

(* So does a job on its way out.                                           *)
LEMMA TypedQuit ==
  ASSUME WorkspaceAssumption, IInv, Typed, Grown, NEW j \in Jobs, Quit(j)
  PROVE  JobsTyped' /\ Moved(j, "stop")
<1> DEFINE pc == "stop"
<1>1. pc \notin {"digest", "metadata", "hash", "again", "keep"} /\ job' = [job EXCEPT ![j] = NoJob(pc)]
  BY DEF Quit
<1>2. pc = "stop"
  OBVIOUS
<1> HIDE DEF pc
<1>3. JobsTyped' /\ Moved(j, pc)
  BY <1>1, TypedAside
<1> QED
  BY <1>2, <1>3

(* A job that fills in its entry.                                          *)
LEMMA TypedEntry ==
  ASSUME WorkspaceAssumption, IInv, Typed, Grown, NEW j \in Jobs, NEW entry, entry \in Entries,
         \/ Goto(j, "metadata", [entry |-> entry]) /\ \E k \in Stats : entry = Blank(k, 0)
         \/ Goto(j, "hash", [entry |-> entry]) /\ \E k \in Stats, c \in Contents : entry = Blank(k, c)
         \/ Goto(j, "again", [entry |-> entry]) /\ entry \in [stat : Nat, meta : Contents, sha : Contents]
  PROVE  JobsTyped'
<1>1. JobType /\ JobTyped(j)
  BY DEF IInv, Files, Typed, JobsTyped
<1> DEFINE locals == [entry |-> entry]
<1>2. PICK pc \in {"metadata", "hash", "again"} :
        /\ Goto(j, pc, locals)
        /\ pc = "metadata" => \E k \in Stats : entry = Blank(k, 0)
        /\ pc = "hash" => \E k \in Stats, c \in Contents : entry = Blank(k, c)
        /\ pc = "again" => entry \in [stat : Nat, meta : Contents, sha : Contents]
  OBVIOUS
<1>3. /\ Moved(j, pc) /\ job'[j].entry = entry
      /\ job'[j].since = job[j].since /\ job'[j].turn = job[j].turn
      /\ job'[j].seen = job[j].seen /\ job'[j].where = job[j].where
      /\ job'[j].build = job[j].build /\ job'[j].cap = job[j].cap
      /\ job'[j].model = job[j].model
  BY <1>1, <1>2, GotoEffect DEF Fields
<1>4. job[j].turn \in 0 .. turn' /\ job[j].seen \subseteq rows' /\ job[j].since \in 0 .. changes'
  BY <1>1 DEF JobTyped, Grown
<1>5. JobTyped(j)'
  BY <1>1, <1>2, <1>3, <1>4 DEF JobTyped, Moved
<1> QED
  BY <1>3, <1>5, TypedByOthers DEF Typed

(* A job that knows the fingerprint of one more file.                      *)
LEMMA TypedFingerprint ==
  ASSUME WorkspaceAssumption, IInv, Typed, Grown, NEW j \in Jobs, job[j].pc \in Looking,
         NEW sha \in Contents, Fingerprinted(j, sha)
  PROVE  JobsTyped'
<1>1. JobType /\ JobTyped(j) /\ Shard(j) \in 1 .. Shards /\ Shard(j) = Len(job[j].model) + 1
  BY ShardExists DEF IInv, Files, Typed, JobsTyped, Early, Shard
<1>2. CASE Quit(j)
  BY <1>2, TypedQuit
<1>3. CASE ~(Shard(j) = Shards /\ script[j] = "inspect")
  <2> DEFINE pc == IF Shard(j) < Shards THEN "stat" ELSE "read"
             model == Append(job[j].model, sha)
             locals == [model |-> model, entry |-> NoEntry]
  <2>1. Goto(j, pc, locals) /\ pc \in {"stat", "read"}
    BY <1>3 DEF Fingerprinted
  <2>2. model \in Seq(Contents) /\ Len(model) <= Shards
    BY <1>1 DEF JobTyped
  <2> HIDE DEF pc, model
  <2>3. /\ Moved(j, pc) /\ job'[j].model = model /\ job'[j].entry = NoEntry
        /\ job'[j].since = job[j].since /\ job'[j].turn = job[j].turn
        /\ job'[j].seen = job[j].seen /\ job'[j].where = job[j].where
        /\ job'[j].build = job[j].build /\ job'[j].cap = job[j].cap
    BY <1>1, <2>1, GotoEffect DEF Fields
  <2>4. job[j].turn \in 0 .. turn' /\ job[j].seen \subseteq rows' /\ job[j].since \in 0 .. changes'
    BY <1>1 DEF JobTyped, Grown
  <2>5. JobTyped(j)'
    BY <1>1, <2>1, <2>2, <2>3, <2>4, NothingTyped DEF JobTyped, Moved
  <2> QED
    BY <2>3, <2>5, TypedByOthers DEF Typed
<1> QED
  BY <1>2, <1>3 DEF Fingerprinted

(* Inspecting a model.                                                     *)
LEMMA TypedInspect ==
  ASSUME WorkspaceAssumption, IInv, Typed, NEW j \in Jobs, Inspect(j)
  PROVE  JobsTyped'
<1>1. Grown /\ job[j].pc \in Looking
  BY DEF Inspect, LookUp, Metadata, Hash, Confirm, Remember, At, world, files, history, Looking,
         Grown, Typed, Turns, Clock
<1> DEFINE n == Shard(j)
           content == Last(shards[n])
<1>2. /\ n \in 1 .. Shards /\ content \in Contents /\ Stat(n) \in Stats /\ Stat(n) >= 1
      /\ Len(shards[n]) \in Nat /\ JobTyped(j)
  BY <1>1, ShardExists, LastIsContent
  DEF IInv, Files, FileType, Early, Stat, Stats, Typed, Clock, JobsTyped, WorkspaceAssumption
<1> HIDE DEF n, content
<1>3. CASE LookUp(j)
  <2>1. ASSUME Known(n) PROVE models[n].sha \in Contents
    <3>1. models[n].stat >= 1
      BY <1>2, <2>1 DEF Known
    <3>2. models[n] # NoEntry
      BY <3>1 DEF NoEntry
    <3>3. models[n].stat \in 1 .. Len(shards[n]) /\ models[n].sha = shards[n][models[n].stat]
      BY <1>2, <3>2 DEF IInv, Files, Cached
    <3> QED
      BY <1>2, <3>3 DEF IInv, Files, FileType
  <2>2. CASE Known(n) /\ Fingerprinted(j, models[n].sha)
    BY <1>1, <2>1, <2>2, TypedFingerprint
  <2>3. ASSUME Goto(j, "metadata", [entry |-> [NoEntry EXCEPT !.stat = Stat(n)]])
        PROVE  JobsTyped'
    <3>1. [NoEntry EXCEPT !.stat = Stat(n)] = Blank(Stat(n), 0)
      BY DEF NoEntry, Blank
    <3>2. Blank(Stat(n), 0) \in Entries
      BY <1>2 DEF Blank, Entries, Stats
    <3> QED
      BY <1>1, <1>2, <2>3, <3>1, <3>2, TypedEntry
  <2> QED
    BY <1>3, <2>2, <2>3 DEF LookUp, n
<1>4. CASE Metadata(j)
  <2>1. PICK k \in Stats : job[j].entry = Blank(k, 0)
    BY <1>2, <1>4 DEF Metadata, At, JobTyped
  <2>2. [job[j].entry EXCEPT !.meta = content] = Blank(k, content)
    BY <2>1 DEF Blank
  <2>3. Blank(k, content) \in Entries
    BY <1>2 DEF Blank, Entries, Stats
  <2>4. Goto(j, "hash", [entry |-> Blank(k, content)])
    BY <1>4, <2>2 DEF Metadata, n, content
  <2> QED
    BY <1>1, <1>2, <2>3, <2>4, TypedEntry
<1>5. CASE Hash(j)
  <2>1. PICK k \in Stats, c \in Contents : job[j].entry = Blank(k, c)
    BY <1>2, <1>5 DEF Hash, At, JobTyped
  <2> DEFINE entry == [job[j].entry EXCEPT !.sha = content]
  <2>2. entry = [stat |-> k, meta |-> c, sha |-> content]
    BY <2>1 DEF Blank
  <2>3. entry \in [stat : Nat, meta : Contents, sha : Contents]
    BY <1>2, <2>2 DEF Stats
  <2>4. Goto(j, "again", [entry |-> entry])
    BY <1>5 DEF Hash, n, content
  <2> HIDE DEF entry
  <2>5. entry \in Entries
    BY <2>3 DEF Entries
  <2> QED
    BY <1>1, <2>3, <2>4, <2>5, TypedEntry
<1>6. CASE Remember(j)
  <2>1. job[j].entry.sha \in Contents
    BY <1>2, <1>6 DEF Remember, At, JobTyped
  <2>2. Fingerprinted(j, job[j].entry.sha)
    BY <1>6 DEF Remember
  <2> QED
    BY <1>1, <2>1, <2>2, TypedFingerprint
<1>7. CASE Confirm(j)
  <2>1. CASE Goto(j, "keep", <<>>)
    <3>1. /\ Moved(j, "keep") /\ \A f \in Fields \ {"pc"} : job'[j][f] = job[j][f]
      BY <2>1, GotoEffect DEF IInv, Files
    <3>2. /\ job[j].entry \in [stat : Nat, meta : Contents, sha : Contents] /\ JobTyped(j)
          /\ job'[j].pc = "keep"
      BY <1>2, <1>7, <3>1 DEF Confirm, At, JobTyped, Moved
    <3>3. job[j].turn \in 0 .. turn' /\ job[j].seen \subseteq rows' /\ job[j].since \in 0 .. changes'
      BY <1>1, <3>2 DEF JobTyped, Grown
    <3>4. JobTyped(j)'
      BY <3>1, <3>2, <3>3 DEF JobTyped, Fields
    <3> QED
      BY <1>1, <3>1, <3>4, TypedByOthers DEF Typed
  <2> QED
    BY <1>1, <1>7, <2>1, TypedQuit DEF Confirm
<1> QED
  BY <1>3, <1>4, <1>5, <1>6, <1>7 DEF Inspect

(* A job that sets others of its variables.                                *)
LEMMA TypedSetting ==
  ASSUME WorkspaceAssumption, IInv, Typed, Grown, NEW j \in Jobs, NEW pc, NEW locals,
         Goto(j, pc, locals), pc \notin {"metadata", "hash", "again", "keep"},
         {"model", "entry"} \cap DOMAIN locals = {},
         "since" \in DOMAIN locals => locals["since"] \in 0 .. changes,
         "turn" \in DOMAIN locals => locals["turn"] \in 0 .. turn',
         "seen" \in DOMAIN locals => locals["seen"] \subseteq rows',
         "where" \in DOMAIN locals => locals["where"] \in Places,
         "build" \in DOMAIN locals => locals["build"] \in Builds,
         "cap" \in DOMAIN locals => locals["cap"] \in Caps,
         pc = "digest" => "cap" \in DOMAIN locals /\ \E a \in Versions : locals["cap"] = <<a>>
  PROVE  JobsTyped'
<1>1. JobType /\ JobTyped(j)
  BY DEF IInv, Files, Typed, JobsTyped
<1>2. /\ Moved(j, pc)
      /\ \A f \in Fields \ {"pc"} : job'[j][f] = IF f \in DOMAIN locals THEN locals[f] ELSE job[j][f]
  BY <1>1, GotoEffect
<1>3. /\ job'[j].pc = pc /\ job'[j].model = job[j].model /\ job'[j].entry = job[j].entry
      /\ job'[j].since \in {job[j].since} \cup 0 .. changes
      /\ job'[j].turn \in {job[j].turn} \cup 0 .. turn'
      /\ job'[j].seen = job[j].seen \/ job'[j].seen \subseteq rows'
  BY <1>2 DEF Fields, Moved
<1>4. /\ job'[j].where \in {job[j].where} \cup Places
      /\ job'[j].build \in {job[j].build} \cup Builds
      /\ job'[j].cap \in {job[j].cap} \cup Caps
      /\ pc = "digest" => \E a \in Versions : job'[j].cap = <<a>>
  BY <1>2 DEF Fields
<1>5. /\ job[j].turn \in 0 .. turn' /\ job[j].seen \subseteq rows' /\ job[j].since \in 0 .. changes'
      /\ job[j].where \in Places /\ job[j].build \in Builds /\ job[j].cap \in Caps
      /\ job[j].model \in Seq(Contents) /\ Len(job[j].model) <= Shards /\ job[j].entry \in Entries
  BY <1>1 DEF JobTyped, Grown
<1>6. JobTyped(j)'
  BY <1>3, <1>4, <1>5 DEF JobTyped, Grown
<1> QED
  BY <1>2, <1>6, TypedByOthers DEF Typed

(* A command starts, and takes the lock or finds that it is taken.         *)
LEMMA TypedStart ==
  ASSUME WorkspaceAssumption, IInv, Typed, NEW j \in Jobs, Start(j) \/ Acquire(j)
  PROVE  JobsTyped'
<1>1. Grown
  <2>1. UNCHANGED <<changes, rows, turn>>
    BY DEF Start, Acquire, world, files, history
  <2> QED
    BY <2>1 DEF Grown, Typed, Turns, Clock
<1>2. CASE Start(j)
  <2>1. PICK pc, locals :
          /\ pc \in {"stat", "profile", "lock"}
          /\ Goto(j, pc, locals) /\ DOMAIN locals \subseteq {"sees", "since"}
          /\ "since" \in DOMAIN locals => locals["since"] = changes
    BY <1>2, StartGoes
  <2>2. changes \in 0 .. changes
    BY DEF Typed, Clock
  <2> QED
    BY <1>1, <2>1, <2>2, TypedSetting
<1>3. CASE Acquire(j)
  <2>1. CASE job' = [job EXCEPT ![j] = NoJob("done")]
    <3>1. "done" \notin {"digest", "metadata", "hash", "again", "keep"}
      OBVIOUS
    <3> QED
      BY <1>1, <2>1, <3>1, TypedAside
  <2>2. ASSUME NEW pc \in {"commit", "stat"}, Goto(j, pc, <<>>) PROVE JobsTyped'
    BY <1>1, <2>2, TypedSetting
  <2> QED
    BY <1>3, <2>1, <2>2 DEF Acquire
<1> QED
  BY <1>2, <1>3

(* Locating and looking at the binary.                                     *)
LEMMA TypedDiscover ==
  ASSUME WorkspaceAssumption, IInv, Typed, NEW j \in Jobs, Discover(j)
  PROVE  JobsTyped'
<1>1. Grown
  BY DEF Discover, Locate, Help, Digest, world, files, history, Grown, Typed, Turns, Clock
<1>2. JobTyped(j) /\ binaries \in [Places -> Versions] /\ builds \in Builds /\ latest.where \in Places
  BY DEF Typed, JobsTyped, Clock, FilesTyped
<1>3. CASE Locate(j)
  <2> DEFINE profile == IF script[j] = "run" THEN latest ELSE NoProfile
             where == IF profile # NoProfile THEN profile.where
                      ELSE IF builds # NoBuild THEN "built" ELSE "path"
             locals == [profile |-> profile, build |-> builds, where |-> where]
  <2>1. where \in Places
    BY <1>2 DEF Places
  <2>2. Quit(j) \/ Goto(j, "help", locals)
    BY <1>3 DEF Locate
  <2> HIDE DEF profile, where
  <2>3. /\ DOMAIN locals = {"profile", "build", "where"}
        /\ locals["build"] = builds /\ locals["where"] = where
    OBVIOUS
  <2> HIDE DEF locals
  <2>4. ASSUME Goto(j, "help", locals) PROVE JobsTyped'
    BY <1>1, <1>2, <2>1, <2>3, <2>4, TypedSetting
  <2> QED
    BY <1>1, <2>2, <2>4, TypedQuit
<1>4. CASE Help(j)
  <2> DEFINE version == binaries[job[j].where]
  <2>1. version \in Versions /\ <<version>> \in Caps
    BY <1>2 DEF JobTyped, Caps
  <2>2. Goto(j, "digest", [cap |-> <<version>>])
    BY <1>4 DEF Help
  <2> HIDE DEF version
  <2> QED
    BY <1>1, <2>1, <2>2, TypedSetting
<1>5. CASE Digest(j)
  <2> DEFINE cap == Append(job[j].cap, binaries[job[j].where])
             build == OfBuild(job[j].build, cap)
  <2>1. PICK a \in Versions : job[j].cap = <<a>>
    BY <1>2, <1>5 DEF Digest, At, JobTyped
  <2>2. cap = <<a, binaries[job[j].where]>> /\ binaries[job[j].where] \in Versions
    BY <1>2, <2>1, AppendToOne DEF JobTyped
  <2>3. cap \in Caps
    BY <2>2 DEF Caps
  <2>4. build \in Builds
    BY <1>2, NothingTyped DEF JobTyped, OfBuild
  <2>5. \/ Goto(j, "record", [cap |-> cap])
        \/ \E pc \in {"tune", "check"} : Goto(j, pc, [cap |-> cap, build |-> build])
    BY <1>5 DEF Digest
  <2> HIDE DEF cap, build
  <2>6. ASSUME Goto(j, "record", [cap |-> cap]) PROVE JobsTyped'
    BY <1>1, <2>3, <2>6, TypedSetting
  <2>7. ASSUME NEW pc \in {"tune", "check"}, Goto(j, pc, [cap |-> cap, build |-> build])
        PROVE  JobsTyped'
    BY <1>1, <2>3, <2>4, <2>7, TypedSetting
  <2> QED
    BY <2>5, <2>6, <2>7
<1> QED
  BY <1>3, <1>4, <1>5 DEF Discover

(* Building the binary.                                                    *)
LEMMA TypedBuild ==
  ASSUME WorkspaceAssumption, IInv, Typed, NEW j \in Jobs, Build(j)
  PROVE  JobsTyped'
<1>1. Grown
  BY DEF Build, Commit, Compile, RecordBuild, world, files, history, Grown, Typed, Turns, Clock
<1>2. CASE Commit(j)
  <2> DEFINE build == [NoBuild EXCEPT !.commit = source]
             locals == [build |-> build, where |-> "built", since |-> changes]
  <2>1. source \in Versions /\ NoBuild \in Builds /\ changes \in 0 .. changes
    BY NothingTyped DEF Typed, Clock, Versions, WorkspaceAssumption
  <2>2. build \in Builds
    BY <2>1 DEF NoBuild, Builds
  <2>3. Goto(j, "cmake", locals)
    BY <1>2 DEF Commit
  <2> HIDE DEF build
  <2> QED
    BY <1>1, <2>1, <2>2, <2>3, TypedSetting DEF Places
<1>3. CASE Compile(j)
  <2>1. ASSUME Goto(j, "help", <<>>) PROVE JobsTyped'
    BY <1>1, <2>1, TypedSetting
  <2> QED
    BY <1>1, <1>3, <2>1, TypedQuit DEF Compile
<1>4. CASE RecordBuild(j)
  BY <1>1, <1>4, TypedQuit DEF RecordBuild
<1> QED
  BY <1>2, <1>3, <1>4 DEF Build

(* Tuning.                                                                 *)
LEMMA TypedTune ==
  ASSUME WorkspaceAssumption, IInv, Typed, NEW j \in Jobs, Tune(j)
  PROVE  JobsTyped'
<1>1. Grown
  BY DEF Tune, BeginTune, Reuse, Try, EndTrial, WriteManifest, WriteLatest, world, files,
         history, Grown, Typed, Turns, Clock
<1>2. CASE BeginTune(j)
  <2>1. Goto(j, "measure", [turn |-> turn']) /\ turn' \in 0 .. turn'
    BY <1>1, <1>2 DEF BeginTune, Grown
  <2> QED
    BY <1>1, <2>1, TypedSetting
<1>3. ASSUME NEW row, Judge(j, row) PROVE JobsTyped'
  <2>1. ASSUME Goto(j, "manifest", [row |-> row]) PROVE JobsTyped'
    BY <1>1, <2>1, TypedSetting
  <2> QED
    BY <1>1, <1>3, <2>1, TypedQuit DEF Judge
<1>4. ASSUME NEW pc \in {"trial", "write"}, Goto(j, pc, <<>>) PROVE JobsTyped'
  BY <1>1, <1>4, TypedSetting
<1> QED
  BY <1>1, <1>2, <1>3, <1>4, TypedQuit DEF Tune, Reuse, Try, EndTrial, WriteManifest, WriteLatest

(* Running, reporting, ending.                                             *)
LEMMA TypedElse ==
  ASSUME WorkspaceAssumption, IInv, Typed, NEW j \in Jobs, Run(j) \/ Report(j) \/ Exit(j)
  PROVE  JobsTyped'
<1>1. Grown
  BY DEF Run, Check, Serve, Leave, Report, ReadProfile, ReadManifest, ReadHistory, Exit,
         Interrupt, Stop, Unlock, Die, world, files, history, Grown, Typed, Turns, Clock
<1>2. ASSUME NEW pc \in {"launch", "refuse", "serving", "done", "unlock"}, Goto(j, pc, <<>>)
      PROVE  JobsTyped'
  BY <1>1, <1>2, TypedSetting
<1>3. CASE Run(j)
  BY <1>1, <1>2, <1>3, TypedQuit DEF Run, Check, Serve, Leave
<1>4. CASE ReadProfile(j)
  <2>1. ASSUME Goto(j, "describe", [profile |-> latest]) PROVE JobsTyped'
    BY <1>1, <2>1, TypedSetting
  <2> QED
    BY <1>2, <1>4, <2>1 DEF ReadProfile
<1>5. CASE ReadManifest(j)
  <2>1. PICK manifest : Goto(j, "history", [manifest |-> manifest])
    BY <1>5 DEF ReadManifest
  <2> QED
    BY <1>1, <2>1, TypedSetting
<1>6. CASE ReadHistory(j)
  <2>1. PICK seen : Goto(j, "told", [seen |-> seen]) /\ seen \subseteq rows
    BY <1>6 DEF ReadHistory
  <2>2. seen \subseteq rows'
    BY <1>1, <2>1 DEF Grown
  <2> QED
    BY <1>1, <2>1, <2>2, TypedSetting
<1>7. ASSUME NEW pc \in {"done", "killed"}, job' = [job EXCEPT ![j] = NoJob(pc)]
      PROVE  JobsTyped'
  BY <1>1, <1>7, TypedAside
<1>8. CASE Exit(j)
  BY <1>1, <1>2, <1>7, <1>8, TypedQuit DEF Exit, Interrupt, Stop, Unlock, Die
<1> QED
  BY <1>3, <1>4, <1>5, <1>6, <1>8 DEF Report

(* Every step keeps the types of what the jobs know.                       *)
LEMMA JobsNext == ASSUME WorkspaceAssumption, IInv, Typed, [Next]_vars PROVE JobsTyped'
<1>1. CASE Change
  <2>1. UNCHANGED <<job, rows, turn>> /\ changes' = changes + 1
    BY <1>1 DEF Change, files, history
  <2>2. changes \in Nat
    BY DEF Typed, Clock
  <2>3. \A j \in Jobs : job[j].since \in 0 .. changes'
    BY <2>1, <2>2 DEF Typed, JobsTyped, JobTyped
  <2> QED
    BY <2>1, <2>3 DEF Typed, JobsTyped, JobTyped
<1>2. ASSUME UNCHANGED vars PROVE JobsTyped'
  BY <1>2 DEF vars, world, files, history, Typed, JobsTyped, JobTyped
<1> QED
  BY <1>1, <1>2, TypedStart, TypedInspect, TypedDiscover, TypedBuild, TypedTune, TypedElse
  DEF Next, AllOver

-------------------------------------------------------------------------------
(* What is in the files.                                                   *)

(* Every step keeps the types of the last build and the last profiles.     *)
LEMMA FilesNext == ASSUME WorkspaceAssumption, IInv, Typed, [Next]_vars PROVE FilesTyped'
<1>1. \A j \in Jobs : JobTyped(j)
  BY DEF Typed, JobsTyped
<1>2. ASSUME NEW j \in Jobs, RecordBuild(j) PROVE FilesTyped'
  <2>1. builds' \in Builds
    BY <1>1, <1>2 DEF RecordBuild, JobTyped, Builds
  <2> QED
    BY <1>2, <2>1 DEF RecordBuild, history, Typed, FilesTyped
<1>3. ASSUME NEW j \in Jobs, WriteLatest(j) PROVE FilesTyped'
  <2>1. latest' = Profile(j) /\ tuned' = Profile(j) /\ UNCHANGED <<builds, turn>>
    BY <1>3 DEF WriteLatest
  <2>2. Profile(j).turn \in 0 .. turn /\ Profile(j).where \in Places
    BY <1>1 DEF Profile, JobTyped
  <2> QED
    BY <2>1, <2>2 DEF Typed, FilesTyped
<1>4. ASSUME NEW j \in Jobs, BeginTune(j) PROVE FilesTyped'
  <2>1. turn' = turn + 1 /\ turn \in Nat /\ UNCHANGED <<builds, latest, tuned>>
    BY <1>4 DEF BeginTune, Typed, Turns
  <2> QED
    BY <2>1 DEF Typed, FilesTyped
<1>5. ASSUME UNCHANGED <<builds, latest, history>> PROVE FilesTyped'
  BY <1>5 DEF history, Typed, FilesTyped
<1>6. \/ \E j \in Jobs : RecordBuild(j) \/ WriteLatest(j) \/ BeginTune(j)
      \/ UNCHANGED <<builds, latest, history>>
  BY DEF Next, vars, files, Start, Acquire, Inspect, LookUp, Metadata,
     Hash, Confirm, Remember, Discover, Locate, Help, Digest, Build, Commit, Compile,
     Tune, Reuse, Try, EndTrial, WriteManifest, Run, Check, Serve, Leave,
     Report, ReadProfile, ReadManifest, ReadHistory, Exit, Interrupt, Stop, Unlock, Die,
     Change, AllOver
<1> QED
  BY <1>2, <1>3, <1>4, <1>5, <1>6

(* A command that has come past its turn does not come back to it.         *)
LEMMA TunedStays ==
  ASSUME JobType, NEW j \in Jobs, NEW pc, Moved(j, pc), job[j].pc \notin Before => pc \notin Before
  PROVE  Tuned \subseteq Tuned'
BY DEF Tuned, Moved

(* So of every step: turns are taken once.                                 *)
LEMMA TunedGrows == ASSUME WorkspaceAssumption, IInv, [Next]_vars PROVE Tuned \subseteq Tuned'
<1> USE DEF At, Before, Looking
<1>t. JobType
  BY DEF IInv, Files
<1>q. ASSUME NEW j \in Jobs, Quit(j) PROVE Tuned \subseteq Tuned'
  BY <1>t, <1>q, NoJobEffect, TunedStays DEF Quit
<1>e. ASSUME NEW j \in Jobs, NEW pc, pc \notin Before, job' = [job EXCEPT ![j] = NoJob(pc)]
      PROVE  Tuned \subseteq Tuned'
  BY <1>t, <1>e, NoJobEffect, TunedStays
<1>g. ASSUME NEW j \in Jobs, NEW pc, NEW locals, Goto(j, pc, locals),
             job[j].pc \notin Before => pc \notin Before
      PROVE  Tuned \subseteq Tuned'
  BY <1>t, <1>g, GotoEffect, TunedStays
<1>f. ASSUME NEW j \in Jobs, NEW sha, Fingerprinted(j, sha), job[j].pc \in Before
      PROVE  Tuned \subseteq Tuned'
  BY <1>f, <1>g, <1>q DEF Fingerprinted
<1>1. ASSUME NEW j \in Jobs, Start(j) \/ Acquire(j) PROVE Tuned \subseteq Tuned'
  BY <1>1, <1>g, <1>e DEF Start, Acquire
<1>2. ASSUME NEW j \in Jobs, Inspect(j) PROVE Tuned \subseteq Tuned'
  BY <1>2, <1>g, <1>f, <1>q DEF Inspect, LookUp, Metadata, Hash, Confirm, Remember
<1>3. ASSUME NEW j \in Jobs, Discover(j) PROVE Tuned \subseteq Tuned'
  BY <1>3, <1>g, <1>q DEF Discover, Locate, Help, Digest
<1>4. ASSUME NEW j \in Jobs, Build(j) PROVE Tuned \subseteq Tuned'
  BY <1>4, <1>g, <1>q DEF Build, Commit, Compile, RecordBuild
<1>5. ASSUME NEW j \in Jobs, Tune(j) PROVE Tuned \subseteq Tuned'
  <2>1. ASSUME NEW row, Judge(j, row) PROVE Tuned \subseteq Tuned'
    BY <2>1, <1>g, <1>q DEF Judge
  <2> QED
    BY <1>5, <2>1, <1>g, <1>q
    DEF Tune, BeginTune, Reuse, Try, EndTrial, WriteManifest, WriteLatest
<1>6. ASSUME NEW j \in Jobs, Run(j) PROVE Tuned \subseteq Tuned'
  BY <1>6, <1>g, <1>q DEF Run, Check, Serve, Leave
<1>7. ASSUME NEW j \in Jobs, Report(j) PROVE Tuned \subseteq Tuned'
  BY <1>7, <1>g DEF Report, ReadProfile, ReadManifest, ReadHistory
<1>8. ASSUME NEW j \in Jobs, Exit(j) PROVE Tuned \subseteq Tuned'
  BY <1>8, <1>g, <1>e, <1>q DEF Exit, Interrupt, Stop, Unlock, Die
<1>9. ASSUME UNCHANGED job PROVE Tuned \subseteq Tuned'
  BY <1>9 DEF Tuned
<1> QED
  BY <1>1, <1>2, <1>3, <1>4, <1>5, <1>6, <1>7, <1>8, <1>9 DEF Next, vars, Change, AllOver

(* There are as many turns as commands that have taken theirs, at most.    *)
LEMMA TurnsNext == ASSUME WorkspaceAssumption, IInv, Typed, [Next]_vars PROVE Turns'
<1>1. IsFiniteSet(Jobs) /\ Tuned \subseteq Jobs /\ Tuned' \subseteq Jobs /\ Tuned \subseteq Tuned'
  BY TunedGrows DEF WorkspaceAssumption, Tuned
<1>2. IsFiniteSet(Tuned) /\ IsFiniteSet(Tuned')
  BY <1>1, FS_Subset
<1>3. /\ Cardinality(Tuned) \in Nat /\ Cardinality(Tuned') \in Nat
      /\ Cardinality(Tuned) <= Cardinality(Tuned')
  BY <1>1, <1>2, FS_CardinalityType, FS_Subset
<1>4. turn \in Nat /\ turn <= Cardinality(Tuned)
  BY DEF Typed, Turns
<1>5. ASSUME NEW j \in Jobs, BeginTune(j) PROVE Turns'
  <2>1. turn' = turn + 1 /\ j \notin Tuned
    BY <1>5 DEF BeginTune, At, Tuned, Before
  <2>2. job'[j].pc = "measure"
    BY <1>5, GotoEffect DEF BeginTune, IInv, Files, Moved
  <2>3. j \in Tuned'
    BY <2>2 DEF Tuned, Before, Looking
  <2>4. Tuned \cup {j} \subseteq Tuned' /\ Cardinality(Tuned \cup {j}) = Cardinality(Tuned) + 1
    BY <1>1, <1>2, <2>1, <2>3, FS_AddElement
  <2>5. Cardinality(Tuned \cup {j}) <= Cardinality(Tuned')
    BY <1>2, <2>4, FS_Subset
  <2> QED
    BY <1>3, <1>4, <2>1, <2>4, <2>5 DEF Turns
<1>6. ASSUME turn' = turn PROVE Turns'
  BY <1>3, <1>4, <1>6 DEF Turns
<1>7. (\E j \in Jobs : BeginTune(j)) \/ turn' = turn
  BY DEF Next, vars, history, Start, Acquire, Inspect, LookUp, Metadata,
     Hash, Confirm, Remember, Discover, Locate, Help, Digest, Build, Commit, Compile, RecordBuild,
     Tune, Reuse, Try, EndTrial, WriteManifest, WriteLatest, Run, Check, Serve, Leave,
     Report, ReadProfile, ReadManifest, ReadHistory, Exit, Interrupt, Stop, Unlock, Die,
     Change, AllOver
<1> QED
  BY <1>5, <1>6, <1>7

(* The commands are given, and one of them at most has the lock.           *)
LEMMA DecidedNext == ASSUME Typed, [Next]_vars PROVE Decided'
<1> USE DEF Typed, Decided
<1>1. ASSUME NEW j \in Jobs, Acquire(j) \/ Unlock(j) \/ Die(j) PROVE Decided'
  BY <1>1 DEF Acquire, Unlock, Die, world
<1>2. ASSUME NEW j \in Jobs, Stop(j) PROVE Decided'
  BY <1>2 DEF Stop, world
<1>3. \/ \E j \in Jobs : Acquire(j) \/ Unlock(j) \/ Die(j) \/ Stop(j)
      \/ UNCHANGED <<script, lock, deserters>>
  BY DEF Next, vars, world, machine, Start, Inspect, LookUp, Metadata,
     Hash, Confirm, Remember, Discover, Locate, Help, Digest, Build, Commit, Compile, RecordBuild,
     Tune, BeginTune, Reuse, Try, EndTrial, WriteManifest, WriteLatest, Run, Check, Serve, Leave,
     Report, ReadProfile, ReadManifest, ReadHistory, Exit, Interrupt,
     Change, AllOver
<1> QED
  BY <1>1, <1>2, <1>3

(* The types hold throughout.                                              *)
LEMMA TypesInvariant == Spec => []Typed
<1>1. Init => Typed
  BY WorkspaceAssumption, TypedInit
<1>2. IInv /\ Typed /\ [Next]_vars => Typed'
  BY WorkspaceAssumption, ClockNext, JobsNext, FilesNext, TurnsNext, DecidedNext DEF Typed
<1> QED
  BY <1>1, <1>2, Invariant, PTL DEF Spec

(* Workspace's variables keep their types, for any number of commands: a   *)
(* job never knows of more files than the model has, of rows that are not  *)
(* there or of a version that was not built, and there are no more turns   *)
(* than commands.                                                          *)
THEOREM WorkspaceTypeCorrect == Spec => []TypeOK
<1>1. IInv /\ Typed => TypeOK
  <2> SUFFICES ASSUME IInv, Typed PROVE TypeOK
    OBVIOUS
  <2> USE WorkspaceAssumption
  <2>1. \A n \in 1 .. Shards : shards[n] \in Seq(Contents) /\ models[n] \in Entries
    <3> TAKE n \in 1 .. Shards
    <3>1. shards[n] \in Seq(Contents) /\ models[n] \in Entry
      BY DEF IInv, Files, FileType
    <3>2. ASSUME models[n] # NoEntry PROVE models[n] \in Entries
      <4>1. models[n].sha \in Contents /\ models[n].meta \in Contents
        BY <3>1, <3>2 DEF IInv, Files, Cached
      <4>2. models[n] \in [stat : Nat, meta : Contents, sha : Contents]
        BY <3>1, <4>1 DEF Entry
      <4> QED
        BY <4>2 DEF Entries
    <3> QED
      BY <3>1, <3>2, NothingTyped
  <2>2. \A j \in Jobs :
          /\ job[j].model \in Seq(Contents) /\ Len(job[j].model) <= Shards
          /\ job[j].entry \in Entries /\ job[j].cap \in Caps /\ job[j].where \in Places
          /\ job[j].turn <= turn /\ job[j].since <= changes
          /\ job[j].seen \subseteq rows
    BY DEF Typed, JobsTyped, JobTyped
  <2>3. source \in Versions /\ binaries \in [Places -> Versions] /\ changes \in 0 .. MaxChanges
    BY DEF Typed, Clock, Versions, WorkspaceAssumption
  <2>4. builds.commit \in Versions /\ builds.cap \in Caps /\ latest.turn <= turn /\ tuned.turn <= turn
    BY DEF Typed, FilesTyped, Builds
  <2>5. turn <= Cardinality(Jobs)
    <3>1. IsFiniteSet(Jobs) /\ Tuned \subseteq Jobs
      BY DEF WorkspaceAssumption, Tuned
    <3>2. Cardinality(Tuned) <= Cardinality(Jobs) /\ IsFiniteSet(Tuned)
      BY <3>1, FS_Subset
    <3>3. Cardinality(Tuned) \in Nat /\ Cardinality(Jobs) \in Nat
      BY <3>1, <3>2, FS_CardinalityType
    <3> QED
      BY <3>2, <3>3 DEF Typed, Turns
  <2>6. script \in Scripts /\ lock \in Jobs \cup {Nobody} /\ deserters \subseteq Jobs
    BY DEF Typed, Decided
  <2> QED
    BY <2>1, <2>2, <2>3, <2>4, <2>5, <2>6 DEF TypeOK
<1> QED
  BY <1>1, Invariant, TypesInvariant, PTL

-------------------------------------------------------------------------------
(* Reports.                                                                *)

(* A profile with the row it rests on, and with the final manifest of its  *)
(* tune or the manifest of a later one.                                    *)
Covers(manifest, profile) ==
  /\ manifest.turn >= profile.turn
  /\ manifest.turn = profile.turn => manifest.final

Founded(profile) ==
  /\ profile.turn \in Nat
  /\ profile.row \in rows /\ profile.row.scope = profile.scope
  /\ profile.scope \in DOMAIN manifests /\ Covers(manifests[profile.scope], profile)

Written ==
  /\ turn \in Nat
  /\ \A scope \in DOMAIN manifests :
       /\ DOMAIN manifests[scope] = {"turn", "final", "build"}
       /\ manifests[scope].turn \in 0 .. turn
  /\ latest # NoProfile => Founded(latest)

(* The manifest of a tune is its own from its beginning to its end.        *)
Searching == {"measure", "trial", "manifest", "write"}
Tuning ==
  \A j \in Jobs :
    job[j].pc \in Searching =>
      /\ Scope(j) \in DOMAIN manifests /\ manifests[Scope(j)].turn = job[j].turn
      /\ job[j].pc = "write" => manifests[Scope(j)].final
      /\ job[j].pc \in {"manifest", "write"} =>
           job[j].row \in rows /\ job[j].row.scope = Scope(j)

Trying ==
  \A s \in servers :
    "scope" \in DOMAIN s /\ (job[s.job].pc = "trial" => s.scope = Scope(s.job))

Telling == {"describe", "history", "told"}
Reporting ==
  \A j \in Jobs :
    LET told == job[j]
    IN  /\ told.pc \in Telling => Founded(told.profile)
        /\ told.pc \in {"history", "told"} =>
             told.manifest # <<>> /\ Covers(told.manifest, told.profile)
        /\ told.pc = "told" => told.profile.row \in told.seen

Story == Written /\ Tuning /\ Trying /\ Reporting

(* A step that neither writes nor goes on with a search or a report.       *)
LEMMA StoryElsewhere ==
  ASSUME IInv, Story, NEW j \in Jobs, NEW pc, Moved(j, pc), pc \notin Searching \cup Telling,
         rows \subseteq rows', servers' \subseteq servers, UNCHANGED <<manifests, latest, turn>>
  PROVE  Story'
<1>1. \A profile : Founded(profile) => Founded(profile)'
  BY DEF Founded, Covers
<1>2. Written'
  BY <1>1 DEF Story, Written
<1>3. Tuning'
  BY DEF Story, Tuning, Moved, Scope
<1>4. Trying'
  BY DEF IInv, Machine, Serving, Story, Trying, Moved, Scope, Searching
<1>5. Reporting'
  BY DEF Story, Reporting, Moved, Founded, Covers, Telling
<1> QED
  BY <1>2, <1>3, <1>4, <1>5 DEF Story

(* The commands but tune, report and the launch of run.                    *)
LEMMA StoryOfOthers ==
  ASSUME IInv, Story, NEW j \in Jobs,
         \/ Start(j) \/ Acquire(j) \/ Inspect(j) \/ Discover(j) \/ Build(j)
         \/ Check(j) \/ Leave(j) \/ Exit(j)
  PROVE  Story'
<1> DEFINE Aside(pc) == pc \notin Searching \cup Telling
<1>1. /\ rows \subseteq rows' /\ servers' \subseteq servers
      /\ UNCHANGED <<manifests, latest, turn>>
  <2>1. CASE Start(j) \/ Acquire(j) \/ Inspect(j)
    BY <2>1 DEF Start, Acquire, Inspect, LookUp, Metadata, Hash, Confirm, Remember,
       machine, files, history
  <2>2. CASE Discover(j) \/ Build(j) \/ Check(j) \/ Leave(j)
    BY <2>2 DEF Discover, Locate, Help, Digest, Build, Commit, Compile, RecordBuild,
       Check, Leave, machine, files, history
  <2>3. CASE Exit(j)
    BY <2>3 DEF Exit, Interrupt, Stop, Unlock, Die, machine, files, history
  <2> QED
    BY <2>1, <2>2, <2>3
<1>2. ASSUME NEW pc, NEW locals, Aside(pc), Goto(j, pc, locals)
      PROVE  \E p : Aside(p) /\ Moved(j, p)
  BY <1>2, GotoEffect DEF IInv, Files
<1>3. ASSUME NEW pc, Aside(pc), job' = [job EXCEPT ![j] = NoJob(pc)]
      PROVE  \E p : Aside(p) /\ Moved(j, p)
  BY <1>3, NoJobEffect DEF IInv, Files
<1>4. Quit(j) => \E p : Aside(p) /\ Moved(j, p)
  BY <1>3 DEF Quit, Searching, Telling
<1>5. \E p : Aside(p) /\ Moved(j, p)
  <2>1. CASE Start(j)
    <3>1. PICK pc, locals : pc \in {"stat", "profile", "lock"} /\ Goto(j, pc, locals)
      BY <2>1, StartGoes
    <3> QED
      BY <1>2, <3>1 DEF Searching, Telling
  <2>2. CASE Acquire(j)
    BY <1>2, <1>3, <2>2 DEF Acquire, Searching, Telling
  <2>3. ASSUME NEW sha, Fingerprinted(j, sha)
        PROVE  \E p : Aside(p) /\ Moved(j, p)
    BY <1>2, <1>4, <2>3 DEF Fingerprinted, Searching, Telling
  <2>4. CASE Inspect(j)
    BY <1>2, <1>4, <2>3, <2>4 DEF Inspect, LookUp, Metadata, Hash, Confirm, Remember, Searching, Telling
  <2>5. CASE Discover(j)
    <3>1. CASE Locate(j)
      BY <1>2, <1>4, <3>1 DEF Locate, Searching, Telling
    <3>2. CASE Help(j)
      BY <1>2, <3>2 DEF Help, Searching, Telling
    <3>3. CASE Digest(j)
      <4>1. \/ \E locals : Goto(j, "record", locals)
            \/ \E pc \in {"tune", "check"} : \E locals : Goto(j, pc, locals)
        BY <3>3 DEF Digest
      <4> QED
        BY <1>2, <4>1 DEF Searching, Telling
    <3> QED
      BY <2>5, <3>1, <3>2, <3>3 DEF Discover
  <2>6. CASE Build(j)
    BY <1>2, <1>4, <2>6 DEF Build, Commit, Compile, RecordBuild, Searching, Telling
  <2>7. CASE Check(j) \/ Leave(j)
    BY <1>2, <1>4, <2>7 DEF Check, Leave, Searching, Telling
  <2>8. CASE Exit(j)
    BY <1>2, <1>3, <1>4, <2>8 DEF Exit, Interrupt, Stop, Unlock, Die, Searching, Telling
  <2> QED
    BY <2>1, <2>2, <2>4, <2>5, <2>6, <2>7, <2>8
<1> QED
  BY <1>1, <1>5, StoryElsewhere

(* A report goes on: it has read what is founded, and stays so.            *)
LEMMA StoryOfReport ==
  ASSUME IInv, Story, NEW j \in Jobs, Report(j)
  PROVE  Story'
<1>1. UNCHANGED <<servers, manifests, latest, rows, turn>>
  BY DEF Report, ReadProfile, ReadManifest, ReadHistory, machine, files, history
<1>2. \A profile : Founded(profile) => Founded(profile)'
  BY <1>1 DEF Founded, Covers
<1>3. ASSUME NEW pc, NEW locals, Goto(j, pc, locals), pc \notin Searching,
             LET told == job'[j]
             IN  /\ told.pc \in Telling => Founded(told.profile)
                 /\ told.pc \in {"history", "told"} =>
                      told.manifest # <<>> /\ Covers(told.manifest, told.profile)
                 /\ told.pc = "told" => told.profile.row \in told.seen
      PROVE  Story'
  <2>1. Moved(j, pc)
    BY <1>3, GotoEffect DEF IInv, Files
  <2>2. Written'
    BY <1>1, <1>2 DEF Story, Written
  <2>3. Tuning'
    BY <1>1, <1>3, <2>1 DEF Story, Tuning, Moved, Scope
  <2>4. Trying'
    BY <1>1, <1>3, <2>1 DEF IInv, Machine, Serving, Story, Trying, Moved, Scope, Searching
  <2>5. Reporting'
    BY <1>2, <1>3, <2>1 DEF Story, Reporting, Moved, Covers
  <2> QED
    BY <2>2, <2>3, <2>4, <2>5 DEF Story
<1>4. CASE ReadProfile(j)
  <2>1. CASE latest = NoProfile
    <3>1. Goto(j, "done", <<>>)
      BY <1>4, <2>1 DEF ReadProfile
    <3> QED
      BY <3>1, StoryElsewhere, GotoEffect, <1>1 DEF IInv, Files, Searching, Telling
  <2>2. CASE latest # NoProfile
    <3>1. Goto(j, "describe", [profile |-> latest])
      BY <1>4, <2>2 DEF ReadProfile
    <3>2. job'[j].pc = "describe" /\ job'[j].profile = latest
      BY <3>1, GotoEffect DEF IInv, Files, Fields, Moved
    <3>3. Founded(latest)
      BY <2>2 DEF Story, Written
    <3> QED
      BY <1>3, <3>1, <3>2, <3>3 DEF Searching
  <2> QED
    BY <2>1, <2>2
<1>5. CASE ReadManifest(j)
  <2>1. job[j].pc = "describe" /\ Founded(job[j].profile)
    BY <1>5 DEF ReadManifest, At, Story, Reporting, Telling
  <2> DEFINE manifest == manifests[job[j].profile.scope]
  <2>2. Goto(j, "history", [manifest |-> manifest])
    BY <1>5, <2>1 DEF ReadManifest, Founded
  <2>3. /\ job'[j].pc = "history" /\ job'[j].profile = job[j].profile
        /\ job'[j].manifest = manifest
    BY <2>2, GotoEffect DEF IInv, Files, Fields, Moved
  <2>4. manifest # <<>> /\ Covers(manifest, job[j].profile)
    BY <2>1 DEF Story, Written, Founded
  <2> QED
    BY <1>3, <2>1, <2>2, <2>3, <2>4 DEF Searching
<1>6. CASE ReadHistory(j)
  <2>1. /\ job[j].pc = "history" /\ Founded(job[j].profile) /\ job[j].manifest # <<>>
        /\ Covers(job[j].manifest, job[j].profile)
    BY <1>6 DEF ReadHistory, At, Story, Reporting, Telling
  <2> DEFINE seen == {r \in rows : r.scope = job[j].profile.scope}
  <2>2. Goto(j, "told", [seen |-> seen])
    BY <1>6 DEF ReadHistory
  <2>3. /\ job'[j].pc = "told" /\ job'[j].profile = job[j].profile
        /\ job'[j].manifest = job[j].manifest /\ job'[j].seen = seen
    BY <2>2, GotoEffect DEF IInv, Files, Fields, Moved
  <2>4. job[j].profile.row \in seen
    BY <2>1 DEF Founded
  <2> QED
    BY <1>3, <2>1, <2>2, <2>3, <2>4 DEF Searching
<1> QED
  BY <1>4, <1>5, <1>6 DEF Report

(* What is written later takes no profile its ground.                      *)
FoundedStays == \A profile : Founded(profile) => Founded(profile)'

(* A search goes on; only one is going on, as it has the lock.             *)
LEMMA StoryOfSearch ==
  ASSUME IInv, Story, NEW j \in Jobs, job[j].pc \in Exclusive, NEW pc \in Searching,
         Moved(j, pc), Scope(j)' = Scope(j), Written', FoundedStays,
         Scope(j) \in DOMAIN manifests', manifests'[Scope(j)].turn = job'[j].turn,
         pc = "write" => manifests'[Scope(j)].final,
         pc \in {"manifest", "write"} =>
           job'[j].row \in rows' /\ job'[j].row.scope = Scope(j),
         \A s \in servers' :
           /\ "scope" \in DOMAIN s /\ (s.job # j => s \in servers)
           /\ s.job = j /\ pc = "trial" => s.scope = Scope(j)
  PROVE  Story'
<1>1. Tuning'
  <2>1. \A k \in Jobs : k # j => job'[k].pc \notin Searching
    BY HasLock DEF Moved, Searching, Exclusive
  <2> QED
    BY <2>1 DEF Tuning, Moved
<1>2. Trying'
  BY DEF IInv, Machine, Serving, Story, Trying, Moved, Scope
<1>3. Reporting'
  BY DEF Story, Reporting, Moved, FoundedStays, Covers, Searching, Telling
<1> QED
  BY <1>1, <1>2, <1>3 DEF Story

(* A new manifest is later than every profile of its scope.                *)
LEMMA StoryOfBeginTune ==
  ASSUME IInv, Story, NEW j \in Jobs, BeginTune(j)
  PROVE  Story'
<1> DEFINE new == [turn |-> turn', final |-> FALSE, build |-> job[j].build]
<1>1. /\ job[j].pc = "tune" /\ turn' = turn + 1 /\ turn \in Nat
      /\ UNCHANGED <<servers, latest, rows>>
  BY DEF BeginTune, At, machine, Story, Written
<1>2. /\ manifests' = [scope \in DOMAIN manifests \cup {Scope(j)} |->
                          IF scope = Scope(j) THEN new ELSE manifests[scope]]
  BY DEF BeginTune
<1>3. Goto(j, "measure", [turn |-> turn'])
  BY DEF BeginTune
<1>4. Moved(j, "measure") /\ Scope(j)' = Scope(j) /\ job'[j].turn = turn'
  BY <1>3, ScopeStays, GotoEffect DEF IInv, Files, Fields
<1>5. /\ DOMAIN new = {"turn", "final", "build"} /\ new.turn = turn'
      /\ manifests'[Scope(j)] = new /\ Scope(j) \in DOMAIN manifests'
  BY <1>2
<1>6. \A scope \in DOMAIN manifests' :
        scope # Scope(j) => scope \in DOMAIN manifests /\ manifests'[scope] = manifests[scope]
  BY <1>2
<1>7. \A scope \in DOMAIN manifests : scope \in DOMAIN manifests'
  BY <1>2
<1> HIDE DEF new
<1>8. FoundedStays
  <2> SUFFICES ASSUME NEW profile, Founded(profile)
               PROVE  Founded(profile)'
    BY DEF FoundedStays
  <2>1. /\ profile.scope \in DOMAIN manifests
        /\ manifests[profile.scope].turn >= profile.turn
        /\ manifests[profile.scope].turn \in 0 .. turn /\ profile.turn \in Nat
    BY DEF Founded, Covers, Story, Written
  <2>2. CASE profile.scope = Scope(j)
    BY <1>1, <1>5, <1>7, <2>1, <2>2 DEF Founded, Covers
  <2>3. CASE profile.scope # Scope(j)
    BY <1>1, <1>6, <1>7, <2>1, <2>3 DEF Founded, Covers
  <2> QED
    BY <2>2, <2>3
<1>9. Written'
  <2>1. \A scope \in DOMAIN manifests' :
          /\ DOMAIN manifests'[scope] = {"turn", "final", "build"}
          /\ manifests'[scope].turn \in 0 .. turn'
    BY <1>1, <1>5, <1>6 DEF Story, Written
  <2> QED
    BY <1>1, <1>8, <2>1 DEF Story, Written, FoundedStays
<1>10. \A s \in servers' : "scope" \in DOMAIN s /\ s \in servers
  BY <1>1 DEF Story, Trying
<1> QED
  BY <1>1, <1>4, <1>5, <1>8, <1>9, <1>10, StoryOfSearch DEF Searching, Exclusive

(* A trial, and a row in place of one.                                     *)
LEMMA StoryOfTrials ==
  ASSUME IInv, Story, NEW j \in Jobs, Reuse(j) \/ Try(j) \/ EndTrial(j)
  PROVE  Story'
<1>1. /\ job[j].pc \in {"measure", "trial"}
      /\ rows \subseteq rows' /\ UNCHANGED <<manifests, latest, turn>>
  BY DEF Reuse, Try, EndTrial, At, machine, files, history
<1>2. FoundedStays
  BY <1>1 DEF FoundedStays, Founded, Covers
<1>3. Written'
  BY <1>1, <1>2 DEF Story, Written, FoundedStays
<1>4. Scope(j) \in DOMAIN manifests /\ manifests[Scope(j)].turn = job[j].turn
  BY <1>1 DEF Story, Tuning, Searching
<1>5. ASSUME NEW row \in rows', row.scope = Scope(j), Judge(j, row), servers' \subseteq servers
      PROVE  Story'
  <2>1. CASE Quit(j)
    <3>1. Moved(j, "stop")
      BY <2>1, NoJobEffect DEF Quit, IInv, Files
    <3> QED
      BY <1>1, <1>5, <3>1, StoryElsewhere DEF Searching, Telling
  <2>2. CASE Goto(j, "manifest", [row |-> row])
    <3>1. /\ Moved(j, "manifest") /\ Scope(j)' = Scope(j) /\ job'[j].row = row
          /\ job'[j].turn = job[j].turn
      BY <2>2, ScopeStays, GotoEffect DEF IInv, Files, Fields
    <3>2. \A s \in servers' : "scope" \in DOMAIN s /\ s \in servers
      BY <1>5 DEF Story, Trying
    <3> QED
      BY <1>1, <1>2, <1>3, <1>4, <1>5, <3>1, <3>2, StoryOfSearch DEF Searching, Exclusive
  <2> QED
    BY <1>5, <2>1, <2>2 DEF Judge
<1>6. CASE Reuse(j)
  BY <1>1, <1>5, <1>6 DEF Reuse, Evidence, machine, files
<1>7. CASE EndTrial(j)
  <2>1. PICK s \in Own(j), end \in {"ok", "failed"} :
          rows' = rows \cup {Ended(s, end)} /\ Judge(j, Ended(s, end))
    BY <1>7 DEF EndTrial
  <2>2. s \in servers /\ s.job = j /\ job[j].pc = "trial" /\ servers' = servers \ Own(j)
    BY <1>7, <2>1 DEF Own, EndTrial, At
  <2>3. "scope" \in DOMAIN s /\ s.scope = Scope(j)
    BY <2>2 DEF Story, Trying
  <2>4. Ended(s, end).scope = Scope(j)
    BY <2>3 DEF Ended
  <2> QED
    BY <1>5, <2>1, <2>2, <2>4
<1>8. CASE Try(j)
  <2>1. job[j].pc = "measure" /\ Goto(j, "trial", <<>>) /\ Launch(j, Scope(j))
    BY <1>8 DEF Try, At
  <2>2. /\ Moved(j, "trial") /\ Scope(j)' = Scope(j) /\ job'[j].turn = job[j].turn
    BY <2>1, ScopeStays, GotoEffect DEF IInv, Files, Fields
  <2>3. PICK new : /\ servers' = servers \cup {new} /\ "scope" \in DOMAIN new
                   /\ new.job = j /\ new.scope = Scope(j)
    BY <2>1, Launched
  <2>4. \A s \in servers : s.job # j /\ "scope" \in DOMAIN s
    BY <2>1 DEF IInv, Machine, Serving, Hosting, Leaving, Story, Trying
  <2> QED
    BY <1>1, <1>2, <1>3, <1>4, <2>2, <2>3, <2>4, StoryOfSearch DEF Searching, Exclusive
<1> QED
  BY <1>6, <1>7, <1>8

(* A profile is written once its manifest is final.                        *)
LEMMA StoryOfWrites ==
  ASSUME IInv, Story, NEW j \in Jobs, WriteManifest(j) \/ WriteLatest(j)
  PROVE  Story'
<1>1. /\ job[j].pc \in {"manifest", "write"} /\ UNCHANGED <<servers, rows, turn>>
  BY DEF WriteManifest, WriteLatest, At, machine, history
<1>2. /\ Scope(j) \in DOMAIN manifests /\ manifests[Scope(j)].turn = job[j].turn
      /\ job[j].row \in rows /\ job[j].row.scope = Scope(j)
  BY <1>1 DEF Story, Tuning, Searching
<1>3. CASE WriteManifest(j)
  <2>1. /\ manifests' = [manifests EXCEPT ![Scope(j)].final = TRUE]
        /\ Goto(j, "write", <<>>) /\ UNCHANGED latest
    BY <1>3 DEF WriteManifest
  <2>2. /\ Moved(j, "write") /\ Scope(j)' = Scope(j) /\ job'[j].turn = job[j].turn
        /\ job'[j].row = job[j].row
    BY <2>1, ScopeStays, GotoEffect DEF IInv, Files, Fields
  <2>3. /\ DOMAIN manifests' = DOMAIN manifests /\ manifests'[Scope(j)].final
        /\ \A scope \in DOMAIN manifests :
             /\ manifests'[scope].turn = manifests[scope].turn
             /\ manifests[scope].final => manifests'[scope].final
             /\ DOMAIN manifests'[scope] = DOMAIN manifests[scope]
    BY <1>2, <2>1 DEF Story, Written
  <2>4. FoundedStays
    BY <1>1, <2>3 DEF FoundedStays, Founded, Covers
  <2>5. Written'
    BY <1>1, <2>1, <2>3, <2>4 DEF Story, Written, FoundedStays
  <2>6. \A s \in servers' : "scope" \in DOMAIN s /\ s \in servers
    BY <1>1 DEF Story, Trying
  <2> QED
    BY <1>1, <1>2, <2>2, <2>3, <2>4, <2>5, <2>6, StoryOfSearch DEF Searching, Exclusive
<1>4. CASE WriteLatest(j)
  <2>1. /\ latest' = Profile(j) /\ Quit(j) /\ UNCHANGED manifests /\ job[j].pc = "write"
    BY <1>4 DEF WriteLatest, At
  <2>2. Moved(j, "stop")
    BY <2>1, NoJobEffect DEF Quit, IInv, Files
  <2>3. FoundedStays
    BY <1>1, <2>1 DEF FoundedStays, Founded, Covers
  <2>4. Founded(Profile(j))
    <3>1. job[j].turn \in Nat /\ manifests[Scope(j)].final
      BY <1>1, <1>2, <2>1 DEF Story, Written, Tuning, Searching
    <3> QED
      BY <1>2, <3>1 DEF Founded, Covers, Profile
  <2>5. Written'
    BY <1>1, <2>1, <2>3, <2>4 DEF Story, Written, FoundedStays
  <2>6. Tuning'
    BY <1>1, <2>1, <2>2 DEF Story, Tuning, Moved, Scope, Searching
  <2>7. Trying'
    BY <1>1, <2>2 DEF IInv, Machine, Serving, Story, Trying, Moved, Scope
  <2>8. Reporting'
    BY <2>2, <2>3 DEF Story, Reporting, Moved, FoundedStays, Covers, Telling
  <2> QED
    BY <2>5, <2>6, <2>7, <2>8 DEF Story
<1> QED
  BY <1>3, <1>4

(* run has a server, and writes nothing.                                   *)
LEMMA StoryOfServe ==
  ASSUME IInv, Story, NEW j \in Jobs, Serve(j)
  PROVE  Story'
<1>1. /\ job[j].pc = "launch" /\ Goto(j, "serving", <<>>)
      /\ UNCHANGED <<manifests, latest, rows, turn>>
  BY DEF Serve, At, files, history
<1>2. Moved(j, "serving")
  BY <1>1, GotoEffect DEF IInv, Files
<1>3. PICK new : servers' = servers \cup {new} /\ "scope" \in DOMAIN new /\ new.job = j
  BY Launched DEF Serve
<1>4. FoundedStays
  BY <1>1 DEF FoundedStays, Founded, Covers
<1>5. Written'
  BY <1>1, <1>4 DEF Story, Written, FoundedStays
<1>6. Tuning'
  BY <1>1, <1>2 DEF Story, Tuning, Moved, Scope, Searching
<1>7. Trying'
  BY <1>2, <1>3 DEF IInv, Machine, Serving, Story, Trying, Moved, Scope
<1>8. Reporting'
  BY <1>2, <1>4 DEF Story, Reporting, Moved, FoundedStays, Covers, Telling
<1> QED
  BY <1>5, <1>6, <1>7, <1>8 DEF Story

(* Every step keeps what profiles rest on.                                 *)
LEMMA StoryContinues ==
  ASSUME IInv, Story, [Next]_vars
  PROVE  Story'
<1>1. ASSUME UNCHANGED <<job, servers, manifests, latest, rows, turn>>
      PROVE  Story'
  BY <1>1 DEF Story, Written, Tuning, Trying, Reporting, Founded, Covers, Scope
<1>2. CASE UNCHANGED vars \/ Change \/ AllOver
  BY <1>1, <1>2 DEF Change, AllOver, vars, machine, files, history
<1>3. ASSUME NEW j \in Jobs, Tune(j)
      PROVE  Story'
  BY <1>3, StoryOfBeginTune, StoryOfTrials, StoryOfWrites DEF Tune
<1>4. ASSUME NEW j \in Jobs, Run(j)
      PROVE  Story'
  BY <1>4, StoryOfServe, StoryOfOthers DEF Run
<1> QED
  BY <1>2, <1>3, <1>4, StoryOfReport, StoryOfOthers DEF Next

(* The story holds throughout.                                             *)
LEMMA StoryInvariant == Spec => []Story
<1>1. Init => Story
  <2>1. ASSUME Init
        PROVE  \A j \in Jobs : job[j].pc = "idle"
    BY <2>1 DEF Init, NoJob
  <2> QED
    BY <2>1 DEF Init, Story, Written, Tuning, Trying, Reporting, Searching, Telling
<1>2. Story /\ IInv /\ [Next]_vars => Story'
  BY StoryContinues
<1> QED
  BY <1>1, <1>2, Invariant, PTL DEF Spec

(* A report takes no lock and reads three times; commands are interrupted  *)
(* and killed anywhere: what it tells is a profile with the row it rests   *)
(* on, and the final manifest of its tune or that of a later one.          *)
THEOREM ReportCorrect == Spec => []ReportIsWhole
<1>1. Story => ReportIsWhole
  BY DEF Story, Reporting, ReportIsWhole, Founded, Covers, At, Telling
<1> QED
  BY <1>1, StoryInvariant, PTL

-------------------------------------------------------------------------------
(* Scopes and servers.                                                     *)

(* Where a job knows the whole model, and where the whole scope.           *)
Knowing == {"tune", "measure", "check", "launch"}
Seeing == {"read", "help", "digest"} \cup Knowing

(* What it knows of the model are its files as they are.                   *)
ModelIsCurrent(j) == \A n \in 1 .. Len(job[j].model) : job[j].model[n] = Last(shards[n])

(* What a job has seen is still there, if nothing has changed since.       *)
SeesTruly(j) ==
  /\ job[j].since \in 0 .. changes
  /\ job[j].pc \in {"idle", "lock"} => job[j].model = <<>>
  /\ job[j].pc \in {"commit", "cmake"} => script[j] = "build"
  /\ job[j].pc \in Knowing => script[j] # "build"
  /\ job[j].pc = "launch" => job[j].profile.scope = Scope(j)
  /\ script[j] # "build" =>
       /\ job[j].pc \in Seeing => Len(job[j].model) = Shards
       /\ job[j].since = changes =>
            /\ job[j].pc \in Early \cup Seeing => ModelIsCurrent(j)
            /\ job[j].pc = "keep" => job[j].entry.sha = Last(shards[Shard(j)])
            /\ job[j].pc = "digest" => job[j].cap = <<binaries[job[j].where]>>
            /\ job[j].pc \in Knowing => job[j].cap[2] = binaries[job[j].where]

Seen == changes \in Nat /\ \A j \in Jobs : SeesTruly(j)

(* The scope tells what a steady server holds.                             *)
Described(s) ==
  /\ DOMAIN s = {"job", "scope", "end", "loaded", "binary", "steady"}
  /\ DOMAIN s.loaded = 1 .. Shards /\ s.loaded = [n \in 1 .. Shards |-> s.loaded[n]]
  /\ s.steady =>
       /\ \A n \in 1 .. Shards : s.loaded[n] = s.scope[2][n]
       /\ s.binary = s.scope[3][2]

Measured == \A s \in servers \cup rows : Described(s)

Sight == Seen /\ Measured

(* The row of a server says of it what the server held.                    *)
LEMMA EndedDescribed ==
  ASSUME NEW s, NEW end, Described(s)
  PROVE  Described(Ended(s, end))
BY DEF Described, Ended

(* A step of one job, seen by the others.                                  *)
LEMMA SeenByOthers ==
  ASSUME Seen, NEW j \in Jobs, NEW pc, Moved(j, pc), SeesTruly(j)',
         UNCHANGED <<script, shards, binaries, changes>>
  PROVE  Seen'
<1>1. ASSUME NEW k \in Jobs, k # j
      PROVE  SeesTruly(k)'
  <2>1. job'[k] = job[k] /\ SeesTruly(k)
    BY <1>1 DEF Moved, Seen
  <2>2. ModelIsCurrent(k)' = ModelIsCurrent(k) /\ Scope(k)' = Scope(k) /\ Shard(k)' = Shard(k)
    BY <2>1 DEF ModelIsCurrent, Scope, Shard
  <2> QED
    BY <2>1, <2>2 DEF SeesTruly
<1> QED
  BY <1>1 DEF Seen

(* Where a job goes that has nothing to see.                               *)
Blindly == {"manifest", "write", "trial", "serving", "refuse", "profile", "describe",
            "history", "told", "stop", "unlock", "done", "killed", "record"}

(* A job that goes where nothing is asked of what it has seen.             *)
LEMMA SeenAside ==
  ASSUME IInv, Seen, NEW j \in Jobs, NEW pc \in Blindly,
         \/ \E locals : Goto(j, pc, locals) /\ "since" \notin DOMAIN locals
         \/ job' = [job EXCEPT ![j] = NoJob(pc)],
         UNCHANGED <<script, shards, binaries, changes>>
  PROVE  Seen'
<1>1. Moved(j, pc) /\ (job'[j].since = job[j].since \/ job'[j].since = 0)
  <2>1. CASE job' = [job EXCEPT ![j] = NoJob(pc)]
    BY <2>1, NoJobEffect DEF NoJob, IInv, Files, JobType
  <2>2. ASSUME NEW locals, Goto(j, pc, locals), "since" \notin DOMAIN locals
        PROVE  Moved(j, pc) /\ job'[j].since = job[j].since
    BY <2>2, GotoEffect DEF IInv, Files, Fields
  <2> QED
    BY <2>1, <2>2
<1>2. job'[j].since \in 0 .. changes'
  BY <1>1 DEF Seen, SeesTruly
<1>3. SeesTruly(j)'
  BY <1>1, <1>2 DEF SeesTruly, Moved, Blindly, Knowing, Seeing, Early, Looking
<1> QED
  BY <1>1, <1>3, SeenByOthers

(* A command starts, and has seen nothing of the model.                    *)
LEMMA SeenStart ==
  ASSUME WorkspaceAssumption, IInv, Seen, NEW j \in Jobs, Start(j) \/ Acquire(j)
  PROVE  Seen'
<1>1. UNCHANGED <<script, shards, binaries, changes>> /\ changes \in Nat
  BY DEF Start, Acquire, world, Seen
<1>2. job[j].pc \in {"idle", "lock"} /\ job[j].model = <<>> /\ job[j].since \in 0 .. changes
  BY DEF Start, Acquire, At, Seen, SeesTruly
<1>3. ASSUME NEW pc \in {"stat", "profile", "lock", "commit"}, NEW locals, Goto(j, pc, locals),
             pc = "commit" => script[j] = "build",
             "model" \notin DOMAIN locals,
             "since" \in DOMAIN locals => locals["since"] = changes
      PROVE  Seen'
  <2>1. /\ Moved(j, pc) /\ job'[j].model = <<>>
        /\ job'[j].since = changes \/ job'[j].since = job[j].since
    BY <1>2, <1>3, GotoEffect DEF IInv, Files, Fields
  <2>2. ModelIsCurrent(j)'
    BY <2>1 DEF ModelIsCurrent
  <2>3. SeesTruly(j)'
    BY <1>1, <1>2, <1>3, <2>1, <2>2 DEF SeesTruly, Moved, Knowing, Seeing
  <2> QED
    BY <1>1, <2>1, <2>3, SeenByOthers
<1>4. CASE Start(j)
  <2>1. PICK pc, locals :
          /\ pc \in {"stat", "profile", "lock"}
          /\ Goto(j, pc, locals) /\ DOMAIN locals \subseteq {"sees", "since"}
          /\ "since" \in DOMAIN locals => locals["since"] = changes
    BY <1>4, StartGoes
  <2> QED
    BY <1>3, <2>1
<1>5. CASE Acquire(j)
  <2>1. CASE job' = [job EXCEPT ![j] = NoJob("done")]
    BY <1>1, <2>1, SeenAside DEF Blindly
  <2> QED
    BY <1>3, <1>5, <2>1 DEF Acquire
<1> QED
  BY <1>4, <1>5

(* A fingerprint is that of the file as it is, from an entry or not.       *)
LEMMA SeenFingerprint ==
  ASSUME WorkspaceAssumption, IInv, Seen, NEW j \in Jobs, job[j].pc \in Looking,
         NEW sha \in Sums, Fingerprinted(j, sha),
         job[j].since = changes /\ script[j] # "build" => sha = Last(shards[Shard(j)]),
         UNCHANGED <<script, shards, binaries, changes>>
  PROVE  Seen'
<1> DEFINE model == Append(job[j].model, sha)
           pc == IF Shard(j) < Shards THEN "stat" ELSE "read"
<1>1. CASE Quit(j)
  BY <1>1, SeenAside DEF Quit, Blindly
<1>2. CASE Goto(j, pc, [model |-> model, entry |-> NoEntry])
  <2>1. /\ Shard(j) \in 1 .. Shards /\ Shard(j) = Len(job[j].model) + 1
        /\ job[j].model \in Seq(Sums)
    BY ShardExists DEF IInv, Files, LookType, Shard, Early
  <2>3. /\ Moved(j, pc) /\ job'[j].since = job[j].since /\ job'[j].model = model
    BY <1>2, GotoEffect DEF IInv, Files, Fields
  <2>4. /\ Len(model) = Shard(j) /\ model[Shard(j)] = sha
        /\ \A n \in 1 .. Len(job[j].model) : model[n] = job[j].model[n]
    BY <2>1
  <2>5. (pc = "stat" \/ (pc = "read" /\ Len(model) = Shards)) /\ pc \in {"stat", "read"}
    BY <2>1, <2>4 DEF WorkspaceAssumption
  <2> HIDE DEF pc, model
  <2>6. ModelIsCurrent(j) /\ sha = Last(shards[Shard(j)]) => ModelIsCurrent(j)'
    BY <2>1, <2>3, <2>4 DEF ModelIsCurrent
  <2>7. SeesTruly(j)'
    BY <2>3, <2>5, <2>6 DEF Seen, SeesTruly, Moved, Knowing, Seeing, Early
  <2> QED
    BY <2>3, <2>7, SeenByOthers
<1> QED
  BY <1>1, <1>2 DEF Fingerprinted

(* Every file of the model is known as it is.                              *)
LEMMA SeenInspect ==
  ASSUME WorkspaceAssumption, IInv, Seen, NEW j \in Jobs, Inspect(j)
  PROVE  Seen'
<1>1. job[j].pc \in Looking /\ UNCHANGED <<script, shards, binaries, changes>>
  BY DEF Inspect, LookUp, Metadata, Hash, Confirm, Remember, At, Looking, world
<1>2. Shard(j) \in 1 .. Shards /\ Files
  BY <1>1, ShardExists DEF Early, IInv
<1>3. ASSUME NEW pc \in {"metadata", "hash", "again"}, NEW entry,
             Goto(j, pc, [entry |-> entry])
      PROVE  Seen'
  <2>1. Moved(j, pc) /\ job'[j].since = job[j].since /\ job'[j].model = job[j].model
    BY <1>3, GotoEffect DEF IInv, Files, Fields
  <2>2. ModelIsCurrent(j) => ModelIsCurrent(j)'
    BY <1>1, <2>1 DEF ModelIsCurrent
  <2>3. SeesTruly(j)'
    BY <1>1, <2>1, <2>2 DEF Seen, SeesTruly, Moved, Knowing, Seeing, Early, Looking
  <2> QED
    BY <1>1, <2>1, <2>3, SeenByOthers
<1>4. CASE LookUp(j)
  <2>1. CASE Known(Shard(j)) /\ Fingerprinted(j, models[Shard(j)].sha)
    <3>1. models[Shard(j)].stat = Len(shards[Shard(j)]) /\ Len(shards[Shard(j)]) >= 1
      BY <1>2, <2>1 DEF Known, Stat, Files, FileType
    <3>2. models[Shard(j)] # NoEntry
      BY <3>1 DEF NoEntry
    <3>3. models[Shard(j)].sha = Last(shards[Shard(j)])
      BY <1>2, <3>1, <3>2 DEF Files, Cached, Last
    <3>4. models[Shard(j)].sha \in Sums
      BY <1>2 DEF Files, FileType, Entry
    <3> QED
      BY <1>1, <2>1, <3>3, <3>4, SeenFingerprint
  <2> QED
    BY <1>3, <1>4, <2>1 DEF LookUp
<1>5. CASE Metadata(j) \/ Hash(j)
  BY <1>3, <1>5 DEF Metadata, Hash
<1>6. CASE Confirm(j)
  <2>1. CASE job[j].entry.stat = Stat(Shard(j)) /\ Goto(j, "keep", <<>>)
    <3>1. job[j].entry.sha = Last(shards[Shard(j)])
      BY <1>2, <1>6, <2>1 DEF Confirm, At, Stat, Files, Reading, Read, Shard
    <3>2. /\ Moved(j, "keep") /\ job'[j].since = job[j].since /\ job'[j].model = job[j].model
          /\ job'[j].entry = job[j].entry
      BY <2>1, GotoEffect DEF IInv, Files, Fields
    <3>3. /\ ModelIsCurrent(j) => ModelIsCurrent(j)'
          /\ job'[j].entry.sha = Last(shards'[Shard(j)'])
      BY <1>1, <3>1, <3>2 DEF ModelIsCurrent, Shard
    <3>4. SeesTruly(j)'
      BY <1>1, <3>2, <3>3 DEF Seen, SeesTruly, Moved, Knowing, Seeing, Early, Looking
    <3> QED
      BY <1>1, <3>2, <3>4, SeenByOthers
  <2>2. CASE Quit(j)
    BY <1>1, <2>2, SeenAside DEF Quit, Blindly
  <2> QED
    BY <1>6, <2>1, <2>2 DEF Confirm
<1>7. CASE Remember(j)
  <2>1. job[j].entry.sha \in Sums
    BY <1>2 DEF Files, LookType, Entry
  <2>2. job[j].since = changes /\ script[j] # "build" =>
          job[j].entry.sha = Last(shards[Shard(j)])
    BY <1>7 DEF Remember, At, Seen, SeesTruly
  <2> QED
    BY <1>1, <1>7, <2>1, <2>2, SeenFingerprint DEF Remember
<1> QED
  BY <1>4, <1>5, <1>6, <1>7 DEF Inspect

(* The second look comes after the first.                                  *)
LEMMA SecondLook ==
  \A b : Append(<<b>>, b)[2] = b
OBVIOUS

(* The binary is looked at twice; only a build, which has the lock, may    *)
(* replace it without being a change of the world.                         *)
LEMMA SeenDiscover ==
  ASSUME IInv, Seen, NEW j \in Jobs, Discover(j)
  PROVE  Seen'
<1>1. UNCHANGED <<script, shards, binaries, changes>>
  BY DEF Discover, Locate, Help, Digest, world
<1>2. CASE Quit(j)
  BY <1>1, <1>2, SeenAside DEF Quit, Blindly
<1>3. ASSUME NEW pc, NEW locals, Goto(j, pc, locals),
             {"model", "since"} \cap DOMAIN locals = {}
      PROVE  /\ Moved(j, pc) /\ job'[j].since = job[j].since
             /\ job'[j].model = job[j].model /\ (ModelIsCurrent(j) => ModelIsCurrent(j)')
  <2>1. Moved(j, pc) /\ job'[j].since = job[j].since /\ job'[j].model = job[j].model
    BY <1>3, GotoEffect DEF IInv, Files, Fields
  <2> QED
    BY <1>1, <2>1 DEF ModelIsCurrent
<1>4. CASE Locate(j)
  <2>1. ASSUME NEW profile, NEW build, NEW where,
               Goto(j, "help", [profile |-> profile, build |-> build, where |-> where])
        PROVE  Seen'
    <3>1. /\ Moved(j, "help") /\ job'[j].since = job[j].since
          /\ job'[j].model = job[j].model /\ (ModelIsCurrent(j) => ModelIsCurrent(j)')
      BY <1>3, <2>1
    <3>2. SeesTruly(j)'
      BY <1>1, <1>4, <3>1 DEF Locate, At, Seen, SeesTruly, Moved, Knowing, Seeing, Early, Looking
    <3> QED
      BY <1>1, <3>1, <3>2, SeenByOthers
  <2> QED
    BY <1>2, <1>4, <2>1 DEF Locate
<1>5. CASE Help(j)
  <2> DEFINE cap == <<binaries[job[j].where]>>
  <2>1. Goto(j, "digest", [cap |-> cap]) /\ job[j].pc = "help"
    BY <1>5 DEF Help, At
  <2>2. /\ Moved(j, "digest") /\ job'[j].since = job[j].since
        /\ job'[j].model = job[j].model /\ (ModelIsCurrent(j) => ModelIsCurrent(j)')
        /\ job'[j].cap = cap /\ job'[j].where = job[j].where
    BY <1>3, <2>1, GotoEffect DEF IInv, Files, Fields
  <2>3. SeesTruly(j)'
    BY <1>1, <2>1, <2>2 DEF Seen, SeesTruly, Moved, Knowing, Seeing, Early, Looking
  <2> QED
    BY <1>1, <2>2, <2>3, SeenByOthers
<1>6. CASE Digest(j)
  <2> DEFINE cap == Append(job[j].cap, binaries[job[j].where])
  <2>1. CASE Goto(j, "record", [cap |-> cap])
    BY <1>1, <2>1, SeenAside DEF Blindly
  <2>2. ASSUME script[j] # "build", NEW pc \in {"tune", "check"}, NEW build,
               Goto(j, pc, [cap |-> cap, build |-> build])
        PROVE  Seen'
    <3>1. /\ Moved(j, pc) /\ job'[j].since = job[j].since
          /\ job'[j].model = job[j].model /\ (ModelIsCurrent(j) => ModelIsCurrent(j)')
          /\ job'[j].cap = cap /\ job'[j].where = job[j].where
      BY <1>3, <2>2, GotoEffect DEF IInv, Files, Fields
    <3>2. job[j].cap = <<binaries[job[j].where]>> =>
            cap[2] = binaries[job[j].where]
      BY SecondLook
    <3> HIDE DEF cap
    <3>3. SeesTruly(j)'
      BY <1>1, <1>6, <2>2, <3>1, <3>2 DEF Digest, At, Seen, SeesTruly, Moved, Knowing,
         Seeing, Early, Looking
    <3> QED
      BY <1>1, <3>1, <3>3, SeenByOthers
  <2>3. \/ Goto(j, "record", [cap |-> cap])
        \/ script[j] # "build" /\ \E pc \in {"tune", "check"} : \E build :
             Goto(j, pc, [cap |-> cap, build |-> build])
    BY <1>6 DEF Digest
  <2> QED
    BY <2>1, <2>2, <2>3
<1> QED
  BY <1>4, <1>5, <1>6 DEF Discover

(* A build by us replaces the binary while no other command has seen it.   *)
LEMMA SeenBuild ==
  ASSUME IInv, Seen, NEW j \in Jobs, Build(j)
  PROVE  Seen'
<1>1. /\ UNCHANGED <<script, shards, changes>> /\ changes \in Nat
      /\ job[j].pc \in {"commit", "cmake", "record"} /\ lock = j
  BY HasLock DEF Build, Commit, Compile, RecordBuild, world, At, Exclusive, Seen
<1>2. CASE Commit(j)
  <2>1. PICK build : Goto(j, "cmake", [build |-> build, where |-> "built", since |-> changes])
    BY <1>2 DEF Commit
  <2>2. Moved(j, "cmake") /\ job'[j].since = changes
    BY <2>1, GotoEffect DEF IInv, Files, Fields
  <2>3. SeesTruly(j)'
    BY <1>1, <1>2, <2>2 DEF Commit, At, Seen, SeesTruly, Moved, Knowing
  <2> QED
    BY <1>1, <1>2, <2>2, <2>3, SeenByOthers DEF Commit, world
<1>3. CASE Compile(j)
  <2>1. PICK pc \in {"help", "stop"} : /\ Moved(j, pc)
                                       /\ job'[j].since = job[j].since \/ job'[j].since = 0
    <3>1. CASE Goto(j, "help", <<>>)
      BY <3>1, GotoEffect DEF IInv, Files, Fields
    <3>2. CASE Quit(j)
      BY <3>2, NoJobEffect DEF Quit, NoJob, IInv, Files, JobType
    <3> QED
      BY <1>3, <3>1, <3>2 DEF Compile
  <2>2. script[j] = "build" /\ job[j].since \in 0 .. changes
    BY <1>3 DEF Compile, At, Seen, SeesTruly
  <2>3. SeesTruly(j)'
    BY <1>1, <2>1, <2>2 DEF SeesTruly, Moved, Knowing
  <2>4. ASSUME NEW k \in Jobs, k # j
        PROVE  SeesTruly(k)'
    <3>1. job'[k] = job[k] /\ job[k].pc \notin Exclusive /\ SeesTruly(k)
      BY <1>1, <2>1, <2>4, HasLock DEF Moved, Seen
    <3>2. job[k].pc \notin Knowing /\ job[k].pc # "digest"
      BY <3>1 DEF Knowing, Exclusive
    <3> QED
      BY <1>1, <3>1, <3>2 DEF SeesTruly, ModelIsCurrent, Scope, Shard
  <2> QED
    BY <1>1, <2>3, <2>4 DEF Seen
<1>4. CASE RecordBuild(j)
  BY <1>4, SeenAside DEF RecordBuild, Quit, Blindly, world
<1> QED
  BY <1>2, <1>3, <1>4 DEF Build

(* What run launches has the scope that it sees.                           *)
LEMMA SeenCheck ==
  ASSUME IInv, Seen, NEW j \in Jobs, Check(j) \/ BeginTune(j)
  PROVE  Seen'
<1>1. UNCHANGED <<script, shards, binaries, changes>> /\ changes \in Nat
  BY DEF Check, BeginTune, world, Seen
<1>2. ASSUME NEW pc \in {"measure", "launch"}, NEW locals, Goto(j, pc, locals),
             {"sees", "model", "cap", "since", "where", "profile"} \cap DOMAIN locals = {},
             job[j].pc \in {"tune", "check"}, pc = "launch" => job[j].profile.scope = Scope(j)
      PROVE  Seen'
  <2>1. /\ Moved(j, pc) /\ job'[j].since = job[j].since /\ job'[j].model = job[j].model
        /\ job'[j].cap = job[j].cap /\ job'[j].where = job[j].where
        /\ job'[j].profile = job[j].profile /\ Scope(j)' = Scope(j)
    BY <1>2, GotoEffect, ScopeStays DEF IInv, Files, Fields
  <2>2. ModelIsCurrent(j) => ModelIsCurrent(j)'
    BY <1>1, <2>1 DEF ModelIsCurrent
  <2>3. SeesTruly(j)'
    BY <1>1, <1>2, <2>1, <2>2 DEF Seen, SeesTruly, Moved, Knowing, Seeing, Early, Looking
  <2> QED
    BY <1>1, <2>1, <2>3, SeenByOthers
<1>3. CASE Check(j)
  <2>1. CASE Goto(j, "refuse", <<>>)
    BY <1>1, <2>1, SeenAside DEF Blindly
  <2>2. CASE Current(j, job[j].profile) /\ Goto(j, "launch", <<>>)
    BY <1>2, <1>3, <2>2 DEF Check, At, Current
  <2> QED
    BY <1>3, <2>1, <2>2 DEF Check
<1>4. CASE BeginTune(j)
  BY <1>2, <1>4 DEF BeginTune, At
<1> QED
  BY <1>3, <1>4

(* Once the world has changed nothing is asked of those that saw it.       *)
LEMMA SeenChange ==
  ASSUME Seen, Change
  PROVE  Seen'
<1>1. changes' = changes + 1 /\ UNCHANGED <<script, job>>
  BY DEF Change
<1> QED
  BY <1>1 DEF Seen, SeesTruly, Scope

(* What is launched is what the scope says, if nothing has changed.        *)
LEMMA LaunchMeasured ==
  ASSUME WorkspaceAssumption, IInv, Sight, NEW j \in Jobs, job[j].pc \in Knowing,
         Launch(j, Scope(j))
  PROVE  \A s \in servers' : Described(s)
<1> DEFINE new == [job |-> j, scope |-> Scope(j), end |-> "none",
                   loaded |-> [n \in 1 .. Shards |-> Last(shards[n])],
                   binary |-> binaries[job[j].where], steady |-> job[j].since = changes]
<1>1. servers' = servers \cup {new}
  BY DEF Launch
<1>2. ASSUME job[j].since = changes
      PROVE  /\ Len(job[j].model) = Shards /\ ModelIsCurrent(j)
             /\ job[j].cap[2] = binaries[job[j].where]
  BY <1>2 DEF Sight, Seen, SeesTruly, Knowing, Seeing
<1>3. ASSUME job[j].since = changes
      PROVE  /\ \A n \in 1 .. Shards : new.loaded[n] = new.scope[2][n]
             /\ new.binary = new.scope[3][2]
  BY <1>2, <1>3 DEF ModelIsCurrent, Scope
<1>4. /\ DOMAIN new = {"job", "scope", "end", "loaded", "binary", "steady"}
      /\ DOMAIN new.loaded = 1 .. Shards
      /\ new.loaded = [n \in 1 .. Shards |-> new.loaded[n]]
      /\ new.steady => job[j].since = changes
  OBVIOUS
<1>5. Described(new)
  <2> HIDE DEF new
  <2> QED
    BY <1>3, <1>4 DEF Described
<1> QED
  BY <1>1, <1>5 DEF Sight, Measured

(* A row describes the server it is of.                                    *)
LEMMA RowsMeasured ==
  ASSUME Sight, [Next]_vars, \A s \in servers' : Described(s)
  PROVE  Measured'
<1>1. \A r \in rows' : r \in rows \/ \E s \in servers : \E end : r = Ended(s, end)
  <2>1. CASE UNCHANGED rows
    BY <2>1
  <2>2. ASSUME NEW k \in Jobs, EndTrial(k) \/ Stop(k)
        PROVE  \A r \in rows' : r \in rows \/ \E s \in servers : \E end : r = Ended(s, end)
    BY <2>2 DEF EndTrial, Stop, Own
  <2> QED
    BY <2>1, <2>2 DEF Next, vars, files, Start, Acquire, Inspect, LookUp, Metadata, Hash,
       Confirm, Remember, Discover, Locate, Help, Digest, Build, Commit, Compile, RecordBuild, Tune,
       BeginTune, Reuse, Try, WriteManifest, WriteLatest, Run, Check, Serve, Leave, Report,
       ReadProfile, ReadManifest, ReadHistory, Exit, Interrupt, Unlock, Die, Change, AllOver
<1> QED
  BY <1>1, EndedDescribed DEF Sight, Measured

(* Every server holds what its scope tells.                                *)
LEMMA ServersMeasured ==
  ASSUME WorkspaceAssumption, IInv, Sight, [Next]_vars
  PROVE  \A s \in servers' : Described(s)
<1>1. CASE servers' \subseteq servers
  BY <1>1 DEF Sight, Measured
<1>2. ASSUME NEW j \in Jobs, Try(j)
      PROVE  \A s \in servers' : Described(s)
  BY <1>2, LaunchMeasured DEF Try, At, Knowing
<1>3. ASSUME NEW j \in Jobs, Serve(j)
      PROVE  \A s \in servers' : Described(s)
  <2>1. job[j].pc = "launch" /\ job[j].profile.scope = Scope(j)
    BY <1>3 DEF Serve, At, Sight, Seen, SeesTruly
  <2> QED
    BY <1>3, <2>1, LaunchMeasured DEF Serve, Knowing
<1> QED
  BY <1>1, <1>2, <1>3 DEF Next, vars, machine, Start, Acquire, Inspect, LookUp, Metadata,
     Hash, Confirm, Remember, Discover, Locate, Help, Digest, Build, Commit, Compile, RecordBuild,
     Tune, BeginTune, Reuse, EndTrial, WriteManifest, WriteLatest, Run, Check, Leave,
     Report, ReadProfile, ReadManifest, ReadHistory, Exit, Interrupt, Stop, Unlock, Die,
     Change, AllOver

(* Every step keeps what scopes tell.                                      *)
LEMMA SightContinues ==
  ASSUME WorkspaceAssumption, IInv, Sight, [Next]_vars
  PROVE  Sight'
<1>1. Measured'
  BY ServersMeasured, RowsMeasured
<1>2. ASSUME UNCHANGED <<script, shards, binaries, changes, job>>
      PROVE  Seen'
  BY <1>2 DEF Sight, Seen, SeesTruly, ModelIsCurrent, Scope, Shard
<1>3. ASSUME NEW j \in Jobs, Tune(j)
      PROVE  Seen'
  <2>1. CASE BeginTune(j)
    BY <2>1, SeenCheck DEF Sight
  <2>2. CASE Reuse(j) \/ EndTrial(j)
    <3>1. PICK row : Judge(j, row)
      BY <2>2 DEF Reuse, EndTrial
    <3>2. UNCHANGED <<script, shards, binaries, changes>>
      BY <2>2 DEF Reuse, EndTrial, world
    <3> QED
      BY <3>1, <3>2, SeenAside DEF Judge, Quit, Blindly, Sight
  <2>3. CASE Try(j) \/ WriteManifest(j) \/ WriteLatest(j)
    BY <2>3, SeenAside DEF Try, WriteManifest, WriteLatest, Quit, Blindly, Sight, world
  <2> QED
    BY <1>3, <2>1, <2>2, <2>3 DEF Tune
<1>4. ASSUME NEW j \in Jobs, Run(j)
      PROVE  Seen'
  BY <1>4, SeenCheck, SeenAside DEF Run, Serve, Leave, Quit, Blindly, Sight, world
<1>5. ASSUME NEW j \in Jobs, Report(j)
      PROVE  Seen'
  BY <1>5, SeenAside DEF Report, ReadProfile, ReadManifest, ReadHistory, Blindly, Sight, world
<1>6. ASSUME NEW j \in Jobs, Exit(j)
      PROVE  Seen'
  BY <1>6, SeenAside DEF Exit, Interrupt, Stop, Unlock, Die, Quit, Blindly, Sight, world
<1>7. Seen'
  BY <1>2, <1>3, <1>4, <1>5, <1>6, SeenStart, SeenInspect, SeenDiscover, SeenBuild,
     SeenChange DEF Sight, Next, vars, world, AllOver
<1> QED
  BY <1>1, <1>7 DEF Sight

(* What scopes tell holds throughout.                                      *)
LEMMA SightInvariant == Spec => []Sight
<1>1. Init => Sight
  <2> SUFFICES ASSUME Init
               PROVE  Sight
    OBVIOUS
  <2>1. \A j \in Jobs : /\ job[j].pc = "idle" /\ job[j].model = <<>>
                        /\ job[j].since = 0
    BY DEF Init, NoJob
  <2>2. \A j \in Jobs : ModelIsCurrent(j)
    BY <2>1 DEF ModelIsCurrent
  <2>3. Seen
    BY <2>1, <2>2 DEF Init, Seen, SeesTruly, Knowing, Seeing
  <2> QED
    BY <2>3 DEF Init, Sight, Measured
<1>2. Sight /\ IInv /\ [Next]_vars => Sight'
  BY WorkspaceAssumption, SightContinues
<1> QED
  BY <1>1, <1>2, Invariant, PTL DEF Spec

(* Whatever entries and rows a command reuses, whatever has been built,    *)
(* replaced or written to: of two servers of one scope, in a trial, in the *)
(* row behind a profile or under run, that were launched while the world   *)
(* stood still, both have loaded the same model into the same binary.      *)
THEOREM ServedCorrect == Spec => []ServesWhatWasMeasured
<1>1. Sight => ServesWhatWasMeasured
  <2> SUFFICES ASSUME Sight, NEW s \in servers \cup rows, NEW t \in servers \cup rows,
                      s.scope = t.scope, s.steady, t.steady
               PROVE  s.loaded = t.loaded /\ s.binary = t.binary
    BY DEF ServesWhatWasMeasured
  <2>1. Described(s) /\ Described(t)
    BY DEF Sight, Measured
  <2>2. \A n \in 1 .. Shards : s.loaded[n] = t.loaded[n]
    BY <2>1 DEF Described
  <2>3. s.loaded = t.loaded
    BY <2>1, <2>2 DEF Described
  <2> QED
    BY <2>1, <2>3 DEF Described
<1> QED
  BY <1>1, SightInvariant, PTL

-------------------------------------------------------------------------------
(* Builds.                                                                 *)

(* A build that was steady names the commit of the binary.                 *)
Traced(build, cap) == build.steady => cap = <<build.commit, build.commit>>

(* A build job has the lock: while nothing changes, its binary is of the   *)
(* commit that it has looked up before.                                    *)
Building(j) ==
  /\ script[j] = "build" /\ job[j].since = changes =>
       /\ job[j].pc = "cmake" => source = job[j].build.commit
       /\ job[j].pc \in {"help", "digest"} => binaries["built"] = job[j].build.commit
       /\ job[j].pc = "digest" => job[j].cap = <<job[j].build.commit>>
       /\ job[j].pc = "record" => job[j].cap = <<job[j].build.commit, job[j].build.commit>>
  /\ script[j] = "build" /\ job[j].pc \in {"cmake", "help", "digest"} => job[j].where = "built"
  /\ job[j].pc \in {"commit", "cmake", "record"} => script[j] = "build"
  /\ job[j].pc \in {"read"} \cup Looking => script[j] # "build"

TracedJob(j) ==
  /\ Building(j)
  /\ script[j] # "build" => Traced(job[j].build, job[j].build.cap)
  /\ job[j].pc = "tune" => Traced(job[j].build, job[j].cap)

TracedJobs == \A j \in Jobs : TracedJob(j)
Recorded == Traced(builds, builds.cap)
Tracing == TracedJobs /\ Recorded /\ TracedBuild

Outside == {"idle", "lock", "stop", "unlock", "done", "killed", "profile", "describe", "history",
            "told", "measure", "trial", "manifest", "write", "check", "launch", "serving", "refuse"}

(* A step of one job, for the others: only who has the lock builds.        *)
LEMMA TracedByOthers ==
  ASSUME IInv, TracedJobs, NEW j \in Jobs, NEW pc, Moved(j, pc), TracedJob(j)',
         UNCHANGED <<script, source, changes>>, binaries' = binaries \/ lock = j
  PROVE  TracedJobs'
<1> SUFFICES ASSUME NEW k \in Jobs, k # j PROVE TracedJob(k)'
  BY DEF TracedJobs
<1>1. job'[k] = job[k] /\ TracedJob(k)
  BY DEF Moved, TracedJobs
<1>2. job[k].pc \in {"help", "digest"} => binaries' = binaries
  BY HasLock DEF Exclusive
<1> QED
  BY <1>1, <1>2 DEF TracedJob, Building, Traced

(* A job that ends, or moves on and neither builds nor looks for a binary. *)
LEMMA TracedAside ==
  ASSUME IInv, TracedJobs, NEW j \in Jobs, NEW pc,
         pc \in Outside \/ (pc \in {"read"} \cup Looking /\ script[j] # "build"),
         \/ \E locals : Goto(j, pc, locals) /\ "build" \notin DOMAIN locals
         \/ job' = [job EXCEPT ![j] = NoJob(pc)],
         UNCHANGED <<script, source, changes>>, binaries' = binaries \/ lock = j
  PROVE  TracedJobs'
<1>1. Moved(j, pc) /\ job'[j].build \in {job[j].build, NoBuild}
  <2>1. ASSUME job' = [job EXCEPT ![j] = NoJob(pc)]
        PROVE  Moved(j, pc) /\ job'[j].build = NoBuild
    BY <2>1, NoJobEffect DEF NoJob, IInv, Files, JobType
  <2>2. ASSUME NEW locals, Goto(j, pc, locals), "build" \notin DOMAIN locals
        PROVE  Moved(j, pc) /\ job'[j].build = job[j].build
    BY <2>2, GotoEffect DEF IInv, Files, Fields
  <2> QED
    BY <2>1, <2>2
<1>2. job'[j].pc = pc
  BY <1>1 DEF Moved
<1>3. Building(j)'
  BY <1>2 DEF Building, Outside, Looking
<1>4. pc # "tune"
  BY DEF Outside, Looking
<1>5. TracedJob(j)'
  BY <1>1, <1>2, <1>3, <1>4 DEF TracedJob, TracedJobs, Traced, NoBuild
<1> QED
  BY <1>1, <1>5, TracedByOthers

(* A command that inspects is not a build.                                 *)
LEMMA TracedInspect ==
  ASSUME WorkspaceAssumption, IInv, TracedJobs, NEW j \in Jobs, Start(j) \/ Acquire(j) \/ Inspect(j)
  PROVE  TracedJobs'
<1>1. UNCHANGED <<script, source, changes, binaries>>
  BY DEF Start, Acquire, Inspect, LookUp, Metadata, Hash, Confirm, Remember, world
<1>2. ASSUME NEW pc \in {"stop", "done"}, job' = [job EXCEPT ![j] = NoJob(pc)] PROVE TracedJobs'
  BY <1>1, <1>2, TracedAside DEF Outside
<1>3. ASSUME NEW pc, NEW locals, Goto(j, pc, locals), "build" \notin DOMAIN locals,
             pc \in Outside \/ (pc \in {"read"} \cup Looking /\ script[j] # "build")
      PROVE  TracedJobs'
  BY <1>1, <1>3, TracedAside
<1>4. CASE Start(j)
  <2>1. PICK pc \in {"stat", "profile", "lock"} : \E locals :
          /\ Goto(j, pc, locals) /\ DOMAIN locals \subseteq {"sees", "since"}
          /\ pc = "stat" => script[j] = "inspect"
    BY <1>4, StartGoes
  <2>2. PICK locals : Goto(j, pc, locals) /\ DOMAIN locals \subseteq {"sees", "since"}
    BY <2>1
  <2>3. pc \in Outside \/ (pc \in {"read"} \cup Looking /\ script[j] # "build")
    BY <2>1 DEF Outside, Looking
  <2> QED
    BY <1>3, <2>2, <2>3
<1>5. CASE Acquire(j)
  <2>1. ASSUME script[j] = "build", Goto(j, "commit", <<>>) PROVE TracedJobs'
    <3>1. Moved(j, "commit") /\ job'[j].build = job[j].build
      BY <2>1, GotoEffect DEF IInv, Files, Fields
    <3>2. TracedJob(j)'
      BY <1>1, <2>1, <3>1 DEF TracedJob, Building, Moved, Looking
    <3> QED
      BY <1>1, <3>1, <3>2, TracedByOthers
  <2>2. ASSUME script[j] # "build", Goto(j, "stat", <<>>) PROVE TracedJobs'
    BY <1>3, <2>2 DEF Looking
  <2> QED
    BY <1>2, <1>5, <2>1, <2>2 DEF Acquire
<1>6. CASE Inspect(j)
  <2>1. job[j].pc \in Looking /\ script[j] # "build"
    BY <1>6 DEF Inspect, LookUp, Metadata, Hash, Confirm, Remember, At, Looking, TracedJobs, TracedJob, Building
  <2>2. ASSUME NEW pc \in Looking \cup {"read"}, NEW locals, Goto(j, pc, locals),
               "build" \notin DOMAIN locals
        PROVE  TracedJobs'
    BY <1>3, <2>1, <2>2
  <2>3. ASSUME NEW sha, Fingerprinted(j, sha) PROVE TracedJobs'
    BY <1>2, <2>2, <2>3 DEF Fingerprinted, Quit, Looking
  <2> QED
    BY <1>2, <1>6, <2>2, <2>3 DEF Inspect, LookUp, Metadata, Hash, Confirm, Remember, Quit, Looking
<1> QED
  BY <1>4, <1>5, <1>6

(* What is found of the binary, and of the build it is from.               *)
LEMMA TracedDiscover ==
  ASSUME WorkspaceAssumption, IInv, Typed, TracedJobs, Recorded, NEW j \in Jobs, Discover(j)
  PROVE  TracedJobs'
<1>1. UNCHANGED <<script, source, changes, binaries>>
  BY DEF Discover, Locate, Help, Digest, world
<1>2. TracedJob(j) /\ JobType
  BY DEF TracedJobs, IInv, Files
<1>3. CASE Locate(j)
  <2>1. script[j] # "build"
    BY <1>2, <1>3 DEF Locate, At, TracedJob, Building
  <2>2. ASSUME Quit(j) PROVE TracedJobs'
    BY <1>1, <2>2, TracedAside DEF Outside, Quit
  <2>3. ASSUME NEW profile, NEW where,
               Goto(j, "help", [profile |-> profile, build |-> builds, where |-> where])
        PROVE  TracedJobs'
    <3>1. Moved(j, "help") /\ job'[j].build = builds
      BY <1>2, <2>3, GotoEffect DEF Fields
    <3>2. TracedJob(j)'
      BY <1>1, <2>1, <3>1 DEF TracedJob, Building, Moved, Recorded, Looking
    <3> QED
      BY <1>1, <3>1, <3>2, TracedByOthers
  <2> QED
    BY <1>3, <2>2, <2>3 DEF Locate
<1>4. CASE Help(j)
  <2> DEFINE version == binaries[job[j].where]
  <2>1. Goto(j, "digest", [cap |-> <<version>>]) /\ job[j].pc = "help"
    BY <1>4 DEF Help, At
  <2> HIDE DEF version
  <2>2. /\ Moved(j, "digest") /\ job'[j].cap = <<version>> /\ job'[j].build = job[j].build
        /\ job'[j].since = job[j].since /\ job'[j].where = job[j].where
    BY <1>2, <2>1, GotoEffect DEF Fields
  <2>3. TracedJob(j)'
    BY <1>1, <1>2, <2>1, <2>2 DEF TracedJob, Building, Moved, Looking, Traced, version
  <2> QED
    BY <1>1, <2>2, <2>3, TracedByOthers
<1>5. CASE Digest(j)
  <2> DEFINE version == binaries[job[j].where]
             cap == Append(job[j].cap, version)
             build == OfBuild(job[j].build, cap)
  <2>1. job[j].pc = "digest"
    BY <1>5 DEF Digest, At
  <2>2. CASE script[j] = "build"
    <3>1. Goto(j, "record", [cap |-> cap])
      BY <1>5, <2>2 DEF Digest
    <3>2. job[j].since = changes =>
            cap = <<job[j].build.commit, job[j].build.commit>>
      BY <1>2, <2>1, <2>2, AppendToOne DEF TracedJob, Building
    <3> HIDE DEF cap
    <3>3. /\ Moved(j, "record") /\ job'[j].cap = cap /\ job'[j].build = job[j].build
          /\ job'[j].since = job[j].since
      BY <1>2, <3>1, GotoEffect DEF Fields
    <3>4. TracedJob(j)'
      BY <1>1, <2>2, <3>2, <3>3 DEF TracedJob, Building, Moved, Looking
    <3> QED
      BY <1>1, <3>3, <3>4, TracedByOthers
  <2>3. CASE script[j] # "build"
    <3> DEFINE pc == IF script[j] = "tune" THEN "tune" ELSE "check"
    <3>1. Goto(j, pc, [cap |-> cap, build |-> build])
      BY <1>5, <2>3 DEF Digest
    <3>2. pc \in {"tune", "check"}
      OBVIOUS
    <3>3. Traced(build, build.cap) /\ Traced(build, cap)
      BY <1>2, <2>3 DEF TracedJob, Traced, OfBuild, NoBuild
    <3> HIDE DEF cap, build, pc
    <3>4. Moved(j, pc) /\ job'[j].cap = cap /\ job'[j].build = build
      BY <1>2, <3>1, GotoEffect DEF Fields
    <3>5. Building(j)'
      BY <1>1, <2>3, <3>2, <3>4 DEF Building, Moved, Looking
    <3>6. TracedJob(j)'
      BY <3>3, <3>4, <3>5 DEF TracedJob, Traced
    <3> QED
      BY <1>1, <3>4, <3>6, TracedByOthers
  <2> QED
    BY <2>2, <2>3
<1> QED
  BY <1>3, <1>4, <1>5 DEF Discover

(* A build looks the commit up, builds, and looks at what it has built.    *)
LEMMA TracedBuilding ==
  ASSUME WorkspaceAssumption, IInv, Typed, TracedJobs, NEW j \in Jobs, Build(j)
  PROVE  TracedJobs'
<1>1. TracedJob(j) /\ JobType /\ UNCHANGED <<script, source, changes>> /\ lock = j
  BY HasLock DEF TracedJobs, IInv, Files, Build, Commit, Compile, RecordBuild, world, At, Exclusive
<1>2. ASSUME Quit(j) PROVE TracedJobs'
  BY <1>1, <1>2, TracedAside DEF Outside, Quit
<1>3. CASE Commit(j)
  <2> DEFINE build == [NoBuild EXCEPT !.commit = source]
  <2>1. /\ Goto(j, "cmake", [build |-> build, where |-> "built", since |-> changes])
        /\ script[j] = "build"
    BY <1>1, <1>3 DEF Commit, At, TracedJob, Building
  <2>2. build.commit = source /\ build.steady = FALSE
    BY DEF NoBuild
  <2> HIDE DEF build
  <2>3. Moved(j, "cmake") /\ job'[j].build = build /\ job'[j].where = "built"
    BY <1>1, <2>1, GotoEffect DEF Fields
  <2>4. TracedJob(j)'
    BY <1>1, <2>1, <2>2, <2>3 DEF TracedJob, Building, Moved, Looking
  <2> QED
    BY <1>1, <2>3, <2>4, TracedByOthers
<1>4. CASE Compile(j)
  <2>1. ASSUME binaries' = [binaries EXCEPT !["built"] = source], Goto(j, "help", <<>>),
               binaries \in [Places -> Versions]
        PROVE  TracedJobs'
    <3>1. job[j].pc = "cmake" /\ script[j] = "build"
      BY <1>1, <1>4 DEF Compile, At, TracedJob, Building
    <3>2. /\ Moved(j, "help") /\ job'[j].build = job[j].build /\ job'[j].where = job[j].where
          /\ job'[j].since = job[j].since
      BY <1>1, <2>1, GotoEffect DEF Fields
    <3>3. binaries'["built"] = source
      BY <2>1 DEF Places
    <3>4. TracedJob(j)'
      BY <1>1, <3>1, <3>2, <3>3 DEF TracedJob, Building, Moved, Looking
    <3> QED
      BY <1>1, <3>2, <3>4, TracedByOthers
  <2> QED
    BY <1>2, <1>4, <2>1 DEF Compile, Typed, Clock
<1>5. CASE RecordBuild(j)
  BY <1>2, <1>5 DEF RecordBuild
<1> QED
  BY <1>3, <1>4, <1>5 DEF Build

(* Every step keeps what the jobs know of builds.                          *)
LEMMA TracedJobsNext ==
  ASSUME WorkspaceAssumption, IInv, Typed, Tracing, [Next]_vars
  PROVE  TracedJobs'
<1> USE DEF Tracing
<1>1. ASSUME NEW j \in Jobs, NEW pc \in Outside,
             \/ \E locals : Goto(j, pc, locals) /\ "build" \notin DOMAIN locals
             \/ job' = [job EXCEPT ![j] = NoJob(pc)],
             UNCHANGED <<script, source, changes, binaries>>
      PROVE  TracedJobs'
  BY <1>1, TracedAside
<1>2. ASSUME NEW j \in Jobs, Quit(j), UNCHANGED <<script, source, changes, binaries>>
      PROVE  TracedJobs'
  BY <1>1, <1>2 DEF Quit, Outside
<1>3. ASSUME NEW j \in Jobs, Tune(j) PROVE TracedJobs'
  <2>1. UNCHANGED <<script, source, changes, binaries>>
    BY <1>3 DEF Tune, BeginTune, Reuse, Try, EndTrial, WriteManifest, WriteLatest, world
  <2>2. ASSUME NEW row, Judge(j, row) PROVE TracedJobs'
    BY <1>1, <1>2, <2>1, <2>2 DEF Judge, Outside
  <2>3. ASSUME NEW pc \in {"measure", "trial", "write"}, NEW locals, Goto(j, pc, locals),
               "build" \notin DOMAIN locals
        PROVE  TracedJobs'
    BY <1>1, <2>1, <2>3 DEF Outside
  <2>4. CASE BeginTune(j)
    BY <2>3, <2>4 DEF BeginTune
  <2> QED
    BY <1>2, <1>3, <2>1, <2>2, <2>3, <2>4 DEF Tune, Reuse, Try, EndTrial, WriteManifest, WriteLatest
<1>4. ASSUME NEW j \in Jobs, Run(j) \/ Report(j) \/ Exit(j) PROVE TracedJobs'
  <2>1. UNCHANGED <<script, source, changes, binaries>>
    BY <1>4 DEF Run, Check, Serve, Leave, Report, ReadProfile, ReadManifest, ReadHistory, Exit,
       Interrupt, Stop, Unlock, Die, world
  <2>2. ASSUME NEW pc \in {"launch", "refuse", "serving", "done", "unlock", "describe", "history",
                           "told"},
               NEW locals, Goto(j, pc, locals), "build" \notin DOMAIN locals
        PROVE  TracedJobs'
    BY <1>1, <2>1, <2>2 DEF Outside
  <2>3. ASSUME NEW pc \in {"done", "killed"}, job' = [job EXCEPT ![j] = NoJob(pc)]
        PROVE  TracedJobs'
    BY <1>1, <2>1, <2>3 DEF Outside
  <2>4. CASE Run(j)
    BY <1>2, <2>1, <2>2, <2>4 DEF Run, Check, Serve, Leave
  <2>5. CASE Report(j)
    <3>1. CASE ReadProfile(j)
      BY <2>2, <3>1 DEF ReadProfile
    <3>2. CASE ReadManifest(j)
      <4>1. PICK manifest : Goto(j, "history", [manifest |-> manifest])
        BY <3>2 DEF ReadManifest
      <4> QED
        BY <2>2, <4>1
    <3>3. CASE ReadHistory(j)
      BY <2>2, <3>3 DEF ReadHistory
    <3> QED
      BY <2>5, <3>1, <3>2, <3>3 DEF Report
  <2>6. CASE Exit(j)
    BY <1>2, <2>1, <2>2, <2>3, <2>6 DEF Exit, Interrupt, Stop, Unlock, Die
  <2> QED
    BY <1>4, <2>4, <2>5, <2>6
<1>5. CASE Change
  <2>1. UNCHANGED <<script, job>> /\ changes' = changes + 1
    BY <1>5 DEF Change
  <2>2. \A j \in Jobs : job[j].since # changes'
    BY <2>1 DEF Typed, Clock, JobsTyped, JobTyped
  <2> QED
    BY <2>1, <2>2 DEF TracedJobs, TracedJob, Building, Traced
<1>6. ASSUME UNCHANGED vars PROVE TracedJobs'
  BY <1>6 DEF vars, world, TracedJobs, TracedJob, Building, Traced
<1> QED
  BY <1>3, <1>4, <1>5, <1>6, TracedInspect, TracedDiscover, TracedBuilding DEF Next, AllOver

(* What is recorded of a build was found by the job that built it.         *)
LEMMA RecordedNext ==
  ASSUME WorkspaceAssumption, IInv, Typed, Tracing, [Next]_vars
  PROVE  Recorded'
<1>1. ASSUME NEW j \in Jobs, RecordBuild(j) PROVE Recorded'
  <2>1. TracedJob(j) /\ JobTyped(j) /\ job[j].pc = "record"
    BY <1>1 DEF Tracing, TracedJobs, Typed, JobsTyped, RecordBuild, At
  <2>2. builds' = [job[j].build EXCEPT !.cap = job[j].cap, !.steady = job[j].since = changes]
    BY <1>1 DEF RecordBuild
  <2>3. /\ builds'.cap = job[j].cap /\ builds'.steady = (job[j].since = changes)
        /\ builds'.commit = job[j].build.commit
    BY <2>1, <2>2 DEF JobTyped, Builds
  <2> QED
    BY <2>1, <2>3 DEF TracedJob, Building, Recorded, Traced
<1>2. ASSUME UNCHANGED builds PROVE Recorded'
  BY <1>2 DEF Tracing, Recorded, Traced
<1>3. (\E j \in Jobs : RecordBuild(j)) \/ UNCHANGED builds
  BY DEF Next, vars, files, Start, Acquire, Inspect, LookUp, Metadata,
     Hash, Confirm, Remember, Discover, Locate, Help, Digest, Build, Commit, Compile,
     Tune, BeginTune, Reuse, Try, EndTrial, WriteManifest, WriteLatest, Run, Check, Serve, Leave,
     Report, ReadProfile, ReadManifest, ReadHistory, Exit, Interrupt, Stop, Unlock, Die,
     Change, AllOver
<1> QED
  BY <1>1, <1>2, <1>3

(* A manifest is given the build of the binary that its tune has found.    *)
LEMMA TracedManifests ==
  ASSUME WorkspaceAssumption, IInv, Story, Tracing, [Next]_vars
  PROVE  TracedBuild'
<1> USE DEF Tracing
<1>0. \A scope \in DOMAIN manifests : Traced(manifests[scope].build, scope[3])
  BY DEF TracedBuild, Traced
<1>1. ASSUME NEW j \in Jobs, BeginTune(j) PROVE TracedBuild'
  <2> SUFFICES ASSUME NEW scope \in DOMAIN manifests'
               PROVE  manifests'[scope].build.steady =>
                        scope[3] = <<manifests'[scope].build.commit, manifests'[scope].build.commit>>
    BY DEF TracedBuild
  <2>1. CASE scope = Scope(j)
    <3>1. manifests'[scope].build = job[j].build /\ scope[3] = job[j].cap
      BY <1>1, <2>1 DEF BeginTune, Scope
    <3>2. Traced(job[j].build, job[j].cap)
      BY <1>1 DEF BeginTune, At, TracedJobs, TracedJob
    <3> QED
      BY <3>1, <3>2 DEF Traced
  <2>2. CASE scope # Scope(j)
    <3>1. scope \in DOMAIN manifests /\ manifests'[scope] = manifests[scope]
      BY <1>1, <2>2 DEF BeginTune
    <3> QED
      BY <1>0, <3>1 DEF Traced
  <2> QED
    BY <2>1, <2>2
<1>2. ASSUME NEW j \in Jobs, WriteManifest(j) PROVE TracedBuild'
  <2>1. manifests' = [manifests EXCEPT ![Scope(j)].final = TRUE]
    BY <1>2 DEF WriteManifest
  <2>2. Scope(j) \in DOMAIN manifests /\ DOMAIN manifests[Scope(j)] = {"turn", "final", "build"}
    BY <1>2 DEF WriteManifest, At, Story, Tuning, Written, Searching
  <2>3. DOMAIN manifests' = DOMAIN manifests
    BY <2>1
  <2>4. \A scope \in DOMAIN manifests : manifests'[scope].build = manifests[scope].build
    BY <2>1, <2>2
  <2> QED
    BY <1>0, <2>3, <2>4 DEF TracedBuild, Traced
<1>3. ASSUME UNCHANGED manifests PROVE TracedBuild'
  BY <1>3 DEF TracedBuild
<1>4. (\E j \in Jobs : BeginTune(j) \/ WriteManifest(j)) \/ UNCHANGED manifests
  BY DEF Next, vars, files, Start, Acquire, Inspect, LookUp, Metadata,
     Hash, Confirm, Remember, Discover, Locate, Help, Digest, Build, Commit, Compile, RecordBuild,
     Tune, Reuse, Try, EndTrial, WriteLatest, Run, Check, Serve, Leave,
     Report, ReadProfile, ReadManifest, ReadHistory, Exit, Interrupt, Stop, Unlock, Die,
     Change, AllOver
<1> QED
  BY <1>1, <1>2, <1>3, <1>4

(* A manifest names the commit its binary was built from, or none, however *)
(* builds fail, are killed or are overtaken by builds by hand: a build has *)
(* the lock from the look at git to the record, and a tune takes the last  *)
(* build for its binary's only if it has found just this binary.           *)
THEOREM TracedCorrect == Spec => []TracedBuild
<1>1. Init => Tracing
  <2> SUFFICES ASSUME Init PROVE Tracing
    OBVIOUS
  <2>1. \A j \in Jobs : job[j].pc = "idle" /\ job[j].build = NoBuild
    BY DEF Init, NoJob
  <2>2. TracedJobs
    BY <2>1 DEF TracedJobs, TracedJob, Building, Traced, Looking, NoBuild
  <2> QED
    BY <2>2 DEF Init, Tracing, Recorded, Traced, NoBuild, TracedBuild
<1>2. Tracing /\ Story /\ Typed /\ IInv /\ [Next]_vars => Tracing'
  <2> SUFFICES ASSUME Tracing, Story, Typed, IInv, [Next]_vars PROVE Tracing'
    OBVIOUS
  <2> QED
    BY WorkspaceAssumption, TracedJobsNext, RecordedNext, TracedManifests DEF Tracing
<1>3. Tracing => TracedBuild
  BY DEF Tracing
<1> QED
  BY <1>1, <1>2, <1>3, Invariant, TypesInvariant, StoryInvariant, PTL DEF Spec

-------------------------------------------------------------------------------
(* Profiles that run takes.                                                *)

(* The scope of the world as it is, for a binary.                          *)
Present(j, where) ==
  <<job[j].sees, [n \in 1 .. Shards |-> Last(shards[n])], <<binaries[where], binaries[where]>>>>

(* run decides on the profile that was the latest when it looked for the   *)
(* binary, and still is: no tune writes while run has the lock.            *)
Choosing(j) ==
  /\ job[j].pc \in {"lock", "read", "help", "digest"} \cup Looking => script[j] # "report"
  /\ job[j].pc \in {"lock", "read", "help", "digest"} => script[j] # "inspect"
  /\ job[j].pc \in {"check", "refuse"} => script[j] = "run"
  /\ script[j] = "run" /\ job[j].pc \in {"help", "digest", "check", "refuse"} =>
       job[j].profile = latest /\ (latest # NoProfile => job[j].where = latest.where)
  /\ job[j].pc \in {"check", "refuse"} /\ job[j].since = changes =>
       Scope(j) = Present(j, job[j].where)
  /\ job[j].pc = "refuse" => ~Current(j, job[j].profile)

Chosen == \A j \in Jobs : Choosing(j)

(* A step of one job, for the others: only who has the lock writes.        *)
LEMMA ChosenByOthers ==
  ASSUME IInv, Chosen, NEW j \in Jobs, NEW pc, Moved(j, pc), Choosing(j)',
         UNCHANGED <<script, shards, changes>>, UNCHANGED <<binaries, latest>> \/ lock = j
  PROVE  Chosen'
<1> SUFFICES ASSUME NEW k \in Jobs, k # j PROVE Choosing(k)'
  BY DEF Chosen
<1>1. job'[k] = job[k] /\ Choosing(k)
  BY DEF Moved, Chosen
<1>2. job[k].pc \in {"help", "digest", "check", "refuse"} => UNCHANGED <<binaries, latest>>
  BY HasLock DEF Exclusive
<1> QED
  BY <1>1, <1>2 DEF Choosing, Present, Scope, Current

Deciding == {"lock", "read", "help", "digest", "check", "refuse"} \cup Looking

(* A job that decides nothing.                                             *)
LEMMA ChosenAside ==
  ASSUME IInv, Chosen, NEW j \in Jobs, NEW pc, pc \notin Deciding,
         (\E locals : Goto(j, pc, locals)) \/ job' = [job EXCEPT ![j] = NoJob(pc)],
         UNCHANGED <<script, shards, changes>>, UNCHANGED <<binaries, latest>> \/ lock = j
  PROVE  Chosen'
<1>1. Moved(j, pc)
  BY GotoEffect, NoJobEffect DEF IInv, Files
<1>2. Choosing(j)'
  BY <1>1 DEF Choosing, Moved, Deciding
<1> QED
  BY <1>1, <1>2, ChosenByOthers

(* A command that starts or inspects: report does not, and inspect goes no *)
(* further.                                                                *)
LEMMA ChosenInspect ==
  ASSUME WorkspaceAssumption, IInv, Chosen, NEW j \in Jobs, Start(j) \/ Acquire(j) \/ Inspect(j)
  PROVE  Chosen'
<1>1. UNCHANGED <<script, shards, changes, binaries, latest>> /\ Choosing(j)
  BY DEF Start, Acquire, Inspect, LookUp, Metadata, Hash, Confirm, Remember, world, files, Chosen
<1>2. ASSUME NEW pc \in {"stop", "done"}, job' = [job EXCEPT ![j] = NoJob(pc)] PROVE Chosen'
  BY <1>1, <1>2, ChosenAside DEF Deciding, Looking
<1>3. ASSUME NEW pc \in {"lock", "commit", "profile", "read"} \cup Looking, NEW locals,
             Goto(j, pc, locals),
             pc \in {"lock", "read"} \cup Looking => script[j] # "report",
             pc \in {"lock", "read"} => script[j] # "inspect"
      PROVE  Chosen'
  <2>1. Moved(j, pc)
    BY <1>3, GotoEffect DEF IInv, Files
  <2>2. Choosing(j)'
    BY <1>1, <1>3, <2>1 DEF Choosing, Moved, Looking
  <2> QED
    BY <1>1, <2>1, <2>2, ChosenByOthers
<1>4. CASE Start(j)
  <2>1. PICK pc, locals :
          /\ pc \in {"stat", "profile", "lock"}
          /\ Goto(j, pc, locals)
          /\ pc = "stat" => script[j] = "inspect"
          /\ pc = "lock" => script[j] \in {"build", "tune", "run"}
    BY <1>4, StartGoes
  <2> QED
    BY <1>3, <2>1 DEF Looking
<1>5. CASE Acquire(j)
  <2>1. job[j].pc = "lock" /\ script[j] # "report"
    BY <1>1, <1>5 DEF Acquire, At, Choosing
  <2>2. ASSUME NEW pc \in {"commit", "stat"}, Goto(j, pc, <<>>) PROVE Chosen'
    BY <1>3, <2>1, <2>2 DEF Looking
  <2> QED
    BY <1>2, <1>5, <2>2 DEF Acquire
<1>6. CASE Inspect(j)
  <2>1. job[j].pc \in Looking /\ script[j] # "report"
    BY <1>1, <1>6 DEF Inspect, LookUp, Metadata, Hash, Confirm, Remember, At, Looking, Choosing
  <2>2. ASSUME NEW pc \in Looking, NEW locals, Goto(j, pc, locals) PROVE Chosen'
    BY <1>3, <2>1, <2>2 DEF Looking
  <2>3. ASSUME NEW sha, Fingerprinted(j, sha) PROVE Chosen'
    <3>1. CASE Quit(j)
      BY <1>2, <3>1 DEF Quit
    <3>2. CASE ~(Shard(j) = Shards /\ script[j] = "inspect")
      <4> DEFINE pc == IF Shard(j) < Shards THEN "stat" ELSE "read"
      <4>1. PICK locals : Goto(j, pc, locals)
        BY <2>3, <3>2 DEF Fingerprinted
      <4>2. Shard(j) \in 1 .. Shards
        BY <2>1, ShardExists DEF IInv, Early
      <4>3. pc \in {"stat", "read"} /\ (pc = "read" => script[j] # "inspect")
        BY <3>2, <4>2 DEF WorkspaceAssumption
      <4> HIDE DEF pc
      <4> QED
        BY <1>3, <2>1, <4>1, <4>3 DEF Looking
    <3> QED
      BY <2>3, <3>1, <3>2 DEF Fingerprinted
  <2> QED
    BY <1>2, <1>6, <2>2, <2>3 DEF Inspect, LookUp, Metadata, Hash, Confirm, Remember, Quit, Looking
<1> QED
  BY <1>4, <1>5, <1>6

(* run looks for the binary of the latest profile, and at it.              *)
LEMMA ChosenDiscover ==
  ASSUME WorkspaceAssumption, IInv, Typed, Seen, Chosen, NEW j \in Jobs, Discover(j)
  PROVE  Chosen'
<1>1. UNCHANGED <<script, shards, changes, binaries, latest>> /\ Choosing(j) /\ JobType
  BY DEF Discover, Locate, Help, Digest, world, files, Chosen, IInv, Files
<1>2. job[j].pc \in {"read", "help", "digest"} /\ script[j] \notin {"inspect", "report"}
  BY <1>1 DEF Discover, Locate, Help, Digest, At, Choosing
<1>3. CASE Locate(j)
  <2> DEFINE profile == IF script[j] = "run" THEN latest ELSE NoProfile
             where == IF profile # NoProfile THEN profile.where
                      ELSE IF builds # NoBuild THEN "built" ELSE "path"
  <2>1. CASE Quit(j)
    BY <1>1, <2>1, ChosenAside DEF Quit, Deciding, Looking
  <2>2. ASSUME Goto(j, "help", [profile |-> profile, build |-> builds, where |-> where])
        PROVE  Chosen'
    <3>1. script[j] = "run" => profile = latest /\ (latest # NoProfile => where = latest.where)
      OBVIOUS
    <3> HIDE DEF profile, where
    <3>2. Moved(j, "help") /\ job'[j].profile = profile /\ job'[j].where = where
      BY <1>1, <2>2, GotoEffect DEF Fields
    <3>3. Choosing(j)'
      BY <1>1, <1>2, <3>1, <3>2 DEF Choosing, Moved, Looking
    <3> QED
      BY <1>1, <3>2, <3>3, ChosenByOthers
  <2> QED
    BY <1>3, <2>1, <2>2 DEF Locate
<1>4. CASE Help(j)
  <2>1. PICK cap : Goto(j, "digest", [cap |-> cap])
    BY <1>4 DEF Help
  <2>2. Moved(j, "digest") /\ job'[j].profile = job[j].profile /\ job'[j].where = job[j].where
    BY <1>1, <2>1, GotoEffect DEF Fields
  <2>3. Choosing(j)'
    BY <1>1, <1>2, <1>4, <2>2 DEF Help, At, Choosing, Moved, Looking
  <2> QED
    BY <1>1, <2>2, <2>3, ChosenByOthers
<1>5. CASE Digest(j)
  <2> DEFINE version == binaries[job[j].where]
             cap == Append(job[j].cap, version)
             build == OfBuild(job[j].build, cap)
  <2>1. job[j].pc = "digest" /\ SeesTruly(j)
    BY <1>5 DEF Digest, At, Seen
  <2>2. ASSUME NEW pc \in {"record", "tune"}, NEW locals, Goto(j, pc, locals) PROVE Chosen'
    BY <1>1, <2>2, ChosenAside DEF Deciding, Looking
  <2>3. ASSUME script[j] \notin {"build", "tune"}, Goto(j, "check", [cap |-> cap, build |-> build])
        PROVE  Chosen'
    <3>1. job[j].since = changes => cap = <<version, version>>
      BY <2>1, <2>3, AppendToOne DEF SeesTruly
    <3>2. job[j].since = changes => job[j].model = [n \in 1 .. Shards |-> Last(shards[n])]
      <4> SUFFICES ASSUME job[j].since = changes
                   PROVE  job[j].model = [n \in 1 .. Shards |-> Last(shards[n])]
        OBVIOUS
      <4>1. Len(job[j].model) = Shards /\ ModelIsCurrent(j)
        BY <2>1, <2>3 DEF SeesTruly, Seeing
      <4>2. job[j].model \in [1 .. Shards -> Sums]
        BY <4>1 DEF IInv, Files, LookType
      <4> QED
        BY <4>1, <4>2 DEF ModelIsCurrent
    <3>3. script[j] = "run"
      BY <1>2, <2>3 DEF WorkspaceAssumption, Typed, Decided, Commands
    <3> HIDE DEF cap, build
    <3>4. /\ Moved(j, "check") /\ job'[j].profile = job[j].profile /\ job'[j].where = job[j].where
          /\ job'[j].cap = cap /\ job'[j].model = job[j].model /\ job'[j].sees = job[j].sees
          /\ job'[j].since = job[j].since
      BY <1>1, <2>3, GotoEffect DEF Fields
    <3>5. job'[j].since = changes => Scope(j)' = Present(j, job[j].where)'
      BY <1>1, <3>1, <3>2, <3>4 DEF Scope, Present
    <3>6. Choosing(j)'
      BY <1>1, <2>1, <3>3, <3>4, <3>5 DEF Choosing, Moved, Looking, Present
    <3> QED
      BY <1>1, <3>4, <3>6, ChosenByOthers
  <2> QED
    BY <1>5, <2>2, <2>3 DEF Digest
<1> QED
  BY <1>3, <1>4, <1>5 DEF Discover

(* run refuses a profile that is not of its scope.                         *)
LEMMA ChosenCheck ==
  ASSUME IInv, Chosen, NEW j \in Jobs, Check(j)
  PROVE  Chosen'
<1>1. /\ UNCHANGED <<script, shards, changes, binaries, latest>> /\ Choosing(j) /\ JobType
      /\ job[j].pc = "check"
  BY DEF Check, world, files, Chosen, IInv, Files, At
<1>2. CASE Current(j, job[j].profile)
  BY <1>1, <1>2, ChosenAside DEF Check, Deciding, Looking
<1>3. CASE ~Current(j, job[j].profile)
  <2>1. Goto(j, "refuse", <<>>)
    BY <1>3 DEF Check
  <2>2. /\ Moved(j, "refuse") /\ job'[j].profile = job[j].profile /\ job'[j].where = job[j].where
        /\ job'[j].cap = job[j].cap /\ job'[j].model = job[j].model /\ job'[j].sees = job[j].sees
        /\ job'[j].since = job[j].since
    BY <1>1, <2>1, GotoEffect DEF Fields
  <2>3. Choosing(j)'
    BY <1>1, <1>3, <2>2 DEF Choosing, Moved, Looking, Present, Scope, Current
  <2> QED
    BY <1>1, <2>2, <2>3, ChosenByOthers
<1> QED
  BY <1>2, <1>3

(* Every step keeps the reasons to refuse.                                 *)
LEMMA ChosenNext ==
  ASSUME WorkspaceAssumption, IInv, Typed, Seen, Chosen, [Next]_vars
  PROVE  Chosen'
<1>1. ASSUME NEW j \in Jobs, NEW pc, pc \notin Deciding,
             (\E locals : Goto(j, pc, locals)) \/ job' = [job EXCEPT ![j] = NoJob(pc)],
             UNCHANGED <<script, shards, changes>>, UNCHANGED <<binaries, latest>> \/ lock = j
      PROVE  Chosen'
  BY <1>1, ChosenAside
<1>2. ASSUME NEW j \in Jobs, Quit(j),
             UNCHANGED <<script, shards, changes>>, UNCHANGED <<binaries, latest>> \/ lock = j
      PROVE  Chosen'
  BY <1>1, <1>2 DEF Quit, Deciding, Looking
<1>3. ASSUME NEW j \in Jobs, Build(j) PROVE Chosen'
  <2>1. UNCHANGED <<script, shards, changes>> /\ lock = j
    BY <1>3, HasLock DEF Build, Commit, Compile, RecordBuild, world, At, Exclusive
  <2>2. ASSUME NEW locals, Goto(j, "cmake", locals) PROVE Chosen'
    BY <1>1, <2>1, <2>2 DEF Deciding, Looking
  <2>3. CASE Commit(j)
    BY <2>2, <2>3 DEF Commit
  <2>4. CASE Compile(j)
    <3>1. ASSUME Goto(j, "help", <<>>), script[j] = "build" PROVE Chosen'
      <4>1. Moved(j, "help")
        BY <3>1, GotoEffect DEF IInv, Files
      <4>2. Choosing(j)'
        BY <2>1, <3>1, <4>1 DEF Choosing, Moved, Looking
      <4> QED
        BY <2>1, <4>1, <4>2, ChosenByOthers
    <3>2. script[j] = "build"
      BY <2>4 DEF Compile, At, Seen, SeesTruly
    <3> QED
      BY <1>2, <2>1, <2>4, <3>1, <3>2 DEF Compile
  <2> QED
    BY <1>2, <1>3, <2>1, <2>3, <2>4 DEF Build, RecordBuild
<1>4. ASSUME NEW j \in Jobs, Tune(j) PROVE Chosen'
  <2>1. UNCHANGED <<script, shards, changes>> /\ lock = j
    BY <1>4, HasLock DEF Tune, BeginTune, Reuse, Try, EndTrial, WriteManifest, WriteLatest,
       world, At, Exclusive
  <2>2. ASSUME NEW pc \in {"measure", "trial", "manifest", "write"}, NEW locals, Goto(j, pc, locals)
        PROVE  Chosen'
    BY <1>1, <2>1, <2>2 DEF Deciding, Looking
  <2>3. ASSUME NEW row, Judge(j, row) PROVE Chosen'
    BY <1>2, <2>1, <2>2, <2>3 DEF Judge
  <2>4. CASE BeginTune(j)
    BY <2>2, <2>4 DEF BeginTune
  <2> QED
    BY <1>2, <1>4, <2>1, <2>2, <2>3, <2>4 DEF Tune, Reuse, Try, EndTrial, WriteManifest, WriteLatest
<1>5. ASSUME NEW j \in Jobs, Serve(j) \/ Leave(j) \/ Report(j) \/ Exit(j) PROVE Chosen'
  <2>1. UNCHANGED <<script, shards, changes, binaries, latest>>
    BY <1>5 DEF Serve, Leave, Report, ReadProfile, ReadManifest, ReadHistory, Exit,
       Interrupt, Stop, Unlock, Die, world, files
  <2>2. ASSUME NEW pc \in {"serving", "done", "unlock", "describe", "history", "told"},
               NEW locals, Goto(j, pc, locals)
        PROVE  Chosen'
    BY <1>1, <2>1, <2>2 DEF Deciding, Looking
  <2>3. ASSUME NEW pc \in {"done", "killed"}, job' = [job EXCEPT ![j] = NoJob(pc)]
        PROVE  Chosen'
    BY <1>1, <2>1, <2>3 DEF Deciding, Looking
  <2>4. CASE Serve(j) \/ Leave(j)
    BY <1>2, <2>1, <2>2, <2>4 DEF Serve, Leave
  <2>5. CASE Report(j)
    BY <2>2, <2>5 DEF Report, ReadProfile, ReadManifest, ReadHistory
  <2>6. CASE Exit(j)
    BY <1>2, <2>1, <2>2, <2>3, <2>6 DEF Exit, Interrupt, Stop, Unlock, Die
  <2> QED
    BY <1>5, <2>4, <2>5, <2>6
<1>6. CASE Change
  <2>1. UNCHANGED <<script, job, latest>> /\ changes' = changes + 1
    BY <1>6 DEF Change, files
  <2>2. \A j \in Jobs : job[j].since # changes'
    BY <2>1 DEF Seen, SeesTruly
  <2> QED
    BY <2>1, <2>2 DEF Chosen, Choosing, Current, Scope
<1>7. ASSUME UNCHANGED vars PROVE Chosen'
  BY <1>7 DEF vars, world, files, Chosen, Choosing, Current, Scope, Present
<1> QED
  BY <1>3, <1>4, <1>5, <1>6, <1>7, ChosenInspect, ChosenDiscover, ChosenCheck DEF Next, AllOver, Run

(* The latest profile is that of the last tune that came to its end.       *)
LEMMA LatestNext == latest = tuned /\ [Next]_vars => latest' = tuned'
<1> SUFFICES ASSUME latest = tuned, [Next]_vars PROVE latest' = tuned'
  OBVIOUS
<1>1. (\E j \in Jobs : WriteLatest(j)) \/ UNCHANGED <<latest, tuned>>
  BY DEF Next, vars, files, history, Start, Acquire, Inspect, LookUp, Metadata,
     Hash, Confirm, Remember, Discover, Locate, Help, Digest, Build, Commit, Compile, RecordBuild,
     Tune, BeginTune, Reuse, Try, EndTrial, WriteManifest, Run, Check, Serve, Leave,
     Report, ReadProfile, ReadManifest, ReadHistory, Exit, Interrupt, Stop, Unlock, Die,
     Change, AllOver
<1> QED
  BY <1>1 DEF WriteLatest

(* run refuses no profile without a reason: if the last tune that came to  *)
(* its end saw the machine as run does, and the model and the binary as    *)
(* they are, then run takes its profile, whatever runs beside it.          *)
THEOREM FreshCorrect == Spec => []FreshProfileRuns
<1> DEFINE Fresh == Chosen /\ latest = tuned
<1>1. Init => Fresh
  <2> SUFFICES ASSUME Init PROVE Fresh
    OBVIOUS
  <2>1. \A j \in Jobs : job[j].pc = "idle"
    BY DEF Init, NoJob
  <2> QED
    BY <2>1 DEF Init, Chosen, Choosing, Looking
<1>2. Fresh /\ Sight /\ Typed /\ IInv /\ [Next]_vars => Fresh'
  BY WorkspaceAssumption, ChosenNext, LatestNext DEF Sight
<1>3. Fresh => FreshProfileRuns
  <2> SUFFICES ASSUME Fresh, NEW j \in Jobs, job[j].pc = "refuse", job[j].since = changes,
                      tuned # NoProfile, tuned.scope = Present(j, tuned.where)
               PROVE  FALSE
    BY DEF FreshProfileRuns, At, Present
  <2>1. Choosing(j)
    BY DEF Chosen
  <2>2. script[j] = "run" /\ job[j].profile = tuned /\ job[j].where = tuned.where
    BY <2>1 DEF Choosing
  <2>3. Scope(j) = Present(j, tuned.where) /\ ~Current(j, tuned)
    BY <2>1, <2>2 DEF Choosing
  <2> QED
    BY <2>3 DEF Current
<1> QED
  BY <1>1, <1>2, <1>3, Invariant, TypesInvariant, SightInvariant, PTL DEF Spec
===============================================================================
