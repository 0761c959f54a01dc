-------------------------- MODULE MemoryMonitorProofs --------------------------
(***************************************************************************)
(* Proofs about MemoryMonitor: what its samples list, and what a passed    *)
(* check says of them, whatever the order of the two threads' steps.       *)
(***************************************************************************)
EXTENDS MemoryMonitor, SequenceTheorems, TLAPS

Steps == {"query", "compare", "inventory", "read", "write",
          "check", "margin", "idle", "unborn", "ended"}
Kept == [row : Readings, alone : BOOLEAN]

(* The types of all variables; TypeOK leaves some of them out.             *)
Types ==
  /\ selected \in Selections
  /\ step \in [Threads -> Steps]
  /\ rows \in [Threads -> Readings]
  /\ left \in [Threads -> SUBSET Gpus]
  /\ \A t \in Threads : left[t] \subseteq DOMAIN rows[t]
  /\ old \in [Threads -> [gpu : Gpus, row : Levels \cup {None}] \cup {None}]
  /\ lowest \in [Gpus -> Levels \cup {None}]
  /\ inventory \in (SUBSET Gpus) \cup {None}
  /\ missing \in BOOLEAN
  /\ samples \in Seq(Kept)
  /\ alone \in [Threads -> BOOLEAN]
  /\ phase \in {"enter", "use", "exit", "join", "over"}
  /\ checks \in Nat /\ ticks \in 0 .. MaxTicks

(* Where the two threads can be in each phase of the trial.                *)
Positions ==
  /\ \A t \in Threads : step[t] = "write" <=> old[t] # None
  /\ \A t \in Threads : step[t] = "write" => old[t].gpu \in left[t]
  /\ \A t \in Threads : left[t] # {} => step[t] \in {"read", "write"}
  /\ step["trial"] \notin {"unborn", "ended"}
  /\ step["sampler"] \notin {"check", "margin"}
  /\ phase = "enter" => step["sampler"] = "unborn" /\ checks = 0
  /\ phase = "use" => checks < 2
  /\ phase \notin {"enter", "use"} => step["trial"] = "idle"
  /\ step["trial"] \in {"check", "margin"} => phase = "use"
  /\ checks <= 2

(* The inventory is unknown until the first sample of the trial has been   *)
(* compared, and nothing is kept before.                                   *)
Known ==
  /\ inventory = None <=>
       phase = "enter" /\ step["trial"] \in {"query", "compare", "inventory"}
  /\ inventory = None => samples = <<>>

(* A reading that lists the expected GPUs.                                 *)
Full(reading) ==
  /\ DOMAIN reading # {}
  /\ selected # None => DOMAIN reading = selected
  /\ inventory # None => DOMAIN reading = inventory

(* Unless missing has been set, so does every reading compared so far.     *)
Complete ==
  ~missing =>
    /\ \A t \in Threads : step[t] \in {"inventory", "read", "write"} => Full(rows[t])
    /\ \A i \in DOMAIN samples : Full(samples[i].row)

Below(row, level) == row # None /\ row <= level

(* A thread that is alone in sample() is the only one there; the lowest    *)
(* amounts are below those of its reading that it has compared, and the    *)
(* row it has read of them is still the one they hold.                     *)
Undisturbed(t) ==
  alone[t] /\ Sampling(t) =>
    /\ \A u \in Threads \ {t} : ~Sampling(u)
    /\ step[t] \in {"read", "write"} =>
         \A g \in DOMAIN rows[t] \ left[t] : Below(lowest[g], rows[t][g])
    /\ step[t] = "write" => old[t].row = lowest[old[t].gpu]

(* The lowest amounts stay below those of a kept sample that was taken     *)
(* alone, and so does every row that a thread is about to compare.         *)
Counted(reading) ==
  \A g \in DOMAIN reading :
    /\ Below(lowest[g], reading[g])
    /\ \A t \in Threads :
         step[t] = "write" /\ old[t].gpu = g => Below(old[t].row, reading[g])

Covered ==
  /\ \A t \in Threads : Undisturbed(t)
  /\ \A i \in DOMAIN samples : samples[i].alone => Counted(samples[i].row)

MonitorInv == Types /\ Positions /\ Known /\ Complete /\ Covered

-------------------------------------------------------------------------------
(* Types.                                                                  *)

(* The domain of a reading is a set of GPUs, its amounts are levels.       *)
LEMMA ReadingFact ==
  ASSUME NEW reading \in Readings
  PROVE  DOMAIN reading \subseteq Gpus /\ \A g \in DOMAIN reading : reading[g] \in Levels
  BY DEF Readings

(* The reading that lists no GPU, which a thread outside sample() holds.   *)
LEMMA EmptyReading == <<>> \in Readings /\ DOMAIN <<>> = {}
<1>1. DOMAIN <<>> = {}
  OBVIOUS
<1>2. [g \in {} |-> 0] \in [{} -> Levels]
  OBVIOUS
<1>3. <<>> = [g \in {} |-> 0]
  BY SMT
<1> QED
  BY <1>1, <1>2, <1>3 DEF Readings

(* The initial state satisfies the invariant.                              *)
LEMMA MonitorInit == Init => MonitorInv
<1> SUFFICES ASSUME Init PROVE MonitorInv
  OBVIOUS
<1> USE MonitorAssumption DEF Init
<1>1. Types
  <2>1. rows \in [Threads -> Readings] /\ samples \in Seq(Kept)
    BY EmptyReading DEF Threads
  <2>2. step \in [Threads -> Steps] /\ left \in [Threads -> SUBSET Gpus]
    BY DEF Threads, Steps
  <2>3. old \in [Threads -> [gpu : Gpus, row : Levels \cup {None}] \cup {None}]
        /\ alone \in [Threads -> BOOLEAN] /\ lowest \in [Gpus -> Levels \cup {None}]
    OBVIOUS
  <2>4. \A t \in Threads : left[t] \subseteq DOMAIN rows[t]
    OBVIOUS
  <2>5. inventory \in (SUBSET Gpus) \cup {None} /\ missing \in BOOLEAN
        /\ selected \in Selections /\ phase = "enter"
    OBVIOUS
  <2>6. checks \in Nat /\ ticks \in 0 .. MaxTicks
    OBVIOUS
  <2> HIDE DEF Init
  <2> QED
    BY <2>1, <2>2, <2>3, <2>4, <2>5, <2>6 DEF Types
<1>2. Positions
  BY DEF Positions, Threads
<1>3. Known /\ Complete
  BY DEF Known, Complete, Threads
<1>4. Covered
  BY DEF Covered, Undisturbed, Sampling, Threads
<1> QED
  BY <1>1, <1>2, <1>3, <1>4 DEF MonitorInv

(* Every step keeps the types.                                             *)
LEMMA TypesNext == ASSUME MonitorInv, [Next]_vars PROVE Types'
<1> USE MonitorAssumption DEF MonitorInv, Types, Goto, fields, locals, trial
<1>1. ASSUME NEW t \in Threads, Query(t) PROVE Types'
  <2>1. PICK reading \in Readings : rows' = [rows EXCEPT ![t] = reading]
    BY <1>1 DEF Query
  <2>2. left[t] = {}
    BY <1>1 DEF Query, Positions
  <2>3. step' \in [Threads -> Steps] /\ rows' \in [Threads -> Readings]
    BY <1>1, <2>1 DEF Query, Steps
  <2>4. \A u \in Threads : left'[u] \subseteq DOMAIN rows'[u]
    BY <1>1, <2>1, <2>2 DEF Query
  <2> QED
    BY <1>1, <2>3, <2>4 DEF Query
<1>2. ASSUME NEW t \in Threads, Compare(t) PROVE Types'
  <2>1. step' \in [Threads -> Steps] /\ missing' \in BOOLEAN
    BY <1>2 DEF Compare, Steps
  <2> QED
    BY <1>2, <2>1 DEF Compare
<1>3. ASSUME NEW t \in Threads, Remember(t) PROVE Types'
  <2>1. DOMAIN rows[t] \subseteq Gpus
    BY ReadingFact
  <2>2. step' \in [Threads -> Steps] /\ left' \in [Threads -> SUBSET Gpus]
        /\ inventory' \in (SUBSET Gpus) \cup {None}
    BY <1>3, <2>1 DEF Remember, Steps
  <2>3. \A u \in Threads : left'[u] \subseteq DOMAIN rows'[u]
    BY <1>3 DEF Remember
  <2> QED
    BY <1>3, <2>2, <2>3 DEF Remember
<1>4. ASSUME NEW t \in Threads, Read(t) PROVE Types'
  <2>1. PICK g \in left[t] : old' = [old EXCEPT ![t] = [gpu |-> g, row |-> lowest[g]]]
    BY <1>4 DEF Read
  <2>2. [gpu |-> g, row |-> lowest[g]] \in [gpu : Gpus, row : Levels \cup {None}]
    OBVIOUS
  <2>3. step' \in [Threads -> Steps]
    BY <1>4 DEF Read, Steps
  <2>4. old' \in [Threads -> [gpu : Gpus, row : Levels \cup {None}] \cup {None}]
    BY <2>1, <2>2
  <2> QED
    BY <1>4, <2>3, <2>4 DEF Read
<1>5. ASSUME NEW t \in Threads, Write(t) PROVE Types'
  <2> DEFINE g == old[t].gpu
  <2>1. g \in left[t] /\ old[t] # None
    BY <1>5 DEF Write, Positions
  <2>2. g \in Gpus /\ rows[t][g] \in Levels
    BY <2>1, ReadingFact
  <2>3. Lower(rows[t][g], old[t].row, lowest[g]) \in Levels \cup {None}
    BY <2>2 DEF Lower
  <2>4. lowest' \in [Gpus -> Levels \cup {None}]
    BY <1>5, <2>2, <2>3 DEF Write
  <2>5. step' \in [Threads -> Steps] /\ left' \in [Threads -> SUBSET Gpus]
        /\ old' \in [Threads -> [gpu : Gpus, row : Levels \cup {None}] \cup {None}]
    BY <1>5 DEF Write, Steps
  <2>6. \A u \in Threads : left'[u] \subseteq DOMAIN rows'[u]
    BY <1>5 DEF Write
  <2> QED
    BY <1>5, <2>4, <2>5, <2>6 DEF Write
<1>6. ASSUME NEW t \in Threads, Keep(t) PROVE Types'
  <2>1. [row |-> rows[t], alone |-> alone[t]] \in Kept
    BY DEF Kept
  <2>2. samples' \in Seq(Kept)
    BY <1>6, <2>1 DEF Keep
  <2>3. rows' \in [Threads -> Readings]
    BY <1>6, EmptyReading DEF Keep
  <2>4. step' \in [Threads -> Steps]
    BY <1>6 DEF Keep, Steps
  <2>5. \A u \in Threads : left'[u] \subseteq DOMAIN rows'[u]
    BY <1>6 DEF Keep
  <2> QED
    BY <1>6, <2>2, <2>3, <2>4, <2>5 DEF Keep
<1>7. CASE Enter
  BY <1>7 DEF Enter, Steps, Threads
<1>8. CASE Ready
  <2>1. step' \in [Threads -> Steps] /\ alone' \in [Threads -> BOOLEAN]
    BY <1>8 DEF Ready, Begun, Steps
  <2> QED
    BY <1>8, <2>1 DEF Ready
<1>9. CASE Tick
  <2>1. step' \in [Threads -> Steps] /\ alone' \in [Threads -> BOOLEAN]
    BY <1>9 DEF Tick, Begun, Steps
  <2>2. ticks' \in 0 .. MaxTicks
    BY <1>9 DEF Tick
  <2> QED
    BY <1>9, <2>1, <2>2 DEF Tick
<1>10. CASE CheckMissing
  <2>1. step' \in [Threads -> Steps] /\ phase' \in {phase, "exit"}
    BY <1>10 DEF CheckMissing, Steps
  <2> QED
    BY <1>10, <2>1 DEF CheckMissing
<1>11. CASE CheckMargin
  <2>1. step' \in [Threads -> Steps]
    BY <1>11 DEF CheckMargin, Steps
  <2>2. phase' \in {"use", "exit"} /\ checks' \in {checks, checks + 1}
    BY <1>11 DEF CheckMargin
  <2> QED
    BY <1>11, <2>1, <2>2 DEF CheckMargin
<1>12. CASE Fail \/ Exit \/ Join
  BY <1>12 DEF Fail, Exit, Join
<1>13. CASE Finish
  BY <1>13 DEF Finish, Steps
<1>14. CASE UNCHANGED vars
  BY <1>14 DEF vars
<1> QED
  BY <1>1, <1>2, <1>3, <1>4, <1>5, <1>6, <1>7, <1>8, <1>9, <1>10, <1>11, <1>12, <1>13, <1>14
  DEF Next, Sample, Over

-------------------------------------------------------------------------------
(* Where the threads are.                                                  *)

(* Every step keeps the positions, and the inventory known.                *)
LEMMA PositionsNext == ASSUME MonitorInv, [Next]_vars PROVE Positions'
<1> USE MonitorAssumption DEF MonitorInv, Types, Positions, Goto, fields, locals, trial
<1>1. ASSUME NEW t \in Threads, Query(t) PROVE Positions'
  BY <1>1 DEF Query, Threads
<1>2. ASSUME NEW t \in Threads, Compare(t) PROVE Positions'
  BY <1>2 DEF Compare, Threads
<1>3. ASSUME NEW t \in Threads, Remember(t) PROVE Positions'
  BY <1>3 DEF Remember, Threads
<1>4. ASSUME NEW t \in Threads, Read(t) PROVE Positions'
  <2>1. PICK g \in left[t] : old' = [old EXCEPT ![t] = [gpu |-> g, row |-> lowest[g]]]
    BY <1>4 DEF Read
  <2>2. [gpu |-> g, row |-> lowest[g]] \in [gpu : Gpus, row : Levels \cup {None}]
    OBVIOUS
  <2>3. old'[t] # None /\ old'[t].gpu = g
    BY <2>1, <2>2
  <2> QED
    BY <1>4, <2>1, <2>3 DEF Read, Threads
<1>5. ASSUME NEW t \in Threads, Write(t) PROVE Positions'
  BY <1>5 DEF Write, Threads
<1>6. ASSUME NEW t \in Threads, Keep(t) PROVE Positions'
  BY <1>6 DEF Keep, Threads
<1>7. CASE Enter
  BY <1>7 DEF Enter, Threads
<1>8. CASE Ready
  BY <1>8 DEF Ready, Threads
<1>9. CASE Tick
  BY <1>9 DEF Tick, Threads
<1>10. CASE CheckMissing
  BY <1>10 DEF CheckMissing, Threads
<1>11. CASE CheckMargin
  BY <1>11 DEF CheckMargin, Threads
<1>12. CASE Fail \/ Exit \/ Join
  BY <1>12 DEF Fail, Exit, Join, Threads
<1>13. CASE Finish
  BY <1>13 DEF Finish, Threads
<1>14. CASE UNCHANGED vars
  BY <1>14 DEF vars
<1> QED
  BY <1>1, <1>2, <1>3, <1>4, <1>5, <1>6, <1>7, <1>8, <1>9, <1>10, <1>11, <1>12, <1>13, <1>14
  DEF Next, Sample, Over

(* Every step keeps the inventory: it is set once, before the first sample *)
(* is kept and before the daemon thread is started.                        *)
LEMMA KnownNext == ASSUME MonitorInv, [Next]_vars PROVE Known'
<1> USE MonitorAssumption DEF MonitorInv, Types, Known, Goto, fields, locals, trial
<1>1. ASSUME NEW t \in Threads, Query(t) PROVE Known'
  BY <1>1 DEF Query, Threads, Positions
<1>2. ASSUME NEW t \in Threads, Compare(t) PROVE Known'
  BY <1>2 DEF Compare, Threads, Positions
<1>3. ASSUME NEW t \in Threads, Remember(t) PROVE Known'
  <2>1. DOMAIN rows[t] # None
    BY ReadingFact
  <2>2. inventory' # None
    BY <1>3, <2>1 DEF Remember
  <2> QED
    BY <1>3, <2>2 DEF Remember, Threads, Positions
<1>4. ASSUME NEW t \in Threads, Read(t) PROVE Known'
  BY <1>4 DEF Read, Threads, Positions
<1>5. ASSUME NEW t \in Threads, Write(t) PROVE Known'
  BY <1>5 DEF Write, Threads, Positions
<1>6. ASSUME NEW t \in Threads, Keep(t) PROVE Known'
  BY <1>6 DEF Keep, Threads, Positions
<1>7. CASE Enter
  BY <1>7 DEF Enter, Threads, Positions
<1>8. CASE Ready
  BY <1>8 DEF Ready, Threads, Positions
<1>9. CASE Tick
  BY <1>9 DEF Tick, Threads, Positions
<1>10. CASE CheckMissing
  BY <1>10 DEF CheckMissing, Threads, Positions
<1>11. CASE CheckMargin
  BY <1>11 DEF CheckMargin, Threads, Positions
<1>12. CASE Fail \/ Exit \/ Join
  BY <1>12 DEF Fail, Exit, Join, Threads, Positions
<1>13. CASE Finish
  BY <1>13 DEF Finish, Threads, Positions
<1>14. CASE UNCHANGED vars
  BY <1>14 DEF vars
<1> QED
  BY <1>1, <1>2, <1>3, <1>4, <1>5, <1>6, <1>7, <1>8, <1>9, <1>10, <1>11, <1>12, <1>13, <1>14
  DEF Next, Sample, Over

-------------------------------------------------------------------------------
(* What the samples list.                                                  *)

(* Every sample is a reading, and whether it was taken alone.              *)
LEMMA SampleFact ==
  ASSUME samples \in Seq(Kept), NEW i \in DOMAIN samples
  PROVE  samples[i].row \in Readings
<1>1. samples[i] \in Kept
  OBVIOUS
<1> QED
  BY <1>1 DEF Kept

(* Appending a sample adds it, and changes no other.                       *)
LEMMA KeptSamples ==
  ASSUME samples \in Seq(Kept), NEW kept \in Kept, samples' = Append(samples, kept)
  PROVE  /\ DOMAIN samples' = 1 .. Len(samples) + 1
         /\ samples'[Len(samples) + 1] = kept
         /\ \A i \in DOMAIN samples : i \in 1 .. Len(samples) /\ samples'[i] = samples[i]
  OBVIOUS

(* Every step keeps the readings full, unless it sets missing.             *)
LEMMA CompleteNext == ASSUME MonitorInv, [Next]_vars PROVE Complete'
<1> USE MonitorAssumption DEF MonitorInv, Types, Complete, Goto, fields, locals, trial
<1>1. ASSUME NEW t \in Threads, Query(t) PROVE Complete'
  BY <1>1 DEF Query, Full
<1>2. ASSUME NEW t \in Threads, Compare(t) PROVE Complete'
  <2> SUFFICES ASSUME ~missing' PROVE Complete'
    OBVIOUS
  <2>1. ~missing /\ ~Incomplete(rows[t])
    BY <1>2 DEF Compare
  <2>2. Full(rows[t])
    BY <2>1 DEF Incomplete, Full
  <2>3. \A reading \in Readings : Full(reading)' <=> Full(reading)
    BY <1>2 DEF Compare, Full
  <2>4. \A u \in Threads : step'[u] \in {"inventory", "read", "write"} => Full(rows[u])
    BY <1>2, <2>1, <2>2 DEF Compare
  <2> QED
    BY <1>2, <2>1, <2>4 DEF Compare, Full
<1>3. ASSUME NEW t \in Threads, Remember(t) PROVE Complete'
  <2> SUFFICES ASSUME ~missing' PROVE Complete'
    OBVIOUS
  <2>1. ~missing /\ Full(rows[t])
    BY <1>3 DEF Remember
  <2>2. CASE inventory = None
    <3>1. samples = <<>> /\ phase = "enter" /\ step["sampler"] = "unborn"
      BY <2>2 DEF Known, Positions
    <3>2. t = "trial" /\ \A u \in Threads : u # t => step'[u] = "unborn"
      BY <1>3, <3>1 DEF Remember, Threads
    <3>3. inventory' = DOMAIN rows[t]
      BY <1>3, <2>2 DEF Remember
    <3> QED
      BY <1>3, <2>1, <3>1, <3>2, <3>3 DEF Remember, Full
  <2>3. CASE inventory # None
    BY <1>3, <2>1, <2>3 DEF Remember, Full
  <2> QED
    BY <2>2, <2>3
<1>4. ASSUME NEW t \in Threads, Read(t) PROVE Complete'
  BY <1>4 DEF Read, Full
<1>5. ASSUME NEW t \in Threads, Write(t) PROVE Complete'
  BY <1>5 DEF Write, Full
<1>6. ASSUME NEW t \in Threads, Keep(t) PROVE Complete'
  <2> DEFINE kept == [row |-> rows[t], alone |-> alone[t]]
  <2> SUFFICES ASSUME ~missing' PROVE Complete'
    OBVIOUS
  <2>1. ~missing /\ Full(kept.row)
    BY <1>6 DEF Keep
  <2>2. kept \in Kept /\ samples' = Append(samples, kept)
    BY <1>6 DEF Keep, Kept
  <2> HIDE DEF kept
  <2>3. \A i \in DOMAIN samples' : Full(samples'[i].row)
    BY <2>1, <2>2, KeptSamples
  <2>4. \A u \in Threads : step'[u] \in {"inventory", "read", "write"} =>
          step'[u] = step[u] /\ rows'[u] = rows[u]
    BY <1>6 DEF Keep
  <2> QED
    BY <1>6, <2>1, <2>3, <2>4 DEF Keep, Full
<1>7. CASE Enter
  BY <1>7 DEF Enter, Full
<1>8. CASE Ready \/ Tick
  BY <1>8 DEF Ready, Tick, Full
<1>9. CASE CheckMissing
  BY <1>9 DEF CheckMissing, Full
<1>10. CASE CheckMargin
  BY <1>10 DEF CheckMargin, Full
<1>11. CASE Fail \/ Exit \/ Join \/ Finish
  BY <1>11 DEF Fail, Exit, Join, Finish, Full
<1>12. CASE UNCHANGED vars
  BY <1>12 DEF vars, Full
<1> QED
  BY <1>1, <1>2, <1>3, <1>4, <1>5, <1>6, <1>7, <1>8, <1>9, <1>10, <1>11, <1>12
  DEF Next, Sample, Over

-------------------------------------------------------------------------------
(* What the lowest amounts say of the samples.                             *)

(* A step that changes neither lowest nor a row that is about to be        *)
(* compared keeps what is counted.                                         *)
LEMMA CountedStays ==
  ASSUME lowest' = lowest, NEW reading \in Readings, Counted(reading),
         \A t \in Threads : step'[t] = "write" => step[t] = "write" /\ old'[t] = old[t]
  PROVE  Counted(reading)'
  BY DEF Counted, Below

(* Every step keeps the samples that were taken alone covered.             *)
LEMMA CoveredNext == ASSUME MonitorInv, [Next]_vars PROVE Covered'
<1> USE MonitorAssumption DEF MonitorInv, Types, Goto, fields, locals, trial
<1> DEFINE Still == \A reading \in Readings : Counted(reading) => Counted(reading)'
<1>r. \A i \in DOMAIN samples : samples[i].row \in Readings
  BY SampleFact
<1>c. ASSUME Still, samples' = samples, \A u \in Threads : Undisturbed(u)'
      PROVE  Covered'
  <2>1. ASSUME NEW i \in DOMAIN samples, samples[i].alone, NEW reading, reading = samples[i].row
        PROVE  Counted(reading)'
    BY <1>c, <1>r, <2>1 DEF Covered
  <2>2. (\A i \in DOMAIN samples : samples[i].alone => Counted(samples[i].row))'
    BY <1>c, <2>1 DEF Counted
  <2> QED
    BY <1>c, <2>2 DEF Covered
<1>s. ASSUME lowest' = lowest,
             \A t \in Threads : step'[t] = "write" => step[t] = "write" /\ old'[t] = old[t]
      PROVE  Still
  BY <1>s, CountedStays
<1>u. ASSUME UNCHANGED <<lowest, old, rows, left>>, Still, samples' = samples,
             \A t \in Threads : alone'[t] /\ Sampling(t)' => alone[t] /\ step'[t] = step[t] /\ Sampling(t),
             \A t \in Threads : Sampling(t)' => Sampling(t)
      PROVE  Covered'
  <2>1. \A t \in Threads : Undisturbed(t)'
    BY <1>u DEF Covered, Undisturbed, Below
  <2> QED
    BY <1>c, <1>u, <2>1
<1>1. ASSUME NEW t \in Threads, Query(t) PROVE Covered'
  <2>1. Still
    BY <1>1, <1>s DEF Query
  <2>2. \A u \in Threads : Undisturbed(u)'
    BY <1>1 DEF Query, Covered, Undisturbed, Sampling, Below
  <2> QED
    BY <1>1, <2>1, <2>2, <1>c DEF Query
<1>2. ASSUME NEW t \in Threads, Compare(t) PROVE Covered'
  <2>1. Still
    BY <1>2, <1>s DEF Compare
  <2>2. \A u \in Threads : Undisturbed(u)'
    BY <1>2 DEF Compare, Covered, Undisturbed, Sampling, Below
  <2> QED
    BY <1>2, <2>1, <2>2, <1>c DEF Compare
<1>3. ASSUME NEW t \in Threads, Remember(t) PROVE Covered'
  <2>1. Still
    BY <1>3, <1>s DEF Remember
  <2>2. \A u \in Threads : Undisturbed(u)'
    BY <1>3 DEF Remember, Covered, Undisturbed, Sampling, Below
  <2> QED
    BY <1>3, <2>1, <2>2, <1>c DEF Remember
<1>4. ASSUME NEW t \in Threads, Read(t) PROVE Covered'
  <2>1. PICK g \in left[t] : old' = [old EXCEPT ![t] = [gpu |-> g, row |-> lowest[g]]]
    BY <1>4 DEF Read
  <2>2. old'[t].gpu = g /\ old'[t].row = lowest[g] /\ \A u \in Threads : u # t => old'[u] = old[u]
    BY <2>1
  <2>3. Still
    BY <1>4, <2>2 DEF Read, Counted, Below
  <2>4. \A u \in Threads : Undisturbed(u)'
    BY <1>4, <2>2 DEF Read, Covered, Undisturbed, Sampling, Below
  <2> QED
    BY <1>4, <2>3, <2>4, <1>c DEF Read
<1>5. ASSUME NEW t \in Threads, Write(t) PROVE Covered'
  <2> DEFINE g == old[t].gpu
             new == rows[t][g]
             row == old[t].row
  <2>1. g \in left[t] /\ old[t] # None /\ step[t] = "write"
    BY <1>5 DEF Write, Positions
  <2>a. g \in Gpus /\ g \in DOMAIN rows[t] /\ rows[t] \in Readings
    BY <2>1
  <2>b. new \in Levels
    BY <2>a, ReadingFact
  <2>2. g \in Gpus /\ new \in Nat /\ new # None /\ g \in DOMAIN rows[t]
    BY <2>a, <2>b
  <2>3. row \in Levels \cup {None} /\ \A h \in Gpus : lowest[h] \in Levels \cup {None}
    BY <2>1
  <2>4. /\ lowest'[g] = Lower(new, row, lowest[g])
        /\ \A h \in Gpus : h # g => lowest'[h] = lowest[h]
    BY <1>5, <2>2 DEF Write
  <2>5. ASSUME NEW level \in Nat, Below(lowest[g], level), Below(row, level)
        PROVE  Below(lowest'[g], level)
    <3>1. row \in Nat /\ lowest[g] \in Nat /\ row # None /\ lowest[g] # None
      BY <2>2, <2>3, <2>5 DEF Below
    <3>2. lowest'[g] = IF new < row THEN new ELSE lowest[g]
      BY <2>4, <3>1 DEF Lower
    <3> QED
      BY <2>2, <2>5, <3>1, <3>2 DEF Below
  <2>6. ASSUME row = lowest[g] PROVE Below(lowest'[g], new)
    <3>1. CASE row = None
      BY <2>2, <2>4, <3>1 DEF Below, Lower
    <3>2. CASE row # None
      <4>1. row \in Nat
        BY <2>3, <3>2
      <4>2. lowest'[g] = IF new < row THEN new ELSE row
        BY <2>4, <2>6, <3>2 DEF Lower
      <4> QED
        BY <2>2, <3>2, <4>1, <4>2 DEF Below
    <3> QED
      BY <3>1, <3>2
  <2>7. /\ \A u \in Threads : u # t => old'[u] = old[u] /\ step'[u] = step[u] /\ left'[u] = left[u]
        /\ step'[t] = "read" /\ left'[t] = left[t] \ {g}
        /\ rows' = rows /\ alone' = alone /\ samples' = samples
    BY <1>5 DEF Write
  <2> HIDE DEF g, new, row
  <2>8. ASSUME NEW reading \in Readings, Counted(reading) PROVE Counted(reading)'
    <3> SUFFICES ASSUME NEW h \in DOMAIN reading
                 PROVE  /\ Below(lowest'[h], reading[h])
                        /\ \A u \in Threads : step'[u] = "write" /\ old'[u].gpu = h
                             => Below(old'[u].row, reading[h])
      BY DEF Counted, Below
    <3>1. h \in Gpus /\ reading[h] \in Nat
      BY ReadingFact
    <3>2. Below(lowest[h], reading[h])
      BY <2>8 DEF Counted
    <3>3. h = g => Below(row, reading[h])
      BY <2>1, <2>8 DEF Counted, g, row
    <3>4. Below(lowest'[h], reading[h])
      BY <2>4, <2>5, <3>1, <3>2, <3>3
    <3>5. \A u \in Threads : step'[u] = "write" /\ old'[u].gpu = h => Below(old'[u].row, reading[h])
      BY <2>7, <2>8 DEF Counted
    <3> QED
      BY <3>4, <3>5
  <2>9. Still
    BY <2>8
  <2>10. ASSUME NEW u \in Threads, alone'[u], Sampling(u)' PROVE Undisturbed(u)'
    <3>1. alone[u] /\ Sampling(u) /\ Sampling(t)
      BY <2>1, <2>7, <2>10 DEF Sampling
    <3>2. u = t
      BY <3>1 DEF Covered, Undisturbed
    <3>3. row = lowest[g]
      BY <2>1, <3>1, <3>2 DEF Covered, Undisturbed, row, g
    <3>4. \A h \in DOMAIN rows[t] \ left'[t] : Below(lowest'[h], rows[t][h])
      <4> TAKE h \in DOMAIN rows[t] \ left'[t]
      <4>1. CASE h = g
        BY <2>6, <3>3, <4>1 DEF new
      <4>2. CASE h # g
        <5>1. h \in DOMAIN rows[t] \ left[t] /\ h \in Gpus
          BY <2>7, <4>2, ReadingFact
        <5>2. Below(lowest[h], rows[t][h])
          BY <2>1, <3>1, <3>2, <5>1 DEF Covered, Undisturbed
        <5> QED
          BY <2>4, <4>2, <5>1, <5>2
      <4> QED
        BY <4>1, <4>2
    <3>5. \A v \in Threads \ {t} : ~Sampling(v)'
      BY <2>7, <3>1, <3>2 DEF Covered, Undisturbed, Sampling
    <3> QED
      BY <2>7, <3>2, <3>4, <3>5 DEF Undisturbed, Below
  <2> QED
    BY <2>7, <2>9, <2>10, <1>c DEF Undisturbed
<1>6. ASSUME NEW t \in Threads, Keep(t) PROVE Covered'
  <2> DEFINE kept == [row |-> rows[t], alone |-> alone[t]]
  <2>1. kept \in Kept /\ samples' = Append(samples, kept)
    BY <1>6 DEF Keep, Kept
  <2>2. Still
    BY <1>6, <1>s DEF Keep
  <2>3. ASSUME alone[t], NEW reading, reading = rows[t] PROVE Counted(reading)'
    <3>1. Sampling(t) /\ left[t] = {} /\ step[t] = "read"
      BY <1>6 DEF Keep, Sampling
    <3>2. \A g \in DOMAIN rows[t] : Below(lowest[g], rows[t][g])
      BY <2>3, <3>1 DEF Covered, Undisturbed
    <3>3. \A u \in Threads : step'[u] # "write"
      BY <1>6, <2>3, <3>1 DEF Keep, Covered, Undisturbed, Sampling
    <3> QED
      BY <1>6, <2>3, <3>2, <3>3 DEF Keep, Counted, Below
  <2>4. kept.row = rows[t] /\ kept.alone = alone[t]
    OBVIOUS
  <2> HIDE DEF kept
  <2>5. ASSUME NEW i \in DOMAIN samples', samples'[i].alone, NEW reading, reading = samples'[i].row
        PROVE  Counted(reading)'
    <3>1. CASE i \in DOMAIN samples
      <4>1. samples'[i] = samples[i] /\ reading \in Readings
        BY <2>1, <2>5, <3>1, <1>r, KeptSamples
      <4>2. Counted(reading)
        BY <2>5, <3>1, <4>1 DEF Covered
      <4> QED
        BY <2>2, <4>1, <4>2
    <3>2. CASE i \notin DOMAIN samples
      <4>1. samples'[i] = kept
        BY <2>1, <2>5, <3>2, KeptSamples
      <4>2. alone[t] /\ reading = rows[t]
        BY <2>4, <2>5, <4>1
      <4> QED
        BY <2>3, <4>2
    <3> QED
      BY <3>1, <3>2
  <2>6. \A u \in Threads : Undisturbed(u)'
    BY <1>6 DEF Keep, Covered, Undisturbed, Sampling, Below
  <2>7. (\A i \in DOMAIN samples : samples[i].alone => Counted(samples[i].row))'
    BY <2>5 DEF Counted
  <2> QED
    BY <2>6, <2>7 DEF Covered
<1>7. CASE Enter
  BY <1>7, <1>s, <1>u DEF Enter, Sampling
<1>8. ASSUME NEW t \in Threads, Begun(t), Goto(t, "query"), ~Sampling(t), UNCHANGED <<locals, fields>>
      PROVE  Covered'
  <2>1. Still
    BY <1>8, <1>s
  <2>2. \A u \in Threads : Undisturbed(u)'
    BY <1>8 DEF Begun, Undisturbed, Sampling, Below
  <2> QED
    BY <1>8, <2>1, <2>2, <1>c
<1>9. CASE Ready
  BY <1>8, <1>9 DEF Ready, Sampling, Threads
<1>10. CASE Tick
  BY <1>8, <1>10 DEF Tick, Sampling, Threads
<1>11. CASE CheckMissing
  BY <1>11, <1>s, <1>u DEF CheckMissing, Sampling
<1>12. CASE CheckMargin
  BY <1>12, <1>s, <1>u DEF CheckMargin, Sampling
<1>13. CASE Fail \/ Exit \/ Join
  BY <1>13, <1>s, <1>u DEF Fail, Exit, Join, Sampling
<1>14. CASE Finish
  BY <1>14, <1>s, <1>u DEF Finish, Sampling
<1>15. CASE UNCHANGED vars
  BY <1>15, <1>s, <1>u DEF vars, Sampling
<1> QED
  BY <1>1, <1>2, <1>3, <1>4, <1>5, <1>6, <1>7, <1>9, <1>10, <1>11, <1>12, <1>13, <1>14, <1>15
  DEF Next, Sample, Over

-------------------------------------------------------------------------------
(* The theorems.                                                           *)

(* Every step keeps the invariant.                                         *)
LEMMA MonitorNext == MonitorInv /\ [Next]_vars => MonitorInv'
  BY TypesNext, PositionsNext, KnownNext, CompleteNext, CoveredNext DEF MonitorInv

(* The invariant holds throughout.                                         *)
LEMMA MonitorInvariant == Spec => []MonitorInv
  BY MonitorInit, MonitorNext, PTL DEF Spec

(* MemoryMonitor's variables keep their types under every order of the two *)
(* threads' steps: whoever is in sample() works on GPUs that its own       *)
(* reading lists.                                                          *)
THEOREM MonitorTypeCorrect == Spec => []TypeOK
<1>1. MonitorInv => TypeOK
  <2> SUFFICES ASSUME MonitorInv PROVE TypeOK
    OBVIOUS
  <2> USE DEF MonitorInv, Types
  <2>1. \A i \in DOMAIN samples : samples[i].row \in Readings
    BY SampleFact
  <2>2. checks \in 0 .. 2
    BY DEF Positions
  <2> QED
    BY <2>1, <2>2 DEF TypeOK, Positions, Steps
<1> QED
  BY <1>1, MonitorInvariant, PTL

(* Unless missing has been set, all samples list the same GPUs, those that *)
(* were selected if any were: sample() compares with an inventory that the *)
(* first sample alone sets, however the daemon thread interleaves.         *)
THEOREM SamplesComplete == Spec => []CompleteUnlessMissing
<1>1. MonitorInv => CompleteUnlessMissing
  <2> SUFFICES ASSUME MonitorInv, ~missing, NEW i \in DOMAIN samples
               PROVE  LET listed == DOMAIN samples[i].row IN
                        /\ listed = inventory /\ listed # {}
                        /\ selected # None => listed = selected
    BY DEF CompleteUnlessMissing
  <2>1. Full(samples[i].row)
    BY DEF MonitorInv, Complete
  <2>2. inventory # None
    BY DEF MonitorInv, Known
  <2> QED
    BY <2>1, <2>2 DEF Full
<1> QED
  BY <1>1, MonitorInvariant, PTL

(* check() passes only if every sample that did not overlap with another   *)
(* left the margin free on every GPU that it listed: lost updates of       *)
(* lowest can only hide readings of samples that overlapped.               *)
THEOREM PassedChecksAreSafe == Spec => PassedSafely
<1> DEFINE Passing ==
      checks' > checks =>
        \A i \in DOMAIN samples :
          samples[i].alone =>
            \A g \in DOMAIN samples[i].row : samples[i].row[g] >= Margin
<1>1. MonitorInv /\ [Next]_vars => [Passing]_vars
  <2> SUFFICES ASSUME MonitorInv, Next, checks' > checks,
                      NEW i \in DOMAIN samples, samples[i].alone,
                      NEW g \in DOMAIN samples[i].row
               PROVE  samples[i].row[g] >= Margin
    OBVIOUS
  <2> USE MonitorAssumption DEF MonitorInv, Types
  <2>1. CheckMargin
    <3>1. checks' # checks
      OBVIOUS
    <3> QED
      BY <3>1 DEF Next, Sample, Query, Compare, Remember, Read, Write, Keep, Enter, Ready, Fail,
           CheckMissing, CheckMargin, Exit, Join, Tick, Finish, Over, vars, trial
  <2>s. Safe
    BY <2>1 DEF CheckMargin
  <2>2. samples[i].row \in Readings
    BY SampleFact
  <2>3. g \in Gpus /\ samples[i].row[g] \in Nat
    BY <2>2, ReadingFact
  <2>4. Below(lowest[g], samples[i].row[g])
    BY DEF Covered, Counted
  <2>5. lowest[g] \in Nat /\ lowest[g] >= Margin
    BY <2>s, <2>3, <2>4 DEF Safe, Below
  <2> QED
    BY <2>3, <2>4, <2>5 DEF Below
<1>2. Spec => [][Passing]_vars
  BY <1>1, MonitorInvariant, PTL DEF Spec
<1> QED
  BY <1>2 DEF PassedSafely
===============================================================================
