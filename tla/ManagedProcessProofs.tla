------------------------- MODULE ManagedProcessProofs -------------------------
(***************************************************************************)
(* Theorems about ManagedProcess, for any number of signals before any of  *)
(* its steps.                                                              *)
(***************************************************************************)
EXTENDS ManagedProcess, TLAPS

-------------------------------------------------------------------------------
(* Types.                                                                  *)

(* Types hold at first.                                                    *)
LEMMA TypeInit == Init => TypeOK
<1> SUFFICES ASSUME Init PROVE TypeOK
  OBVIOUS
<1>1. 0 \in 0 .. MaxSignals
  BY ProcessAssumption
<1>2. /\ handling \in [Signals -> {"raise", "ignore"}]
      /\ previous \in [Signals -> {"raise", "ignore"}]
  BY DEF Init
<1>3. main \in BOOLEAN /\ known \in BOOLEAN /\ recorded \in BOOLEAN
  BY DEF Init
<1> QED BY <1>1, <1>2, <1>3 DEF Init, TypeOK, Points, Callers

(* managed knows no child before there is one.                             *)
Assigning == pc = "assign" => leader # "none"

(* Every step keeps the types, and a child is assigned only if there is    *)
(* one.                                                                    *)
LEMMA TypeNext == TypeOK /\ Assigning /\ [Next]_vars => TypeOK' /\ Assigning'
<1> SUFFICES ASSUME TypeOK, Assigning, [Next]_vars PROVE TypeOK' /\ Assigning'
  OBVIOUS
<1> USE DEF TypeOK, Assigning, Points, Callers, MaskPoints, StopPoints, RestorePoints
<1>s. Signals = {"SIGINT", "SIGTERM"}
  BY DEF Signals
<1>t. CASE UNCHANGED vars
  BY <1>t DEF vars, thread, child, history
<1>m. CASE Managed
  <2>1. CASE Enter
    BY <2>1, <1>s DEF Enter, thread, child, history
  <2>2. CASE Fork
    BY <2>2, <1>s DEF Fork, thread, child, history
  <2>3. CASE ForkFails
    BY <2>3, <1>s DEF ForkFails, thread, child, history
  <2>4. CASE Assign
    BY <2>4, <1>s DEF Assign, thread, child, history
  <2>5. CASE BodyEnds
    BY <2>5, <1>s DEF BodyEnds, thread, child, history
  <2>6. CASE BodyReaps
    BY <2>6, <1>s DEF BodyReaps, thread, child, history
  <2>7. CASE BodyStops
    BY <2>7, <1>s DEF BodyStops, thread, child, history
  <2>8. CASE Join
    BY <2>8, <1>s DEF Join, thread, child, history
  <2>9. CASE Leave
    BY <2>9, <1>s DEF Leave, thread, child, history
  <2>10. CASE MaskInt
    BY <2>10, <1>s DEF MaskInt, Ignore, thread, child, history
  <2>11. CASE MaskTerm
    BY <2>11, <1>s DEF MaskTerm, Ignore, thread, child, history
  <2>12. CASE Terminate
    BY <2>12, <1>s DEF Terminate, thread, child, history
  <2>13. CASE Grace
    BY <2>13, <1>s DEF Grace, thread, child, history
  <2>14. CASE Kill
    BY <2>14, <1>s DEF Kill, Killed, thread, child, history
  <2>15. CASE Reap
    BY <2>15, <1>s DEF Reap, Returned, thread, child, history
  <2>16. CASE RestoreInt
    BY <2>16, <1>s DEF RestoreInt, thread, child, history
  <2>17. CASE RestoreTerm
    BY <2>17, <1>s DEF RestoreTerm, Returned, thread, child, history
  <2>18. CASE Record
    BY <2>18, <1>s DEF Record, thread, child, history
  <2> QED
    BY <1>m, <2>1, <2>2, <2>3, <2>4, <2>5, <2>6, <2>7, <2>8, <2>9,
       <2>10, <2>11, <2>12, <2>13, <2>14, <2>15, <2>16, <2>17, <2>18
    DEF Managed
<1>2. ASSUME NEW s \in Signals, Signal(s) PROVE TypeOK' /\ Assigning'
  <2>1. signals' \in 0 .. MaxSignals
    BY <1>2, ProcessAssumption DEF Signal
  <2>2. pc' \in {pc, "end", "leave", "join", "record"}
    BY <1>2 DEF Signal, RaisedTo, Returned
  <2> QED BY <1>2, <2>1, <2>2 DEF Signal, child
<1>3. CASE Child
  BY <1>3 DEF Child, thread, history
<1> QED BY <1>t, <1>m, <1>2, <1>3 DEF Next, Terminating

(* Every reachable state is well typed, wherever a signal arrives; in      *)
(* particular managed never holds a handle of a child that was not forked. *)
THEOREM TypeCorrect == Spec => []TypeOK
<1>1. Init => Assigning
  BY DEF Init, Assigning
<1> QED BY <1>1, TypeInit, TypeNext, PTL DEF Spec

-------------------------------------------------------------------------------
(* Cleaning up.                                                            *)

(* A signal has raised between the two turns of a loop of stop.            *)
LostInt == Struck({"mask_term"}, Callers)
LostTerm == Struck({"restore_term"}, Callers)

(* What is ignored at each step of the main thread, and what a call of     *)
(* stop is going to restore.                                               *)
Handlers ==
  /\ handling["SIGINT"] =
       IF LostInt \/ (main /\ pc \in {"mask_term", "restore_int"} \cup StopPoints)
         THEN "ignore" ELSE "raise"
  /\ handling["SIGTERM"] =
       IF LostTerm \/ (main /\ pc \in RestorePoints \cup StopPoints)
         THEN "ignore" ELSE "raise"
  /\ main /\ pc \in {"mask_term", "restore_int"} \cup StopPoints =>
       previous["SIGINT"] = IF LostInt THEN "ignore" ELSE "raise"
  /\ main /\ pc \in RestorePoints \cup StopPoints =>
       previous["SIGTERM"] = IF LostTerm THEN "ignore" ELSE "raise"
  /\ pc \in MaskPoints \cup RestorePoints => main

(* A signal raised where p was not assigned, or before stop was reached.   *)
Unknown == Struck({"assign"}, Callers)
Escaped == Struck({"assign", "leave"}, Callers) \/ Struck(MaskPoints, {"managed"})

(* What is left of the group at each step.                                 *)
Group ==
  /\ worker # "none" => leader # "none"
  /\ leader = "none" => worker # "running"
  /\ pc \in {"enter", "fork"} => leader = "none" /\ ~known
  /\ pc = "assign" => leader # "none" /\ ~known
  /\ pc \in {"body", "join"} \cup MaskPoints \cup StopPoints \cup RestorePoints => known
  /\ pc = "leave" => known \/ leader = "none" \/ Unknown
  /\ pc = "reap" => Gone \/ (leader = "zombie" /\ worker # "running")
  /\ pc \in RestorePoints => Gone
  /\ pc = "end" => Gone \/ Escaped
  /\ pc = "record" => (Gone /\ leader \in {"none", "reaped"}) \/ Unknown
  /\ recorded => pc = "end" /\ ((Gone /\ leader \in {"none", "reaped"}) \/ Unknown)

Inv == TypeOK /\ Handlers /\ Group

(* The invariant holds at first.                                           *)
LEMMA InvInit == Init => Inv
<1> SUFFICES ASSUME Init PROVE Inv
  OBVIOUS
<1>1. TypeOK
  BY TypeInit
<1>2. ~LostInt /\ ~LostTerm
  BY DEF Init, LostInt, LostTerm, Struck
<1>3. Handlers
  BY <1>2 DEF Init, Handlers, Signals, MaskPoints, StopPoints, RestorePoints
<1>4. Group
  BY DEF Init, Group, MaskPoints, StopPoints, RestorePoints
<1> QED BY <1>1, <1>3, <1>4 DEF Inv

(* A child that was not assigned is one that may escape.                   *)
LEMMA UnknownEscapes == Unknown => Escaped
BY DEF Unknown, Escaped, Struck

(* Only a signal that raises changes what is said of struck.               *)
LEMMA StruckSame ==
  UNCHANGED struck =>
    UNCHANGED LostInt /\ UNCHANGED LostTerm /\ UNCHANGED Unknown /\ UNCHANGED Escaped
BY DEF LostInt, LostTerm, Unknown, Escaped, Struck, Callers, MaskPoints

(* What is said of struck after a signal has raised before the step pc.    *)
LEMMA StruckMore ==
  ASSUME TypeOK, struck' = struck \cup {<<pc, within>>}
  PROVE  /\ LostInt' <=> LostInt \/ pc = "mask_term"
         /\ LostTerm' <=> LostTerm \/ pc = "restore_term"
         /\ Unknown' <=> Unknown \/ pc = "assign"
         /\ Escaped' <=> Escaped \/ pc \in {"assign", "leave"}
                                 \/ (pc \in MaskPoints /\ within = "managed")
<1>0. within \in Callers
  BY DEF TypeOK
<1>1. ASSUME NEW points, NEW callers
      PROVE  Struck(points, callers)' <=>
               Struck(points, callers) \/ (pc \in points /\ within \in callers)
  <2>1. <<pc, within>> \in points \X callers <=> pc \in points /\ within \in callers
    OBVIOUS
  <2>2. (struck \cap (points \X callers))' = struck' \cap (points \X callers)
    OBVIOUS
  <2>3. struck' \cap (points \X callers) # {} <=>
          struck \cap (points \X callers) # {} \/ <<pc, within>> \in points \X callers
    <3> DEFINE place == <<pc, within>>
               places == points \X callers
    <3>1. struck' = struck \cup {place}
      OBVIOUS
    <3> HIDE DEF place, places
    <3>2. struck' \cap places # {} <=> struck \cap places # {} \/ place \in places
      BY <3>1
    <3> QED BY <3>2 DEF place, places
  <2> QED BY <2>1, <2>2, <2>3 DEF Struck
<1>2. LostInt' <=> LostInt \/ pc = "mask_term"
  BY <1>0, <1>1 DEF LostInt, Callers
<1>3. LostTerm' <=> LostTerm \/ pc = "restore_term"
  BY <1>0, <1>1 DEF LostTerm, Callers
<1>4. Unknown' <=> Unknown \/ pc = "assign"
  BY <1>0, <1>1 DEF Unknown, Callers
<1>5. Struck({"assign", "leave"}, Callers)' <=>
        Struck({"assign", "leave"}, Callers) \/ pc \in {"assign", "leave"}
  BY <1>0, <1>1
<1>6. Struck(MaskPoints, {"managed"})' <=>
        Struck(MaskPoints, {"managed"}) \/ (pc \in MaskPoints /\ within = "managed")
  BY <1>1
<1> QED BY <1>2, <1>3, <1>4, <1>5, <1>6 DEF Escaped

(* Every step keeps the invariant.                                         *)
LEMMA InvNext == Inv /\ [Next]_vars => Inv'
<1> SUFFICES ASSUME Inv, [Next]_vars PROVE Inv'
  OBVIOUS
<1> USE DEF Inv
<1> USE DEF TypeOK, Points, Callers, MaskPoints, StopPoints, RestorePoints
<1>s. Signals = {"SIGINT", "SIGTERM"}
  BY DEF Signals
<1>t. CASE UNCHANGED vars
  BY <1>t, StruckSame
  DEF vars, thread, child, history, TypeOK, Handlers, Group, Gone
<1>m1. CASE Enter
  BY <1>m1, <1>s, StruckSame
  DEF Enter, Handlers, Group, Gone, thread, child, history
<1>m2. CASE Fork
  BY <1>m2, <1>s, StruckSame
  DEF Fork, Handlers, Group, Gone, thread, child, history
<1>m3. CASE ForkFails
  BY <1>m3, <1>s, StruckSame
  DEF ForkFails, Handlers, Group, Gone, thread, child, history
<1>m4. CASE Assign
  BY <1>m4, <1>s, StruckSame
  DEF Assign, Handlers, Group, Gone, thread, child, history
<1>m5. CASE BodyEnds
  BY <1>m5, <1>s, StruckSame
  DEF BodyEnds, Handlers, Group, Gone, thread, child, history
<1>m6. CASE BodyReaps
  BY <1>m6, <1>s, StruckSame
  DEF BodyReaps, Handlers, Group, Gone, thread, child, history
<1>m7. CASE BodyStops
  BY <1>m7, <1>s, StruckSame
  DEF BodyStops, Handlers, Group, Gone, thread, child, history
<1>m8. CASE Join
  BY <1>m8, <1>s, StruckSame
  DEF Join, Handlers, Group, Gone, thread, child, history
<1>m9. CASE Leave
  BY <1>m9, <1>s, StruckSame
  DEF Leave, Handlers, Group, Gone, thread, child, history
<1>m10. CASE MaskInt
  BY <1>m10, <1>s, StruckSame
  DEF MaskInt, Ignore, Handlers, Group, Gone, thread, child, history
<1>m11. CASE MaskTerm
  BY <1>m11, <1>s, StruckSame
  DEF MaskTerm, Ignore, Handlers, Group, Gone, thread, child, history
<1>m12. CASE Terminate
  BY <1>m12, <1>s, StruckSame
  DEF Terminate, Handlers, Group, Gone, thread, child, history
<1>m13. CASE Grace
  BY <1>m13, <1>s, StruckSame
  DEF Grace, Handlers, Group, Gone, thread, child, history
<1>m14. CASE Kill
  BY <1>m14, <1>s, StruckSame
  DEF Kill, Killed, Handlers, Group, Gone, thread, child, history
<1>m15. CASE Reap
  BY <1>m15, <1>s, StruckSame
  DEF Reap, Returned, Handlers, Group, Gone, thread, child, history
<1>m16. CASE RestoreInt
  BY <1>m16, <1>s, StruckSame
  DEF RestoreInt, Handlers, Group, Gone, thread, child, history
<1>m17. CASE RestoreTerm
  BY <1>m17, <1>s, StruckSame
  DEF RestoreTerm, Returned, Handlers, Group, Gone, thread, child, history
<1>m18. CASE Record
  <2>1. Handlers'
    BY <1>m18, <1>s, StruckSame DEF Record, Handlers, child, history
  <2>2. Group'
    BY <1>m18, StruckSame, UnknownEscapes DEF Record, Group, Gone, child, history
  <2>3. TypeOK'
    BY <1>m18 DEF Record, child, history
  <2> QED BY <2>1, <2>2, <2>3
<1>2. ASSUME NEW s \in Signals, Signal(s) PROVE Inv'
  <2>0. TypeOK'
    BY <1>2, TypeNext DEF Next, Group, Assigning
  <2>1. CASE handling[s] = "ignore"
    BY <1>2, <2>0, <2>1, StruckSame DEF Signal, Handlers, Group, Gone, child
  <2>2. CASE handling[s] = "raise"
    <3>1. /\ main /\ pc # "end" /\ pc' = RaisedTo
          /\ struck' = struck \cup {<<pc, within>>}
          /\ UNCHANGED <<main, leader, worker, known, handling, previous,
                         within, recorded>>
      BY <1>2, <2>2 DEF Signal, child
    <3>2. pc \notin StopPoints \cup {"restore_int"}
      BY <1>s, <2>2, <3>1 DEF Handlers
    <3>3. pc' \in {"leave", "join", "end"}
      BY <3>1, <3>2 DEF RaisedTo, Returned
    <3>4. Handlers'
      BY <1>s, <3>1, <3>2, <3>3, StruckMore DEF Handlers
    <3>5. Group'
      <4>1. Gone' <=> Gone
        BY <3>1 DEF Gone
      <4>2. CASE pc = "restore_term" \/ pc \in MaskPoints
        BY <3>1, <4>1, <4>2, StruckMore DEF RaisedTo, Returned, Group
      <4>3. CASE pc \notin MaskPoints \cup {"restore_term"}
        <5>1. /\ Unknown' <=> Unknown \/ pc = "assign"
              /\ Escaped' <=> Escaped \/ pc \in {"assign", "leave"}
          BY <3>1, <4>3, StruckMore
        <5>2. CASE pc \in {"enter", "leave", "record"}
          BY <3>1, <5>1, <5>2, UnknownEscapes DEF RaisedTo, Group, Gone
        <5>3. CASE pc \in {"fork", "assign", "join", "body"}
          BY <3>1, <4>1, <5>1, <5>3, UnknownEscapes DEF RaisedTo, Group
        <5> QED BY <3>1, <3>2, <4>3, <5>2, <5>3
      <4> QED BY <4>2, <4>3
    <3> QED BY <2>0, <3>4, <3>5
  <2> QED BY <1>2, <2>1, <2>2
<1>3. CASE Child
  <2>1. TypeOK'
    BY <1>3 DEF Child, TypeOK, thread, history
  <2>2. Handlers'
    BY <1>3, StruckSame DEF Child, Handlers, thread, history
  <2>3. Group'
    BY <1>3, StruckSame DEF Child, Group, Gone, thread, history
  <2> QED BY <2>1, <2>2, <2>3
<1> QED BY <1>t, <1>m1, <1>m2, <1>m3, <1>m4, <1>m5, <1>m6, <1>m7, <1>m8, <1>m9,
     <1>m10, <1>m11, <1>m12, <1>m13, <1>m14, <1>m15, <1>m16, <1>m17, <1>m18, <1>2, <1>3
  DEF Next, Terminating, Managed

(* The invariant.                                                          *)
LEMMA Invariant == Spec => []Inv
BY InvInit, InvNext, PTL DEF Spec

(* However managed is left, no process of the group is left behind, but    *)
(* for a killed child that the kernel has not let go of, unless a signal   *)
(* raised in one of the two instants that GroupGone names.                 *)
THEOREM GroupGoneCorrect == Spec => []GroupGone
<1>1. Inv => GroupGone
  BY DEF Inv, Group, GroupGone, Escaped
<1> QED BY <1>1, Invariant, PTL

(* The signal handlers are as they were before, but for the one that a     *)
(* signal between the turns of a loop of stop takes away; which one, and   *)
(* that it takes it away for good, is part of the theorem.                 *)
THEOREM HandlersCorrect == Spec => []HandlersRestored
<1>1. Inv => HandlersRestored
  BY DEF Inv, Handlers, HandlersRestored, LostInt, LostTerm, StopPoints, RestorePoints
<1> QED BY <1>1, Invariant, PTL

(* A record is written once nothing of the group can change it, unless a   *)
(* signal kept the child from being assigned.                              *)
THEOREM RecordCorrect == Spec => []RecordIsFinal
<1>1. Inv => RecordIsFinal
  BY DEF Inv, Group, RecordIsFinal, Unknown
<1> QED BY <1>1, Invariant, PTL
===============================================================================
