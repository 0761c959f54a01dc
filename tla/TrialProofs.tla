------------------------------ MODULE TrialProofs ------------------------------
(***************************************************************************)
(* Proofs about Trial, for all timeouts.                                   *)
(***************************************************************************)
EXTENDS Trial, TLAPS

(* The latest a server can be found ready, and its requests be over.       *)
ReadyBy == TrialTimeout + Least + Least + HealthTimeout
SentBy == ReadyBy + PropsTimeout + SampleTime

(* How late it can be at each step.                                        *)
InTime ==
  /\ pc \in {"enter", "launch"} => now <= SampleTime
  /\ pc = "enter" => now = 0
  /\ pc = "poll" =>
       limit <= TrialTimeout + Least /\ now <= limit + Least + HealthTimeout + Pause
  /\ pc = "props" => now <= ReadyBy
  /\ pc = "sample" => now <= ReadyBy + PropsTimeout
  /\ pc \in {"request", "cut", "last"} => now <= SentBy
  /\ pc = "stop" => now <= SentBy + Pause + SampleTime + StopTime
  /\ pc = "join" => now <= SentBy + Pause + SampleTime + StopTime + StopTime
  /\ pc = "end" => now <= TrialTimeout + Overrun

(* What the status says at each step.                                      *)
Told ==
  /\ answered < TrialTimeout + Least
  /\ status = "ok" => pc \in {"stop", "join", "end"}
  /\ benchmark /\ (pc = "last" \/ status = "ok") => todo = 0

IInv == TypeOK /\ InTime /\ Told

(* The assumption, in the form the arithmetic needs.                       *)
LEMMA Constants ==
  /\ TrialTimeout \in Nat /\ TrialTimeout > 0
  /\ Least \in Nat /\ Least > 0
  /\ HealthTimeout \in Nat /\ PropsTimeout \in Nat /\ Pause \in Nat
  /\ SampleTime \in Nat /\ StopTime \in Nat /\ JoinTime \in Nat
  /\ Singles \in Nat /\ Repeats \in Nat
  BY TrialAssumption

(* The invariant holds at first.                                           *)
LEMMA InitIInv == Init => IInv
<1> SUFFICES ASSUME Init PROVE IInv
  OBVIOUS
<1>1. TypeOK
  <2>1. todo \in 0 .. Singles + Repeats
    BY Constants DEF Init
  <2>2. benchmark \in BOOLEAN /\ escapes \in BOOLEAN
    BY Zenon DEF Init
  <2>3. {now, limit, answered} \subseteq Nat
    BY DEF Init
  <2> QED
    BY <2>1, <2>2, <2>3 DEF Init, TypeOK
<1>2. InTime /\ Told
  BY Constants DEF Init, InTime, Told
<1> QED
  BY <1>1, <1>2 DEF IInv

(* The limits computed from the time that is left end with the trial, or   *)
(* Least after they begin.                                                 *)
LEMMA Limits ==
  ASSUME TypeOK, ~Overtime
  PROVE  /\ StartupLimit \in Nat /\ now <= StartupLimit
         /\ StartupLimit <= TrialTimeout + Least
         /\ RequestLimit \in Nat
         /\ now + RequestLimit < TrialTimeout + Least
  BY TrialAssumption
     DEF TypeOK, Overtime, StartupLimit, RequestLimit, Remaining, Lesser, Greater

(* A request for the health of the server ends soon after the time to wait *)
(* for it.                                                                 *)
LEMMA HealthLimits ==
  ASSUME TypeOK, now < limit
  PROVE  HealthLimit \in Nat /\ now + HealthLimit < limit + Least
  BY TrialAssumption DEF TypeOK, HealthLimit, Lesser, Greater

(* Every step keeps the invariant.                                         *)
LEMMA StepIInv == IInv /\ [Next]_vars => IInv'
<1> SUFFICES ASSUME IInv, [Next]_vars PROVE IInv'
  OBVIOUS
<1> USE Constants
<1> USE DEF IInv, TypeOK, InTime, Told, Takes, Goto, Raise
<1>1. CASE Enter
  BY <1>1 DEF Enter
<1>2. CASE NoLaunch
  BY <1>2 DEF NoLaunch, SentBy, ReadyBy
<1>3. CASE Launch
  BY <1>3, Limits DEF Launch
<1>4. CASE Healthy
  BY <1>4, HealthLimits DEF Healthy, ReadyBy
<1>5. CASE Unready
  BY <1>5, HealthLimits DEF Unready
<1>6. CASE Unstartable
  BY <1>6, HealthLimits DEF Unstartable, SentBy, ReadyBy
<1>7. CASE StartupTimedOut
  BY <1>7 DEF StartupTimedOut, SentBy, ReadyBy
<1>8. CASE Props
  BY <1>8 DEF Props, SentBy, ReadyBy
<1>9. CASE Sample
  BY <1>9 DEF Sample, Checked, SentBy, ReadyBy
<1>10. CASE RequestOvertime
  BY <1>10 DEF RequestOvertime, SentBy, ReadyBy
<1>11. CASE Request
  BY <1>11, Limits DEF Request, SentBy, ReadyBy
<1>12. CASE RequestFails
  BY <1>12, Limits DEF RequestFails, SentBy, ReadyBy
<1>13. CASE Cut
  <2>1. escapes' \in BOOLEAN /\ (~escapes' => ~escapes)
    <3>1. escapes \in BOOLEAN
      OBVIOUS
    <3>2. escapes' = escapes \/ escapes' = TRUE
      BY <1>13, Zenon DEF Cut, Stopped
    <3> QED
      BY ONLY <3>1, <3>2, Zenon
  <2>2. /\ pc = "cut" /\ pc' = "stop" /\ status' = status
        /\ \E d \in 0 .. StopTime : now' = now + d
        /\ UNCHANGED <<benchmark, limit, todo, answered>>
    BY <1>13 DEF Cut, Stopped
  <2> QED
    BY <2>1, <2>2 DEF SentBy, ReadyBy
<1>14. CASE Measured
  BY <1>14 DEF Measured, SentBy, ReadyBy
<1>15. CASE Last
  BY <1>15 DEF Last, SentBy, ReadyBy
<1>16. CASE Stop
  <2>1. escapes' \in BOOLEAN /\ (~escapes' => ~escapes)
    <3>1. escapes \in BOOLEAN
      OBVIOUS
    <3>2. escapes' = escapes \/ escapes' = TRUE
      BY <1>16, Zenon DEF Stop, Stopped
    <3> QED
      BY ONLY <3>1, <3>2, Zenon
  <2>2. /\ pc = "stop" /\ pc' = "join" /\ status' = status
        /\ \E d \in 0 .. StopTime : now' = now + d
        /\ UNCHANGED <<benchmark, limit, todo, answered>>
    BY <1>16 DEF Stop, Stopped
  <2> QED
    BY <2>1, <2>2 DEF SentBy, ReadyBy
<1>17. CASE Join
  BY <1>17 DEF Join, Overrun, SentBy, ReadyBy
<1>18. CASE Interrupt
  BY <1>18 DEF Interrupt, RaisedTo, Overrun, SentBy, ReadyBy
<1>19. CASE UNCHANGED vars
  BY <1>19 DEF vars
<1> QED
  BY <1>1, <1>2, <1>3, <1>4, <1>5, <1>6, <1>7, <1>8, <1>9, <1>10, <1>11, <1>12,
     <1>13, <1>14, <1>15, <1>16, <1>17, <1>18, <1>19 DEF Next, Terminating

(* Types, the latest time of every step, and what the status says at each  *)
(* (trial).                                                                *)
THEOREM Correct == Spec => []IInv
  BY InitIInv, StepIInv, PTL DEF Spec

(* The properties are read off the invariant.                              *)
LEMMA ReadBounds ==
  ASSUME IInv
  PROVE  BoundedOverrun /\ OkInTime
<1> USE TrialAssumption DEF IInv, TypeOK, InTime, Told
<1>1. BoundedOverrun
  BY DEF BoundedOverrun, Overrun, SentBy, ReadyBy
<1>2. OkInTime
  BY DEF OkInTime
<1> QED
  BY <1>1, <1>2

(* A trial exceeds its time by a bound that no timeout of the workload and *)
(* no behaviour of the server can raise.                                   *)
THEOREM OverrunBounded == Spec => []BoundedOverrun
  BY Correct, ReadBounds, PTL

(* A benchmark that succeeds was answered within the time of its trial.    *)
THEOREM OkAnsweredInTime == Spec => []OkInTime
  BY Correct, ReadBounds, PTL
===============================================================================
