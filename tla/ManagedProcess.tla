---------------------------- MODULE ManagedProcess ----------------------------
(***************************************************************************)
(* Executor.managed and Executor.stop (executor.py): a child process is    *)
(* started in a group of its own, used by the body of a with statement,    *)
(* and its group terminated, killed and reaped when the body is left in    *)
(* any way.  SIGINT and SIGTERM raise KeyboardInterrupt in the main thread *)
(* between any two of its steps, but for the time that stop ignores them.  *)
(*                                                                         *)
(* pc is the step about to be taken.  "leave" is the end of the with       *)
(* statement, before stop is called; "mask_int" ... "restore_term" are     *)
(* within stop; "record" writes the JSON record of the command.            *)
(***************************************************************************)
EXTENDS Naturals

CONSTANT
  MaxSignals       (* bounds the signals sent                              *)

MaskPoints == {"mask_int", "mask_term"}
StopPoints == {"terminate", "grace", "kill", "reap"}
RestorePoints == {"restore_int", "restore_term"}
Points ==
  {"enter", "fork", "assign", "body", "join", "leave", "record", "end"}
  \cup MaskPoints \cup StopPoints \cup RestorePoints

Callers == {"body", "managed"}

ASSUME ProcessAssumption == MaxSignals \in Nat

VARIABLES
  main,            (* the thread is the main one, where signals are seen   *)
  pc,
  known,           (* p is not None                                        *)
  leader,          (* the child: "none", "running", "stuck" (in a system   *)
                   (* call that nothing interrupts), "doomed" (stuck, and  *)
                   (* killed), "killed" (after that), "zombie" or "reaped" *)
  worker,          (* a process of its group: "none", "running" or "dead"  *)
  handling,        (* what a signal does: "raise" or "ignore"              *)
  previous,        (* what stop found, to be restored                      *)
  within,          (* who called stop: the body or managed itself          *)
  raised,          (* the exception on its way, "none" for none            *)
  recorded,        (* the record has been written                          *)
  signals,         (* signals sent                                         *)
  struck           (* not in the code: the steps before which one raised,  *)
                   (* each with the caller that stop had, or last had      *)

child == <<leader, worker>>
thread == <<known, handling, previous, within, raised, recorded>>
history == <<signals, struck>>
vars == <<main, pc, child, thread, history>>

Signals == {"SIGINT", "SIGTERM"}

Init ==
  /\ main \in BOOLEAN
  /\ pc = "enter"
  /\ known = FALSE
  /\ leader = "none" /\ worker = "none"
  /\ handling = [s \in Signals |-> "raise"]
  /\ previous = [s \in Signals |-> "raise"]
  /\ within = "managed"
  /\ raised = "none"
  /\ recorded = FALSE
  /\ signals = 0 /\ struck = {}

-------------------------------------------------------------------------------
(* managed, up to the body.                                                *)

Enter ==
  /\ pc = "enter"
  /\ pc' = "fork"
  /\ UNCHANGED <<main, child, thread, history>>

(* Popen forks ...                                                         *)
Fork ==
  /\ pc = "fork"
  /\ pc' = "assign"
  /\ leader' = "running"
  /\ UNCHANGED <<main, worker, thread, history>>

(* Slip: the error is logged and forgotten.                                *)
ForkFails_Swallowed ==
  /\ pc = "fork"
  /\ pc' = "assign"
  /\ UNCHANGED <<main, child, thread, history>>

(* ... or cannot execute the command.                                      *)
ForkFails ==
  /\ pc = "fork"
  /\ pc' = "leave"
  /\ raised' = "error"
  /\ UNCHANGED <<main, child, known, handling, previous, within, recorded, history>>

(* Popen returns, and p is assigned.                                       *)
Assign ==
  /\ pc = "assign"
  /\ pc' = "body"
  /\ known' = TRUE
  /\ UNCHANGED <<main, child, handling, previous, within, raised, recorded, history>>

-------------------------------------------------------------------------------
(* The body, which waits for the child or uses it otherwise.               *)

(* It ends, or raises an exception, whatever the child does.               *)
BodyEnds ==
  /\ pc = "body"
  /\ pc' = "join"
  /\ raised' \in {"none", "error"}
  /\ UNCHANGED <<main, child, known, handling, previous, within, recorded, history>>

(* wait: the child has exited.                                             *)
BodyReaps ==
  /\ pc = "body"
  /\ leader \in {"zombie", "killed", "reaped"}
  /\ leader' = "reaped"
  /\ pc' = "join"
  /\ UNCHANGED <<main, worker, thread, history>>

(* wait times out, or measure fails: the body stops the child itself.      *)
BodyStops ==
  /\ pc = "body"
  /\ pc' = IF main THEN "mask_int" ELSE "terminate"
  /\ within' = "body"
  /\ UNCHANGED <<main, child, known, handling, previous, raised, recorded, history>>

(* The heartbeat thread is joined, for a second at most.                   *)
Join ==
  /\ pc = "join"
  /\ pc' = "leave"
  /\ UNCHANGED <<main, child, thread, history>>

(* Slip: stop only a child that has not been reaped.                       *)
Leave_IfRunning ==
  /\ pc = "leave"
  /\ pc' = CASE ~known \/ leader = "reaped" -> "record"
             [] known /\ leader # "reaped" ->
                  IF main THEN "mask_int" ELSE "terminate"
  /\ within' = "managed"
  /\ UNCHANGED <<main, child, known, handling, previous, raised, recorded, history>>

Leave ==
  /\ pc = "leave"
  /\ pc' = CASE ~known -> "record"
             [] known  -> IF main THEN "mask_int" ELSE "terminate"
  /\ within' = "managed"
  /\ UNCHANGED <<main, child, known, handling, previous, raised, recorded, history>>

-------------------------------------------------------------------------------
(* stop.                                                                   *)

Ignore(s) ==
  /\ previous' = [previous EXCEPT ![s] = handling[s]]
  /\ handling' = [handling EXCEPT ![s] = "ignore"]
  /\ UNCHANGED <<main, child, known, within, raised, recorded, history>>

MaskInt == pc = "mask_int" /\ pc' = "mask_term" /\ Ignore("SIGINT")
MaskTerm == pc = "mask_term" /\ pc' = "terminate" /\ Ignore("SIGTERM")

(* SIGTERM to the group.  Whoever heeds it exits in its own time.          *)
Terminate ==
  /\ pc = "terminate"
  /\ pc' = "grace"
  /\ UNCHANGED <<main, child, thread, history>>

(* Slip: wait for the child for as long as it takes.                       *)
Grace_Patient ==
  /\ pc = "grace"
  /\ leader \in {"zombie", "killed", "reaped"}
  /\ pc' = "kill"
  /\ leader' = "reaped"
  /\ UNCHANGED <<main, worker, thread, history>>

(* The child exits within the grace period, or it does not.                *)
Grace ==
  /\ pc = "grace"
  /\ pc' = "kill"
  /\ \/ leader \in {"zombie", "killed", "reaped"} /\ leader' = "reaped"
     \/ leader \in {"running", "stuck", "doomed"} /\ UNCHANGED leader
  /\ UNCHANGED <<main, worker, thread, history>>

Killed(process) ==
  CASE process = "running" -> "zombie"
    [] process = "stuck"   -> "doomed"
    [] OTHER               -> process

(* Slip: kill the child, not its group.                                    *)
Kill_Leader ==
  /\ pc = "kill"
  /\ pc' = "reap"
  /\ leader' = Killed(leader)
  /\ UNCHANGED <<main, worker, thread, history>>

(* SIGKILL to what is left of the group.                                   *)
Kill ==
  /\ pc = "kill"
  /\ pc' = "reap"
  /\ leader' = Killed(leader)
  /\ worker' = IF worker = "running" THEN "dead" ELSE worker
  /\ UNCHANGED <<main, thread, history>>

(* Where stop returns to, or raises to.                                    *)
Returned(exception) ==
  IF within = "body" THEN "join"
  ELSE IF exception = "none" THEN "record" ELSE "end"

(* The child is reaped, or TimeoutExpired raised if it cannot be killed.   *)
Reap ==
  /\ pc = "reap"
  /\ \/ /\ leader # "doomed"
        /\ leader' = "reaped"
        /\ pc' = IF main THEN "restore_int" ELSE Returned("none")
        /\ UNCHANGED raised
     \/ /\ leader = "doomed"
        /\ raised' = "timeout"
        /\ pc' = IF main THEN "restore_int" ELSE Returned("timeout")
        /\ UNCHANGED leader
  /\ UNCHANGED <<main, worker, known, handling, previous, within, recorded, history>>

(* Slip: the handlers are restored only if nothing was raised.             *)
RestoreInt_IfStopped ==
  /\ pc = "restore_int"
  /\ IF leader # "reaped"
       THEN pc' = Returned("timeout") /\ UNCHANGED handling
       ELSE /\ pc' = "restore_term"
            /\ handling' = [handling EXCEPT !["SIGINT"] = previous["SIGINT"]]
  /\ UNCHANGED <<main, child, known, previous, within, raised, recorded, history>>

RestoreInt ==
  /\ pc = "restore_int"
  /\ pc' = "restore_term"
  /\ handling' = [handling EXCEPT !["SIGINT"] = previous["SIGINT"]]
  /\ UNCHANGED <<main, child, known, previous, within, raised, recorded, history>>

RestoreTerm ==
  /\ pc = "restore_term"
  /\ handling' = [handling EXCEPT !["SIGTERM"] = previous["SIGTERM"]]
  /\ pc' = Returned(IF leader = "reaped" THEN "none" ELSE "timeout")
  /\ UNCHANGED <<main, child, known, previous, within, raised, recorded, history>>

Record ==
  /\ pc = "record"
  /\ pc' = "end"
  /\ recorded' = TRUE
  /\ UNCHANGED <<main, child, known, handling, previous, within, raised, history>>

-------------------------------------------------------------------------------
(* Signals.                                                                *)

(* Where an exception raised before the step pc continues: in the finally  *)
(* clauses around it, and then with the caller of managed.                 *)
RaisedTo ==
  CASE pc \in {"enter", "leave", "record"} -> "end"
    [] pc \in {"fork", "assign", "join"}   -> "leave"
    [] pc = "body"                         -> "join"
    [] OTHER                               -> Returned("interrupt")

(* A signal is ignored, or raises KeyboardInterrupt in the main thread.    *)
Signal(s) ==
  /\ main /\ pc # "end"
  /\ signals < MaxSignals
  /\ signals' = signals + 1
  /\ IF handling[s] = "raise"
       THEN /\ raised' = "interrupt" /\ pc' = RaisedTo
            /\ struck' = struck \cup {<<pc, within>>}
       ELSE UNCHANGED <<raised, pc, struck>>
  /\ UNCHANGED <<main, child, known, handling, previous, within, recorded>>

-------------------------------------------------------------------------------
(* The child, which may heed SIGTERM, ignore it or exit without it.        *)

Child ==
  /\ \/ /\ leader = "running"
        /\ leader' \in {"zombie", "stuck"}
        /\ UNCHANGED worker
     \/ /\ leader = "stuck"
        /\ leader' = "running"
        /\ UNCHANGED worker
     \/ /\ leader = "doomed"
        /\ leader' = "killed"
        /\ UNCHANGED worker
     \/ /\ leader = "running" /\ worker = "none"
        /\ worker' = "running"
        /\ UNCHANGED leader
     \/ /\ worker = "running"
        /\ worker' = "dead"
        /\ UNCHANGED leader
  /\ UNCHANGED <<main, pc, thread, history>>

-------------------------------------------------------------------------------

Managed ==
  \/ Enter \/ Fork \/ ForkFails \/ Assign
  \/ BodyEnds \/ BodyReaps \/ BodyStops \/ Join \/ Leave
  \/ MaskInt \/ MaskTerm \/ Terminate \/ Grace \/ Kill \/ Reap
  \/ RestoreInt \/ RestoreTerm \/ Record

Terminating == pc = "end" /\ UNCHANGED vars

Next ==
  \/ Managed
  \/ \E s \in Signals : Signal(s)
  \/ Child
  \/ Terminating

Spec == Init /\ [][Next]_vars

(* The thread keeps running: every wait of it has a timeout, those of the  *)
(* body included.  Nothing is assumed of the child or of the user.         *)
FairSpec == Spec /\ WF_vars(Managed)

-------------------------------------------------------------------------------
(* Properties.                                                             *)

TypeOK ==
  /\ pc \in Points
  /\ leader \in {"none", "running", "stuck", "doomed", "killed", "zombie", "reaped"}
  /\ worker \in {"none", "running", "dead"}
  /\ main \in BOOLEAN /\ known \in BOOLEAN /\ recorded \in BOOLEAN
  /\ handling \in [Signals -> {"raise", "ignore"}]
  /\ previous \in [Signals -> {"raise", "ignore"}]
  /\ within \in Callers
  /\ raised \in {"none", "error", "interrupt", "timeout"}
  /\ signals \in 0 .. MaxSignals /\ struck \subseteq Points \X Callers
  /\ known => leader # "none"

(* A signal has raised before one of these steps.                          *)
Struck(points, callers) == struck \cap (points \X callers) # {}

(* Nothing of the group is left, but for a child that has been killed and  *)
(* that the kernel has not let go of.                                      *)
Gone ==
  /\ leader \in {"none", "reaped", "doomed", "killed"}
  /\ worker # "running"

(* However managed is left, it leaves no process behind, unless a signal   *)
(* raised when p was not assigned, or between the end of the body and the  *)
(* masking of both signals by managed's own call of stop (executor.py:112, *)
(* 137-139 and 64-65). A call of stop by the body has a second one behind. *)
GroupGone ==
  pc = "end" =>
    \/ Gone
    \/ Struck({"assign", "leave"}, Callers)
    \/ Struck(MaskPoints, {"managed"})

(* ... and the signal handlers as they were, whether stop returned, timed  *)
(* out or was called twice; but one handler is lost if a signal raises     *)
(* between the two turns of one of the loops of stop: SIGINT's in the loop *)
(* that masks, SIGTERM's in the one that restores (executor.py:64-65 and   *)
(* 69-70). Both are lost in no other way.                                  *)
HandlersRestored ==
  pc = "end" =>
    /\ handling["SIGINT"] = "ignore" <=> Struck({"mask_term"}, Callers)
    /\ handling["SIGTERM"] = "ignore" <=> Struck({"restore_term"}, Callers)

(* The return code in a record is final, and nothing of the group can      *)
(* write to its logs any more, unless p was not assigned: then the record  *)
(* has no return code, and the child may run.                              *)
RecordIsFinal ==
  recorded => (Gone /\ leader \in {"none", "reaped"}) \/ Struck({"assign"}, Callers)

(* managed does not wait forever, not even for a child that cannot die.    *)
ManagedEnds == <>(pc = "end")

(* Statement of the documentation.                                         *)

(* README: process groups are terminated and reaped on interruption; the   *)
(* command line reports so when it is interrupted.                         *)
InterruptedGroupGone == pc = "end" /\ raised = "interrupt" => Gone
===============================================================================
