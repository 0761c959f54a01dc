--------------------------------- MODULE Trial ---------------------------------
(***************************************************************************)
(* trial (server/runner.py) against the clock: the memory is sampled, the  *)
(* server launched and polled until it is ready, the memory sampled again, *)
(* the requests of measure sent, the memory sampled a last time, and the   *)
(* server stopped.  trial_timeout limits the time to get ready and every   *)
(* request; the samples and the cleanup have limits of their own.          *)
(*                                                                         *)
(* Time is counted from the start of the trial, in units too small to      *)
(* matter.  A step takes any time up to its own limit.  What the server    *)
(* answers is nondeterministic; so are the outcomes of check(), which      *)
(* MemoryMonitor models.                                                   *)
(***************************************************************************)
EXTENDS Naturals

CONSTANTS
  TrialTimeout, StartupTimeout, RequestTimeout,   (* of the Workload       *)
  HealthTimeout,   (* of a poll of /health, or of /props in its place      *)
  PropsTimeout,    (* of /props; also what startup leaves of the trial     *)
  Least,           (* the least timeout given to a step, 0.1 seconds       *)
  Pause,           (* between two polls                                    *)
  SampleTime,      (* nvidia-smi twice, with its own timeout and cleanup   *)
  StopTime,        (* the grace period and the wait of Executor.stop       *)
  JoinTime,        (* the wait for the monitor's thread                    *)
  Singles,         (* requests before the rounds: two tokenize, a warm-up  *)
  Repeats          (* rounds of concurrent requests                        *)

ASSUME TrialAssumption ==
  /\ {TrialTimeout, StartupTimeout, RequestTimeout} \subseteq Nat \ {0}
  /\ {HealthTimeout, PropsTimeout, SampleTime, StopTime, JoinTime} \subseteq Nat
  /\ Least \in Nat \ {0} /\ Pause \in Nat \ {0}
  /\ Singles \in Nat /\ Repeats \in Nat

VARIABLES
  benchmark,       (* the argument of trial                                *)
  pc,              (* the step about to be taken                           *)
  now,             (* the time                                             *)
  limit,           (* when ready gives up                                  *)
  todo,            (* requests still to be sent                            *)
  answered,        (* when the last of them was answered                   *)
  status,          (* of the result                                        *)
  escapes          (* an exception that trial does not catch               *)

vars == <<benchmark, pc, now, limit, todo, answered, status, escapes>>

Lesser(a, b) == IF a < b THEN a ELSE b
Greater(a, b) == IF a > b THEN a ELSE b

Init ==
  /\ benchmark \in BOOLEAN
  /\ pc = "enter"
  /\ now = 0 /\ limit = 0 /\ answered = 0
  /\ todo = Singles + Repeats
  /\ status = "interrupted"
  /\ escapes = FALSE

-------------------------------------------------------------------------------

(* A step takes d.                                                         *)
Takes(d) == now' = now + d

Goto(step) == pc' = step /\ UNCHANGED status

(* An exception leaves the with statements: the server is stopped if it    *)
(* was launched, and the monitor is told to end.                           *)
Raise(kind, step) == status' = kind /\ pc' = step

Overtime == now >= TrialTimeout

(* What is left of the trial, and never less than Least.                   *)
Remaining == Greater(Least, TrialTimeout - now)

(* Slip: the server may take as long to start as in any trial.             *)
StartupLimit_Configured == now + StartupTimeout

StartupLimit ==
  now + Lesser(StartupTimeout,
               IF TrialTimeout - now > PropsTimeout + Least
                 THEN TrialTimeout - now - PropsTimeout ELSE Least)

(* Slip: a request is given the timeout of the workload.                   *)
RequestLimit_Configured == RequestTimeout

RequestLimit == Lesser(RequestTimeout, Remaining)

-------------------------------------------------------------------------------
(* Up to the launch.                                                       *)

Enter ==
  /\ pc = "enter"
  /\ \E d \in 0 .. SampleTime : Takes(d)
  /\ Goto("launch")
  /\ UNCHANGED <<benchmark, limit, todo, answered, escapes>>

(* There is no time left, or the server cannot be executed.                *)
NoLaunch ==
  /\ pc = "launch"
  /\ \/ Overtime /\ Raise("trial_timeout", "join")
     \/ ~Overtime /\ Raise("backend_error", "join")
  /\ UNCHANGED <<benchmark, now, limit, todo, answered, escapes>>

Launch ==
  /\ pc = "launch" /\ ~Overtime
  /\ limit' = StartupLimit
  /\ Goto("poll")
  /\ UNCHANGED <<benchmark, now, todo, answered, escapes>>

-------------------------------------------------------------------------------
(* ready.                                                                  *)

HealthLimit == Lesser(HealthTimeout, Greater(Least, limit - now))

(* The server answers that it is well, or does not know /health but        *)
(* answers /props.                                                         *)
Healthy ==
  /\ pc = "poll" /\ now < limit
  /\ \E d \in 0 .. HealthLimit + HealthTimeout : Takes(d)
  /\ Goto("props")
  /\ UNCHANGED <<benchmark, limit, todo, answered, escapes>>

(* It does not answer, or is still loading.                                *)
Unready ==
  /\ pc = "poll" /\ now < limit
  /\ \E d \in Pause .. Pause + HealthLimit + HealthTimeout : Takes(d)
  /\ Goto("poll")
  /\ UNCHANGED <<benchmark, limit, todo, answered, escapes>>

(* It has exited, or answers with an error.                                *)
Unstartable ==
  /\ pc = "poll" /\ now < limit
  /\ \E d \in 0 .. HealthLimit : Takes(d)
  /\ Raise("server_error", "stop")
  /\ UNCHANGED <<benchmark, limit, todo, answered, escapes>>

StartupTimedOut ==
  /\ pc = "poll" /\ now >= limit
  /\ Raise("startup_timeout", "stop")
  /\ UNCHANGED <<benchmark, now, limit, todo, answered, escapes>>

(* /props is answered, fails to answer in time, or tells of a server that  *)
(* is not the one asked for.                                               *)
Props ==
  /\ pc = "props"
  /\ \/ Goto("sample")
     \/ Raise("trial_timeout", "stop")
     \/ Raise("server_error", "stop")
  /\ \E d \in 0 .. PropsTimeout : Takes(d)
  /\ UNCHANGED <<benchmark, limit, todo, answered, escapes>>
-------------------------------------------------------------------------------
(* The samples and measure.                                                *)

Checked(step) ==
  /\ \/ Goto(step)
     \/ Raise("memory_error", "stop")
  /\ \E d \in 0 .. SampleTime : Takes(d)
  /\ UNCHANGED <<benchmark, limit, todo, answered, escapes>>

Sample == pc = "sample" /\ Checked(IF benchmark THEN "request" ELSE "last")

(* Nothing more is sent when the time is over.                             *)
RequestOvertime ==
  /\ pc = "request" /\ todo > 0 /\ Overtime
  /\ Raise("trial_timeout", IF todo > Repeats THEN "stop" ELSE "cut")
  /\ UNCHANGED <<benchmark, now, limit, todo, answered, escapes>>

(* A request, or a round of concurrent ones, is answered.                  *)
Request ==
  /\ pc = "request" /\ todo > 0 /\ ~Overtime
  /\ \E d \in 0 .. RequestLimit : Takes(d)
  /\ todo' = todo - 1
  /\ answered' = now'
  /\ Goto("request")
  /\ UNCHANGED <<benchmark, limit, escapes>>

(* It is answered with an error, or not in time.  If it is one of a round, *)
(* the server is stopped before the others are waited for.                 *)
RequestFails ==
  /\ pc = "request" /\ todo > 0 /\ ~Overtime
  /\ \E d \in 0 .. RequestLimit : Takes(d)
  /\ \E kind \in {"server_error", "trial_timeout", "backend_error"} :
       Raise(kind, IF todo > Repeats THEN "stop" ELSE "cut")
  /\ UNCHANGED <<benchmark, limit, todo, answered, escapes>>

(* Executor.stop, which raises TimeoutExpired if the server does not die.  *)
Stopped ==
  /\ \E d \in 0 .. StopTime : Takes(d)
  /\ escapes' \in {escapes, TRUE}

Cut ==
  /\ pc = "cut" /\ Stopped
  /\ Goto("stop")
  /\ UNCHANGED <<benchmark, limit, todo, answered>>

(* All are answered, and the server is still running or is not.            *)
Measured ==
  /\ pc = "request" /\ todo = 0
  /\ \/ Goto("last")
     \/ Raise("server_error", "stop")
  /\ UNCHANGED <<benchmark, now, limit, todo, answered, escapes>>

Last ==
  /\ pc = "last"
  /\ Raise("ok", "stop") \/ Raise("memory_error", "stop")
  /\ \E d \in 0 .. SampleTime : Takes(d)
  /\ UNCHANGED <<benchmark, limit, todo, answered, escapes>>

-------------------------------------------------------------------------------
(* The end.                                                                *)

Stop ==
  /\ pc = "stop" /\ Stopped
  /\ Goto("join")
  /\ UNCHANGED <<benchmark, limit, todo, answered>>

Join ==
  /\ pc = "join"
  /\ \E d \in 0 .. JoinTime : Takes(d)
  /\ Goto("end")
  /\ UNCHANGED <<benchmark, limit, todo, answered, escapes>>
(* Where an exception raised in the main thread continues.                 *)
RaisedTo ==
  CASE pc \in {"enter", "join"} -> "end"
    [] pc = "launch" -> "join"
    [] pc = "request" /\ todo <= Repeats -> "cut"
    [] OTHER -> "stop"

(* KeyboardInterrupt, which Executor.stop keeps out.                       *)
Interrupt ==
  /\ pc \notin {"cut", "stop", "end"}
  /\ Goto(RaisedTo)
  /\ escapes' = TRUE
  /\ UNCHANGED <<benchmark, now, limit, todo, answered>>

Terminating == pc = "end" /\ UNCHANGED vars

Next ==
  \/ Enter \/ NoLaunch \/ Launch
  \/ Healthy \/ Unready \/ Unstartable \/ StartupTimedOut \/ Props
  \/ Sample \/ RequestOvertime \/ Request \/ RequestFails \/ Cut \/ Measured \/ Last
  \/ Stop \/ Join
  \/ Interrupt
  \/ Terminating

Spec == Init /\ [][Next]_vars

-------------------------------------------------------------------------------
(* Properties.                                                             *)

TypeOK ==
  /\ benchmark \in BOOLEAN /\ escapes \in BOOLEAN
  /\ pc \in {"enter", "launch", "poll", "props", "sample", "request", "cut",
             "last", "stop", "join", "end"}
  /\ {now, limit, answered} \subseteq Nat
  /\ todo \in 0 .. Singles + Repeats
  /\ status \in {"interrupted", "ok", "trial_timeout", "startup_timeout",
                 "server_error", "memory_error", "backend_error"}

(* By how much a trial may exceed its time: a poll that has begun, /props, *)
(* two samples, stopping the server twice and joining the monitor.         *)
Overrun ==
  Least + Least + HealthTimeout + Pause + PropsTimeout
    + SampleTime + SampleTime + StopTime + StopTime + JoinTime

(* However a trial ends, it ends soon after its time, with a bound that    *)
(* depends on neither the timeouts of the workload nor the server.         *)
BoundedOverrun == now <= TrialTimeout + Overrun

(* A benchmark that succeeds had all its answers, and had them in time.    *)
OkInTime ==
  benchmark /\ status = "ok" => todo = 0 /\ answered < TrialTimeout + Least
===============================================================================
