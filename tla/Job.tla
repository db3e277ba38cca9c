-------------------------------- MODULE Job --------------------------------
(***************************************************************************)
(* The life of one job (agent/module/job.go): the job manager creates it   *)
(* and runs AutoDetection; if that succeeds and the lock is granted, Start *)
(* runs in a goroutine of its own, fed by the non-blocking Tick, until the *)
(* manager calls Stop, which hands over and takes back the one unbuffered  *)
(* stop channel.  What the module's methods do is chosen freely: succeed,  *)
(* fail or panic (nothing catches a panic of Cleanup: it ends the process  *)
(* and is left out).                                                       *)
(***************************************************************************)
EXTENDS Naturals

CONSTANTS UpdateEvery,  \* data collection interval, in ticks
          PenaltyStep,  \* failures before the interval grows
          MaxPenalty,   \* upper limit of the penalty
          MaxRetries,   \* bound: failures counted, enough to reach MaxPenalty
          Period        \* the clock counts modulo this multiple of all intervals

VARIABLES phase,     \* addConfig: new, failed, detected, denied or started
          loop,      \* Start: none, spawned, select, collecting, teardown, signal or gone
          stopper,   \* Stop: none, sending, waiting or returned
          panicked,  \* j.panicked
          retries,   \* j.retries
          clock,     \* the tick the manager sends next
          checked,   \* history: Init, Check and the check of the charts succeeded
          cleanups   \* history: calls of module.Cleanup

vars == <<phase, loop, stopper, panicked, retries, clock, checked, cleanups>>

\* The slowdown of a job whose collections fail.
Penalty(r) ==
  LET v == ((r \div PenaltyStep) * PenaltyStep * UpdateEvery) \div 2
  IN  IF v > MaxPenalty THEN MaxPenalty ELSE v

Init == /\ phase = "new" /\ loop = "none" /\ stopper = "none"
        /\ panicked = FALSE /\ retries = 0 /\ clock = 0
        /\ checked = FALSE /\ cleanups = 0

-----------------------------------------------------------------------------
(* addConfig: detection, then the lock *)

\* Init, Check or the check of the charts fails or panics; the module is
\* cleaned up.
DetectionFails ==
  /\ phase = "new"
  /\ phase' = "failed"
  /\ panicked' \in BOOLEAN
  /\ cleanups' = cleanups + 1
  /\ UNCHANGED <<loop, stopper, retries, clock, checked>>

DetectionSucceeds ==
  /\ phase = "new"
  /\ phase' = "detected"
  /\ checked' = TRUE
  /\ UNCHANGED <<loop, stopper, panicked, retries, clock, cleanups>>

\* The lock is not granted: the job is dropped, with its charts (none yet), but
\* the module is not cleaned up.
Denied ==
  /\ phase = "detected"
  /\ phase' = "denied"
  /\ UNCHANGED <<loop, stopper, panicked, retries, clock, checked, cleanups>>

StartJob ==
  /\ phase = "detected"
  /\ phase' = "started" /\ loop' = "spawned"
  /\ UNCHANGED <<stopper, panicked, retries, clock, checked, cleanups>>

-----------------------------------------------------------------------------
(* Start *)

\* The goroutine reaches its select for the first time.
Begins ==
  /\ loop = "spawned"
  /\ loop' = "select"
  /\ UNCHANGED <<phase, stopper, panicked, retries, clock, checked, cleanups>>

ShiftedTurn == clock % UpdateEvery = Penalty(retries)
MyTurn == clock % (UpdateEvery + Penalty(retries)) = 0

\* The manager ticks the jobs: a job that is not in its select misses the tick.
\* queueMux keeps ticks out while Stop is under way.
Tick ==
  /\ phase = "started" /\ stopper = "none"
  /\ clock' = (clock + 1) % Period
  /\ loop' = IF loop = "select" /\ MyTurn THEN "collecting" ELSE loop
  /\ UNCHANGED <<phase, stopper, panicked, retries, checked, cleanups>>

Fewer(a, b) == IF a < b THEN a ELSE b

\* runOnce: charts were updated, none was, or Collect panicked.
CollectSucceeds ==
  /\ loop = "collecting"
  /\ loop' = "select"
  /\ panicked' = FALSE /\ retries' = 0
  /\ UNCHANGED <<phase, stopper, clock, checked, cleanups>>

CollectFails ==
  /\ loop = "collecting"
  /\ loop' = "select"
  /\ panicked' = FALSE /\ retries' = Fewer(retries + 1, MaxRetries)
  /\ UNCHANGED <<phase, stopper, clock, checked, cleanups>>

EndsLoop ==
  /\ loop = "collecting"
  /\ loop' = "gone"
  /\ panicked' = TRUE
  /\ UNCHANGED <<phase, stopper, retries, clock, checked, cleanups>>
CollectPanics ==
  /\ loop = "collecting"
  /\ loop' = "select"
  /\ panicked' = TRUE
  /\ UNCHANGED <<phase, stopper, retries, clock, checked, cleanups>>

-----------------------------------------------------------------------------
(* Stop *)

StopBegins ==
  /\ phase = "started" /\ stopper = "none"
  /\ stopper' = "sending"
  /\ UNCHANGED <<phase, loop, panicked, retries, clock, checked, cleanups>>

\* The loop receives the stop ...
StopReceived ==
  /\ stopper = "sending" /\ loop = "select"
  /\ stopper' = "waiting" /\ loop' = "teardown"
  /\ UNCHANGED <<phase, panicked, retries, clock, checked, cleanups>>

\* ... module and job are cleaned up ...
TeardownDirty ==
  /\ loop = "teardown"
  /\ loop' = "signal"
  /\ UNCHANGED <<phase, stopper, panicked, retries, clock, checked, cleanups>>
Teardown ==
  /\ loop = "teardown"
  /\ cleanups' = cleanups + 1
  /\ loop' = "signal"
  /\ UNCHANGED <<phase, stopper, panicked, retries, clock, checked>>

\* ... and Start sends back on the same channel: Stop and Start return.
StopReturns ==
  /\ stopper = "waiting" /\ loop = "signal"
  /\ stopper' = "returned" /\ loop' = "gone"
  /\ UNCHANGED <<phase, panicked, retries, clock, checked, cleanups>>

Terminated == (phase \in {"failed", "denied"} \/ stopper = "returned") /\ UNCHANGED vars

Collected == CollectSucceeds \/ CollectFails \/ CollectPanics

Next == \/ DetectionFails \/ DetectionSucceeds \/ Denied \/ StartJob
        \/ Begins \/ Tick \/ Collected
        \/ StopBegins \/ StopReceived \/ Teardown \/ StopReturns
        \/ Terminated

\* The goroutine runs, Collect returns, the ticker ticks.
Spec == /\ Init /\ [][Next]_vars
        /\ WF_vars(Begins) /\ WF_vars(Collected) /\ WF_vars(Tick)
        /\ WF_vars(StopReceived) /\ WF_vars(Teardown) /\ WF_vars(StopReturns)

-----------------------------------------------------------------------------
\* The types of the job's state; the loop exists once the job is started.
TypeOK ==
  /\ phase \in {"new", "failed", "detected", "denied", "started"}
  /\ loop \in {"none", "spawned", "select", "collecting", "teardown", "signal", "gone"}
  /\ stopper \in {"none", "sending", "waiting", "returned"}
  /\ panicked \in BOOLEAN /\ checked \in BOOLEAN
  /\ retries \in 0..MaxRetries /\ clock \in 0..(Period - 1) /\ cleanups \in Nat
  /\ (loop = "none") = (phase # "started")

\* Collect is called only after a successful detection and never during or
\* after Cleanup, and Cleanup at most once, whenever Stop comes.  When detection
\* failed, or when Stop has returned, the module has been cleaned up and no
\* goroutine of the job is left: removeConfig may unlock the job.
ModuleProtocol ==
  /\ loop \in {"spawned", "select", "collecting"} => checked /\ cleanups = 0
  /\ cleanups <= 1
  /\ phase = "failed" \/ stopper = "returned" => cleanups = 1 /\ loop \in {"none", "gone"}

\* Stop returns, whatever the job is doing, provided Collect does.
StopTerminates == (stopper = "sending") ~> (stopper = "returned")

\* A running job keeps collecting: no run of failures, panics and missed ticks
\* makes the interval and the clock pass each other by for ever.
KeepsCollecting == (loop = "select") ~> (loop = "collecting" \/ stopper # "none")
=============================================================================
