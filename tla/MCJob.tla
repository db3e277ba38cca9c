------------------------------- MODULE MCJob -------------------------------
(***************************************************************************)
(* What a job is made of and what surrounds it, for TLC: Job, JobCharts,   *)
(* Ticker, FileLock and FileStatus.  A behaviour is one of one of them, as *)
(* the constant-like variable subject says.  FileLock's names are taken    *)
(* over as they are.                                                       *)
(***************************************************************************)
EXTENDS FileLock, Integers, Sequences

CONSTANTS UpdateEvery, PenaltyStep, MaxPenalty, MaxRetries, Period,
          Id, TooLong, MaxCharts, AddsTwice,
          MaxTime,
          Cfg, Value, None, Unreadable, MaxSaves, MaxInstances

VARIABLES subject,
          jobPhase, loop, stopper, panicked, retries, clock, checked, cleanups,
          chartsPc, charts, kept, metrics, live, panic, wrong,
          now, wake, pc, loops, done, closed, stopped, got,
          life, instances, ctxDone, loaded, store, saver, saves, dirty, late,
          flag, flush, final, snap, file, failed

jobVars == <<jobPhase, loop, stopper, panicked, retries, clock, checked, cleanups>>
chartsVars == <<chartsPc, charts, kept, metrics, live, panic, wrong>>
tickerVars == <<now, wake, pc, loops, done, closed, stopped, got>>
lockVars == vars
statusVars == <<life, instances, ctxDone, loaded, store, saver, saves, dirty, late,
                flag, flush, final, snap, file, failed>>
allVars == <<subject, jobVars, chartsVars, tickerVars, lockVars, statusVars>>

J == INSTANCE Job WITH phase <- jobPhase
C == INSTANCE JobCharts WITH pc <- chartsPc
T == INSTANCE Ticker
S == INSTANCE FileStatus WITH pc <- flush

\* The bounds fit together: MaxRetries failures bring the highest penalty, and
\* the clock may count modulo Period, a multiple of every interval.  A file that
\* cannot be decoded is no store.
ASSUME MCJobAssumption ==
  /\ J!Penalty(MaxRetries) = MaxPenalty
  /\ \A r \in 0..MaxRetries : Period % (UpdateEvery + J!Penalty(r)) = 0
  /\ \A s \in S!Store : s # Unreadable

\* A component that is not the subject has one initial state only.
MCInit == /\ subject \in {"job", "charts", "ticker", "locks", "statuses"}
          /\ subject # "charts" => charts = <<>>
          /\ J!Init /\ C!Init /\ T!Init /\ Init /\ S!Init

OfJob == subject = "job" /\ UNCHANGED <<subject, chartsVars, tickerVars, lockVars, statusVars>>
OfCharts == subject = "charts" /\ UNCHANGED <<subject, jobVars, tickerVars, lockVars, statusVars>>
OfTicker == subject = "ticker" /\ UNCHANGED <<subject, jobVars, chartsVars, lockVars, statusVars>>
OfLocks == subject = "locks" /\ UNCHANGED <<subject, jobVars, chartsVars, tickerVars, statusVars>>
OfStatuses == subject = "statuses" /\ UNCHANGED <<subject, jobVars, chartsVars, tickerVars, lockVars>>

MCNext == \/ J!Next /\ OfJob
          \/ C!Next /\ OfCharts
          \/ T!Next /\ OfTicker
          \/ Next /\ OfLocks
          \/ S!Next /\ OfStatuses

\* The fairness of Job, Ticker and FileStatus.
MCSpec == /\ MCInit /\ [][MCNext]_allVars
          /\ WF_allVars(OfJob /\ J!Begins) /\ WF_allVars(OfJob /\ J!Collected) /\ WF_allVars(OfJob /\ J!Tick)
          /\ WF_allVars(OfJob /\ J!StopReceived) /\ WF_allVars(OfJob /\ J!Teardown)
          /\ WF_allVars(OfJob /\ J!StopReturns)
          /\ WF_allVars(OfTicker /\ T!TimePasses) /\ WF_allVars(OfTicker /\ T!Wakes)
          /\ SF_allVars(OfTicker /\ T!Finish)
          /\ WF_allVars(OfStatuses /\ S!TriggerFlush) /\ WF_allVars(OfStatuses /\ S!Flusher)
          /\ WF_allVars(OfStatuses /\ S!SaverReturns) /\ WF_allVars(OfStatuses /\ S!Exit)

\* The properties of the other four modules, under their own names.
ModuleProtocol == J!ModuleProtocol
StopTerminates == J!StopTerminates
KeepsCollecting == J!KeepsCollecting
NetdataMatchesList == C!NetdataMatchesList
StopEnds == T!StopEnds
ExitKeepsStatuses == S!ExitKeepsStatuses
EventuallyFlushed == S!EventuallyFlushed
=============================================================================
