------------------------------- MODULE Ticker -------------------------------
(***************************************************************************)
(* The ticker (agent/ticker): a goroutine sleeps to the next interval      *)
(* boundary and then offers its count on an unbuffered channel, or sees    *)
(* the stop.  A consumer reads the channel when it is ready and calls Stop *)
(* once (jobmgr runRunningJobsHandling); it may keep on reading.           *)
(***************************************************************************)
EXTENDS Integers

CONSTANT MaxTime  \* bound: interval boundaries and ticks counted

VARIABLES now,      \* interval boundaries passed
          wake,     \* the boundary the goroutine sleeps to
          pc,       \* the goroutine: sleeping, offering or done
          loops,    \* t.loops
          done,     \* the done channel holds its element
          closed,   \* C is closed
          stopped,  \* Stop has returned
          got       \* the last value the consumer read from C, -1 before the first

vars == <<now, wake, pc, loops, done, closed, stopped, got>>

Init == /\ now = 0 /\ wake = 1 /\ pc = "sleeping" /\ loops = 0
        /\ done = FALSE /\ closed = FALSE /\ stopped = FALSE /\ got = -1

TimePasses == /\ now < MaxTime
              /\ now' = now + 1
              /\ UNCHANGED <<wake, pc, loops, done, closed, stopped, got>>

\* time.Sleep returns at the boundary, or later.
Wakes == /\ pc = "sleeping" /\ wake <= now
         /\ pc' = "offering"
         /\ UNCHANGED <<now, wake, loops, done, closed, stopped, got>>

\* Truncate(interval).Add(interval): the first boundary after this moment.  At
\* the bound time goes on, uncounted.
NextRun == IF now < MaxTime THEN now + 1 ELSE now

Counted == loops + 1

\* The select of the goroutine: the consumer takes the count ...
Tick == /\ pc = "offering" /\ loops < MaxTime
        /\ got' = loops
        /\ loops' = Counted
        /\ wake' = NextRun
        /\ pc' = "sleeping"
        /\ UNCHANGED <<now, done, closed, stopped>>

\* ... or the stop is seen, and the channel closed.
IgnoresStop == FALSE
StopSeen == done

Finish == /\ pc = "offering" /\ StopSeen
          /\ done' = FALSE
          /\ closed' = TRUE
          /\ pc' = "done"
          /\ UNCHANGED <<now, wake, loops, stopped, got>>

\* Stop puts its element into done, which has room for it.
Stop == /\ ~stopped
        /\ stopped' = TRUE
        /\ done' = TRUE
        /\ UNCHANGED <<now, wake, pc, loops, closed, got>>

\* A read of a closed channel yields zero at once.
ReadClosed == /\ closed
              /\ got' = 0
              /\ UNCHANGED <<now, wake, pc, loops, done, closed, stopped>>

Next == TimePasses \/ Wakes \/ Tick \/ Finish \/ Stop \/ ReadClosed

\* Time passes, and the select takes the stop in the end even if the consumer
\* is always ready too.
Spec == Init /\ [][Next]_vars /\ WF_vars(TimePasses) /\ WF_vars(Wakes) /\ SF_vars(Finish)

-----------------------------------------------------------------------------
\* Types; C is closed only by the goroutine, on its way out.
TypeOK == /\ now \in 0..MaxTime /\ wake \in 1..MaxTime /\ loops \in Nat
          /\ pc \in {"sleeping", "offering", "done"}
          /\ done \in BOOLEAN /\ closed \in BOOLEAN /\ stopped \in BOOLEAN /\ got \in -1..MaxTime
          /\ closed = (pc = "done")

\* Stop ends the goroutine, even when the consumer stays ready for ticks.
StopEnds == stopped ~> pc = "done"
=============================================================================
