--------------------------- MODULE CollectorProofs ---------------------------
(* NoClientStrays and ChartsFollow, for every catalogue of collectors that    *)
(* meets CollectorAssumption and FollowsAssumption, and any number of         *)
(* instances, names and faults.                                               *)
(*                                                                            *)
(* NoClientStrays: the clients opened and not closed are the one the module   *)
(* holds, if any.  That Init opens one only where none is held needs the      *)
(* stronger fact that a module that has not been initialised, or was cleaned  *)
(* up, holds none.  ChartsFollow has its argument in the second part.         *)
EXTENDS Collector, TLAPS

Resting == {New, Again, Failed, Cleaned}

IInv ==
    /\ subject \in Subjects /\ pc \in Int /\ pc <= Len(Steps)
    /\ subject \notin Straying =>
           /\ handles = (IF session = "none" THEN 0 ELSE 1)
           /\ pc \in Resting => session = "none"

\* The length of Collect, and that of the Check.
LEMMA StepsLemma ==
    ASSUME IInv
    PROVE  /\ Len(Steps) \in Nat \ {0} /\ DOMAIN Steps = 1..Len(Steps)
           /\ LastStep \in 0..Len(Steps)
BY CollectorAssumption DEF IInv, Steps, LastStep

\* The session is opened where there is none, closed, or left alone, and the
\* module does not come to rest, unless it has closed it.
LEMMA SessionInv ==
    ASSUME IInv, subject' = subject, pc' \in Int, pc' <= Len(Steps),
           \/ session = "none" /\ Opened /\ pc' \notin Resting
           \/ OpenRefused /\ pc' \notin Resting
           \/ Closed
           \/ UNCHANGED sessionVars /\ pc' \notin Resting
    PROVE  IInv'
<1>1. subject \notin Straying => ~subject.session.strays
  BY CollectorAssumption, Zenon DEF IInv
<1>2. CASE session = "none" /\ Opened /\ pc' \notin Resting
  BY <1>2 DEF IInv, Opened, Resting, Steps
<1>3. CASE OpenRefused /\ pc' \notin Resting
  BY <1>1, <1>3 DEF IInv, OpenRefused, Resting, Steps
<1>4. CASE Closed
  BY <1>4 DEF IInv, Closed, Resting, Steps
<1>5. CASE UNCHANGED sessionVars /\ pc' \notin Resting
  BY <1>5, Zenon DEF IInv, sessionVars, Resting, Steps
<1> QED BY <1>2, <1>3, <1>4, <1>5, Zenon

\* Nothing of this changes.
LEMMA Elsewhere ==
    ASSUME IInv, UNCHANGED <<subject, pc, handles>>,
           session' = session \/ (session = "live" /\ session' = "broken")
    PROVE  IInv'
BY Zenon DEF IInv, Resting, Steps

LEMMA LeavesInv ==
    ASSUME IInv, subject' = subject, NEW how, NEW metrics, Leaves(how, metrics)
    PROVE  IInv'
<1>1. pc' \in Int /\ pc' <= Len(Steps) /\ pc' \notin Resting
  BY StepsLemma DEF Leaves, Idle, Resting, New, Again, Failed, Cleaned
<1> QED BY <1>1, SessionInv, Zenon DEF Leaves

\* Collect goes on with the next step, or ends.
LEMMA StepAfterInv ==
    ASSUME IInv, subject' = subject, NEW k \in Nat, NEW metrics, StepAfter(k, metrics)
    PROVE  IInv'
<1>1. CASE Leaves("ok", metrics)
  BY <1>1, LeavesInv, Zenon
<1>2. CASE k < LastStep /\ pc' = k + 1 /\ UNCHANGED sessionVars
  BY <1>2, StepsLemma, SessionInv DEF Resting, New, Again, Failed, Cleaned
<1> QED BY <1>1, <1>2, Zenon DEF StepAfter

\* A failed request ends Collect.
LEMMA AbortsInv ==
    ASSUME IInv, subject' = subject, NEW how, Aborts(how)
    PROVE  IInv'
<1>1. CASE Leaves(how, got)
  BY <1>1, LeavesInv, Zenon
<1>2. CASE pc' = Idle /\ AfterError
  BY <1>2, StepsLemma, SessionInv DEF Idle, Resting, New, Again, Failed, Cleaned, AfterError
<1> QED BY <1>1, <1>2, Zenon DEF Aborts

\* A step that skips its block comes to an end of one.
LEMMA AfterBlockLemma ==
    ASSUME IInv, Running, SkipsBlock(Current)
    PROVE  AfterBlock(pc) \in Nat
<1> DEFINE End(n) == EndsBlock(Steps[n]) /\ \A m \in pc..n - 1 : ~EndsBlock(Steps[m])
<1>1. \E n \in pc..Len(Steps) : End(n)
  BY StepsLemma, CollectorAssumption DEF IInv, Running, Idle, Steps, Current
<1>2. AfterBlock(pc) = CHOOSE n \in pc..Len(Steps) : End(n)
  BY Zenon DEF AfterBlock
<1> HIDE DEF End
<1>3. AfterBlock(pc) \in pc..Len(Steps)
  BY <1>1, <1>2, Zenon
<1>4. pc \in Int /\ pc > 0
  BY Zenon DEF IInv, Running, Idle
<1> QED BY <1>3, <1>4
----------------------------------------------------------------------------
(* The actions                                                                *)

\* Init, and the refusals of Init.
LEMMA InitialisesInv ==
    ASSUME IInv, ModuleInit \/ InitRefused
    PROVE  IInv'
<1>1. pc \in Resting /\ subject' = subject
  BY Zenon DEF ModuleInit, InitRefused, Resting
<1>2. pc' \in Int /\ pc' <= Len(Steps) /\ pc' \notin Resting
  BY StepsLemma DEF ModuleInit, InitRefused, Idle, Resting, New, Again, Failed, Cleaned
<1>3. Opened \/ OpenRefused \/ UNCHANGED sessionVars
  BY Zenon DEF ModuleInit, InitRefused, Refuses
<1>4. CASE Opened
  BY <1>1, <1>2, <1>4, SessionInv, Zenon DEF IInv, Steps
<1> QED BY <1>1, <1>2, <1>3, <1>4, SessionInv, Zenon

\* Cleanup leaves no client behind, and the next module starts without one.
LEMMA CleanupInv ==
    ASSUME IInv, Cleanup \/ Redetect
    PROVE  IInv'
<1>1. subject' = subject /\ pc' \in Int /\ pc' <= Len(Steps)
  BY StepsLemma DEF Cleanup, Redetect, Failed, Cleaned, Again
<1>2. CASE Cleanup
  BY <1>1, <1>2, CollectorAssumption, SessionInv, Zenon DEF IInv, Steps, Cleanup, CleanupSession
<1>3. CASE Redetect
  BY <1>1, <1>3, Zenon DEF Redetect, IInv, Steps
<1> QED BY <1>2, <1>3, Zenon

\* Entering Collect opens a client only where there is none.
LEMMA CollectInv == IInv /\ Collect => IInv'
<1> SUFFICES ASSUME IInv, Collect PROVE IInv'
  OBVIOUS
<1>1. subject' = subject /\ pc' \in {Idle, 1}
  BY Zenon DEF Collect
<1>2. pc' \in Int /\ pc' <= Len(Steps) /\ pc' \notin Resting
  BY <1>1, StepsLemma DEF Idle, Resting, New, Again, Failed, Cleaned
<1>3. (session = "none" /\ Opened) \/ OpenRefused \/ UNCHANGED sessionVars
  BY Zenon DEF Collect
<1> QED BY <1>1, <1>2, <1>3, SessionInv, Zenon

\* The steps of Collect.
LEMMA CollectStepInv ==
    ASSUME IInv, \/ Skips \/ Asks \/ Lists \/ ListsNothing \/ Probes \/ Fails
                 \/ Resets \/ Adds \/ Removes \/ Updates
    PROVE  IInv'
<1>1. subject' = subject /\ pc \in Nat /\ Running
  <2>1. subject' = subject
    BY Zenon DEF Skips, Asks, Lists, ListsNothing, Probes, Fails, Resets, Adds, Removes, Updates
  <2>2. Running
    BY Zenon DEF Skips, Asks, Lists, ListsNothing, Probes, Fails, Resets, Adds, Removes, Updates,
       Runs
  <2>3. pc \in Nat
    BY <2>2 DEF IInv, Running, Idle
  <2> QED BY <2>1, <2>2, <2>3, Zenon
<1>2. ASSUME NEW metrics, StepAfter(pc, metrics) PROVE IInv'
  BY <1>1, <1>2, StepAfterInv, Zenon
<1>3. ASSUME SkipsBlock(Current), StepAfter(AfterBlock(pc), got) PROVE IInv'
  BY <1>1, <1>3, AfterBlockLemma, StepAfterInv, Zenon
<1>4. CASE ListsNothing
  <2>1. CASE SkipsBlock(Current) /\ StepAfter(AfterBlock(pc), got)
    BY <1>3, <2>1, Zenon
  <2>2. CASE Leaves("error", FALSE)
    BY <1>1, <2>2, LeavesInv, Zenon
  <2> QED BY <1>4, <2>1, <2>2, Zenon DEF ListsNothing, NothingToAsk, SkipsBlock
<1>5. CASE Fails
  <2>1. CASE Aborts(Current.fail)
    BY <1>1, <2>1, AbortsInv, Zenon
  <2>2. CASE SkipsBlock(Current) /\ StepAfter(AfterBlock(pc), got)
    BY <1>3, <2>2, Zenon
  <2>3. CASE StepAfter(pc, got) \/ StepAfter(pc, TRUE)
    BY <1>2, <2>3, Zenon
  <2> QED BY <1>5, <2>1, <2>2, <2>3, Zenon DEF Fails, SkipsBlock
<1>6. CASE Skips \/ Asks \/ Lists \/ Probes \/ Resets \/ Adds \/ Removes \/ Updates
  BY <1>2, <1>6, Zenon DEF Skips, Asks, Lists, Probes, Resets, Adds, Removes, Updates
<1> QED BY <1>4, <1>5, <1>6, Zenon

LEMMA InitInv == Init => IInv
<1> SUFFICES ASSUME Init PROVE IInv
  OBVIOUS
<1>1. Len(Steps) \in Nat
  BY CollectorAssumption, Zenon DEF Init, Steps
<1> QED BY <1>1 DEF Init, IInv, New

LEMMA StepInv == IInv /\ [Next]_vars => IInv'
<1> SUFFICES ASSUME IInv, [Next]_vars PROVE IInv'
  OBVIOUS
<1>1. CASE GoesDown \/ ComesUp \/ Changes \/ Rediscovers
  BY <1>1, Elsewhere, Zenon DEF GoesDown, ComesUp, Changes, Rediscovers, sessionVars
<1>2. CASE ModuleInit \/ InitRefused
  BY <1>2, InitialisesInv, Zenon
<1>3. CASE Cleanup \/ Redetect
  BY <1>3, CleanupInv, Zenon
<1>4. CASE Collect
  BY <1>4, CollectInv, Zenon
<1>5. CASE \/ Skips \/ Asks \/ Lists \/ ListsNothing \/ Probes \/ Fails
           \/ Resets \/ Adds \/ Removes \/ Updates
  BY <1>5, CollectStepInv, Zenon
<1>6. CASE Terminated \/ UNCHANGED vars
  BY <1>6, Elsewhere, Zenon DEF Terminated, vars, sessionVars
<1> QED BY <1>1, <1>2, <1>3, <1>4, <1>5, <1>6, Zenon DEF Next

\* A collector that closes its client in Cleanup and after a failed opening
\* never has more than the one it holds, however failures, reconnections,
\* detections and Cleanup follow each other (the modules' Init, Collect and
\* Cleanup as the catalogue records them).
THEOREM NoClientStraysCorrect == Spec => []NoClientStrays
<1>1. IInv => NoClientStrays
  BY Zenon DEF IInv, NoClientStrays, Resting
<1>2. Spec => []IInv
  BY InitInv, StepInv, PTL DEF Spec
<1> QED BY <1>1, <1>2, PTL
----------------------------------------------------------------------------
(* ChartsFollow, for every catalogue whose collectors, but the deviating      *)
(* ones, meet FollowsAssumption.                                              *)
(*                                                                            *)
(* Tracking counts exactly the rounds that the history counts, and the charts *)
(* are those of the tracked instances (Levels).  For that the marks have to   *)
(* be the instances reported in this Collect whenever charts are added or     *)
(* removed, and the listing answered whenever they are removed: Phases says   *)
(* so of every place in the steps, and what is left of it between two         *)
(* Collects.                                                                  *)

Agree == marked = reported

\* This Collect asks for the instances.
Asked(reset) == Steps[reset].timer \in due \cup {0}

RemovalAhead(k) == \E e \in DOMAIN Steps : e >= k /\ EndsBlock(Steps[e])

Listed(reset, list) ==
    /\ \A k \in done : k \in DOMAIN Steps /\ Steps[k].do = "ask"
    /\ Running /\ pc > list /\ Asked(reset) /\ RemovalAhead(pc) => answered

\* Before charts are removed, those of the marked instances have been added.
Charted(list) ==
    \A m, e \in DOMAIN Steps :
        /\ Running /\ list < m /\ m < pc /\ pc <= e
        /\ Steps[m].do = "add" /\ Steps[m].timer \in due \cup {0}
        /\ Steps[e].do = "remove"
        => \A i \in Ids : i \in marked => tracked[i] # Untracked

Unasked == subject.session.at = "collect" /\ session = "none" /\ pc \in {New, Again, Idle}

FirstPhases(reset) ==
    /\ Running /\ pc <= reset /\ Asked(reset) => reported = {}
    /\ Running /\ (pc > reset \/ ~Asked(reset)) => Agree
    /\ Steps[reset].timer # 0 =>
           /\ ~Running => Agree
           /\ Running /\ subject.session.at = "collect" => session # "none"
           /\ Unasked => marked = {}

LastPhases(reset, list) ==
    /\ Running /\ pc <= reset => Agree
    /\ Running /\ pc <= list => reported = {}
    /\ ~Running \/ pc > reset => marked = {}

Phases(reset, list) ==
    /\ Listed(reset, list) /\ Charted(list)
    /\ ResetsFirst(subject, reset, list) => FirstPhases(reset)
    /\ ResetsLast(subject, reset, list) => LastPhases(reset, list)

AllPhases ==
    subject \notin Deviating =>
        \A reset, list : Ordered(subject, reset, list) => Phases(reset, list)

Level(i) ==
    /\ missed[i] \in 0..subject.limit
    /\ tracked[i] = IF Reported(i) THEN missed[i] ELSE Untracked
    /\ Overlapped(i) \/ (i \in charts <=> Reported(i))

Levels ==
    subject \notin Deviating => leftover = {} /\ \A i \in Ids : Level(i)

\* A module whose Check is always true collects only once it is in use.
InUse == subject.checks = 0 => checked \/ (outcome = "refused" /\ pc \in {Idle, Cleaned})

FollowInv == InUse /\ AllPhases /\ Levels

CollectSteps ==
    \/ Skips \/ Asks \/ Lists \/ ListsNothing \/ Probes \/ Fails
    \/ Resets \/ Adds \/ Removes \/ Updates

----------------------------------------------------------------------------
(* Where a step of Collect leads                                              *)

LEMMA RunningLemma ==
    ASSUME IInv, CollectSteps
    PROVE  /\ subject' = subject /\ Steps' = Steps /\ due' = due
           /\ Running /\ pc \in Nat \ {0} /\ pc \in DOMAIN Steps
<1>1. subject' = subject /\ due' = due
  BY Zenon DEF CollectSteps, Skips, Asks, Lists, ListsNothing, Probes, Fails, Resets, Adds,
     Removes, Updates
<1>2. Running
  BY Zenon DEF CollectSteps, Skips, Asks, Lists, ListsNothing, Probes, Fails, Resets, Adds, Removes,
         Updates, Runs
<1>3. pc \in Nat \ {0} /\ pc \in DOMAIN Steps
  BY <1>2, StepsLemma DEF IInv, Running, Idle
<1> QED BY <1>1, <1>2, <1>3, Zenon DEF Steps

\* Collect goes on with the next step, stops, or jumps behind the end of a block.
Continues == pc' = pc + 1
Stops == pc' = Idle
Jumps == SkipsBlock(Current) /\ \E e \in DOMAIN Steps : e >= pc /\ EndsBlock(Steps[e]) /\ pc' = e + 1

LEMMA StepAfterLemma ==
    ASSUME NEW metrics, StepAfter(pc, metrics)
    PROVE  Continues \/ (Stops /\ ~(pc < LastStep))
BY Zenon DEF StepAfter, Leaves, Continues, Stops

LEMMA AbortsLemma ==
    ASSUME NEW how, Aborts(how)
    PROVE  Stops
BY Zenon DEF Aborts, Leaves, Stops

LEMMA JumpLemma ==
    ASSUME IInv, Running, SkipsBlock(Current), StepAfter(AfterBlock(pc), got)
    PROVE  Jumps \/ Stops
<1> DEFINE End(n) == EndsBlock(Steps[n]) /\ \A m \in pc..n - 1 : ~EndsBlock(Steps[m])
<1>1. pc \in DOMAIN Steps /\ pc \in Int /\ pc > 0
  BY StepsLemma DEF IInv, Running, Idle
<1>2. \E n \in pc..Len(Steps) : End(n)
  BY <1>1, CollectorAssumption, Zenon DEF IInv, Steps, Current
<1>3. AfterBlock(pc) = CHOOSE n \in pc..Len(Steps) : End(n)
  BY Zenon DEF AfterBlock
<1> HIDE DEF End
<1>4. AfterBlock(pc) \in pc..Len(Steps) /\ End(AfterBlock(pc))
  BY <1>2, <1>3, Zenon
<1>5. EndsBlock(Steps[AfterBlock(pc)])
  BY <1>4, Zenon DEF End
<1>6. AfterBlock(pc) \in DOMAIN Steps /\ AfterBlock(pc) >= pc
  BY <1>1, <1>4, StepsLemma
<1>7. pc' = AfterBlock(pc) + 1 \/ Stops
  BY Zenon DEF StepAfter, Leaves, Stops
<1> QED BY <1>5, <1>6, <1>7, Zenon DEF Jumps

\* The steps that neither mark an instance nor reset the marks.
Quiet == Skips \/ Asks \/ ListsNothing \/ Fails \/ Adds \/ Removes \/ Updates

Broken == \/ Current.fail \in {"error", "partial"} \/ SkipsBlock(Current)
          \/ Current.do = "list" \/ ~(pc < LastStep)

QuietMove ==
    /\ \/ Continues /\ (Current.do = "list" /\ ~Skipped =>
                            Current.fail \in {"ignored", "metric", "lastTry", "disables"})
       \/ Stops /\ Broken
       \/ Jumps
    /\ Current.do = "reset" => Skipped
    /\ \/ done' = done
       \/ /\ done' = done \cup {pc}
          /\ Current.do = "ask" \/ (Current.do = "list" /\ Current.fail \in {"lastTry", "disables"})
    /\ UNCHANGED <<marked, reported, answered>>

LEMMA SkipsMove ==
    ASSUME Skips PROVE QuietMove
<1>1. Skipped /\ StepAfter(pc, got) /\ UNCHANGED <<done, marked, reported, answered>>
  BY Zenon DEF Skips, instanceVars, historyVars
<1>2. Continues \/ (Stops /\ ~(pc < LastStep))
  BY <1>1, StepAfterLemma, Zenon
<1> QED BY <1>1, <1>2, Zenon DEF QuietMove, Broken

LEMMA AsksMove ==
    ASSUME Asks PROVE QuietMove
<1>1. /\ StepAfter(pc, TRUE) /\ Current.do = "ask" /\ done' = Tried
      /\ UNCHANGED <<marked, reported, answered>>
  BY Zenon DEF Asks, Runs, instanceVars, historyVars
<1>2. Continues \/ (Stops /\ ~(pc < LastStep))
  BY <1>1, StepAfterLemma, Zenon
<1>3. done' = done \/ done' = done \cup {pc}
  BY <1>1, Zenon DEF Tried
<1> QED BY <1>1, <1>2, <1>3, Zenon DEF QuietMove, Broken

LEMMA ListsNothingMove ==
    ASSUME IInv, ListsNothing PROVE QuietMove
<1>1. Running /\ Current.do = "list" /\ UNCHANGED <<done, marked, reported, answered>>
  BY Zenon DEF ListsNothing, Runs, instanceVars, historyVars
<1>2. \/ SkipsBlock(Current) /\ StepAfter(AfterBlock(pc), got)
      \/ Leaves("error", FALSE)
  BY Zenon DEF ListsNothing, NothingToAsk, SkipsBlock
<1>3. Jumps \/ Stops
  BY <1>1, <1>2, JumpLemma, Zenon DEF Leaves, Stops
<1> QED BY <1>1, <1>3, Zenon DEF QuietMove, Broken

LEMMA FailsMove ==
    ASSUME IInv, Fails PROVE QuietMove
<1>1. /\ Running /\ Current.do \in {"ask", "list"}
      /\ UNCHANGED <<marked, reported, answered>>
  BY Zenon DEF Fails, Runs, instanceVars, historyVars
<1>2. CASE Current.fail \in {"error", "partial"} /\ Aborts(Current.fail) /\ UNCHANGED done
  BY <1>1, <1>2, AbortsLemma, Zenon DEF QuietMove, Broken
<1>3. CASE /\ Current.fail \in {"ignored", "metric"} /\ UNCHANGED done
           /\ StepAfter(pc, got) \/ StepAfter(pc, TRUE)
  <2>1. Continues \/ (Stops /\ ~(pc < LastStep))
    BY <1>3, StepAfterLemma, Zenon
  <2> QED BY <1>1, <1>3, <2>1, Zenon DEF QuietMove, Broken
<1>4. CASE Current.fail = "skips" /\ StepAfter(AfterBlock(pc), got) /\ UNCHANGED done
  BY <1>1, <1>4, JumpLemma, Zenon DEF SkipsBlock, QuietMove, Broken
<1>5. CASE /\ Current.fail \in {"lastTry", "disables"} /\ StepAfter(pc, got)
           /\ done' = done \/ done' = done \cup {pc}
  BY <1>1, <1>5, StepAfterLemma, Zenon DEF QuietMove, Broken
<1> QED BY <1>2, <1>3, <1>4, <1>5, Zenon DEF Fails, Tried

LEMMA ChartsMove ==
    ASSUME Adds \/ Removes \/ Updates PROVE QuietMove
<1>1. /\ StepAfter(pc, got) /\ Current.do \in {"add", "remove", "update"}
      /\ UNCHANGED <<done, marked, reported, answered>>
  BY Zenon DEF Adds, Removes, Updates, Runs, Observe
<1>2. Continues \/ (Stops /\ ~(pc < LastStep))
  BY <1>1, StepAfterLemma, Zenon
<1> QED BY <1>1, <1>2, Zenon DEF QuietMove, Broken

LEMMA QuietLemma ==
    ASSUME IInv, Quiet
    PROVE  QuietMove
BY SkipsMove, AsksMove, ListsNothingMove, FailsMove, ChartsMove, Zenon DEF Quiet

\* A client that is kept whatever fails.
LEMMA SettledSession ==
    ASSUME CollectSteps, subject.session.kept, subject.session.drops = "none"
    PROVE  session' = session
<1>1. ASSUME NEW how, NEW metrics, Leaves(how, metrics) PROVE session' = session
  BY <1>1, Zenon DEF Leaves, sessionVars
<1>2. ASSUME NEW k, NEW metrics, StepAfter(k, metrics) PROVE session' = session
  BY <1>1, <1>2, Zenon DEF StepAfter, sessionVars
<1>3. ASSUME NEW how, Aborts(how) PROVE session' = session
  BY <1>3, Zenon DEF Aborts, AfterError, sessionVars
<1>4. CASE Fails
  BY <1>2, <1>3, <1>4, Zenon DEF Fails
<1>5. CASE ListsNothing
  BY <1>1, <1>2, <1>5, Zenon DEF ListsNothing
<1> QED BY <1>2, <1>4, <1>5, Zenon DEF CollectSteps, Skips, Asks, Lists, Probes, Resets, Adds,
           Removes, Updates

----------------------------------------------------------------------------
(* The phases of a Collect                                                    *)

\* The leaves below are tried with each of these in turn.
LEMMA OrderLemma ==
    ASSUME IInv, NEW reset, NEW list, Ordered(subject, reset, list)
    PROVE  /\ reset \in Nat \ {0} /\ reset <= Len(Steps) /\ reset \in DOMAIN Steps
           /\ list \in Nat \ {0} /\ list <= Len(Steps) /\ list \in DOMAIN Steps
           /\ Steps[reset].do = "reset" /\ Steps[list].do = "list"
           /\ Steps[reset].timer = Steps[list].timer
           /\ Steps[list].fail \notin {"lastTry", "disables"}
BY StepsLemma DEF Ordered, Steps

\* Collect does not end in an unbroken stretch of its steps.
LEMMA UnbrokenLemma ==
    ASSUME IInv, InUse, Running, NEW first \in Nat, NEW last \in Int, last < Len(Steps),
           Unbroken(subject, first, last), pc <= last
    PROVE  /\ pc < LastStep
           /\ first <= pc => /\ Current.fail \notin {"error", "partial"}
                             /\ ~SkipsBlock(Current)
<1>1. pc \in Int /\ Len(Steps) \in Nat
  BY StepsLemma, Zenon DEF IInv
<1>2. subject.checks = 0 => checked
  BY DEF InUse, Running, Idle, Cleaned
<1>3. subject.checks = 0 \/ subject.checks > last
  BY Zenon DEF Unbroken
<1>4. subject.checks \in Nat
  BY CollectorAssumption DEF IInv
<1>5. pc < LastStep
  BY <1>1, <1>2, <1>3, <1>4 DEF LastStep
<1>6. first <= pc => pc \in first..last
  BY <1>1
<1> QED BY <1>5, <1>6, Zenon DEF Unbroken, Current, Steps

LEMMA LastUnbroken ==
    ASSUME IInv, InUse, Running, NEW reset, NEW list, Ordered(subject, reset, list),
           ResetsLast(subject, reset, list), pc < reset
    PROVE  /\ pc < LastStep
           /\ list < pc => /\ Current.fail \notin {"error", "partial"}
                           /\ ~SkipsBlock(Current)
<1>1. pc \in Int /\ list \in Nat /\ reset \in Nat /\ Len(Steps) \in Nat /\ reset <= Len(Steps)
  BY OrderLemma, StepsLemma, Zenon DEF IInv
<1>2. /\ list + 1 \in Nat /\ reset - 1 \in Int /\ reset - 1 < Len(Steps)
      /\ pc <= reset - 1 /\ (list < pc => list + 1 <= pc)
  BY <1>1
<1>3. Unbroken(subject, list + 1, reset - 1)
  BY Zenon DEF ResetsLast
<1> QED BY <1>2, <1>3, UnbrokenLemma, Zenon

\* The step at the reset, when the instances are asked for, is the reset.
LEMMA NotSkipped ==
    ASSUME IInv, NEW reset, NEW list, Ordered(subject, reset, list), Listed(reset, list),
           Asked(reset), pc \in {reset, list}
    PROVE  ~Skipped
<1>1. pc \in DOMAIN Steps /\ Steps[pc].do # "ask" /\ Steps[pc].timer = Steps[reset].timer
  BY OrderLemma
<1>2. pc \notin done
  BY <1>1, Zenon DEF Listed
<1> QED BY <1>1, <1>2, Zenon DEF Skipped, Asked, Current

LEMMA QuietListed ==
    ASSUME IInv, InUse, NEW reset, NEW list, Ordered(subject, reset, list),
           Listed(reset, list), Quiet
    PROVE  Listed(reset, list)'
<1>1. /\ subject' = subject /\ Steps' = Steps /\ due' = due
      /\ Running /\ pc \in Nat \ {0} /\ pc \in DOMAIN Steps
  BY RunningLemma, Zenon DEF Quiet, CollectSteps
<1>2. QuietMove
  BY QuietLemma, Zenon
<1>3. \A k \in done' : k \in DOMAIN Steps /\ Steps[k].do = "ask"
  BY <1>1, <1>2, Zenon DEF Listed, Current, Ordered, Steps, QuietMove
<1>4. ASSUME Running', pc' > list, Asked(reset), NEW e \in DOMAIN Steps, e >= pc', EndsBlock(Steps[e])
      PROVE  answered
  <2>1. /\ list < e /\ Steps[list].fail \notin {"ignored", "metric"}
        /\ \A m \in DOMAIN Steps : EndsBlock(Steps[m]) => m = e
    BY <1>4, Zenon DEF Ordered, Removal, Steps
  <2>2. e \in Nat /\ list \in Nat /\ reset \in Nat
    BY OrderLemma, StepsLemma
  <2>3. ~Jumps
    BY <1>1, <1>4, <2>1, <2>2, StepsLemma DEF Jumps
  <2>4. Continues
    BY <1>2, <1>4, <2>3 DEF QuietMove, Stops, Running, Idle
  <2>5. CASE pc > list
    BY <1>1, <1>4, <2>2, <2>4, <2>5 DEF Continues, Listed, RemovalAhead
  <2>6. CASE pc = list
    BY <1>1, <1>2, <1>4, <2>1, <2>3, <2>4, <2>6, NotSkipped, OrderLemma DEF Current, Continues,
       Stops, Idle, QuietMove
  <2>7. CASE pc < list
    BY <1>1, <1>4, <2>2, <2>4, <2>7 DEF Continues
  <2> QED BY <1>1, <2>2, <2>5, <2>6, <2>7
<1>5. answered' = answered
  BY <1>2, Zenon DEF QuietMove
<1>6. Asked(reset)' = Asked(reset)
  BY <1>1, Zenon DEF Asked
<1> QED BY <1>1, <1>3, <1>4, <1>5, <1>6, Zenon DEF Listed, RemovalAhead

LEMMA QuietFirst ==
    ASSUME IInv, InUse, NEW reset, NEW list, Ordered(subject, reset, list),
           Listed(reset, list), ResetsFirst(subject, reset, list), FirstPhases(reset), Quiet
    PROVE  FirstPhases(reset)'
<1>1. /\ subject' = subject /\ Steps' = Steps /\ due' = due
      /\ Running /\ pc \in Nat \ {0} /\ pc \in DOMAIN Steps
  BY RunningLemma, Zenon DEF Quiet, CollectSteps
<1>2. QuietMove
  BY QuietLemma, Zenon
<1>3. reset \in Nat \ {0} /\ list \in Nat /\ reset < list /\ reset <= Len(Steps)
  BY OrderLemma, Zenon DEF ResetsFirst
<1>4. Asked(reset)' = Asked(reset) /\ Agree' = Agree /\ reported' = reported /\ marked' = marked
  BY <1>1, <1>2, Zenon DEF Asked, QuietMove, Agree
<1>5. pc = reset => ~Asked(reset)
  BY <1>2, OrderLemma, NotSkipped, Zenon DEF QuietMove, Current
<1>6. pc <= reset => ~Jumps
  BY <1>1, <1>3 DEF ResetsFirst, Jumps, Current, Steps
<1>7. ~Running' => Stops
  BY <1>1, <1>2, StepsLemma DEF Continues, Running, Idle, Jumps, QuietMove
<1>8. Running' => pc' > pc /\ pc' \in Int
  BY <1>1, <1>2, StepsLemma DEF Continues, Jumps, Stops, Running, Idle, QuietMove
<1>9. Running' /\ pc' <= reset /\ Asked(reset) => reported = {}
  BY <1>1, <1>3, <1>8 DEF FirstPhases
<1>10. Running' /\ (pc' > reset \/ ~Asked(reset)) => Agree
  BY <1>1, <1>2, <1>3, <1>5, <1>6 DEF FirstPhases, QuietMove, Stops, Running, Idle, Continues
<1>11. ASSUME Steps[reset].timer # 0
       PROVE  /\ ~Running' => Agree
              /\ subject.session.at = "collect" => session' = session
  <2>1. Settles(subject.session) /\ Unbroken(subject, 1, reset - 1)
    BY <1>11, Zenon DEF ResetsFirst, Steps
  <2>2. subject.session.at = "collect" => session' = session
    BY <2>1, SettledSession, Zenon DEF Settles, Quiet, CollectSteps
  <2>3. CASE pc > reset \/ ~Asked(reset)
    BY <1>1, <2>2, <2>3, Zenon DEF FirstPhases
  <2>4. CASE pc <= reset /\ Asked(reset)
    <3>1. pc <= reset - 1
      BY <1>1, <1>3, <1>5, <2>4
    <3>2. 1 \in Nat /\ 1 <= pc /\ reset - 1 \in Int /\ reset - 1 < Len(Steps)
      BY <1>1, <1>3, StepsLemma
    <3>3. pc < LastStep /\ Current.fail \notin {"error", "partial"} /\ ~SkipsBlock(Current)
      BY <1>1, <2>1, <3>1, <3>2, UnbrokenLemma, Zenon
    <3>4. Current.do # "list"
      BY <1>1, <1>3, <2>4 DEF Ordered, Current, Steps
    <3>5. ~Stops
      BY <1>1, <1>2, <3>3, <3>4, StepsLemma DEF Broken, Stops, Continues, Jumps, Idle, QuietMove
    <3> QED BY <1>7, <2>2, <3>5, Zenon
  <2> QED BY <1>1, <1>3, <2>3, <2>4
<1>12. ASSUME Steps[reset].timer # 0
       PROVE  /\ Running' /\ subject.session.at = "collect" => session' # "none"
              /\ Unasked' => marked = {}
  BY <1>1, <1>11, <1>12, Zenon DEF FirstPhases, Unasked
<1> QED BY <1>1, <1>4, <1>9, <1>10, <1>11, <1>12, Zenon DEF FirstPhases

LEMMA QuietLast ==
    ASSUME IInv, InUse, NEW reset, NEW list, Ordered(subject, reset, list),
           Listed(reset, list), ResetsLast(subject, reset, list), LastPhases(reset, list), Quiet
    PROVE  LastPhases(reset, list)'
<1>1. /\ subject' = subject /\ Running /\ pc \in Nat \ {0} /\ pc \in DOMAIN Steps
  BY RunningLemma, Zenon DEF Quiet, CollectSteps
<1>2. QuietMove
  BY QuietLemma, Zenon
<1>3. reset \in Nat \ {0} /\ list \in Nat /\ list < reset /\ reset <= Len(Steps)
  BY OrderLemma, Zenon DEF ResetsLast
<1>4. Agree' = Agree /\ reported' = reported /\ marked' = marked
  BY <1>2, Zenon DEF QuietMove, Agree
<1>5. pc # reset
  BY <1>2, OrderLemma, NotSkipped DEF QuietMove, Current, Asked, ResetsLast, Steps
<1>6. Jumps => pc' \in Int /\ pc < pc' /\ pc' <= reset
  <2> SUFFICES ASSUME Jumps PROVE pc' \in Int /\ pc < pc' /\ pc' <= reset
    OBVIOUS
  <2>1. PICK e \in DOMAIN Steps : e >= pc /\ EndsBlock(Steps[e]) /\ pc' = e + 1
    BY Zenon DEF Jumps
  <2>2. e \in 1..Len(Steps) /\ Len(Steps) \in Nat
    BY StepsLemma, Zenon
  <2>3. UsesMarks(Steps[e])
    BY <2>1, Zenon DEF EndsBlock, UsesMarks
  <2>4. e \notin reset..Len(Steps)
    BY <2>3, Zenon DEF ResetsLast, Steps
  <2> QED BY <1>1, <1>3, <2>1, <2>2, <2>4
<1>7. CASE Stops
  <2>1. ~Running'
    BY <1>7 DEF Stops, Running, Idle
  <2>2. marked = {}
    <3>1. CASE pc > reset
      BY <3>1, Zenon DEF LastPhases
    <3>2. CASE pc <= list
      <4>1. pc <= reset
        BY <1>1, <1>3, <3>2
      <4> QED BY <1>1, <3>2, <4>1, Zenon DEF LastPhases, Agree
    <3>3. CASE list < pc /\ pc < reset
      <4>1. pc # list
        BY <1>1, <1>3, <3>3
      <4>2. Current.do # "list"
        BY <1>1, <4>1, Zenon DEF Ordered, Current, Steps
      <4>3. ~Broken
        BY <1>1, <3>3, <4>2, LastUnbroken, Zenon DEF Broken
      <4>4. ~Continues /\ ~Jumps
        BY <1>1, <1>6, <1>7 DEF Continues, Stops, Idle
      <4> QED BY <1>2, <4>3, <4>4, Zenon DEF QuietMove
    <3> QED BY <1>1, <1>3, <1>5, <3>1, <3>2, <3>3
  <2>3. (pc <= list)' => ~Running'
    BY <2>1, Zenon
  <2> QED BY <1>4, <2>1, <2>2, Zenon DEF LastPhases
<1>8. CASE Continues \/ Jumps
  BY <1>1, <1>3, <1>4, <1>5, <1>6, <1>8 DEF Continues, LastPhases, Running, Idle
<1> QED BY <1>2, <1>7, <1>8, Zenon DEF QuietMove

LEMMA QuietCharted ==
    ASSUME IInv, NEW reset, NEW list, Ordered(subject, reset, list),
           Listed(reset, list), Charted(list), Quiet
    PROVE  Charted(list)'
<1>1. /\ subject' = subject /\ Steps' = Steps /\ due' = due
      /\ Running /\ pc \in Nat \ {0} /\ pc \in DOMAIN Steps
  BY RunningLemma, Zenon DEF Quiet, CollectSteps
<1>2. QuietMove
  BY QuietLemma, Zenon
<1>3. ASSUME NEW m \in DOMAIN Steps, NEW e \in DOMAIN Steps,
             Running', list < m, m < pc', pc' <= e,
             Steps[m].do = "add", Steps[m].timer \in due \cup {0}, Steps[e].do = "remove",
             NEW i \in Ids, i \in marked'
      PROVE  tracked'[i] # Untracked
  <2>1. m \in Nat /\ e \in Nat /\ list \in Nat
    BY OrderLemma, StepsLemma
  <2>2. \A k \in DOMAIN Steps : EndsBlock(Steps[k]) => k = e
    BY <1>3, Zenon DEF Ordered, EndsBlock, Steps, Removal
  <2>3. ~Jumps
    BY <1>3, <2>1, <2>2, StepsLemma DEF Jumps
  <2>4. pc' = pc + 1
    BY <1>2, <1>3, <2>3 DEF QuietMove, Continues, Stops, Running, Idle
  <2>5. ~EndsBlock(Current)
    BY <1>1, <1>3, <2>1, <2>2, <2>4 DEF Current
  <2>6. ~Removes /\ ~Updates
    BY <2>5, Zenon DEF Removes, Updates, Runs, EndsBlock
  <2>7. i \in marked
    BY <1>2, <1>3, Zenon DEF QuietMove
  <2>8. Adds => tracked'[i] = 0
    BY <2>7, Zenon DEF Adds
  <2>9. ~Adds => tracked' = tracked
    BY <2>6, Zenon DEF Quiet, Skips, Asks, ListsNothing, Fails, instanceVars
  <2>10. CASE m < pc
    BY <1>1, <1>3, <2>1, <2>4, <2>7, <2>8, <2>9, <2>10 DEF Charted, Untracked
  <2>11. CASE m = pc
    <3>1. Current.do = "add" /\ ~Skipped
      BY <1>3, <2>11, Zenon DEF Listed, Current, Skipped
    <3>2. Adds
      BY <2>6, <3>1, Zenon DEF Quiet, Skips, Asks, ListsNothing, Fails, Runs
    <3> QED BY <2>8, <3>2 DEF Untracked
  <2> QED BY <1>1, <1>3, <2>1, <2>4, <2>10, <2>11
<1> QED BY <1>1, <1>3, Zenon DEF Charted

LEMMA QuietPhases ==
    ASSUME IInv, InUse, NEW reset, NEW list, Ordered(subject, reset, list),
           Phases(reset, list), Quiet
    PROVE  Phases(reset, list)'
<1>1. subject' = subject
  BY RunningLemma, Zenon DEF Quiet, CollectSteps
<1>2. Listed(reset, list)'
  BY QuietListed, Zenon DEF Phases
<1>3. Charted(list)'
  BY QuietCharted, Zenon DEF Phases
<1>4. ResetsFirst(subject, reset, list) => FirstPhases(reset)'
  BY QuietFirst, Zenon DEF Phases
<1>5. ResetsLast(subject, reset, list) => LastPhases(reset, list)'
  BY QuietLast, Zenon DEF Phases
<1> QED BY <1>1, <1>2, <1>3, <1>4, <1>5, Zenon DEF Phases

\* The listing marks what it reports.
LEMMA ListsPhases ==
    ASSUME IInv, InUse, NEW reset, NEW list, Ordered(subject, reset, list),
           Phases(reset, list), Lists
    PROVE  Phases(reset, list)'
<1>1. /\ subject' = subject /\ Steps' = Steps /\ due' = due
      /\ Running /\ pc \in Nat \ {0} /\ pc \in DOMAIN Steps
  BY RunningLemma, Zenon DEF CollectSteps
<1>2. /\ ~Skipped /\ Current.do = "list" /\ done' = done
      /\ answered' /\ marked' = marked \cup Named /\ reported' = reported \cup Named
  BY Zenon DEF Lists, Runs
<1>3. pc = list
  BY <1>1, <1>2, Zenon DEF Ordered, Current, Steps
<1>4. reset \in Nat \ {0} /\ list \in Nat \ {0} /\ reset <= Len(Steps) /\ Len(Steps) \in Nat
  BY OrderLemma, StepsLemma, Zenon
<1>5. Continues \/ (Stops /\ ~(pc < LastStep))
  BY StepAfterLemma, Zenon DEF Lists
<1>6. Listed(reset, list)'
  BY <1>1, <1>2, Zenon DEF Phases, Listed
<1>7. Agree => Agree'
  BY <1>2, Zenon DEF Agree
<1>8. ASSUME ResetsFirst(subject, reset, list)
      PROVE  FirstPhases(reset)'
  BY <1>1, <1>3, <1>4, <1>5, <1>7, <1>8, SettledSession DEF ResetsFirst, Phases, FirstPhases,
     Continues, Stops, Running, Idle, Steps, Settles, CollectSteps, Unasked
<1>9. ASSUME ResetsLast(subject, reset, list)
      PROVE  LastPhases(reset, list)'
  <2>1. list < reset /\ LastPhases(reset, list)
    BY <1>9, Zenon DEF ResetsLast, Phases
  <2>2. pc < LastStep
    BY <1>1, <1>3, <1>9, <2>1, LastUnbroken, Zenon
  <2>3. pc' = list + 1
    BY <1>3, <1>5, <2>2, Zenon DEF Continues
  <2>4. Agree'
    BY <1>1, <1>3, <1>4, <1>7, <2>1 DEF LastPhases
  <2> QED BY <1>4, <2>1, <2>3, <2>4 DEF LastPhases, Running, Idle
<1>10. Charted(list)'
  BY <1>1, <1>3, <1>4, <1>5, StepsLemma DEF Continues, Stops, Running, Idle, Charted
<1> QED BY <1>1, <1>6, <1>8, <1>9, <1>10, Zenon DEF Phases

LEMMA ResetsPhases ==
    ASSUME IInv, InUse, NEW reset, NEW list, Ordered(subject, reset, list),
           Phases(reset, list), Resets
    PROVE  Phases(reset, list)'
<1>1. /\ subject' = subject /\ Steps' = Steps /\ due' = due
      /\ Running /\ pc \in Nat \ {0} /\ pc \in DOMAIN Steps
  BY RunningLemma, Zenon DEF CollectSteps
<1>2. /\ ~Skipped /\ Current.do = "reset" /\ done' = done
      /\ answered' = answered /\ marked' = {} /\ reported' = reported
  BY Zenon DEF Resets, Runs, historyVars
<1>3. pc = reset
  BY <1>1, <1>2, Zenon DEF Ordered, Current, Steps
<1>4. Asked(reset) /\ Asked(reset)' = Asked(reset)
  BY <1>1, <1>2, <1>3, Zenon DEF Skipped, Asked, Current
<1>5. reset \in Nat \ {0} /\ list \in Nat \ {0} /\ reset # list
  BY OrderLemma, Zenon
<1>6. pc' = Idle \/ pc' = reset + 1
  BY <1>3, StepAfterLemma, Zenon DEF Resets, Continues, Stops
<1>7. Listed(reset, list)'
  BY <1>1, <1>2, <1>3, <1>4, <1>5, <1>6, StepsLemma DEF Running, Idle, Phases, Listed, RemovalAhead
<1>8. ASSUME ResetsFirst(subject, reset, list)
      PROVE  FirstPhases(reset)'
  BY <1>1, <1>2, <1>3, <1>4, <1>5, <1>8, SettledSession DEF Phases, FirstPhases, Agree,
     ResetsFirst, Steps, Settles, CollectSteps
<1>9. ASSUME ResetsLast(subject, reset, list)
      PROVE  LastPhases(reset, list)'
  BY <1>2, <1>5, <1>6, <1>9 DEF ResetsLast, Running, Idle, LastPhases
<1>10. Charted(list)'
  <2>1. ASSUME NEW m \in DOMAIN Steps, NEW e \in DOMAIN Steps,
               Running', list < m, m < pc', pc' <= e, Steps[e].do = "remove"
        PROVE  FALSE
    <3>1. pc' = reset + 1
      BY <1>6, <2>1 DEF Running, Idle
    <3>2. m \in Nat /\ e \in Nat /\ e <= Len(Steps)
      BY StepsLemma
    <3>3. ~ResetsFirst(subject, reset, list)
      BY <1>5, <2>1, <3>1, <3>2 DEF ResetsFirst
    <3>4. e \in reset..Len(Steps)
      BY <1>5, <2>1, <3>1, <3>2, StepsLemma
    <3>5. UsesMarks(Steps[e])
      BY <2>1, Zenon DEF UsesMarks
    <3>6. ~ResetsLast(subject, reset, list)
      BY <3>4, <3>5, Zenon DEF ResetsLast, Steps
    <3> QED BY <3>3, <3>6, Zenon DEF Ordered
  <2> QED BY <1>1, <2>1, Zenon DEF Charted
<1> QED BY <1>1, <1>7, <1>8, <1>9, <1>10, Zenon DEF Phases

\* Entering Collect forgets the reports of the last one, if it asks again.
LEMMA CollectPhases ==
    ASSUME IInv, InUse, NEW reset, NEW list, Ordered(subject, reset, list),
           Phases(reset, list), Collect
    PROVE  Phases(reset, list)'
<1>1. /\ subject' = subject /\ Steps' = Steps /\ done' = done /\ marked' = marked
      /\ pc = Idle /\ pc' \in {Idle, 1}
  BY Zenon DEF Collect, Steps
<1>2. reset \in Nat \ {0} /\ list \in Nat \ {0} /\ Steps[reset].timer = Steps[list].timer
  BY OrderLemma, Zenon
<1>3. Asked(reset)' <=> AsksAgain(due')
  BY <1>1, <1>2, OrderLemma DEF Ordered, Steps, Asked, AsksAgain
<1>4. IF Asked(reset)' THEN reported' = {} ELSE reported' = reported
  BY <1>3, Zenon DEF Collect
<1>5. ~Running /\ (Running' <=> pc' = 1)
  BY <1>1 DEF Running, Idle
<1>6. Listed(reset, list)'
  BY <1>1, <1>2, <1>5 DEF Phases, Listed
<1>7. ASSUME ResetsFirst(subject, reset, list)
      PROVE  FirstPhases(reset)'
  BY <1>1, <1>2, <1>4, <1>5, <1>7 DEF Phases, Asked, FirstPhases, Agree, Collect, Unasked, Idle,
     Opened, sessionVars, New, Again
<1>8. ASSUME ResetsLast(subject, reset, list)
      PROVE  LastPhases(reset, list)'
  <2>1. marked = {}
    BY <1>5, <1>8, Zenon DEF Phases, LastPhases
  <2>2. Asked(reset)'
    BY <1>1, <1>8, Zenon DEF Asked, ResetsLast, Steps
  <2> QED BY <1>1, <1>4, <2>1, <2>2, Zenon DEF LastPhases, Agree
<1>9. Charted(list)'
  BY <1>1, <1>2, <1>5, StepsLemma DEF Charted
<1> QED BY <1>1, <1>6, <1>7, <1>8, <1>9, Zenon DEF Phases

\* Outside of Collect the marks and the reports stay, and so does a client that
\* is held; nothing is marked in a new module.
LEMMA RestPhases ==
    ASSUME NEW reset, NEW list, Phases(reset, list), subject' = subject,
           UNCHANGED <<due, done, marked, reported, answered, tracked>>,
           pc' = pc \/ (~Running /\ ~Running'),
           \/ pc \in {New, Again, Idle} /\ session = "none"
           \/ session' # "none"
           \/ pc' \notin {New, Again, Idle} /\ ~Running'
           \/ UNCHANGED <<pc, session>>
    PROVE  Phases(reset, list)'
<1>1. Steps' = Steps /\ Asked(reset)' = Asked(reset) /\ (Agree' <=> Agree)
  BY Zenon DEF Steps, Asked, Agree
<1>2. Listed(reset, list)'
  BY <1>1, Zenon DEF Phases, Listed, RemovalAhead, Running
<1>3. ASSUME ResetsFirst(subject, reset, list)
      PROVE  FirstPhases(reset)'
  BY <1>1, <1>3, Zenon DEF Phases, FirstPhases, Running, New, Again, Idle, Unasked
<1>4. ASSUME ResetsLast(subject, reset, list)
      PROVE  LastPhases(reset, list)'
  BY <1>1, <1>4, Zenon DEF Phases, LastPhases, Running
<1>5. Charted(list)'
  BY <1>1 DEF Phases, Charted, Running
<1> QED BY <1>2, <1>3, <1>4, <1>5, Zenon DEF Phases

LEMMA NewPhases ==
    ASSUME NEW reset, NEW list, ~Running, done = {}, marked = {}, reported = {}
    PROVE  Phases(reset, list)
BY Zenon DEF Phases, Listed, Charted, FirstPhases, LastPhases, Agree

----------------------------------------------------------------------------
(* The levels                                                                 *)

\* Charts are added and removed by the reports of this Collect, and removed only
\* when there are some.
LEMMA UseLemma ==
    ASSUME IInv, AllPhases, subject \notin Deviating, Running, ~Skipped, UsesMarks(Current)
    PROVE  /\ Agree
           /\ EndsBlock(Current) => /\ answered /\ subject.forgets
                                    /\ subject.match \in {"exact", "affix"}
           /\ Current.do = "remove" => \A i \in Ids : i \in marked => tracked[i] # Untracked
<1>1. pc \in DOMAIN Steps /\ pc \in Nat \ {0} /\ pc <= Len(Steps)
  BY StepsLemma DEF IInv, Running, Idle
<1>2. PICK reset, list : Ordered(subject, reset, list)
  BY <1>1, FollowsAssumption, Zenon DEF IInv, NoInstances, Current, Steps, FollowsInstances
<1>3. Phases(reset, list)
  BY <1>2, Zenon DEF AllPhases
<1>4. reset \in Nat /\ list \in Nat /\ Steps[reset].timer = Steps[list].timer
  BY <1>2, OrderLemma, Zenon
<1>5. Agree
  <2>1. CASE ResetsFirst(subject, reset, list)
    BY <1>1, <1>3, <1>4, <2>1 DEF ResetsFirst, Current, Steps, Phases, FirstPhases
  <2>2. CASE ResetsLast(subject, reset, list)
    BY <1>1, <1>3, <1>4, <2>2, StepsLemma DEF ResetsLast, Current, Steps, Phases, LastPhases
  <2> QED BY <1>2, <2>1, <2>2, Zenon DEF Ordered
<1>6. ASSUME EndsBlock(Current)
      PROVE  answered /\ subject.forgets /\ subject.match \in {"exact", "affix"}
  <2>1. Removal(subject, list, pc)
    BY <1>1, <1>2, <1>6, Zenon DEF Ordered, Current, Steps
  <2>2. Asked(reset)
    BY <1>4, <2>1, Zenon DEF Removal, Skipped, Asked, Current, Steps
  <2>3. RemovalAhead(pc) /\ pc > list
    BY <1>1, <1>4, <1>6, <2>1 DEF RemovalAhead, Removal, Current
  <2>4. answered
    BY <1>3, <2>2, <2>3, Zenon DEF Phases, Listed
  <2> QED BY <2>1, <2>4, Zenon DEF Removal
<1>7. ASSUME Current.do = "remove"
      PROVE  \A i \in Ids : i \in marked => tracked[i] # Untracked
  <2>1. Removal(subject, list, pc)
    BY <1>1, <1>2, <1>7, Zenon DEF Ordered, EndsBlock, Current, Steps
  <2>2. PICK m \in list + 1..pc - 1 :
            Steps[m].do = "add" /\ Steps[m].timer \in {0, Steps[pc].timer}
    BY <1>7, <2>1, Zenon DEF Removal, Current, Steps
  <2>3. m \in DOMAIN Steps /\ list < m /\ m < pc /\ pc <= pc
    BY <1>1, <1>4, StepsLemma
  <2>4. Steps[m].timer \in due \cup {0}
    BY <2>2, Zenon DEF Skipped, Current
  <2> QED BY <1>1, <1>3, <1>7, <2>2, <2>3, <2>4, Zenon DEF Phases, Charted, Current
<1> QED BY <1>5, <1>6, <1>7, Zenon

LEMMA AddsLevels ==
    ASSUME IInv, AllPhases, Levels, subject \notin Deviating, Adds
    PROVE  leftover' = {} /\ \A i \in Ids : Level(i)'
<1>1. subject' = subject /\ leftover' = leftover /\ leftover = {}
  BY Zenon DEF Adds, Levels
<1>2. Agree
  BY UseLemma, Zenon DEF Adds, Runs, UsesMarks
<1>3. subject.limit \in Nat \ {0}
  BY FollowsAssumption, Zenon DEF IInv, FollowsInstances
<1>4. ASSUME NEW i \in Ids PROVE Level(i)'
  <2>1. Level(i)
    BY Zenon DEF Levels
  <2>2. /\ tracked'[i] = (IF i \in marked THEN 0 ELSE tracked[i])
        /\ missed'[i] = (IF i \in marked THEN 0 ELSE missed[i])
    BY <1>2, Zenon DEF Adds, Observe, Agree
  <2>3. i \in charts' <=> i \in charts \/ (i \in marked /\ tracked[i] = Untracked)
    BY <1>1, Zenon DEF Adds, Added, Fresh
  <2>4. Overlapped(i)' <=> Overlapped(i)
    BY <1>1, Zenon DEF Overlapped
  <2> QED BY <1>1, <1>3, <2>1, <2>2, <2>3, <2>4 DEF Level, Reported, Untracked
<1> QED BY <1>1, <1>4, Zenon

\* What expires, once the listing was answered: the instances not reported for
\* `limit` rounds.
LEMMA RemovalLevels ==
    ASSUME IInv, AllPhases, Levels, subject \notin Deviating, Removes \/ Updates
    PROVE  leftover' = {} /\ \A i \in Ids : Level(i)'
<1>1. subject' = subject /\ leftover = {} /\ Running /\ ~Skipped /\ EndsBlock(Current)
  BY Zenon DEF Removes, Updates, Runs, EndsBlock, Levels
<1>2. Agree /\ answered /\ subject.forgets /\ subject.match \in {"exact", "affix"}
  BY <1>1, UseLemma, Zenon DEF UsesMarks, EndsBlock
<1>3. subject.limit \in Nat \ {0}
  BY FollowsAssumption, Zenon DEF IInv, FollowsInstances
<1>4. leftover' = {}
  BY <1>1, <1>2, Zenon DEF Removes, Updates, LeftBehind
<1>5. tracked' = Forget /\ Observe(TRUE)
  BY Zenon DEF Removes, Updates
<1>6. ASSUME NEW i \in Ids PROVE Level(i)'
  <2>1. Level(i)
    BY Zenon DEF Levels
  <2>2. missed'[i] = (IF i \in marked THEN 0
                      ELSE IF missed[i] < subject.limit THEN missed[i] + 1 ELSE missed[i])
    BY <1>2, <1>5, Zenon DEF Observe, Agree
  <2>3. Aged[i] = (IF i \in marked THEN 0
                   ELSE IF tracked[i] = Untracked THEN Untracked ELSE tracked[i] + 1)
    BY Zenon DEF Aged
  <2>4. i \in Expired <=> Aged[i] >= subject.limit
    BY Zenon DEF Expired
  <2>5. tracked'[i] = (IF i \in Expired THEN Untracked ELSE Aged[i])
    BY <1>2, <1>5, Zenon DEF Forget
  <2>6. i \in Matched(Expired) => i \in Expired \/ Overlapped(i)
    BY <1>2, Zenon DEF Matched, Overlapped, Expired
  <2>7. i \in Expired => i \in Matched(Expired)
    BY <1>2, Zenon DEF Matched
  <2>8. Overlapped(i)' <=> Overlapped(i)
    BY <1>1, Zenon DEF Overlapped
  <2>9. i \in Fresh <=> i \in marked /\ tracked[i] = Untracked
    BY Zenon DEF Fresh
  <2>10. /\ missed'[i] \in 0..subject.limit
         /\ tracked'[i] = IF missed'[i] < subject.limit THEN missed'[i] ELSE Untracked
    BY <1>3, <2>1, <2>2, <2>3, <2>4, <2>5 DEF Level, Reported, Untracked
  <2>11. i \in Expired => ~(missed'[i] < subject.limit) /\ i \notin marked
    BY <1>3, <2>1, <2>2, <2>3, <2>4 DEF Level, Reported, Untracked
  <2>12. i \notin Expired /\ i \notin marked => (missed'[i] < subject.limit <=> missed[i] < subject.limit)
    BY <1>3, <2>1, <2>2, <2>3, <2>4 DEF Level, Reported, Untracked
  <2>13. i \in marked => missed'[i] < subject.limit
    BY <1>3, <2>2
  <2>14. i \in marked => (i \in Fresh <=> ~(missed[i] < subject.limit))
    BY <1>3, <2>1, <2>9 DEF Level, Reported, Untracked
  <2>15. ~Overlapped(i) => (i \in charts <=> missed[i] < subject.limit)
    BY <2>1, Zenon DEF Level, Reported
  <2>16. CASE Removes
    <3>1. i \in charts' <=> i \in charts /\ i \notin Matched(Expired)
      BY <2>16, Zenon DEF Removes
    <3>2. i \notin Fresh
      BY <1>1, <2>9, <2>16, UseLemma, Zenon DEF Removes, Runs, EndsBlock, UsesMarks
    <3>3. ~Overlapped(i) => (i \in charts' <=> missed'[i] < subject.limit)
      BY <2>6, <2>7, <2>11, <2>12, <2>13, <2>14, <2>15, <3>1, <3>2, Zenon
    <3> QED BY <1>1, <2>8, <2>10, <3>3, Zenon DEF Level, Reported
  <2>17. CASE Updates
    <3>1. PICK early \in SUBSET Fresh :
              charts' = ((charts \cup early) \ Matched(Expired)) \cup (Fresh \ early)
      BY <2>17, Zenon DEF Updates
    <3>2. ~Overlapped(i) => (i \in charts' <=> (i \in charts /\ i \notin Expired) \/ i \in Fresh)
      BY <2>6, <2>7, <2>9, <2>11, <3>1, Zenon
    <3>3. ~Overlapped(i) => (i \in charts' <=> missed'[i] < subject.limit)
      BY <2>9, <2>11, <2>12, <2>13, <2>14, <2>15, <3>2, Zenon
    <3> QED BY <1>1, <2>8, <2>10, <3>3, Zenon DEF Level, Reported
  <2> QED BY <2>16, <2>17, Zenon
<1> QED BY <1>4, <1>6, Zenon

LEMMA StaysLevels ==
    ASSUME Levels, UNCHANGED <<subject, leftover, missed, tracked, charts>>
    PROVE  Levels'
BY Zenon DEF Levels, Level, Reported, Overlapped

\* An instance never seen has no charts.
LEMMA NewLevels ==
    ASSUME subject \in Subjects, leftover = {}, charts = {},
           missed = NeverReported, tracked = NeverSeen
    PROVE  Levels
<1>1. subject \notin Deviating => subject.limit \in Nat
  BY FollowsAssumption, Zenon DEF FollowsInstances
<1> QED BY <1>1 DEF Levels, Level, Reported, NeverReported, NeverSeen

LEMMA StepLevels ==
    ASSUME IInv, AllPhases, Levels, [Next]_vars
    PROVE  Levels'
<1>1. CASE Adds
  BY <1>1, AddsLevels, Zenon DEF Levels, Adds
<1>2. CASE Removes \/ Updates
  BY <1>2, RemovalLevels, Zenon DEF Levels, Removes, Updates
<1>3. CASE Redetect
  <2>1. /\ subject' = subject /\ leftover' = {} /\ charts' = {}
        /\ missed' = NeverReported /\ tracked' = NeverSeen
    BY <1>3, Zenon DEF Redetect
  <2>2. subject \notin Deviating => subject.limit \in Nat
    BY FollowsAssumption, Zenon DEF IInv, FollowsInstances
  <2> QED BY <2>1, <2>2 DEF Levels, Level, Reported, Overlapped, NeverReported, NeverSeen, Untracked
<1>4. CASE \/ GoesDown \/ ComesUp \/ Changes \/ Rediscovers
           \/ ModuleInit \/ InitRefused \/ Cleanup
  BY <1>4, StaysLevels, Zenon DEF GoesDown, ComesUp, Changes, Rediscovers, ModuleInit, InitRefused,
                           Cleanup, instanceVars, historyVars
<1>5. CASE Collect \/ Skips \/ Asks \/ Lists \/ ListsNothing
  BY <1>5, StaysLevels, Zenon DEF Collect, Skips, Asks, Lists, ListsNothing, instanceVars,
     historyVars
<1>6. CASE Probes \/ Fails \/ Resets
  BY <1>6, StaysLevels, Zenon DEF Probes, Fails, Resets, instanceVars, historyVars
<1>7. CASE Terminated \/ UNCHANGED vars
  BY <1>7, StaysLevels, Zenon DEF Terminated, vars, instanceVars, historyVars
<1> QED BY <1>1, <1>2, <1>3, <1>4, <1>5, <1>6, <1>7, Zenon DEF Next

\* A collector stays the module it is.
LEMMA SubjectKept ==
    ASSUME IInv, [Next]_vars
    PROVE  subject' = subject
<1>1. CASE CollectSteps
  BY <1>1, RunningLemma, Zenon
<1>2. CASE GoesDown \/ ComesUp \/ Changes \/ Rediscovers
  BY <1>2, Zenon DEF GoesDown, ComesUp, Changes, Rediscovers
<1>3. CASE ModuleInit \/ InitRefused \/ Cleanup \/ Redetect \/ Collect
  BY <1>3, Zenon DEF ModuleInit, InitRefused, Cleanup, Redetect, Collect
<1>4. CASE Terminated \/ UNCHANGED vars
  BY <1>4, Zenon DEF Terminated, vars
<1> QED BY <1>1, <1>2, <1>3, <1>4, Zenon DEF Next, CollectSteps

LEMMA StepPhases ==
    ASSUME IInv, InUse, AllPhases, [Next]_vars
    PROVE  AllPhases'
<1>1. subject' = subject
  BY SubjectKept, Zenon
<1> SUFFICES ASSUME subject \notin Deviating, NEW reset, NEW list, Ordered(subject, reset, list),
                    Phases(reset, list)
             PROVE  Phases(reset, list)'
  BY <1>1, Zenon DEF AllPhases
<1>2. CASE Quiet
  BY <1>2, QuietPhases, Zenon
<1>3. CASE Lists
  BY <1>3, ListsPhases, Zenon
<1>4. CASE Resets
  BY <1>4, ResetsPhases, Zenon
<1>5. CASE Probes
  BY <1>5, RunningLemma, Zenon DEF CollectSteps, Probes, Runs, Ordered, Current, Steps
<1>6. CASE Collect
  BY <1>6, CollectPhases, Zenon
<1>7. CASE Redetect
  BY <1>7, SMTT(30) DEF Redetect, Running, Idle, Again, Phases, Listed, Charted, FirstPhases, LastPhases,
     Agree
<1>8. CASE ModuleInit \/ InitRefused
  <2>1. /\ UNCHANGED <<due, done, marked, reported, answered, tracked>>
        /\ pc \in {New, Again} /\ pc' = Idle
    BY <1>8, Zenon DEF ModuleInit, InitRefused, callVars, instanceVars, historyVars
  <2>2. ~Running /\ ~Running'
    BY <2>1 DEF Running, New, Again, Idle
  <2>3. session' = session \/ session' = "live"
    BY <1>8, Zenon DEF ModuleInit, InitRefused, Refuses, Opened, OpenRefused, sessionVars
  <2> QED BY <1>1, <2>1, <2>2, <2>3, RestPhases, Zenon
<1>9. CASE Cleanup
  BY <1>1, <1>9, RestPhases DEF Cleanup, callVars, instanceVars, historyVars, Running, Failed,
     Cleaned, New, Again, Idle
<1>10. CASE GoesDown \/ ComesUp \/ Changes \/ Rediscovers \/ Terminated \/ UNCHANGED vars
  BY <1>1, <1>10, RestPhases, Zenon DEF GoesDown, ComesUp, Changes, Rediscovers, Terminated, vars,
     callVars, instanceVars, historyVars, sessionVars
<1> QED BY <1>2, <1>3, <1>4, <1>5, <1>6, <1>7, <1>8, <1>9, <1>10, Zenon DEF Next, Quiet

LEMMA StepInUse ==
    ASSUME IInv, InUse, [Next]_vars
    PROVE  InUse'
<1> SUFFICES ASSUME subject.checks = 0 PROVE InUse'
  <2>1. subject' = subject
    BY SubjectKept, Zenon
  <2> QED BY <2>1, Zenon DEF InUse
<1>1. ASSUME NEW how, NEW metrics, Leaves(how, metrics), checked PROVE checked'
  BY <1>1, Zenon DEF Leaves
<1>2. ASSUME NEW k, NEW metrics, StepAfter(k, metrics), checked PROVE checked'
  BY <1>1, <1>2, Zenon DEF StepAfter
<1>3. ASSUME NEW how, Aborts(how), checked PROVE checked'
  BY <1>1, <1>3, Zenon DEF Aborts
<1>4. CASE CollectSteps
  <2>1. checked
    BY <1>4, RunningLemma DEF InUse, Running, Idle, Cleaned
  <2>2. CASE ListsNothing
    BY <1>1, <1>2, <2>1, <2>2, Zenon DEF ListsNothing, InUse
  <2>3. CASE Fails
    BY <1>2, <1>3, <2>1, <2>3, Zenon DEF Fails, InUse
  <2> QED BY <1>2, <1>4, <2>1, <2>2, <2>3, Zenon
          DEF InUse, CollectSteps, Skips, Asks, Lists, Probes, Resets, Adds, Removes, Updates
<1>5. CASE Collect
  BY <1>5, Zenon DEF Collect, Rejected, InUse
<1>6. CASE Redetect
  BY <1>6 DEF Redetect, Failed, Idle, Cleaned, InUse
<1>7. CASE ModuleInit \/ InitRefused
  BY <1>7, Zenon DEF ModuleInit, InitRefused, InUse, callVars
<1>8. CASE Cleanup
  BY <1>8, Zenon DEF Cleanup, Rejected, InUse, callVars
<1>9. CASE GoesDown \/ ComesUp \/ Changes \/ Rediscovers \/ Terminated \/ UNCHANGED vars
  BY <1>9, Zenon DEF GoesDown, ComesUp, Changes, Rediscovers, Terminated, vars, callVars, InUse
<1> QED BY <1>4, <1>5, <1>6, <1>7, <1>8, <1>9, Zenon DEF Next, CollectSteps

\* Of a collector that meets FollowsAssumption the chart list holds, between two
\* Collects, exactly the instances that were reported in one of the last `limit`
\* answered rounds, for any number of instances, names, failures, reconnections,
\* discoveries and tries of the detection (the add, remove and update steps of
\* the modules' Collect).
THEOREM ChartsFollowCorrect == Spec => []ChartsFollow
<1>1. Init => FollowInv
  <2> SUFFICES ASSUME Init PROVE FollowInv
    OBVIOUS
  <2>1. InUse
    BY Zenon DEF Init, InUse
  <2>2. AllPhases
    BY NewPhases DEF Init, Running, New, Idle, AllPhases
  <2>3. Levels
    BY NewLevels, Zenon DEF Init
  <2> QED BY <2>1, <2>2, <2>3, Zenon DEF FollowInv
<1>2. IInv /\ FollowInv /\ [Next]_vars => FollowInv'
  BY StepInUse, StepPhases, StepLevels, Zenon DEF FollowInv
<1>3. FollowInv => ChartsFollow
  <2>1. FollowInv /\ subject \notin Deviating => \A i \in Ids : Overlapped(i) \/ (i \in charts <=> Reported(i))
    BY Zenon DEF FollowInv, Levels, Level
  <2> QED BY <2>1, Zenon DEF ChartsFollow
<1>4. Spec => []IInv
  BY InitInv, StepInv, PTL DEF Spec
<1> QED BY <1>1, <1>2, <1>3, <1>4, PTL DEF Spec
=============================================================================
