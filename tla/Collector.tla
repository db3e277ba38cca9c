------------------------------ MODULE Collector ------------------------------
(* A collector module as its job calls it: Init, then Check (in most modules  *)
(* a Collect), then Collect again and again, then Cleanup.  What the modules  *)
(* under modules/ have in common is modelled once; what each of them does is  *)
(* a record of the catalogue (module Collectors): how it holds its session    *)
(* with the monitored application, the steps of one Collect in the order of   *)
(* its code, and how the charts of a vanished instance are found.             *)
(*                                                                            *)
(* The application may go away, come back, gain and lose instances between    *)
(* any two steps, and any single request may fail.  Metric values, their      *)
(* names and conversions are left out.                                        *)
EXTENDS Integers, Sequences

CONSTANTS
    Ids,          \* instance names the application may report
    Extends,      \* pairs <<i, j>>: the name i begins with the name j, i # j
    Subjects,     \* the collectors under study, records of the catalogue
    Deviating,    \* those whose charts do not follow the instances
    Straying,     \* those that leave a client open
    NeverReconnecting,  \* those that never replace their session
    GivingUp,     \* those that never again try a query that failed
    MaxFaults     \* bound: disturbances of the application in a behaviour

\* What the catalogue owes: the clients of the collectors that are not listed as
\* straying are closed by Cleanup and by an opening that fails; the Check runs
\* some of the steps of Collect; and a step that may skip the rest of its block
\* is followed by the end of one.
EndsBlock(step) == step.do \in {"remove", "update"}
SkipsBlock(step) == step.fail = "skips" \/ step.empty \in {"skips", "scraped"}

ASSUME CollectorAssumption ==
    /\ \A s \in Subjects \ Straying : s.session.closes /\ ~s.session.strays
    /\ \A s \in Subjects : /\ Len(s.steps) \in Nat \ {0} /\ DOMAIN s.steps = 1..Len(s.steps)
                           /\ s.checks \in 0..Len(s.steps)
    /\ \A s \in Subjects : \A k \in DOMAIN s.steps : SkipsBlock(s.steps[k]) =>
           \E n \in k..Len(s.steps) : /\ EndsBlock(s.steps[n])
                                      /\ \A m \in k..n - 1 : ~EndsBlock(s.steps[m])

\* What the order of the steps owes, in the collectors that are not listed as
\* deviating: the marks are reset once and set by one listing of the instances,
\* both at the same times, and nothing adds or removes charts by the marks of an
\* earlier Collect.  Where the listing is not repeated in every Collect, or the
\* reset comes last, Collect does not end between the two.
UsesMarks(step) == step.do \in {"add", "remove", "update"}

Unbroken(s, first, last) ==
    /\ \A k \in first..last : s.steps[k].fail \notin {"error", "partial"} /\ ~SkipsBlock(s.steps[k])
    /\ s.checks = 0 \/ s.checks > last

Settles(client) == client.at = "collect" => client.kept /\ client.drops = "none"

ResetsFirst(s, reset, list) ==
    /\ reset < list
    /\ \A k \in 1..reset : ~UsesMarks(s.steps[k]) /\ ~SkipsBlock(s.steps[k])
    /\ s.steps[reset].timer # 0 => Settles(s.session) /\ Unbroken(s, 1, reset - 1)

ResetsLast(s, reset, list) ==
    /\ list < reset /\ s.steps[reset].timer = 0
    /\ \A k \in reset..Len(s.steps) : ~UsesMarks(s.steps[k])
    /\ Unbroken(s, list + 1, reset - 1)

Removal(s, list, k) ==
    /\ list < k /\ s.steps[list].timer \in {0, s.steps[k].timer}
    /\ s.steps[list].fail \notin {"ignored", "metric"}
    /\ \A m \in DOMAIN s.steps : EndsBlock(s.steps[m]) => m = k
    /\ s.steps[k].do = "remove" =>
           \E m \in list + 1..k - 1 : s.steps[m].do = "add" /\ s.steps[m].timer \in {0, s.steps[k].timer}
    /\ s.match \in {"exact", "affix"} /\ s.forgets

Ordered(s, reset, list) ==
    /\ reset \in DOMAIN s.steps /\ list \in DOMAIN s.steps
    /\ s.steps[reset].do = "reset" /\ s.steps[list].do = "list"
    /\ s.steps[reset].timer = s.steps[list].timer
    /\ s.steps[list].fail \notin {"lastTry", "disables"}
    /\ \A k \in DOMAIN s.steps : /\ s.steps[k].do = "reset" => k = reset
                                 /\ s.steps[k].do = "list" => k = list
                                 /\ s.steps[k].do # "probe"
                                 /\ EndsBlock(s.steps[k]) => Removal(s, list, k)
    /\ ResetsFirst(s, reset, list) \/ ResetsLast(s, reset, list)

NoInstances(s) == \A k \in DOMAIN s.steps : ~UsesMarks(s.steps[k])

FollowsInstances(s) ==
    /\ s.limit \in Nat \ {0}
    /\ NoInstances(s) \/ \E reset, list \in DOMAIN s.steps : Ordered(s, reset, list)

ASSUME FollowsAssumption == \A s \in Subjects \ Deviating : FollowsInstances(s)

VARIABLES
    subject,      \* the collector
    up,           \* the application answers
    present,      \* its instances
    known,        \* the instances the last discovery found
    faults,       \* disturbances so far
    session,      \* "none", "live" or "broken": the client the module holds
    handles,      \* clients opened and not closed
    pc,           \* step of Collect about to run, or where the module waits
    checked,      \* Check has succeeded
    got,          \* some request of this Collect yielded a metric
    due,          \* timers that have expired when this Collect begins
    done,         \* steps never to be repeated: answered once, or given up
    marked,       \* instances marked as seen
    answered,     \* history: a listing request of this Collect was answered
    reported,     \* history: instances the answers of this Collect named
    tracked,      \* rounds each tracked instance was not seen, or Untracked
    charts,       \* instances with their charts in the module's chart list
    leftover,     \* removed instances one of whose charts is still in it
    outcome,      \* how the last Collect ended
    missed        \* history: answered rounds since the instance was reported

appVars == <<up, present, faults>>
sessionVars == <<session, handles>>
callVars == <<checked, due, done>>
historyVars == <<answered, reported, missed>>
instanceVars == <<known, marked, tracked, charts, leftover, historyVars>>
vars == <<subject, appVars, sessionVars, pc, got, callVars, instanceVars, outcome>>

Untracked == -1
New == -4       \* just made by the job
Again == -3     \* made again, for another try of the detection
Failed == -2    \* Check has failed, the job will try again
Cleaned == -1
Idle == 0

Steps == subject.steps
Current == Steps[pc]
Running == pc > Idle
Timers == {Steps[k].timer : k \in DOMAIN Steps} \ {0}

TypeOK ==
    /\ subject \in Subjects
    /\ up \in BOOLEAN /\ present \subseteq Ids /\ faults \in 0..MaxFaults
    /\ session \in {"none", "live", "broken"} /\ handles \in Nat
    /\ pc \in New..Len(Steps) /\ checked \in BOOLEAN /\ got \in BOOLEAN
    /\ due \subseteq Timers /\ done \subseteq DOMAIN Steps
    /\ known \subseteq Ids /\ marked \subseteq Ids /\ answered \in BOOLEAN /\ reported \subseteq Ids
    /\ tracked \in [Ids -> Untracked..subject.limit]
    /\ charts \subseteq Ids /\ leftover \subseteq Ids
    /\ outcome \in {"none", "refused", "error", "partial", "ok"}
    /\ missed \in [Ids -> 0..subject.limit]

\* What is known of an instance before it has been seen.
NeverSeen == [i \in Ids |-> Untracked]
NeverReported == [i \in Ids |-> subject.limit]

Init ==
    /\ subject \in Subjects
    /\ up \in BOOLEAN /\ present \in SUBSET Ids /\ faults = 0
    /\ session = "none" /\ handles = 0
    /\ pc = New /\ checked = (subject.checks = 0) /\ got = FALSE
    /\ due = {} /\ done = {}
    /\ known = {} /\ marked = {} /\ answered = FALSE /\ reported = {}
    /\ tracked = NeverSeen /\ missed = NeverReported
    /\ charts = {} /\ leftover = {} /\ outcome = "none"

----------------------------------------------------------------------------
(* The application                                                            *)

GoesDown ==
    /\ up /\ faults < MaxFaults
    /\ up' = FALSE /\ faults' = faults + 1
    /\ session' = IF session = "live" /\ ~subject.session.heals THEN "broken" ELSE session
    /\ UNCHANGED <<subject, present, handles, pc, got, callVars, instanceVars, outcome>>

ComesUp ==
    /\ ~up
    /\ up' = TRUE
    /\ UNCHANGED <<subject, present, faults, sessionVars, pc, got, callVars, instanceVars, outcome>>

Changes ==
    /\ up /\ faults < MaxFaults /\ faults' = faults + 1
    /\ \E i \in Ids : present' = (present \ {i}) \cup ({i} \ present)
    /\ UNCHANGED <<subject, up, sessionVars, pc, got, callVars, instanceVars, outcome>>

----------------------------------------------------------------------------
(* The session                                                                *)

\* Opening a client that dials contacts the application.
CanOpen == up \/ ~subject.session.dials

Opened ==
    /\ CanOpen
    /\ session' = "live" /\ handles' = handles + 1

\* The client of a failed opening is closed again, unless the code forgets it.
OpenRefused ==
    /\ ~CanOpen
    /\ handles' = handles + (IF subject.session.strays THEN 1 ELSE 0)
    /\ UNCHANGED session

Closed ==
    /\ session' = "none"
    /\ handles' = handles - (IF session = "none" THEN 0 ELSE 1)

\* A module that discovers its instances apart from Collect does so in Init for
\* the first time.
Discovers == subject.discovery # <<>>

Discover == known' = IF Discovers THEN present ELSE known

\* What Init looks for is there.
ModuleInit ==
    /\ pc \in {New, Again}
    /\ "application" \in subject.session.needs => up
    /\ IF subject.session.at = "init" THEN Opened ELSE UNCHANGED sessionVars
    /\ Discover
    /\ pc' = Idle
    /\ UNCHANGED <<subject, appVars, got, callVars, marked, tracked, charts, leftover,
                   historyVars, outcome>>

DiscoveryFails == \E k \in DOMAIN subject.discovery : subject.discovery[k].fail = "error"

\* It is not: a setting that is not valid, a file or an executable that is
\* missing, an application that is down.  Nothing else has been opened yet,
\* unless the discovery fails with the session that was opened for it.
Refuses ==
    \/ "settings" \in subject.session.needs /\ pc = New /\ UNCHANGED <<sessionVars, faults>>
    \/ "host" \in subject.session.needs /\ faults < MaxFaults
       /\ faults' = faults + 1 /\ UNCHANGED sessionVars
    \/ "application" \in subject.session.needs /\ ~up /\ UNCHANGED <<sessionVars, faults>>
    \/ subject.session.at = "init" /\ OpenRefused /\ UNCHANGED faults
    \/ DiscoveryFails /\ Opened /\ faults < MaxFaults /\ faults' = faults + 1

InitRefused ==
    /\ pc \in {New, Again} /\ Refuses
    /\ pc' = Idle /\ outcome' = "refused" /\ checked' = FALSE
    /\ UNCHANGED <<subject, up, present, got, due, done, instanceVars>>

\* Init or Check has failed: the job calls Cleanup and nothing else.
Rejected == pc = Idle /\ outcome \in {"refused", "error"} /\ ~checked

ClosesNothing ==
    UNCHANGED sessionVars

CleanupSession ==
    IF subject.session.closes THEN Closed ELSE UNCHANGED sessionVars

Cleanup ==
    /\ pc = Idle
    /\ pc' = IF Rejected /\ outcome = "error" THEN Failed ELSE Cleaned
    /\ CleanupSession
    /\ UNCHANGED <<subject, appVars, got, callVars, instanceVars, outcome>>

\* Only a failed Check is tried again, and with a new module.
Redetect ==
    /\ pc = Failed /\ pc' = Again
    /\ session' = "none" /\ handles' = 0
    /\ got' = FALSE /\ due' = {} /\ done' = {}
    /\ known' = {} /\ marked' = {} /\ answered' = FALSE /\ reported' = {}
    /\ tracked' = NeverSeen /\ missed' = NeverReported
    /\ charts' = {} /\ leftover' = {} /\ outcome' = "none"
    /\ UNCHANGED <<subject, appVars, checked>>

\* The discovery is repeated in a goroutine of its own.  What it found is taken
\* over under the lock that Collect holds; one that fails changes nothing.
Rediscovers ==
    /\ pc = Idle /\ Discovers /\ ~Rejected
    /\ up /\ known # present
    /\ Discover
    /\ UNCHANGED <<subject, appVars, sessionVars, pc, got, callVars, marked, tracked, charts,
                   leftover, historyVars, outcome>>

----------------------------------------------------------------------------
(* Collect                                                                    *)

\* History: an answer stands until the instances are asked for again.
AsksAgain(expired) ==
    \A k \in DOMAIN Steps : Steps[k].do = "list" => Steps[k].timer \in expired \cup {0}

\* Entering Collect: the timers are read, a missing client is opened.
Collect ==
    /\ pc = Idle /\ ~Rejected
    /\ got' = FALSE
    /\ due' \in (IF outcome = "none" THEN {Timers} ELSE SUBSET Timers)
    /\ IF AsksAgain(due') THEN answered' = FALSE /\ reported' = {}
       ELSE UNCHANGED <<answered, reported>>
    /\ IF session = "none" /\ subject.session.at = "collect"
       THEN \/ Opened /\ pc' = 1 /\ UNCHANGED outcome
            \/ OpenRefused /\ pc' = Idle /\ outcome' = "error"
       ELSE pc' = 1 /\ UNCHANGED <<sessionVars, outcome>>
    /\ UNCHANGED <<subject, appVars, checked, done, known, marked, tracked, charts, leftover, missed>>

\* Leaving Collect.  Without a metric it has failed whatever it returns.  A
\* client for one Collect only is closed.
Leaves(how, metrics) ==
    /\ pc' = Idle
    /\ outcome' = IF metrics THEN how ELSE "error"
    /\ checked' = (checked \/ (metrics /\ how # "error"))
    /\ got' = FALSE
    /\ IF subject.session.kept THEN UNCHANGED sessionVars ELSE Closed

KeepsSession ==
    UNCHANGED sessionVars

\* What a module does with a kept client when a request fails.  One that looks
\* at the error keeps it if the application itself answered with an error.
AfterError ==
    \/ subject.session.drops = "none" /\ UNCHANGED sessionVars
    \/ subject.session.drops \in {"all", "broken"} /\ Closed
    \/ subject.session.drops = "broken" /\ up /\ session = "live" /\ UNCHANGED sessionVars

Aborts(how) ==
    IF subject.session.kept
    THEN /\ pc' = Idle
         /\ outcome' = IF got THEN how ELSE "error"
         /\ checked' = (checked \/ (got /\ how # "error"))
         /\ got' = FALSE
         /\ AfterError
    ELSE Leaves(how, got)

\* The Check runs the first steps of Collect, in most modules all of them.
LastStep == IF checked THEN Len(Steps) ELSE subject.checks

StepAfter(k, metrics) ==
    IF k < LastStep
    THEN pc' = k + 1 /\ got' = metrics /\ UNCHANGED <<outcome, checked, sessionVars>>
    ELSE Leaves("ok", metrics)

Skipped == pc \in done \/ Current.timer \notin due \cup {0}

Skips ==
    /\ Running /\ Skipped
    /\ StepAfter(pc, got)
    /\ UNCHANGED <<subject, appVars, due, done, instanceVars>>

\* Returning from the function that lists the instances jumps over the rest
\* of it, the removal of charts included.
AfterBlock(k) ==
    CHOOSE n \in k..Len(Steps) :
        /\ EndsBlock(Steps[n])
        /\ \A m \in k..n - 1 : ~EndsBlock(Steps[m])

Runs(what) == Running /\ ~Skipped /\ Current.do = what

Reachable == (up /\ session # "broken") \/ Current.fail = "never"

Tried == IF Current.once \/ Current.fail = "lastTry" THEN done \cup {pc} ELSE done

Asks ==
    /\ Runs("ask") /\ Reachable
    /\ done' = Tried
    /\ StepAfter(pc, TRUE)
    /\ UNCHANGED <<subject, appVars, due, instanceVars>>

\* The instances an answer names.
Named == IF Discovers THEN present \cap known ELSE present

Lists ==
    /\ Runs("list") /\ Reachable
    /\ Named # {} \/ Current.empty \in {"answer", "bare"}
    /\ marked' = marked \cup Named
    /\ answered' = TRUE /\ reported' = reported \cup Named
    /\ StepAfter(pc, got \/ Named # {} \/ Current.empty = "answer")
    /\ UNCHANGED <<subject, appVars, due, done, known, tracked, charts, leftover, missed>>

\* A scrape asks for the instances it knows: for none it asks nothing.
NothingToAsk == Current.empty = "scraped" /\ known = {}

ListsNothing ==
    /\ Runs("list") /\ (Reachable \/ NothingToAsk) /\ Named = {}
    /\ \/ Current.empty = "skips" /\ StepAfter(AfterBlock(pc), got)
       \/ NothingToAsk /\ StepAfter(AfterBlock(pc), got)
       \/ Current.empty \in {"error", "scraped"} /\ ~NothingToAsk /\ Leaves("error", FALSE)
    /\ UNCHANGED <<subject, appVars, due, done, instanceVars>>

\* Each instance seen is asked by itself.
Probes ==
    /\ Runs("probe")
    /\ \E silent \in SUBSET marked :
        /\ IF Reachable /\ silent # {}
           THEN faults < MaxFaults /\ faults' = faults + 1 ELSE UNCHANGED faults
        /\ ~Reachable => silent = marked
        /\ marked' = marked \ silent
    /\ StepAfter(pc, got)
    /\ UNCHANGED <<subject, up, present, due, done, known, tracked, charts, leftover, historyVars>>

Fails ==
    /\ Runs("ask") \/ (Runs("list") /\ ~NothingToAsk)
    /\ IF Reachable THEN faults < MaxFaults /\ faults' = faults + 1 ELSE UNCHANGED faults
    /\ \/ Current.fail \in {"error", "partial"} /\ Aborts(Current.fail) /\ UNCHANGED done
       \/ Current.fail = "ignored" /\ StepAfter(pc, got) /\ UNCHANGED done
       \/ Current.fail = "metric" /\ StepAfter(pc, TRUE) /\ UNCHANGED done
       \/ Current.fail = "skips" /\ StepAfter(AfterBlock(pc), got) /\ UNCHANGED done
       \/ Current.fail = "lastTry" /\ StepAfter(pc, got) /\ done' = Tried
       \/ Current.fail = "disables" /\ StepAfter(pc, got) /\ done' \in {done, done \cup {pc}}
    /\ UNCHANGED <<subject, up, present, due, instanceVars>>

----------------------------------------------------------------------------
(* The instances                                                              *)

Resets ==
    /\ Runs("reset")
    /\ marked' = {}
    /\ StepAfter(pc, got)
    /\ UNCHANGED <<subject, appVars, due, done, known, tracked, charts, leftover, historyVars>>

Fresh == {i \in marked : tracked[i] = Untracked}

Aged == [i \in Ids |-> IF i \in marked THEN 0
                       ELSE IF tracked[i] = Untracked THEN Untracked
                       ELSE tracked[i] + 1]

Expired == {i \in Ids : Aged[i] >= subject.limit}

KeepsTracking ==
    [i \in Ids |-> IF i \in Expired THEN 0 ELSE Aged[i]]

\* A module that deletes the wrong key goes on tracking what it has expired.
Forget ==
    [i \in Ids |-> IF i \notin Expired THEN Aged[i]
                   ELSE IF subject.forgets THEN Untracked ELSE 0]

\* The instances whose charts are removed when the instances `expired` are:
\* most modules compare the chart ids with a prefix made of the name.
Matched(expired) ==
    CASE subject.match = "exact" -> expired
      [] subject.match \in {"affix", "partly"} ->
             expired \cup {i \in Ids : \E j \in expired : <<i, j>> \in Extends}
      [] subject.match = "never" -> {}

\* A prefix that misses one of an instance's charts leaves it in the list.
LeftBehind == IF subject.match = "partly" THEN leftover \cup Expired ELSE leftover

\* Charts.Add stops at a chart that is still in the list.
Added(fresh) == fresh \ leftover

\* History: how many answered rounds an instance has been missing for.
Observe(round) ==
    /\ missed' = [i \in Ids |->
           IF i \in reported THEN 0
           ELSE IF round /\ answered /\ missed[i] < subject.limit THEN missed[i] + 1
           ELSE missed[i]]
    /\ UNCHANGED <<answered, reported>>

Adds ==
    /\ Runs("add")
    /\ charts' = charts \cup Added(Fresh)
    /\ tracked' = [i \in Ids |-> IF i \in marked THEN 0 ELSE tracked[i]]
    /\ Observe(FALSE)
    /\ StepAfter(pc, got)
    /\ UNCHANGED <<subject, appVars, due, done, known, marked, leftover>>

Removes ==
    /\ Runs("remove")
    /\ charts' = charts \ Matched(Expired)
    /\ leftover' = LeftBehind
    /\ tracked' = Forget
    /\ Observe(TRUE)
    /\ StepAfter(pc, got)
    /\ UNCHANGED <<subject, appVars, due, done, known, marked>>

\* One loop over a map adds and removes, in the random order of the map: an
\* instance may be added before or after another one is removed.
Updates ==
    /\ Runs("update")
    /\ \E early \in SUBSET Fresh :
           charts' = ((charts \cup early) \ Matched(Expired)) \cup (Fresh \ early)
    /\ leftover' = LeftBehind
    /\ tracked' = Forget
    /\ Observe(TRUE)
    /\ StepAfter(pc, got)
    /\ UNCHANGED <<subject, appVars, due, done, known, marked>>

Terminated == pc = Cleaned /\ UNCHANGED vars

CollectStep ==
    \/ Collect \/ Skips \/ Asks \/ Lists \/ ListsNothing \/ Probes \/ Fails
    \/ Resets \/ Adds \/ Removes \/ Updates

Next ==
    \/ GoesDown \/ ComesUp \/ Changes
    \/ ModuleInit \/ InitRefused \/ Cleanup \/ Redetect \/ Rediscovers
    \/ Collect \/ Skips \/ Asks \/ Lists \/ ListsNothing \/ Probes \/ Fails
    \/ Resets \/ Adds \/ Removes \/ Updates
    \/ Terminated

(* The job calls Init once, Cleanup after a failed detection and Collect at   *)
(* every tick (see Job, Ticker), and a request is answered or fails in the    *)
(* end; the discovery gets the lock between two Collects, and the application *)
(* comes back some day.  The tries of the detection are not limited           *)
(* (autodetection_retry; JobManager counts them).                             *)
Fairness ==
    /\ WF_vars(ComesUp)
    /\ WF_vars(ModuleInit)
    /\ WF_vars(Rejected /\ Cleanup)
    /\ WF_vars(Redetect)
    /\ SF_vars(Rediscovers)
    /\ WF_vars(CollectStep)

Spec == Init /\ [][Next]_vars /\ Fairness

----------------------------------------------------------------------------
(* Properties                                                                 *)

\* An instance whose charts the match for another instance's name may hit.
Overlapped(i) ==
    subject.match = "affix" /\ \E j \in Ids : <<i, j>> \in Extends

Reported(i) == missed[i] < subject.limit

\* Between two calls of Collect, after any sequence of failures, restarts,
\* arrivals and departures, the chart list holds exactly the instances that
\* the application named in one of the last `limit` rounds that ended with the
\* removal of charts (ever, where none are removed): nothing reported lacks a
\* chart, nothing vanished keeps one, and a failed request removes nothing.
\* The collectors that deviate are listed in the catalogue; a match on a part
\* of the chart id is exempt where one name begins with another; an answer of
\* nothing that the module treats as no answer is not a round.
ChartsFollow ==
    pc = Idle /\ subject \notin Deviating =>
        \A i \in Ids : Overlapped(i) \/ (i \in charts <=> Reported(i))

\* The same for every collector and every name.
EveryChartFollows ==
    pc = Idle => \A i \in Ids : i \in charts <=> Reported(i)

\* Every client that was opened is held by the module or closed: none is left
\* open by a failed opening, a dropped session or Cleanup, however failures,
\* reconnections and tries of the detection follow each other.
NoClientStrays ==
    subject \notin Straying =>
        /\ handles = (IF session = "none" THEN 0 ELSE 1)
        /\ pc \in {Failed, Cleaned} => handles = 0

\* Once the application stays up, it is detected, and the module collects
\* everything again without being restarted, whatever broke its session or
\* failed before, unless the job was stopped or Init, which is not tried again,
\* has failed (or the application has no instance to report).
Recovers ==
    <>[]\/ pc = Cleaned
        \/ /\ subject \in NeverReconnecting \/ outcome = "ok" \/ present = {}
           /\ subject \in GivingUp \/ \A k \in done : Steps[k].fail # "disables"

=============================================================================
