----------------------------- MODULE JobProofs -----------------------------
(***************************************************************************)
(* The invariants of what a job is made of and what surrounds it, for any  *)
(* values of the constants: Job, JobCharts, FileStatus and FileLock.       *)
(*                                                                         *)
(* None of the four properties is inductive as it stands.                  *)
(*  - ModuleProtocol needs the stages of the job to be tied together: the  *)
(*    loop exists when the job has been started, after a check, and Cleanup *)
(*    has run once it has been torn down (JobInv).                         *)
(*  - NetdataMatchesList speaks of the list between collections; inside one *)
(*    the list is in two parts, and a chart may be on it twice, the first  *)
(*    one removed and the second one new (ChartsInv).                      *)
(*  - ExitKeepsStatuses speaks of the file after the exit; what the last   *)
(*    flush is about to write has to agree with the store (StatusInv).     *)
(*  - MapMatchesKernel: a reload replaces the map by an empty one and      *)
(*    leaves the kernel alone, which is right only because cleanup has left *)
(*    nothing locked.  That in turn needs every lock of a process to belong *)
(*    to a job that runs or is being stopped (LocksHaveJobs).              *)
(***************************************************************************)
EXTENDS MCJob, TLAPS

-----------------------------------------------------------------------------
(* The life of a job: Job *)

\* The stages of a job: how far Start and Stop are, and whether Cleanup has run.
JobInv ==
  /\ jobPhase \in {"new", "failed", "detected", "denied"} => loop = "none" /\ stopper = "none"
  /\ jobPhase \in {"new", "failed", "detected", "denied", "started"}
  /\ jobPhase \in {"detected", "started"} => checked
  /\ cleanups = IF jobPhase = "failed" \/ loop \in {"signal", "gone"} THEN 1 ELSE 0
  /\ loop \in {"spawned", "select", "collecting"} => jobPhase = "started"
  /\ stopper = "returned" => loop = "gone"

\* Every step of Start, Stop and the detection keeps the stages.
LEMMA JobStep == JobInv /\ [J!Next]_(J!vars) => JobInv'
<1> SUFFICES ASSUME JobInv, [J!Next]_(J!vars) PROVE JobInv'
  OBVIOUS
<1> USE DEF JobInv
<1>1. CASE J!DetectionFails \/ J!DetectionSucceeds \/ J!Denied \/ J!StartJob
  BY <1>1 DEF J!DetectionFails, J!DetectionSucceeds, J!Denied, J!StartJob
<1>2. CASE J!Begins \/ J!Tick \/ J!Collected
  BY <1>2, Zenon DEF J!Begins, J!Tick, J!Collected, J!CollectSucceeds, J!CollectFails,
     J!CollectPanics
<1>3. CASE J!StopBegins \/ J!StopReceived \/ J!Teardown \/ J!StopReturns
  BY <1>3 DEF J!StopBegins, J!StopReceived, J!Teardown, J!StopReturns
<1>4. CASE J!Terminated \/ UNCHANGED J!vars
  BY <1>4, Zenon DEF J!Terminated, J!vars
<1> QED BY <1>1, <1>2, <1>3, <1>4, Zenon DEF J!Next

\* For every interval, penalty and bound on the retries: Collect runs between a
\* successful detection and Cleanup, and Cleanup runs at most once, and has run
\* when Stop returns (Job.AutoDetection, Start, Stop).
THEOREM ModuleProtocolCorrect == J!Spec => []ModuleProtocol
<1>1. J!Init => JobInv
  BY Zenon DEF J!Init, JobInv
<1>2. JobInv => ModuleProtocol
  BY DEF JobInv, ModuleProtocol, J!ModuleProtocol
<1> QED BY <1>1, <1>2, JobStep, PTL DEF J!Spec

-----------------------------------------------------------------------------
(* The charts of a job: JobCharts *)

\* A chart precedes another one with its ID only if it is removed and the other
\* one is new.
Ordered(list) == \A i, k \in DOMAIN list :
  i < k /\ list[i].id = list[k].id => list[i].remove /\ ~list[k].created

\* A removed chart is to be announced as obsolete.
Announced(list) == \A i \in DOMAIN list : list[i].remove => ~list[i].created

\* Netdata has the charts of the list that were created.
Shown(list) == \A i \in DOMAIN list : list[i].created /\ list[i].id \notin TooLong => list[i].id \in live

\* What processMetrics keeps: charts that were created, with different IDs, none
\* of which is an ID of a chart it has still to look at.
Kept == /\ \A i \in DOMAIN kept : kept[i].created /\ ~kept[i].remove
        /\ \A i, k \in DOMAIN kept : kept[i].id = kept[k].id => i = k
        /\ \A i \in DOMAIN kept, k \in DOMAIN charts : kept[i].id # charts[k].id

\* Netdata has no chart that is not on the list.
OnList == \A x \in live : /\ x \notin TooLong
                          /\ \/ \E i \in DOMAIN charts : charts[i].id = x
                             \/ \E i \in DOMAIN kept : kept[i].id = x

\* The list is whole unless processMetrics is at work on it.
ChartsType ==
  /\ charts \in Seq(C!Chart) /\ kept \in Seq(C!Chart) /\ metrics \in BOOLEAN
  /\ chartsPc # "processing" => kept = <<>>

\* What holds of the list as long as the job is not stopped.
ChartsList == chartsPc # "stopped" =>
  /\ Ordered(charts) /\ Announced(charts) /\ Shown(charts)
  /\ Kept /\ Shown(kept) /\ OnList

\* The inductive invariant.
ChartsInv ==
  /\ ChartsType
  /\ ChartsList
  /\ wrong = FALSE
  /\ chartsPc = "idle" /\ ~panic => \A x \in live : \E i \in DOMAIN charts : charts[i].id = x /\ charts[i].created
  /\ chartsPc = "stopped" /\ ~panic => live = {}

\* The module starts with at most one chart, of which Netdata knows nothing.
LEMMA ChartsInit == C!Init => ChartsInv
<1> SUFFICES ASSUME C!Init PROVE ChartsInv
  OBVIOUS
<1>0. /\ charts = <<>> \/ \E x \in Id : charts = <<C!NewChart(x)>>
      /\ chartsPc = "idle" /\ kept = <<>> /\ metrics = FALSE /\ live = {} /\ wrong = FALSE
  BY Zenon DEF C!Init
<1>1. charts \in Seq(C!Chart) /\ \A i \in DOMAIN charts : i = 1 /\ ~charts[i].created /\ ~charts[i].remove
  <2>1. CASE charts = <<>>
    BY <2>1
  <2>2. ASSUME NEW x \in Id, charts = <<C!NewChart(x)>> 
        PROVE charts \in Seq(C!Chart) /\ \A i \in DOMAIN charts : i = 1 /\ ~charts[i].created /\ ~charts[i].remove
    BY <2>2 DEF C!Chart, C!NewChart
  <2> QED BY <1>0, <2>1, <2>2, Zenon
<1>2. ChartsType
  <2>1. kept \in Seq(C!Chart)
    BY <1>0
  <2> QED BY <1>0, <1>1, <2>1, Zenon DEF ChartsType
<1>3. Ordered(charts) /\ Announced(charts) /\ Shown(charts) /\ Shown(kept)
  BY <1>0, <1>1 DEF Ordered, Announced, Shown
<1>4. Kept /\ OnList
  BY <1>0 DEF Kept, OnList
<1> QED BY <1>0, <1>2, <1>3, <1>4, Zenon DEF ChartsInv, ChartsList

\* No step of a module that adds no chart twice breaks it.
LEMMA ChartsStep == ~AddsTwice /\ ChartsInv /\ [C!Next]_(C!vars) => ChartsInv'
<1> SUFFICES ASSUME ~AddsTwice, ChartsInv, [C!Next]_(C!vars) PROVE ChartsInv'
  OBVIOUS
<1> USE DEF ChartsInv
<1>1. ASSUME UNCHANGED C!vars PROVE ChartsInv'
  BY <1>1 DEF C!vars, ChartsType, ChartsList, Ordered, Announced, Shown, Kept, OnList
<1>2. CASE C!CollectBegins
  BY <1>2 DEF C!CollectBegins, ChartsType, ChartsList, Ordered, Announced, Shown, Kept, OnList
<1>3. ASSUME NEW x \in Id, C!Add(x) PROVE ChartsInv'
  <2> DEFINE n == Len(charts) + 1
  <2>1. /\ C!NewChart(x) \in C!Chart /\ ~C!NewChart(x).created /\ C!NewChart(x).id = x
        /\ chartsPc = "collecting" /\ charts' = Append(charts, C!NewChart(x))
        /\ \A i \in DOMAIN charts : charts[i].id = x => charts[i].remove
        /\ UNCHANGED <<chartsPc, kept, metrics, live, wrong>>
    BY <1>3, Zenon DEF C!Add, C!Unremoved, C!NewChart, C!Chart
  <2>2. /\ charts' \in Seq(C!Chart) /\ n \in Nat /\ DOMAIN charts = 1..n - 1
        /\ DOMAIN charts' = 1..n /\ charts'[n] = C!NewChart(x)
        /\ \A i \in 1..n - 1 : charts'[i] = charts[i]
    BY <2>1 DEF ChartsType
  <2> HIDE DEF n
  <2>3. ChartsType'
    BY <2>1, <2>2, Zenon DEF ChartsType
  <2>4. Ordered(charts)' /\ Announced(charts)' /\ Shown(charts)'
    BY <2>1, <2>2 DEF ChartsList, Ordered, Announced, Shown, C!NewChart
  <2>5. Kept' /\ Shown(kept)' /\ OnList'
    BY <2>1, <2>2 DEF ChartsType, ChartsList, Kept, Shown, OnList
  <2> QED BY <2>1, <2>3, <2>4, <2>5, Zenon DEF ChartsList
<1>4. ASSUME NEW i \in DOMAIN charts, C!MarkRemove(i) \/ C!Recreate(i) PROVE ChartsInv'
  <2>0. charts[i] \in C!Chart
    BY DEF ChartsType
  <2>1. PICK e \in C!Chart :
          /\ chartsPc = "collecting" /\ UNCHANGED <<chartsPc, kept, metrics, live, wrong>>
          /\ e.id = charts[i].id /\ ~e.created /\ (charts[i].remove => e.remove)
          /\ charts' = [charts EXCEPT ![i] = e]
    <3>1. CASE C!MarkRemove(i)
      BY <2>0, <3>1, Zenon DEF C!MarkRemove, C!Chart
    <3>2. CASE C!Recreate(i)
      BY <2>0, <3>2, Zenon DEF C!Recreate, C!Chart
    <3> QED BY <1>4, <3>1, <3>2, Zenon
  <2>2. /\ charts' \in Seq(C!Chart) /\ DOMAIN charts' = DOMAIN charts
        /\ \A k \in DOMAIN charts : /\ charts'[k].id = charts[k].id
                                    /\ charts[k].remove => charts'[k].remove
                                    /\ charts'[k].created => charts[k].created /\ k # i
                                    /\ k # i => charts'[k] = charts[k]
    BY <2>1 DEF ChartsType
  <2>3. ChartsType'
    BY <2>1, <2>2, Zenon DEF ChartsType
  <2>4. Ordered(charts)' /\ Announced(charts)' /\ Shown(charts)'
    BY <2>1, <2>2 DEF ChartsList, Ordered, Announced, Shown
  <2>5. Kept' /\ Shown(kept)' /\ OnList'
    BY <2>1, <2>2 DEF ChartsType, ChartsList, Kept, Shown, OnList
  <2> QED BY <2>1, <2>3, <2>4, <2>5, Zenon DEF ChartsList
<1>5. ASSUME C!CollectPanics \/ \E some \in BOOLEAN : C!CollectReturns(some) PROVE ChartsInv'
  BY <1>5 DEF C!CollectPanics, C!CollectReturns, ChartsType, ChartsList, Ordered, Announced, Shown, Kept, OnList
<1>6. CASE C!ProcessChart
  <2> DEFINE c == Head(charts)
             n == Len(kept) + 1
             d == [c EXCEPT !.created = TRUE]
  <2>1. /\ chartsPc = "processing" /\ charts # <<>> /\ charts' = Tail(charts)
        /\ UNCHANGED <<chartsPc, metrics, panic>>
        /\ live' = IF c.created THEN live ELSE C!CreateChart(live, c)
        /\ c.remove => UNCHANGED <<kept, wrong>>
        /\ ~c.remove => /\ kept' = Append(kept, d)
                        /\ wrong' = (wrong \/ (metrics /\ c.id \notin TooLong /\ c.id \notin live'))
    BY <1>6, Zenon DEF C!ProcessChart, C!Keep
  <2>2. /\ c \in C!Chart /\ c = charts[1] /\ 1 \in DOMAIN charts /\ charts' \in Seq(C!Chart)
        /\ \A i \in DOMAIN charts' : i + 1 \in DOMAIN charts /\ charts'[i] = charts[i + 1] /\ i \in Nat /\ i >= 1
        /\ \A i \in DOMAIN charts : i # 1 => i - 1 \in DOMAIN charts' /\ charts'[i - 1] = charts[i]
    BY <2>1 DEF ChartsType
  <2>3. d \in C!Chart /\ d.id = c.id /\ d.created /\ d.remove = c.remove
    BY <2>2, Zenon DEF C!Chart
  <2>4. /\ n \in Nat /\ n >= 1 /\ DOMAIN kept = 1..n - 1
        /\ \A i \in 1..n - 1 : kept[i] \in C!Chart
        /\ ~c.remove => /\ kept' \in Seq(C!Chart)
                        /\ DOMAIN kept' = 1..n /\ kept'[n] = d
                        /\ \A i \in 1..n - 1 : kept'[i] = kept[i]
    <3>1. n \in Nat /\ n >= 1 /\ DOMAIN kept = 1..n - 1 /\ kept \in Seq(C!Chart) /\ n - 1 = Len(kept)
      BY DEF ChartsType
    <3> HIDE DEF c, d, n
    <3>2. ASSUME ~c.remove
          PROVE  /\ kept' \in Seq(C!Chart)
                 /\ DOMAIN kept' = 1..n /\ kept'[n] = d
                 /\ \A i \in 1..n - 1 : kept'[i] = kept[i]
      <4>1. kept' = Append(kept, d)
        BY <2>1, <3>2, Zenon
      <4> QED BY <2>3, <3>1, <4>1
    <3> QED BY <3>1, <3>2
  <2> HIDE DEF c, d, n
  <2>5. /\ c.remove => ~c.created
        /\ \A k \in DOMAIN charts' : charts'[k].id = c.id => c.remove /\ ~charts'[k].created
    BY <2>1, <2>2 DEF ChartsList, Announced, Ordered
  <2>6. /\ c.remove => live' = live \ {c.id} /\ c.id \notin live'
        /\ ~c.remove => /\ live' \subseteq live \cup ({c.id} \ TooLong) /\ live \subseteq live'
                        /\ c.id \notin TooLong => c.id \in live'
    BY <2>1, <2>2, <2>5 DEF C!CreateChart, ChartsList, Shown, OnList
  <2>7. ChartsType'
    BY <2>1, <2>2, <2>3, <2>4, Zenon DEF ChartsType
  <2>8. Ordered(charts)' /\ Announced(charts)'
    <3>1. \A i, k \in DOMAIN charts' : i < k => i + 1 < k + 1
      BY <2>2
    <3>2. Announced(charts)'
      BY <2>1, <2>2 DEF ChartsList, Announced
    <3>3. Ordered(charts)'
      BY <2>1, <2>2, <3>1 DEF ChartsList, Ordered
    <3> QED BY <3>2, <3>3, Zenon
  <2>9. Shown(charts)' 
    BY <2>1, <2>2, <2>5, <2>6 DEF ChartsList, Shown
  <2>10. Kept'
    <3>1. CASE c.remove
      BY <2>1, <2>2, <3>1 DEF ChartsList, Kept
    <3>2. CASE ~c.remove
      <4>1. \A i \in DOMAIN kept' : i = n \/ (i \in DOMAIN kept /\ kept'[i] = kept[i])
        BY <2>4, <3>2
      <4>2. \A i \in DOMAIN kept : kept[i].id # c.id
        BY <2>1, <2>2, Zenon DEF ChartsList, Kept
      <4>3. \A i \in DOMAIN kept' : kept'[i].created /\ ~kept'[i].remove
        BY <2>1, <2>3, <2>4, <3>2, <4>1 DEF ChartsList, Kept
      <4>4. \A i, k \in DOMAIN kept' : kept'[i].id = kept'[k].id => i = k
        BY <2>1, <2>3, <2>4, <3>2, <4>1, <4>2 DEF ChartsList, Kept
      <4>5. \A i \in DOMAIN kept', k \in DOMAIN charts' : kept'[i].id # charts'[k].id
        <5>1. \A k \in DOMAIN charts' : kept'[n].id # charts'[k].id
          BY <2>3, <2>4, <2>5, <3>2, Zenon
        <5>2. \A i \in DOMAIN kept, k \in DOMAIN charts' : kept[i].id # charts'[k].id
          BY <2>1, <2>2 DEF ChartsList, Kept
        <5> QED BY <4>1, <5>1, <5>2
      <4> QED BY <4>3, <4>4, <4>5, Zenon DEF Kept
    <3> QED BY <3>1, <3>2, Zenon
  <2>11. Shown(kept)'
    <3>1. CASE c.remove
      BY <2>1, <2>2, <2>6, <3>1 DEF ChartsList, Kept, Shown
    <3>2. CASE ~c.remove
      BY <2>1, <2>3, <2>4, <2>6, <3>2 DEF ChartsList, Shown
    <3> QED BY <3>1, <3>2, Zenon
  <2>12. OnList'
    <3>1. ASSUME NEW x \in live', x # c.id
          PROVE x \notin TooLong /\ ((\E i \in DOMAIN charts' : charts'[i].id = x) \/ \E i \in DOMAIN kept' : kept'[i].id = x)
      <4>1. x \in live
        BY <2>6, <3>1, Zenon
      <4>2. ASSUME NEW i \in DOMAIN charts, charts[i].id = x PROVE \E k \in DOMAIN charts' : charts'[k].id = x
        BY <2>2, <3>1, <4>2, Zenon
      <4>3. ASSUME NEW i \in DOMAIN kept, kept[i].id = x PROVE \E k \in DOMAIN kept' : kept'[k].id = x
        BY <2>1, <2>4, <4>3
      <4> QED BY <2>1, <4>1, <4>2, <4>3, Zenon DEF ChartsList, OnList
    <3>2. ASSUME c.id \in live'
          PROVE c.id \notin TooLong /\ \E i \in DOMAIN kept' : kept'[i].id = c.id
      <4>1. ~c.remove
        BY <2>6, <3>2, Zenon
      <4>2. n \in DOMAIN kept' /\ kept'[n].id = c.id
        BY <2>3, <2>4, <4>1
      <4> QED BY <2>1, <2>6, <3>2, <4>1, <4>2, Zenon DEF ChartsList, OnList
    <3> QED BY <3>1, <3>2, Zenon DEF OnList
  <2>13. wrong' = FALSE
    BY <2>1, <2>6, Zenon
  <2> QED BY <2>1, <2>7, <2>8, <2>9, <2>10, <2>11, <2>12, <2>13, Zenon DEF ChartsList
<1>7. CASE C!Processed
  BY <1>7 DEF C!Processed, ChartsType, ChartsList, Ordered, Announced, Shown, Kept, OnList
<1>8. ASSUME NEW obsolete \in BOOLEAN, C!Cleanup(obsolete) PROVE ChartsInv'
  BY <1>8 DEF C!Cleanup, C!Obsoleted, ChartsList, OnList, C!Range, ChartsType, Ordered, Announced,
     Shown, Kept
<1>9. CASE C!Terminated
  BY <1>1, <1>9, Zenon DEF C!Terminated
<1> QED BY <1>1, <1>2, <1>3, <1>4, <1>5, <1>6, <1>7, <1>8, <1>9, Zenon DEF C!Next

\* The invariant says what Netdata has, chart by chart; the property as a set.
LEMMA ChartsMatch == ChartsInv => NetdataMatchesList
<1> SUFFICES ASSUME ChartsInv PROVE NetdataMatchesList
  OBVIOUS
<1> DEFINE on == {c.id : c \in {d \in C!Range(charts) : d.created}} \ TooLong
<1>1. \A x : x \in on <=> x \notin TooLong /\ \E i \in DOMAIN charts : charts[i].created /\ charts[i].id = x
  BY Zenon DEF C!Range
<1>2. chartsPc = "idle" /\ ~panic => live = on
  BY <1>1 DEF ChartsInv, ChartsList, Shown, OnList
<1> QED BY <1>2, Zenon DEF ChartsInv, NetdataMatchesList, C!NetdataMatchesList

\* For any charts, and any number of them: Netdata is never sent data for a chart
\* it does not have, and has exactly the created charts after a collection that
\* did not panic, if the module adds no chart whose ID another one of its charts
\* has (Job.runOnce, processMetrics, Cleanup).
THEOREM NetdataMatchesListCorrect == ~AddsTwice /\ C!Spec => []NetdataMatchesList
<1> SUFFICES ASSUME ~AddsTwice PROVE C!Spec => []NetdataMatchesList
  OBVIOUS
<1>1. ChartsInv /\ [C!Next]_(C!vars) => ChartsInv'
  BY ChartsStep, Zenon
<1> QED BY <1>1, ChartsInit, ChartsMatch, PTL DEF C!Spec

-----------------------------------------------------------------------------
(* The state file: FileStatus *)

\* What the last flush of an instance writes agrees with the store, but for
\* what is saved after the context is done.
Agrees(s) == \A c \in Cfg \ late : s[c] = store[c]

\* The deferred flush is the last one and starts when the context is done; an
\* instance exits only after it.
StatusInv ==
  /\ store \in S!Store /\ snap \in S!Store
  /\ final => ctxDone
  /\ flush = "done" => final
  /\ final /\ flush \in {"open", "write"} => Agrees(snap)
  /\ flush = "done" /\ ~failed => file # Unreadable /\ Agrees(file)
  /\ life = "exited" => flush = "done"

\* No step of the job manager, of Manager.Run or of the plugin breaks it.
LEMMA StatusStep == StatusInv /\ [S!Next]_(S!vars) => StatusInv'
<1> SUFFICES ASSUME StatusInv, [S!Next]_(S!vars) PROVE StatusInv'
  OBVIOUS
<1> USE DEF StatusInv, Agrees
<1>1. ASSUME NEW c \in Cfg, NEW v \in Value \cup {None}, S!Change(c, v) PROVE StatusInv'
  BY <1>1, Zenon DEF S!Change, S!Store, S!fileVars
<1>2. CASE S!TriggerFlush \/ S!SaverReturns \/ S!Cancel \/ S!Exit \/ S!Kill
  BY <1>2 DEF S!TriggerFlush, S!SaverReturns, S!Cancel, S!Exit, S!Kill, S!storeVars, S!fileVars
<1>3. CASE S!FinalFlush \/ S!TryFlush \/ S!Bytes \/ S!Create
  BY <1>3 DEF S!FinalFlush, S!TryFlush, S!Bytes, S!Create, S!storeVars
<1>4. CASE S!Write
  BY <1>4, MCJobAssumption, Zenon DEF S!Write, S!Flushed, S!storeVars
<1>5. CASE S!FlushFails
  BY <1>5, Zenon DEF S!FlushFails, S!Flushed, S!storeVars
<1>6. CASE S!Restart
  BY <1>6, Zenon DEF S!Restart, S!NewStore, S!EmptyStore, S!Store
<1>7. CASE S!Terminated \/ UNCHANGED S!vars
  BY <1>7 DEF S!Terminated, S!vars, S!storeVars, S!fileVars
<1> QED BY <1>1, <1>2, <1>3, <1>4, <1>5, <1>6, <1>7, Zenon DEF S!Next, S!Flusher

\* For any configs and statuses and any number of instances: a clean exit leaves
\* in the state file every status not changed after the context was done
\* (filestatus.Manager.Run, flush).
THEOREM ExitKeepsStatusesCorrect == S!Spec => []ExitKeepsStatuses
<1>1. S!Init => StatusInv
  BY Zenon DEF S!Init, S!EmptyStore, S!Store, StatusInv
<1>2. StatusInv => ExitKeepsStatuses
  BY Zenon DEF StatusInv, Agrees, ExitKeepsStatuses, S!ExitKeepsStatuses
<1> QED BY <1>1, <1>2, StatusStep, PTL DEF S!Spec

-----------------------------------------------------------------------------
(* The locks: FileLock *)

\* The kernel grants a lock to one process at a time (flock.TryLock).
OneHolder == \A p, q \in Plugin, n \in Name : p \in flocks[n] /\ q \in flocks[n] => p = q

\* A process that is down has no jobs.
DownIsIdle == \A p \in Plugin, n \in Name : phase[p] = "down" => job[p][n] = "none"

LocksInv == TypeOK /\ MapMatchesKernel /\ LockedWhileRunning /\ OneHolder /\ LocksHaveJobs /\ DownIsIdle

\* Every step of every process keeps the types.
LEMMA LocksType == TypeOK /\ [Next]_vars => TypeOK'
<1> SUFFICES ASSUME TypeOK, [Next]_vars PROVE TypeOK'
  OBVIOUS
<1> USE DEF TypeOK, JobState, Becomes
<1>1. CASE UNCHANGED vars
  BY <1>1, Zenon DEF vars
<1>2. ASSUME NEW p \in Plugin, NEW n \in Name,
             Lock(p, n) \/ Denied(p, n) \/ Fails(p, n) \/ Stop(p, n) \/ Unlock(p, n)
               \/ Forget(p, n) \/ CleanupStop(p, n)
      PROVE  TypeOK'
  <2>1. CASE Lock(p, n)
    BY <2>1, Zenon DEF Lock
  <2>2. CASE Denied(p, n)
    BY <2>2, Zenon DEF Denied
  <2>3. CASE Fails(p, n)
    BY <2>3 DEF Fails
  <2>4. CASE Stop(p, n)
    BY <2>4, Zenon DEF Stop
  <2>5. CASE Forget(p, n)
    BY <2>5, Zenon DEF Forget
  <2>6. CASE CleanupStop(p, n)
    BY <2>6, Zenon DEF CleanupStop
  <2>7. CASE Unlock(p, n)
    BY <2>7, Zenon DEF Unlock
  <2> QED BY <1>2, <2>1, <2>2, <2>3, <2>4, <2>5, <2>6, <2>7, Zenon
<1>3. ASSUME NEW p \in Plugin, CleanupUnlock(p) \/ Exit(p) \/ StartUp(p) \/ Reload(p)
      PROVE  TypeOK'
  <2>1. CASE CleanupUnlock(p)
    BY <2>1, Zenon DEF CleanupUnlock
  <2>2. CASE Exit(p)
    BY <2>2, Zenon DEF Exit
  <2>3. CASE StartUp(p)
    BY <2>3, Zenon DEF StartUp
  <2>4. CASE Reload(p)
    BY <2>4, Zenon DEF Reload
  <2> QED BY <1>3, <2>1, <2>2, <2>3, <2>4, Zenon
<1> QED BY <1>1, <1>2, <1>3, Zenon DEF Next

\* The strengthened invariant is inductive.
LEMMA LocksStep == LocksInv /\ [Next]_vars => LocksInv'
<1> SUFFICES ASSUME LocksInv, [Next]_vars PROVE LocksInv'
  OBVIOUS
<1>0. TypeOK'
  BY LocksType, Zenon DEF LocksInv
<1>a. TypeOK /\ MapMatchesKernel /\ LockedWhileRunning /\ OneHolder /\ LocksHaveJobs /\ DownIsIdle
  BY Zenon DEF LocksInv
<1> SUFFICES /\ MapMatchesKernel' /\ LockedWhileRunning' /\ OneHolder'
             /\ LocksHaveJobs' /\ DownIsIdle'
  BY <1>0, Zenon DEF LocksInv
<1> USE <1>a DEF TypeOK, Becomes, Collecting
<1>1. CASE UNCHANGED vars
  BY <1>1, Zenon DEF vars, MapMatchesKernel, LockedWhileRunning, OneHolder, LocksHaveJobs,
     DownIsIdle
<1>2. ASSUME NEW p \in Plugin, NEW n \in Name, Lock(p, n)
      PROVE  /\ MapMatchesKernel' /\ LockedWhileRunning' /\ OneHolder'
             /\ LocksHaveJobs' /\ DownIsIdle'
  BY <1>2 DEF Lock, Free, MapMatchesKernel, LocksHaveJobs, LockedWhileRunning, DownIsIdle, OneHolder
<1>3. ASSUME NEW p \in Plugin, NEW n \in Name, Denied(p, n)
      PROVE  /\ MapMatchesKernel' /\ LockedWhileRunning' /\ OneHolder'
             /\ LocksHaveJobs' /\ DownIsIdle'
  BY <1>3 DEF Denied, MapMatchesKernel, LocksHaveJobs, LockedWhileRunning, DownIsIdle, OneHolder
<1>4. ASSUME NEW p \in Plugin, NEW n \in Name, Fails(p, n)
      PROVE  /\ MapMatchesKernel' /\ LockedWhileRunning' /\ OneHolder'
             /\ LocksHaveJobs' /\ DownIsIdle'
  BY <1>4 DEF Fails, MapMatchesKernel, LocksHaveJobs, LockedWhileRunning, DownIsIdle, OneHolder
<1>5. ASSUME NEW p \in Plugin, NEW n \in Name, Stop(p, n)
      PROVE  /\ MapMatchesKernel' /\ LockedWhileRunning' /\ OneHolder'
             /\ LocksHaveJobs' /\ DownIsIdle'
  <2>1. MapMatchesKernel'
    BY <1>5, Zenon DEF Stop, MapMatchesKernel, LocksHaveJobs
  <2>2. LockedWhileRunning'
    BY <1>5 DEF Stop, LockedWhileRunning, MapMatchesKernel, LocksHaveJobs, DownIsIdle
  <2>3. OneHolder'
    BY <1>5, Zenon DEF Stop, OneHolder
  <2>4. LocksHaveJobs'
    BY <1>5 DEF Stop, LocksHaveJobs
  <2>5. DownIsIdle'
    BY <1>5, Zenon DEF Stop, DownIsIdle
  <2> QED BY <2>1, <2>2, <2>3, <2>4, <2>5, Zenon
<1>6. ASSUME NEW p \in Plugin, NEW n \in Name, Forget(p, n)
      PROVE  /\ MapMatchesKernel' /\ LockedWhileRunning' /\ OneHolder'
             /\ LocksHaveJobs' /\ DownIsIdle'
  BY <1>6 DEF Forget, MapMatchesKernel, LocksHaveJobs, LockedWhileRunning, DownIsIdle, OneHolder
<1>7. ASSUME NEW p \in Plugin, NEW n \in Name, Unlock(p, n)
      PROVE  /\ MapMatchesKernel' /\ LockedWhileRunning' /\ OneHolder'
             /\ LocksHaveJobs' /\ DownIsIdle'
  BY <1>7 DEF Unlock, MapMatchesKernel, LocksHaveJobs, LockedWhileRunning, DownIsIdle, OneHolder
<1>8. ASSUME NEW p \in Plugin, NEW n \in Name, CleanupStop(p, n)
      PROVE  /\ MapMatchesKernel' /\ LockedWhileRunning' /\ OneHolder'
             /\ LocksHaveJobs' /\ DownIsIdle'
  BY <1>8 DEF CleanupStop, MapMatchesKernel, LocksHaveJobs, LockedWhileRunning, DownIsIdle,
     OneHolder
<1>9. ASSUME NEW p \in Plugin, CleanupUnlock(p)
      PROVE  /\ MapMatchesKernel' /\ LockedWhileRunning' /\ OneHolder'
             /\ LocksHaveJobs' /\ DownIsIdle'
  BY <1>9 DEF CleanupUnlock, MapMatchesKernel, LocksHaveJobs, LockedWhileRunning, DownIsIdle,
     OneHolder
<1>10. ASSUME NEW p \in Plugin, Exit(p)
      PROVE  /\ MapMatchesKernel' /\ LockedWhileRunning' /\ OneHolder'
             /\ LocksHaveJobs' /\ DownIsIdle'
  BY <1>10 DEF Exit, MapMatchesKernel, LocksHaveJobs, LockedWhileRunning, DownIsIdle, OneHolder
<1>11. ASSUME NEW p \in Plugin, StartUp(p)
      PROVE  /\ MapMatchesKernel' /\ LockedWhileRunning' /\ OneHolder'
             /\ LocksHaveJobs' /\ DownIsIdle'
  BY <1>11 DEF StartUp, MapMatchesKernel, LocksHaveJobs, LockedWhileRunning, DownIsIdle, OneHolder
<1>12. ASSUME NEW p \in Plugin, Reload(p)
      PROVE  /\ MapMatchesKernel' /\ LockedWhileRunning' /\ OneHolder'
             /\ LocksHaveJobs' /\ DownIsIdle'
  BY <1>12 DEF Reload, MapMatchesKernel, LocksHaveJobs, LockedWhileRunning, DownIsIdle, OneHolder
<1> QED BY <1>1, <1>2, <1>3, <1>4, <1>5, <1>6, <1>7, <1>8, <1>9, <1>10, <1>11, <1>12, Zenon DEF Next

\* The inductive invariant holds in every reachable state.
THEOREM LocksInvariant == Spec => []LocksInv
<1>1. Init => LocksInv
  BY DEF Init, LocksInv, TypeOK, JobState, MapMatchesKernel, LockedWhileRunning, OneHolder,
         LocksHaveJobs, DownIsIdle
<1> QED BY <1>1, LocksStep, PTL DEF Spec

\* Locker.locks and the kernel always agree.
THEOREM MapMatchesKernelCorrect == Spec => []MapMatchesKernel
BY LocksInvariant, PTL DEF LocksInv

\* The types are kept.
THEOREM TypeCorrect == Spec => []TypeOK
BY LocksInvariant, PTL DEF LocksInv

\* Every lock belongs to a job that runs or is being stopped: cleanup misses none.
THEOREM LocksHaveJobsCorrect == Spec => []LocksHaveJobs
BY LocksInvariant, PTL DEF LocksInv

\* A running job holds its lock as long as its process is not shutting down.
THEOREM LockedWhileRunningCorrect == Spec => []LockedWhileRunning
BY LocksInvariant, PTL DEF LocksInv

\* No two processes collect the same job under the lock, however many there are
\* and whenever they are killed, restarted or reloaded.
THEOREM OneCollectorCorrect == Spec => []OneCollector
<1>1. LocksInv => OneCollector
  BY Zenon DEF LocksInv, LockedWhileRunning, OneHolder, OneCollector
<1> QED BY <1>1, LocksInvariant, PTL
=============================================================================
