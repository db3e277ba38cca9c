----------------------------- MODULE JobManager -----------------------------
(***************************************************************************)
(* The job manager (agent/jobmgr): one goroutine turns config groups into  *)
(* configs to remove and to add (runConfigGroupsHandling), one applies     *)
(* them (runConfigsHandling: addConfig, removeConfig), one ticks the jobs  *)
(* (runRunningJobsHandling); retry timers and jobs are goroutines of their *)
(* own; cleanup runs after the first three have returned.                  *)
(*                                                                         *)
(* runningJobs is keyed by the full name of a config, retryingJobs and the *)
(* statuses by its hash, and two configs may share a full name.  What a    *)
(* module answers to Init and Check, and whether the lock file can be      *)
(* opened, is chosen freely.  A job is in its select loop (idle) or not:   *)
(* not yet started, or inside Collect.  The Dyncfg calls have no effect    *)
(* (jobmgr.NewManager installs the no-op, nothing replaces it).            *)
(***************************************************************************)
EXTENDS ConfGroup

CONSTANTS Name,          \* full names of jobs
          FullName,      \* the full name of a config
          Contended,     \* names for which other plugins have a job too
          RetryEvery,    \* configs with a positive autodetection_retry
          SavedActive,   \* configs the state file says were running or retrying
          K8sWatched,    \* configs of the file watcher, inside a k8s cluster
          RecoverTries,  \* tries of a recovering job
          K8sTries,      \* tries of a k8s job
          Task,          \* bound: retry goroutines alive at the same time
          MaxBatches,    \* bound: batches of groups received
          StaleRetry     \* a retry goroutine may be slow between timer and send

Inf == -1

ASSUME JobManagerAssumption ==
  /\ FullName \in [Hash -> Name] /\ Contended \subseteq Name
  /\ RetryEvery \subseteq Hash /\ SavedActive \subseteq Hash /\ K8sWatched \subseteq Hash
  /\ RecoverTries \in Nat \ {0} /\ K8sTries \in Nat \ {0}
  /\ MaxBatches \in Nat /\ Task \subseteq Nat
  /\ StaleRetry \in BOOLEAN

Status == {"none", "running", "retrying", "stopped_failed", "stopped_duplicate_local",
           "stopped_duplicate_global", "stopped_registration_error", "stopped_creation_error"}

\* The key of a config in runningJobs.
RunningKey(h) == FullName[h]

\* A Go map as a function on the keys it holds.
Put(f, k, v) == [x \in DOMAIN f \cup {k} |-> IF x = k THEN v ELSE f[x]]
Delete(f, k) == [x \in DOMAIN f \ {k} |-> f[x]]
Empty == [x \in {} |-> {}]

VARIABLES ctxDone,   \* the context is cancelled
          batches,   \* batches received so far
          batch,     \* groups of the current batch still to be handled
          cache,     \* confGroupCache
          toRemove,  \* configs runConfigGroupsHandling has to send to removeCh
          toAdd,     \* ... and then to addCh
          groupsPc,  \* runConfigGroupsHandling: waiting, busy or done
          stopping,  \* the config whose removeConfig waits in stopJob, if any
          configsPc, \* runConfigsHandling: idle, stopping (in stopJob) or done
          running,   \* runningJobs
          retrying,  \* retryingJobs: the task and the tries left, per config
          tasks,     \* the goroutines of runRetryTask that are alive
          queue,     \* the started jobs: config and whether it is in its select
          status,    \* what StatusSaver was last told, per config
          locks,     \* lock files held by this plugin
          others,    \* lock files held by other plugins
          attempts,  \* history: detections since the config was last added
          tickerPc,  \* runRunningJobsHandling: running or done
          managerPc  \* Run: running, stopping (cleanup) or done

groupVars == <<batches, batch, cache, toRemove, toAdd, groupsPc>>
configVars == <<running, retrying, tasks, queue, status, locks, attempts>>
vars == <<ctxDone, groupVars, stopping, configsPc, configVars, others, tickerPc, managerPc>>

Init ==
  /\ ctxDone = FALSE
  /\ batches = 0 /\ batch = {} /\ cache = NewCache
  /\ toRemove = {} /\ toAdd = {} /\ groupsPc = "waiting"
  /\ stopping = {} /\ configsPc = "idle"
  /\ running = {}
  /\ retrying = Empty
  /\ tasks = Empty
  /\ queue = {}
  /\ status = [h \in Hash |-> "none"]
  /\ locks = {}
  /\ attempts = [h \in Hash |-> 0]
  /\ others \in SUBSET Contended
  /\ tickerPc = "running" /\ managerPc = "running"

-----------------------------------------------------------------------------
(* runConfigGroupsHandling *)

\* A batch arrives on the in channel: at most one group per source.
Batch == {B \in SUBSET Group : \A g1, g2 \in B : g1.source = g2.source => g1 = g2}

ReceiveGroups(B) ==
  /\ groupsPc = "waiting" /\ batches < MaxBatches
  /\ batches' = batches + 1
  /\ batch' = B
  /\ groupsPc' = "busy"
  /\ UNCHANGED <<ctxDone, cache, toRemove, toAdd, stopping, configsPc, configVars,
                 others, tickerPc, managerPc>>

\* The next group, once the configs of the one before are sent.
HandleGroup(g) ==
  /\ groupsPc = "busy" /\ toRemove = {} /\ toAdd = {} /\ g \in batch
  /\ ~ctxDone
  /\ LET r == CacheAdd(cache, g)
     IN  /\ cache' = r.cache
         /\ toRemove' = r.removed
         /\ toAdd' = r.added
  /\ batch' = batch \ {g}
  /\ UNCHANGED <<ctxDone, batches, groupsPc, stopping, configsPc, configVars,
                 others, tickerPc, managerPc>>

GroupsHandled ==
  /\ groupsPc = "busy" /\ batch = {} /\ toRemove = {} /\ toAdd = {}
  /\ groupsPc' = "waiting"
  /\ UNCHANGED <<ctxDone, batches, batch, cache, toRemove, toAdd, stopping, configsPc,
                 configVars, others, tickerPc, managerPc>>

Insistent(h) == FALSE

\* With the context done, sendConfig may drop the config instead of sending it ...
SkipConfig(h) ==
  /\ ctxDone
  /\ \/ h \in toRemove /\ toRemove' = toRemove \ {h} /\ UNCHANGED toAdd
     \/ toRemove = {} /\ h \in toAdd /\ toAdd' = toAdd \ {h} /\ UNCHANGED toRemove
  /\ UNCHANGED <<ctxDone, batches, batch, cache, groupsPc, stopping, configsPc,
                 configVars, others, tickerPc, managerPc>>

\* ... and the handler returns, from its select or before the next group.
GroupsReturn ==
  /\ ctxDone /\ groupsPc # "done" /\ toRemove = {} /\ toAdd = {}
  /\ groupsPc = "busy" => batch # {}
  /\ groupsPc' = "done"
  /\ batch' = {}
  /\ UNCHANGED <<ctxDone, batches, cache, toRemove, toAdd, stopping, configsPc,
                 configVars, others, tickerPc, managerPc>>

-----------------------------------------------------------------------------
(* addConfig *)

\* Cancelling a retry task ends its goroutine, unless its timer has fired and
\* the goroutine has not reached the select of sendConfig yet: there it may
\* find both the cancelled context and a ready receiver, and pick either.
CancelTask(ts, t) ==
  IF t \in DOMAIN ts /\ ts[t].fired /\ StaleRetry
  THEN [ts EXCEPT ![t].cancelled = TRUE]
  ELSE Delete(ts, t)

\* The tasks after the lookup at the start of addConfig and removeConfig.
ForgetsTimer(ts, h) == ts
CancelRetry(ts, h) == IF h \in DOMAIN retrying THEN CancelTask(ts, retrying[h].task) ELSE ts

\* How often and how many times to look for the service of a config again.
Settings(h) ==
  IF h \in DOMAIN retrying    THEN [every |-> TRUE, tries |-> retrying[h].tries]
  ELSE IF h \in RetryEvery    THEN [every |-> TRUE, tries |-> Inf]
  ELSE IF h \in SavedActive   THEN [every |-> TRUE, tries |-> RecoverTries]
  ELSE IF h \in K8sWatched    THEN [every |-> TRUE, tries |-> K8sTries]
  ELSE [every |-> FALSE, tries |-> Inf]

\* module.Job: check counts a failure, RetryAutoDetection decides on another try.
Uncounted(s) == s
CountFailure(s) == IF s.tries = Inf THEN s ELSE [s EXCEPT !.tries = @ - 1]
NeverGivesUp(s) == s.every
RetryAutoDetection(s) == s.every /\ (s.tries = Inf \/ s.tries > 0)

Detected(h) ==
  attempts' = [attempts EXCEPT ![h] = IF Settings(h).tries = Inf THEN 0
                                      ELSE IF h \in DOMAIN retrying THEN @ + 1 ELSE 1]

Ends(h, st, ts) == /\ status' = [status EXCEPT ![h] = st]
                   /\ retrying' = Delete(retrying, h)
                   /\ tasks' = ts

SkipDuplicate(h, ts) ==
  /\ Ends(h, "stopped_duplicate_local", ts)
  /\ UNCHANGED <<running, queue, locks, attempts>>

FailsSilently(h, ts) ==
  /\ Ends(h, "none", ts)
  /\ UNCHANGED <<running, queue, locks, attempts>>
CreateFails(h, ts) ==
  /\ Ends(h, "stopped_creation_error", ts)
  /\ UNCHANGED <<running, queue, locks, attempts>>

\* Init fails, the charts are bad, or the module panics: autodetection is
\* disabled for this job, so there is no retry.
DetectionFails(h, ts) ==
  /\ Detected(h)
  /\ Ends(h, "stopped_failed", ts)
  /\ UNCHANGED <<running, queue, locks>>

\* Check fails: a new retry task (the first free identity stands for any), or
\* the end when no try is left.
CheckFails(h, ts) ==
  LET s == CountFailure(Settings(h))
  IN  /\ Detected(h)
      /\ \/ /\ RetryAutoDetection(s)
            /\ \E t \in Task \ DOMAIN ts :
                 /\ \A u \in Task \ DOMAIN ts : t <= u
                 /\ tasks' = Put(ts, t, [cfg |-> h, fired |-> FALSE, cancelled |-> FALSE])
                 /\ retrying' = Put(retrying, h, [task |-> t, tries |-> s.tries])
            /\ status' = [status EXCEPT ![h] = "retrying"]
         \/ ~RetryAutoDetection(s) /\ Ends(h, "stopped_failed", ts)
      /\ UNCHANGED <<running, queue, locks>>

\* The job is put on the queue and its goroutine spawned.
Starts(h, ts) ==
  /\ running' = running \cup {RunningKey(h)}
  /\ queue' = queue \cup {[cfg |-> h, busy |-> TRUE]}
  /\ Ends(h, "running", ts)

\* Detection succeeds and the lock decides.  An error other than "too many open
\* files" does not keep the job from running, without the lock.
DetectionSucceeds(h, ts) ==
  LET n == FullName[h]
  IN  /\ Detected(h)
      /\ \/ n \in locks \cup (Name \ others) /\ Starts(h, ts)
            /\ locks' = locks \cup {n}
         \/ n \notin locks /\ Starts(h, ts) /\ UNCHANGED locks
         \/ n \notin locks /\ Ends(h, "stopped_registration_error", ts)
            /\ UNCHANGED <<running, queue, locks>>
         \/ n \notin locks /\ n \in others /\ Ends(h, "stopped_duplicate_global", ts)
            /\ UNCHANGED <<running, queue, locks>>

NoDuplicateCheck(h) == FALSE
ServedByAnother(h) == RunningKey(h) \in running

AddConfig(h, ts) ==
  IF ServedByAnother(h) THEN SkipDuplicate(h, CancelRetry(ts, h))
  ELSE \/ CreateFails(h, CancelRetry(ts, h))
       \/ DetectionFails(h, CancelRetry(ts, h))
       \/ CheckFails(h, CancelRetry(ts, h))
       \/ DetectionSucceeds(h, CancelRetry(ts, h))

\* runConfigsHandling receives from addCh, from the groups handler ...
SendAdd(h) ==
  /\ configsPc = "idle" /\ toRemove = {} /\ h \in toAdd
  /\ toAdd' = toAdd \ {h}
  /\ AddConfig(h, tasks)
  /\ UNCHANGED <<ctxDone, batches, batch, cache, toRemove, groupsPc, stopping, configsPc,
                 others, tickerPc, managerPc>>

\* ... or from a retry task.
RetryAdd(t) ==
  /\ configsPc = "idle" /\ t \in DOMAIN tasks /\ tasks[t].fired
  /\ AddConfig(tasks[t].cfg, Delete(tasks, t))
  /\ UNCHANGED <<ctxDone, groupVars, stopping, configsPc, others, tickerPc, managerPc>>

-----------------------------------------------------------------------------
(* removeConfig *)

Forget(h) == Ends(h, "none", CancelRetry(tasks, h))

\* runConfigsHandling receives from removeCh.  When a job with this full name
\* is running, whichever config it was started for, stopJob has to wait for it.
SendRemove(h) ==
  /\ configsPc = "idle" /\ h \in toRemove
  /\ toRemove' = toRemove \ {h}
  /\ IF RunningKey(h) \in running
     THEN configsPc' = "stopping" /\ stopping' = {h} /\ UNCHANGED configVars
     ELSE Forget(h) /\ UNCHANGED <<configsPc, stopping, running, queue, locks, attempts>>
  /\ UNCHANGED <<ctxDone, batches, batch, cache, toAdd, groupsPc, others, tickerPc, managerPc>>

Jobs(n) == {j \in queue : FullName[j.cfg] = n}

NeverStops(n) == queue' = queue
\* The job receives the stop and is taken off the queue (or was not on it).
StopJob(n) ==
  IF Jobs(n) = {} THEN queue' = queue
  ELSE \E j \in Jobs(n) : ~j.busy /\ queue' = queue \ {j}

StillLocked(n) == locks
Unlocked(n) == locks \ {n}

RemoveStopped(h) ==
  /\ configsPc = "stopping" /\ h \in stopping
  /\ StopJob(FullName[h])
  /\ locks' = Unlocked(FullName[h])
  /\ running' = running \ {RunningKey(h)}
  /\ Forget(h)
  /\ configsPc' = "idle" /\ stopping' = {}
  /\ UNCHANGED <<ctxDone, groupVars, attempts, others, tickerPc, managerPc>>

ConfigsReturn ==
  /\ ctxDone /\ configsPc = "idle"
  /\ configsPc' = "done"
  /\ UNCHANGED <<ctxDone, groupVars, stopping, configVars, others, tickerPc, managerPc>>

-----------------------------------------------------------------------------
(* Retry tasks, the jobs and their ticks, other plugins *)

Fire(t) ==
  /\ t \in DOMAIN tasks /\ ~tasks[t].fired
  /\ tasks' = [tasks EXCEPT ![t].fired = TRUE]
  /\ UNCHANGED <<ctxDone, groupVars, stopping, configsPc, running, retrying, queue, status,
                 locks, attempts, others, tickerPc, managerPc>>

TaskExit(t) ==
  /\ t \in DOMAIN tasks /\ (ctxDone \/ tasks[t].cancelled)
  /\ tasks' = Delete(tasks, t)
  /\ UNCHANGED <<ctxDone, groupVars, stopping, configsPc, running, retrying, queue, status,
                 locks, attempts, others, tickerPc, managerPc>>

\* notifyRunningJobs needs queueMux, which stopJob holds while it waits.  The
\* jobs whose turn it is collect.
Notify ==
  /\ tickerPc = "running" /\ configsPc # "stopping"
  /\ \E S \in SUBSET {j \in queue : ~j.busy} :
       queue' = (queue \ S) \cup {[j EXCEPT !.busy = TRUE] : j \in S}
  /\ UNCHANGED <<ctxDone, groupVars, stopping, configsPc, running, retrying, tasks, status,
                 locks, attempts, others, tickerPc, managerPc>>

\* The job is started, or has collected, and is back in its select.
JobIdle(j) ==
  /\ j \in queue /\ j.busy
  /\ queue' = (queue \ {j}) \cup {[j EXCEPT !.busy = FALSE]}
  /\ UNCHANGED <<ctxDone, groupVars, stopping, configsPc, running, retrying, tasks, status,
                 locks, attempts, others, tickerPc, managerPc>>

TickerReturn ==
  /\ ctxDone /\ tickerPc = "running"
  /\ tickerPc' = "done"
  /\ UNCHANGED <<ctxDone, groupVars, stopping, configsPc, configVars, others, managerPc>>

OtherLock(n) ==
  /\ n \notin locks \cup others
  /\ others' = others \cup {n}
  /\ UNCHANGED <<ctxDone, groupVars, stopping, configsPc, configVars, tickerPc, managerPc>>

OtherUnlock(n) ==
  /\ n \in others
  /\ others' = others \ {n}
  /\ UNCHANGED <<ctxDone, groupVars, stopping, configsPc, configVars, tickerPc, managerPc>>

-----------------------------------------------------------------------------
(* Run and cleanup *)

Cancel ==
  /\ ~ctxDone
  /\ ctxDone' = TRUE
  /\ UNCHANGED <<groupVars, stopping, configsPc, configVars, others, tickerPc, managerPc>>

\* cleanup cancels the retry tasks and unlocks the running jobs ...
CleanupUnlock ==
  /\ ctxDone /\ managerPc = "running"
  /\ groupsPc = "done" /\ configsPc = "done" /\ tickerPc = "done"
  /\ managerPc' = "stopping"
  /\ locks' = locks \ running
  /\ UNCHANGED <<ctxDone, groupVars, stopping, configsPc, running, retrying, tasks, queue,
                 status, attempts, others, tickerPc>>

\* ... then stops the jobs, each of which may still be collecting.
CleanupStop(j) ==
  /\ managerPc = "stopping" /\ j \in queue /\ ~j.busy
  /\ queue' = queue \ {j}
  /\ UNCHANGED <<ctxDone, groupVars, stopping, configsPc, running, retrying, tasks, status,
                 locks, attempts, others, tickerPc, managerPc>>

CleanupDone ==
  /\ managerPc = "stopping" /\ queue = {}
  /\ managerPc' = "done"
  /\ UNCHANGED <<ctxDone, groupVars, stopping, configsPc, configVars, others, tickerPc>>

Terminated == managerPc = "done" /\ tasks = Empty /\ UNCHANGED vars

Next ==
  \/ \E B \in Batch : ReceiveGroups(B)
  \/ \E g \in batch : HandleGroup(g)
  \/ GroupsHandled \/ GroupsReturn
  \/ \E h \in Hash : SkipConfig(h) \/ SendAdd(h) \/ SendRemove(h) \/ RemoveStopped(h)
  \/ \E t \in Task : Fire(t) \/ RetryAdd(t) \/ TaskExit(t)
  \/ ConfigsReturn
  \/ Notify \/ TickerReturn
  \/ \E j \in queue : JobIdle(j) \/ CleanupStop(j)
  \/ \E n \in Contended : OtherLock(n) \/ OtherUnlock(n)
  \/ Cancel \/ CleanupUnlock \/ CleanupDone
  \/ Terminated

\* Goroutines keep running and Collect returns.  A select that finds several
\* channels ready picks one at random, so no ready sender, and not the end of
\* the context either, is passed over forever: strong fairness.  Steps of which
\* only finitely many can precede one another share a conjunct.
Fairness ==
  /\ WF_vars(\/ \E g \in batch : HandleGroup(g)
             \/ \E h \in Hash : SkipConfig(h)
             \/ GroupsHandled \/ GroupsReturn)
  /\ SF_vars(\E h \in Hash : SendAdd(h) \/ SendRemove(h))
  /\ SF_vars(ConfigsReturn)
  /\ WF_vars(\/ \E h \in Hash : RemoveStopped(h)
             \/ TickerReturn \/ CleanupUnlock \/ CleanupDone
             \/ \E j \in queue : CleanupStop(j))
  /\ \A t \in Task : WF_vars(Fire(t) \/ TaskExit(t)) /\ SF_vars(RetryAdd(t))
  /\ WF_vars(\E j \in queue : JobIdle(j))

Spec == Init /\ [][Next]_vars
FairSpec == Spec /\ Fairness

-----------------------------------------------------------------------------
(* Properties *)

\* The types of the job manager's state (Manager, retryTask, the job statuses).
TypeOK ==
  /\ ctxDone \in BOOLEAN /\ batches \in 0..MaxBatches /\ batch \subseteq Group
  /\ cache \in Cache
  /\ toRemove \subseteq Hash /\ toAdd \subseteq Hash
  /\ groupsPc \in {"waiting", "busy", "done"}
  /\ stopping \subseteq Hash /\ configsPc \in {"idle", "stopping", "done"}
  /\ (configsPc = "stopping") = (stopping # {})
  /\ running \subseteq Name
  /\ DOMAIN retrying \subseteq Hash /\ DOMAIN tasks \subseteq Task
  /\ \A h \in DOMAIN retrying : retrying[h] \in [task : Task, tries : Nat \cup {Inf}]
  /\ \A t \in DOMAIN tasks : tasks[t] \in [cfg : Hash, fired : BOOLEAN, cancelled : BOOLEAN]
  /\ queue \subseteq [cfg : Hash, busy : BOOLEAN]
  /\ status \in [Hash -> Status]
  /\ locks \subseteq Name /\ others \subseteq Name
  /\ attempts \in [Hash -> Nat]
  /\ tickerPc \in {"running", "done"} /\ managerPc \in {"running", "stopping", "done"}

\* Until cleanup stops the jobs, runningJobs holds exactly the full names of
\* the jobs on the queue, and no two of those share a name, whatever order
\* adds, removes and retries of configs with the same full name come in.
QueueMatchesRunning ==
  managerPc = "running" =>
    /\ running = {FullName[j.cfg] : j \in queue}
    /\ \A j1, j2 \in queue : FullName[j1.cfg] = FullName[j2.cfg] => j1 = j2

\* A lock file is held only for a job that is running, and none is left when
\* the jobs are being stopped: removeConfig and cleanup unlock what addConfig
\* locked.
NoLockLeaked == locks \subseteq running /\ (managerPc # "running" => locks = {})

\* A config whose saved status is "retrying" has exactly one retry goroutine
\* that is neither cancelled nor finished, and every such goroutine belongs to
\* such a config: no retry is forgotten and none runs twice.
RetryTracked ==
  /\ \A h \in Hash : status[h] = "retrying" <=> h \in DOMAIN retrying
  /\ ~ctxDone =>
       /\ \A h \in DOMAIN retrying : LET t == retrying[h].task
                                     IN  t \in DOMAIN tasks /\ tasks[t].cfg = h /\ ~tasks[t].cancelled
       /\ \A t \in DOMAIN tasks : \/ tasks[t].cancelled
                                  \/ LET h == tasks[t].cfg
                                     IN  h \in DOMAIN retrying /\ retrying[h].task = t

Budget(h) ==
  IF h \in RetryEvery THEN Inf
  ELSE IF h \in SavedActive THEN RecoverTries
  ELSE IF h \in K8sWatched THEN K8sTries
  ELSE Inf

\* The tries of a recovering job are neither lost nor multiplied as they pass
\* from the job into the retry task and back: the detections made and those
\* left add up to what addConfig granted.
TriesConserved ==
  \A h \in Hash : Budget(h) # Inf =>
    /\ attempts[h] <= Budget(h)
    /\ h \in DOMAIN retrying => attempts[h] + retrying[h].tries = Budget(h) /\ retrying[h].tries > 0

\* Holds when a retry goroutine is never slow between its timer and its send.
\* Until the shutdown, the configs that have a status are exactly those the
\* discovery provides, up to what is still to be sent: no config is lost and
\* none comes back after it was removed.
TrackedExactly ==
  ~ctxDone =>
    {h \in Hash : status[h] # "none"} = (Provided(cache) \ toAdd) \cup toRemove \cup stopping

\* Holds when, besides, no two configs share a full name.  The saved status
\* says "running" of exactly the configs whose job is on the queue.
RunningExactly ==
  managerPc = "running" => {h \in Hash : status[h] = "running"} = {j.cfg : j \in queue}

\* What the comment on jobStatusStoppedDupLocal says of a config that has that
\* status: a job with the same full name is running.
DuplicateIsServed ==
  managerPc = "running" =>
    \A h \in Hash : status[h] = "stopped_duplicate_local" => FullName[h] \in running

\* Every config that discovery provides and does not withdraw gets a status,
\* even while retry tasks compete for addCh and jobs block removeConfig.
EventuallyTracked ==
  \A h \in Hash : (h \in Provided(cache)) ~> (status[h] # "none" \/ h \notin Provided(cache) \/ ctxDone)

\* A recovering job does not retry forever: it runs, is given up or is removed.
RecoveryEnds ==
  \A h \in Hash : Budget(h) # Inf => ((status[h] = "retrying") ~> (status[h] # "retrying" \/ ctxDone))

\* After the context is cancelled, the three handlers return and cleanup stops
\* every job, whatever they were doing.
StopsWhenCancelled == ctxDone ~> (managerPc = "done" /\ tasks = Empty)
=============================================================================
