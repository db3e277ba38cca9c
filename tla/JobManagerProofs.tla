-------------------------- MODULE JobManagerProofs --------------------------
(***************************************************************************)
(* The safety properties of JobManager that hold for any set of configs,   *)
(* full names, retry tasks and numbers of tries: the first four with slow  *)
(* retry goroutines and shared full names included, the others without.    *)
(*                                                                         *)
(* QueueMatchesRunning, NoLockLeaked, RetryTracked and TriesConserved are  *)
(* inductive together with the types of the state they speak of and with   *)
(* Staged: cleanup begins only when the goroutine that adds and removes    *)
(* configs has returned.  The work is in the retry tasks: what addConfig   *)
(* and removeConfig do to them is split into the cancelling of the old     *)
(* task (Unshared) and the making of the new one.                          *)
(*                                                                         *)
(* TrackedExactly, for goroutines that are not slow, needs besides what    *)
(* the groups handler has still to send to be in step with the cache       *)
(* (Sent): what it will add is provided and has no status, what it will    *)
(* remove is not provided, and a config that is being stopped may be       *)
(* provided again only while it waits to be added.  RunningExactly, for    *)
(* configs with a full name each, follows: addConfig never meets a config  *)
(* that is running.                                                        *)
(***************************************************************************)
EXTENDS JobManager, ConfGroupProofs

TaskRecord == [cfg : Hash, fired : BOOLEAN, cancelled : BOOLEAN]

TaskTypes(ts) == /\ ts = [t \in DOMAIN ts |-> ts[t]]
                 /\ \A t \in DOMAIN ts : ts[t] \in TaskRecord

RetryTypes == /\ retrying = [h \in DOMAIN retrying |-> retrying[h]]
              /\ DOMAIN retrying \subseteq Hash
              /\ \A h \in DOMAIN retrying : retrying[h] \in [task : Task, tries : Nat \cup {Inf}]
              /\ status \in [Hash -> Status]
              /\ TaskTypes(tasks)

JobTypes == /\ queue \subseteq [cfg : Hash, busy : BOOLEAN]
            /\ running \subseteq Name /\ locks \subseteq Name
            /\ stopping \subseteq Hash

\* cleanup comes after the return of runConfigsHandling.
Staged == managerPc # "running" => configsPc = "done"

JobsInv == JobTypes /\ Staged /\ QueueMatchesRunning /\ NoLockLeaked
RetryInv == RetryTypes /\ RetryTracked
TriesInv == attempts \in [Hash -> Nat] /\ TriesConserved

IInv == JobsInv /\ RetryInv /\ TriesInv

\* Nothing runs, and nothing is retried, at first.
LEMMA InitInv == Init => IInv
<1> SUFFICES ASSUME Init PROVE IInv
  OBVIOUS
<1>1. JobsInv
  BY Zenon DEF Init, JobsInv, JobTypes, Staged, QueueMatchesRunning, NoLockLeaked
<1>2. RetryInv
  BY Zenon DEF Init, RetryInv, RetryTypes, TaskTypes, RetryTracked, Empty, Status
<1>3. TriesInv
  BY JobManagerAssumption DEF Init, TriesInv, TriesConserved, Budget, Empty, Inf
<1> QED BY <1>1, <1>2, <1>3, Zenon DEF IInv
-----------------------------------------------------------------------------
(* The retry tasks *)

\* ts tracks the retries of every config but h, and nothing of h that is not
\* cancelled.
Unshared(ts, h) ==
  /\ TaskTypes(ts)
  /\ ~ctxDone =>
       /\ \A k \in DOMAIN retrying \ {h} :
            /\ retrying[k].task \in DOMAIN ts
            /\ ts[retrying[k].task].cfg = k /\ ~ts[retrying[k].task].cancelled
       /\ \A t \in DOMAIN ts : \/ ts[t].cancelled
                               \/ /\ ts[t].cfg \in DOMAIN retrying \ {h}
                                  /\ retrying[ts[t].cfg].task = t

\* Cancelling one task leaves the others alone.
LEMMA CancelTaskLemma ==
  ASSUME NEW ts, NEW t, TaskTypes(ts)
  PROVE  /\ TaskTypes(CancelTask(ts, t))
         /\ DOMAIN CancelTask(ts, t) \subseteq DOMAIN ts
         /\ \A u \in DOMAIN ts : u # t => /\ u \in DOMAIN CancelTask(ts, t)
                                          /\ CancelTask(ts, t)[u] = ts[u]
         /\ t \in DOMAIN CancelTask(ts, t) => CancelTask(ts, t)[t].cancelled
<1>1. CASE t \in DOMAIN ts /\ ts[t].fired /\ StaleRetry
  <2>1. CancelTask(ts, t) = [ts EXCEPT ![t].cancelled = TRUE]
    BY <1>1, Zenon DEF CancelTask
  <2>2. CancelTask(ts, t) = [u \in DOMAIN ts |->
           IF u = t THEN [ts[t] EXCEPT !.cancelled = TRUE] ELSE ts[u]]
    BY <1>1, <2>1, Zenon DEF TaskTypes
  <2>3. [ts[t] EXCEPT !.cancelled = TRUE] \in TaskRecord
    BY <1>1, Zenon DEF TaskTypes, TaskRecord
  <2>4. [ts[t] EXCEPT !.cancelled = TRUE].cancelled
    BY <1>1, Zenon DEF TaskTypes, TaskRecord
  <2> QED BY <1>1, <2>2, <2>3, <2>4, Zenon DEF TaskTypes
<1>2. CASE ~(t \in DOMAIN ts /\ ts[t].fired /\ StaleRetry)
  BY <1>2, Zenon DEF CancelTask, Delete, TaskTypes
<1> QED BY <1>1, <1>2, Zenon

\* The old task of a config that comes from the groups handler is cancelled.
LEMMA CancelOwn ==
  ASSUME RetryInv, NEW h \in Hash
  PROVE  Unshared(CancelRetry(tasks, h), h)
<1>1. TaskTypes(tasks)
  BY Zenon DEF RetryInv, RetryTypes
<1>2. CASE h \in DOMAIN retrying
  <2> DEFINE t == retrying[h].task
             c == CancelTask(tasks, t)
  <2>1. CancelRetry(tasks, h) = c
    BY <1>2, Zenon DEF CancelRetry
  <2>2. /\ TaskTypes(c) /\ DOMAIN c \subseteq DOMAIN tasks
        /\ \A u \in DOMAIN tasks : u # t => u \in DOMAIN c /\ c[u] = tasks[u]
        /\ t \in DOMAIN c => c[t].cancelled
    BY <1>1, CancelTaskLemma, Zenon
  <2> HIDE DEF c
  <2>3. ASSUME ~ctxDone, NEW k \in DOMAIN retrying \ {h}
        PROVE  /\ retrying[k].task \in DOMAIN c
               /\ c[retrying[k].task].cfg = k /\ ~c[retrying[k].task].cancelled
    BY <1>2, <2>2, <2>3 DEF RetryInv, RetryTracked
  <2>4. ASSUME ~ctxDone, NEW u \in DOMAIN c, ~c[u].cancelled
        PROVE  c[u].cfg \in DOMAIN retrying \ {h} /\ retrying[c[u].cfg].task = u
    BY <2>2, <2>4 DEF RetryInv, RetryTracked
  <2> QED BY <2>1, <2>2, <2>3, <2>4, Zenon DEF Unshared
<1>3. CASE h \notin DOMAIN retrying
  BY <1>1, <1>3 DEF CancelRetry, RetryInv, RetryTracked, Unshared
<1> QED BY <1>2, <1>3, Zenon

\* So is that of a config that a retry task sends: the task itself, or a newer
\* one when the sender was cancelled and slow.
LEMMA CancelSent ==
  ASSUME RetryInv, NEW s \in DOMAIN tasks
  PROVE  Unshared(CancelRetry(Delete(tasks, s), tasks[s].cfg), tasks[s].cfg)
<1> DEFINE h == tasks[s].cfg
           d == Delete(tasks, s)
<1>1. d = [u \in DOMAIN tasks \ {s} |-> tasks[u]]
  BY Zenon DEF Delete
<1>2. /\ TaskTypes(d) /\ DOMAIN d = DOMAIN tasks \ {s}
      /\ \A u \in DOMAIN d : d[u] = tasks[u]
  BY <1>1, Zenon DEF RetryInv, RetryTypes, TaskTypes
<1>3. ASSUME ~ctxDone, NEW k \in DOMAIN retrying \ {h}
      PROVE  /\ retrying[k].task \in DOMAIN d
             /\ d[retrying[k].task].cfg = k /\ ~d[retrying[k].task].cancelled
  BY <1>2, <1>3, Zenon DEF RetryInv, RetryTracked
<1>4. ASSUME ~ctxDone, NEW u \in DOMAIN d, ~d[u].cancelled
      PROVE  d[u].cfg \in DOMAIN retrying /\ retrying[d[u].cfg].task = u
  BY <1>2, <1>4, Zenon DEF RetryInv, RetryTracked
<1> HIDE DEF d
<1>5. CASE h \in DOMAIN retrying
  <2> DEFINE t == retrying[h].task
             c == CancelTask(d, t)
  <2>1. CancelRetry(d, h) = c
    BY <1>5, Zenon DEF CancelRetry
  <2>2. /\ TaskTypes(c) /\ DOMAIN c \subseteq DOMAIN d
        /\ \A u \in DOMAIN d : u # t => u \in DOMAIN c /\ c[u] = d[u]
        /\ t \in DOMAIN c => c[t].cancelled
    BY <1>2, CancelTaskLemma
  <2> HIDE DEF c
  <2>3. ASSUME ~ctxDone, NEW k \in DOMAIN retrying \ {h}
        PROVE  /\ retrying[k].task \in DOMAIN c
               /\ c[retrying[k].task].cfg = k /\ ~c[retrying[k].task].cancelled
    BY <1>3, <1>5, <2>2, <2>3 DEF RetryInv, RetryTracked
  <2>4. ASSUME ~ctxDone, NEW u \in DOMAIN c, ~c[u].cancelled
        PROVE  c[u].cfg \in DOMAIN retrying \ {h} /\ retrying[c[u].cfg].task = u
    BY <1>4, <2>2, <2>4
  <2> QED BY <2>1, <2>2, <2>3, <2>4, Zenon DEF Unshared, d
<1>6. CASE h \notin DOMAIN retrying
  BY <1>2, <1>3, <1>4, <1>6, Zenon DEF CancelRetry, Unshared, d
<1> QED BY <1>5, <1>6, Zenon

\* A config that ends has no task that is not cancelled, and no entry.
LEMMA EndsInv ==
  ASSUME RetryInv, NEW h \in Hash, NEW ts, Unshared(ts, h),
         NEW st \in Status, st # "retrying", Ends(h, st, ts), ctxDone' = ctxDone
  PROVE  RetryInv'
<1>1. /\ tasks' = ts /\ status' = [status EXCEPT ![h] = st]
      /\ retrying' = [k \in DOMAIN retrying \ {h} |-> retrying[k]]
  BY Zenon DEF Ends, Delete
<1>2. RetryTypes'
  BY <1>1 DEF RetryInv, RetryTypes, Unshared, TaskTypes
<1>3. \A k \in Hash : status'[k] = "retrying" <=> k \in DOMAIN retrying'
  BY <1>1, Zenon DEF RetryInv, RetryTypes, RetryTracked
<1>4. RetryTracked'
  BY <1>1, <1>3, Zenon DEF RetryTracked, Unshared
<1> QED BY <1>2, <1>4, Zenon DEF RetryInv

\* A config that is tried again has one new task.
LEMMA TriesAgainInv ==
  ASSUME RetryInv, NEW h \in Hash, NEW ts, Unshared(ts, h), NEW t \in Task \ DOMAIN ts,
         NEW new \in TaskRecord, new.cfg = h, ~new.cancelled,
         NEW entry \in [task : Task, tries : Nat \cup {Inf}], entry.task = t,
         tasks' = Put(ts, t, new), retrying' = Put(retrying, h, entry),
         status' = [status EXCEPT ![h] = "retrying"], ctxDone' = ctxDone
  PROVE  RetryInv'
<1>1. /\ tasks' = [u \in DOMAIN tasks' |-> tasks'[u]]
      /\ DOMAIN tasks' = DOMAIN ts \cup {t} /\ tasks'[t] = new
      /\ \A u \in DOMAIN ts : tasks'[u] = ts[u]
  BY Zenon DEF Put
<1>2. /\ retrying' = [k \in DOMAIN retrying' |-> retrying'[k]]
      /\ DOMAIN retrying' = DOMAIN retrying \cup {h} /\ retrying'[h] = entry
      /\ \A k \in DOMAIN retrying : k # h => retrying'[k] = retrying[k]
  BY Zenon DEF Put
<1>3. \A u \in DOMAIN tasks' : tasks'[u] \in TaskRecord
  BY <1>1 DEF Unshared, TaskTypes
<1>4. \A k \in DOMAIN retrying' : retrying'[k] \in [task : Task, tries : Nat \cup {Inf}]
  BY <1>2 DEF RetryInv, RetryTypes
<1>5. DOMAIN retrying' \subseteq Hash /\ status' \in [Hash -> Status]
  BY <1>2, Zenon DEF RetryInv, RetryTypes, Status
<1>6. RetryTypes'
  BY <1>1, <1>2, <1>3, <1>4, <1>5, Zenon DEF RetryTypes, TaskTypes
<1>7. \A k \in Hash : status'[k] = "retrying" <=> k \in DOMAIN retrying'
  BY <1>2 DEF RetryInv, RetryTypes, RetryTracked
<1>8. ASSUME ~ctxDone, NEW k \in DOMAIN retrying'
       PROVE  /\ retrying'[k].task \in DOMAIN tasks'
              /\ tasks'[retrying'[k].task].cfg = k /\ ~tasks'[retrying'[k].task].cancelled
  BY <1>1, <1>2, <1>8 DEF Unshared
<1>9. ASSUME ~ctxDone, NEW u \in DOMAIN tasks', ~tasks'[u].cancelled
       PROVE  tasks'[u].cfg \in DOMAIN retrying' /\ retrying'[tasks'[u].cfg].task = u
  BY <1>1, <1>2, <1>9 DEF Unshared
<1>10. RetryTracked'
  BY <1>7, <1>8, <1>9 DEF RetryTracked
<1> QED BY <1>6, <1>10, Zenon DEF RetryInv
-----------------------------------------------------------------------------
(* The tries *)

\* What Settings grants: a limited config has a try left, and the attempt that
\* it is about to make is counted once.
LEMMA SettingsLemma ==
  ASSUME RetryInv, TriesInv, NEW h \in Hash, Detected(h)
  PROVE  /\ Settings(h) \in [every : BOOLEAN, tries : Nat \cup {Inf}]
         /\ attempts' \in [Hash -> Nat]
         /\ \A k \in Hash : k # h => attempts'[k] = attempts[k]
         /\ Budget(h) # Inf => /\ Settings(h).tries \in Nat \ {0} /\ Budget(h) \in Nat
                               /\ attempts'[h] + (Settings(h).tries - 1) = Budget(h)
<1>1. Budget(h) \in (Nat \ {0}) \cup {Inf}
  BY JobManagerAssumption, Zenon DEF Budget
<1>2. Settings(h) \in [every : BOOLEAN, tries : Nat \cup {Inf}]
  BY JobManagerAssumption, Zenon DEF Settings, RetryInv, RetryTypes
<1>3. CASE h \in DOMAIN retrying
  BY <1>1, <1>2, <1>3 DEF Settings, RetryInv, RetryTypes, TriesInv, TriesConserved, Detected, Inf
<1>4. CASE h \notin DOMAIN retrying
  BY <1>1, <1>2, <1>4, JobManagerAssumption DEF Settings, Budget, Detected, TriesInv
<1> QED BY <1>3, <1>4, Zenon

\* A detection that is the last one for now.
LEMMA LastTry ==
  ASSUME RetryInv, TriesInv, NEW h \in Hash, Detected(h), retrying' = Delete(retrying, h)
  PROVE  TriesInv'
<1>1. retrying' = [k \in DOMAIN retrying \ {h} |-> retrying[k]]
  BY Zenon DEF Delete
<1>2. ASSUME NEW k \in Hash, Budget(k) # Inf
      PROVE  /\ attempts'[k] <= Budget(k)
             /\ k \in DOMAIN retrying' => /\ attempts'[k] + retrying'[k].tries = Budget(k)
                                          /\ retrying'[k].tries > 0
  BY <1>1, <1>2, SettingsLemma DEF TriesInv, TriesConserved
<1>3. attempts' \in [Hash -> Nat]
  BY SettingsLemma, Zenon
<1>4. \A k \in Hash : Budget(k)' = Budget(k)
  BY Zenon DEF Budget
<1> QED BY <1>2, <1>3, <1>4, Zenon DEF TriesInv, TriesConserved

\* No detection was made, and the config is not tried again.
LEMMA NoTry ==
  ASSUME TriesInv, NEW h \in Hash, UNCHANGED attempts, retrying' = Delete(retrying, h)
  PROVE  TriesInv'
<1>1. retrying' = [k \in DOMAIN retrying \ {h} |-> retrying[k]]
  BY Zenon DEF Delete
<1>2. \A k \in Hash : Budget(k)' = Budget(k)
  BY Zenon DEF Budget
<1> QED BY <1>1, <1>2, Zenon DEF TriesInv, TriesConserved

\* Check fails: the tries that are left go into the retry task.
LEMMA CheckFailsInv ==
  ASSUME RetryInv, TriesInv, NEW h \in Hash, NEW ts, Unshared(ts, h), CheckFails(h, ts),
         ctxDone' = ctxDone
  PROVE  RetryInv' /\ TriesInv'
<1> DEFINE s == CountFailure(Settings(h))
<1>1. Detected(h)
  BY Zenon DEF CheckFails
<1>2. CASE Ends(h, "stopped_failed", ts)
  <2>1. RetryInv'
    BY <1>2, EndsInv, Zenon DEF Status
  <2>2. TriesInv'
    BY <1>1, <1>2, LastTry, Zenon DEF Ends
  <2> QED BY <2>1, <2>2, Zenon
<1>3. CASE /\ RetryAutoDetection(s) /\ status' = [status EXCEPT ![h] = "retrying"]
           /\ \E t \in Task \ DOMAIN ts :
                 /\ tasks' = Put(ts, t, [cfg |-> h, fired |-> FALSE, cancelled |-> FALSE])
                 /\ retrying' = Put(retrying, h, [task |-> t, tries |-> s.tries])
  <2> PICK t \in Task \ DOMAIN ts :
                 /\ tasks' = Put(ts, t, [cfg |-> h, fired |-> FALSE, cancelled |-> FALSE])
                 /\ retrying' = Put(retrying, h, [task |-> t, tries |-> s.tries])
    BY <1>3, Zenon
  <2>1. s.tries = (IF Settings(h).tries = Inf THEN Inf ELSE Settings(h).tries - 1)
    BY <1>1, SettingsLemma, Zenon DEF CountFailure
  <2>2. s.tries \in Nat \cup {Inf} /\ (s.tries = Inf \/ s.tries > 0)
    BY <1>1, <1>3, <2>1, SettingsLemma DEF RetryAutoDetection, Inf
  <2> HIDE DEF s
  <2>3. RetryInv'
    <3> DEFINE new == [cfg |-> h, fired |-> FALSE, cancelled |-> FALSE]
               entry == [task |-> t, tries |-> s.tries]
    <3>1. new \in TaskRecord /\ new.cfg = h /\ ~new.cancelled
      BY Zenon DEF TaskRecord
    <3>2. entry \in [task : Task, tries : Nat \cup {Inf}] /\ entry.task = t
      BY <2>2, Zenon
    <3>3. /\ tasks' = Put(ts, t, new) /\ retrying' = Put(retrying, h, entry)
          /\ status' = [status EXCEPT ![h] = "retrying"]
      BY <1>3, Zenon
    <3> HIDE DEF new, entry
    <3> QED BY <3>1, <3>2, <3>3, TriesAgainInv, Zenon
  <2>4. retrying' = [k \in DOMAIN retrying \cup {h} |->
                      IF k = h THEN [task |-> t, tries |-> s.tries] ELSE retrying[k]]
    BY Zenon DEF Put
  <2>5. ASSUME NEW k \in Hash, Budget(k) # Inf
        PROVE  /\ attempts'[k] <= Budget(k)
               /\ k \in DOMAIN retrying' => /\ attempts'[k] + retrying'[k].tries = Budget(k)
                                            /\ retrying'[k].tries > 0
    BY <1>1, <2>1, <2>2, <2>4, <2>5, SettingsLemma DEF Inf, TriesInv, TriesConserved
  <2>6. attempts' \in [Hash -> Nat]
    BY <1>1, SettingsLemma, Zenon
  <2>7. \A k \in Hash : Budget(k)' = Budget(k)
    BY Zenon DEF Budget
  <2>8. TriesInv'
    BY <2>5, <2>6, <2>7, Zenon DEF TriesInv, TriesConserved
  <2> QED BY <2>3, <2>8, Zenon
<1> QED BY <1>2, <1>3, Zenon DEF CheckFails
-----------------------------------------------------------------------------
(* The running jobs and their locks *)

\* A job is started under a full name that no running job has.
LEMMA StartsInv ==
  ASSUME JobsInv, NEW h \in Hash, FullName[h] \notin running, configsPc = "idle",
         running' = running \cup {FullName[h]},
         queue' = queue \cup {[cfg |-> h, busy |-> TRUE]},
         locks' \in {locks, locks \cup {FullName[h]}},
         UNCHANGED <<stopping, configsPc, managerPc>>
  PROVE  JobsInv'
<1>1. FullName[h] \in Name /\ managerPc = "running"
  BY JobManagerAssumption, Zenon DEF JobsInv, Staged
<1> DEFINE new == [cfg |-> h, busy |-> TRUE]
<1>2. new \in [cfg : Hash, busy : BOOLEAN] /\ new.cfg = h /\ queue' = queue \cup {new}
  OBVIOUS
<1> HIDE DEF new
<1>3. JobTypes'
  BY <1>1, <1>2, Zenon DEF JobsInv, JobTypes
<1>4. QueueMatchesRunning'
  BY <1>1, <1>2 DEF JobsInv, QueueMatchesRunning
<1>5. NoLockLeaked' /\ Staged'
  BY <1>1, Zenon DEF JobsInv, NoLockLeaked, Staged
<1> QED BY <1>3, <1>4, <1>5, Zenon DEF JobsInv

\* What leaves the jobs and the locks alone.
LEMMA JobsUnchanged ==
  ASSUME JobsInv, UNCHANGED <<running, queue, locks>>, stopping' \subseteq Hash,
         managerPc' = managerPc, configsPc' = configsPc \/ managerPc = "running"
  PROVE  JobsInv'
BY Zenon DEF JobsInv, JobTypes, Staged, QueueMatchesRunning, NoLockLeaked

\* Jobs that go in and out of their select.
LEMMA BusyInv ==
  ASSUME JobsInv, NEW S \in SUBSET queue, NEW b \in BOOLEAN,
         queue' = (queue \ S) \cup {[j EXCEPT !.busy = b] : j \in S},
         UNCHANGED <<running, locks, stopping, configsPc, managerPc>>
  PROVE  JobsInv'
<1> DEFINE f(j) == [j EXCEPT !.busy = b]
<1>1. \A j \in queue : f(j) \in [cfg : Hash, busy : BOOLEAN] /\ f(j).cfg = j.cfg
  BY Zenon DEF JobsInv, JobTypes
<1>2. queue' = (queue \ S) \cup {f(j) : j \in S}
  OBVIOUS
<1> HIDE DEF f
<1>3. JobTypes'
  BY <1>1, <1>2, Zenon DEF JobsInv, JobTypes
<1>4. ASSUME managerPc = "running"
      PROVE  /\ running = {FullName[j.cfg] : j \in queue'}
             /\ \A j1, j2 \in queue' : FullName[j1.cfg] = FullName[j2.cfg] => j1 = j2
  <2>1. /\ running = {FullName[j.cfg] : j \in queue}
        /\ \A j1, j2 \in queue : FullName[j1.cfg] = FullName[j2.cfg] => j1 = j2
    BY <1>4, Zenon DEF JobsInv, QueueMatchesRunning
  <2>2. ASSUME NEW n PROVE n \in running <=> n \in {FullName[j.cfg] : j \in queue'}
    <3>1. ASSUME n \in running PROVE \E j \in queue' : n = FullName[j.cfg]
      <4> PICK j \in queue : n = FullName[j.cfg]
        BY <2>1, <3>1, Zenon
      <4>1. CASE j \in S
        BY <1>1, <1>2, <4>1, Zenon
      <4>2. CASE j \notin S
        BY <1>2, <4>2, Zenon
      <4> QED BY <4>1, <4>2, Zenon
    <3>2. ASSUME NEW j \in queue' PROVE FullName[j.cfg] \in running
      BY <1>1, <1>2, <2>1
    <3> QED BY <3>1, <3>2, Zenon
  <2>3. ASSUME NEW j \in queue'
        PROVE  \E k \in queue : /\ j.cfg = k.cfg
                                /\ j = IF k \in S THEN f(k) ELSE k
    BY <1>1, <1>2, Zenon
  <2>4. ASSUME NEW j1 \in queue', NEW j2 \in queue', FullName[j1.cfg] = FullName[j2.cfg]
        PROVE  j1 = j2
    <3> PICK k1 \in queue : j1.cfg = k1.cfg /\ j1 = IF k1 \in S THEN f(k1) ELSE k1
      BY <2>3, Zenon
    <3> PICK k2 \in queue : j2.cfg = k2.cfg /\ j2 = IF k2 \in S THEN f(k2) ELSE k2
      BY <2>3, Zenon
    <3>1. k1 = k2
      BY <2>1, <2>4
    <3> QED BY <3>1, Zenon
  <2> QED BY <2>2, <2>4, Zenon
<1>5. QueueMatchesRunning'
  BY <1>4, Zenon DEF QueueMatchesRunning
<1>6. NoLockLeaked' /\ Staged'
  BY Zenon DEF JobsInv, NoLockLeaked, Staged
<1> QED BY <1>3, <1>5, <1>6, Zenon DEF JobsInv

\* removeConfig, once stopJob has returned.
LEMMA StoppedInv ==
  ASSUME JobsInv, NEW h \in Hash, configsPc = "stopping", StopJob(FullName[h]),
         locks' = locks \ {FullName[h]}, running' = running \ {FullName[h]},
         stopping' = {}, configsPc' = "idle", managerPc' = managerPc
  PROVE  JobsInv'
<1> DEFINE n == FullName[h]
<1>1. /\ managerPc = "running"
      /\ running = {FullName[j.cfg] : j \in queue}
      /\ \A j1, j2 \in queue : FullName[j1.cfg] = FullName[j2.cfg] => j1 = j2
  BY Zenon DEF JobsInv, Staged, QueueMatchesRunning
<1>2. \A j : j \in queue' <=> j \in queue /\ FullName[j.cfg] # n
  <2>1. CASE Jobs(n) = {}
    BY <2>1, Zenon DEF StopJob, Jobs
  <2>2. CASE Jobs(n) # {}
    <3> PICK i \in Jobs(n) : queue' = queue \ {i}
      BY <2>2, Zenon DEF StopJob
    <3>1. i \in queue /\ FullName[i.cfg] = n
      BY Zenon DEF Jobs
    <3> QED BY <1>1, <3>1, Zenon
  <2> QED BY <2>1, <2>2, Zenon
<1>3. running' = {FullName[j.cfg] : j \in queue'}
  BY <1>1, <1>2, Zenon
<1>4. \A j1, j2 \in queue' : FullName[j1.cfg] = FullName[j2.cfg] => j1 = j2
  BY <1>1, <1>2, Zenon
<1>5. QueueMatchesRunning'
  BY <1>3, <1>4, Zenon DEF QueueMatchesRunning
<1>6. JobTypes'
  BY <1>2, Zenon DEF JobsInv, JobTypes
<1>7. NoLockLeaked' /\ Staged'
  BY <1>1, Zenon DEF JobsInv, NoLockLeaked, Staged
<1> QED BY <1>5, <1>6, <1>7, Zenon DEF JobsInv
-----------------------------------------------------------------------------
(* The actions *)

\* addConfig, in all its outcomes.
LEMMA AddConfigInv ==
  ASSUME IInv, NEW h \in Hash, NEW ts, Unshared(CancelRetry(ts, h), h), AddConfig(h, ts),
         configsPc = "idle", UNCHANGED <<ctxDone, stopping, configsPc, managerPc>>
  PROVE  IInv'
<1> DEFINE c == CancelRetry(ts, h)
<1> HIDE DEF c
<1>1. Unshared(c, h) /\ RetryInv /\ TriesInv /\ JobsInv /\ stopping' \subseteq Hash
  BY Zenon DEF c, IInv, JobsInv, JobTypes
<1>2. CASE SkipDuplicate(h, c)
  <2>1. RetryInv'
    BY <1>1, <1>2, EndsInv, Zenon DEF SkipDuplicate, Status
  <2>2. TriesInv'
    BY <1>1, <1>2, NoTry, Zenon DEF SkipDuplicate, Ends
  <2>3. JobsInv'
    BY <1>1, <1>2, JobsUnchanged, Zenon DEF SkipDuplicate
  <2> QED BY <2>1, <2>2, <2>3, Zenon DEF IInv
<1>3. CASE CreateFails(h, c)
  <2>1. RetryInv'
    BY <1>1, <1>3, EndsInv, Zenon DEF CreateFails, Status
  <2>2. TriesInv'
    BY <1>1, <1>3, NoTry, Zenon DEF CreateFails, Ends
  <2>3. JobsInv'
    BY <1>1, <1>3, JobsUnchanged, Zenon DEF CreateFails
  <2> QED BY <2>1, <2>2, <2>3, Zenon DEF IInv
<1>4. CASE DetectionFails(h, c)
  <2>1. RetryInv'
    BY <1>1, <1>4, EndsInv, Zenon DEF DetectionFails, Status
  <2>2. TriesInv'
    BY <1>1, <1>4, LastTry, Zenon DEF DetectionFails, Ends
  <2>3. JobsInv'
    BY <1>1, <1>4, JobsUnchanged, Zenon DEF DetectionFails
  <2> QED BY <2>1, <2>2, <2>3, Zenon DEF IInv
<1>5. CASE CheckFails(h, c)
  <2>1. JobsInv'
    BY <1>1, <1>5, JobsUnchanged, Zenon DEF CheckFails
  <2> QED BY <1>1, <1>5, <2>1, CheckFailsInv, Zenon DEF IInv
<1>6. CASE DetectionSucceeds(h, c) /\ ~ServedByAnother(h)
  BY <1>1, <1>6, EndsInv, LastTry, StartsInv, JobsUnchanged, Zenon DEF DetectionSucceeds,
     ServedByAnother, RunningKey, Starts, Status, Ends, IInv
<1> QED BY <1>2, <1>3, <1>4, <1>5, <1>6, Zenon DEF AddConfig, c

\* The actions that leave the configs, and what is made of them, alone.
LEMMA Elsewhere ==
  ASSUME IInv, UNCHANGED <<stopping, configVars, managerPc>>,
         configsPc' \in {configsPc, "done"}, ctxDone' = ctxDone \/ ctxDone' = TRUE
  PROVE  IInv'
<1>1. JobsInv'
  BY Zenon DEF IInv, configVars, JobsInv, JobTypes, Staged, QueueMatchesRunning, NoLockLeaked
<1>2. RetryInv'
  BY DEF IInv, configVars, RetryInv, RetryTypes, TaskTypes, RetryTracked
<1>3. \A h \in Hash : Budget(h)' = Budget(h)
  BY Zenon DEF Budget
<1>4. TriesInv'
  BY <1>3, Zenon DEF IInv, configVars, TriesInv, TriesConserved
<1> QED BY <1>1, <1>2, <1>4, Zenon DEF IInv

\* The actions of the jobs and of cleanup leave the retries alone.
LEMMA OnlyJobs ==
  ASSUME IInv, JobsInv', UNCHANGED <<ctxDone, retrying, tasks, status, attempts>>
  PROVE  IInv'
<1>1. RetryInv'
  BY DEF IInv, RetryInv, RetryTypes, TaskTypes, RetryTracked
<1>2. \A h \in Hash : Budget(h)' = Budget(h)
  BY Zenon DEF Budget
<1>3. TriesInv'
  BY <1>2, Zenon DEF IInv, TriesInv, TriesConserved
<1> QED BY <1>1, <1>3, Zenon DEF IInv

\* removeConfig forgets the config, or begins to stop a job.
LEMMA SendRemoveInv ==
  ASSUME IInv, NEW h \in Hash, SendRemove(h)
  PROVE  IInv'
<1>1. configsPc = "idle" /\ UNCHANGED <<ctxDone, managerPc>> /\ managerPc = "running"
  BY Zenon DEF SendRemove, IInv, JobsInv, Staged
<1>2. CASE configsPc' = "stopping" /\ stopping' = {h} /\ UNCHANGED configVars
  BY <1>1, <1>2, JobsUnchanged, OnlyJobs, Zenon DEF IInv, configVars
<1>3. CASE Forget(h) /\ UNCHANGED <<configsPc, stopping, running, queue, locks, attempts>>
  <2>1. Unshared(CancelRetry(tasks, h), h)
    BY CancelOwn, Zenon DEF IInv
  <2>2. RetryInv'
    BY <1>1, <1>3, <2>1, EndsInv, Zenon DEF IInv, Forget, Status
  <2>3. TriesInv'
    BY <1>3, NoTry, Zenon DEF IInv, Forget, Ends
  <2>4. JobsInv'
    BY <1>1, <1>3, JobsUnchanged, Zenon DEF IInv, JobsInv, JobTypes
  <2> QED BY <2>2, <2>3, <2>4, Zenon DEF IInv
<1> QED BY <1>2, <1>3, Zenon DEF SendRemove

\* The job is stopped: the config is forgotten.
LEMMA RemoveStoppedInv ==
  ASSUME IInv, NEW h \in Hash, RemoveStopped(h)
  PROVE  IInv'
<1>1. Unshared(CancelRetry(tasks, h), h)
  BY CancelOwn, Zenon DEF IInv
<1>2. RetryInv'
  BY <1>1, EndsInv, Zenon DEF IInv, RemoveStopped, Forget, Status
<1>3. TriesInv'
  BY NoTry, Zenon DEF IInv, RemoveStopped, Forget, Ends
<1>4. JobsInv'
  BY StoppedInv, Zenon DEF IInv, RemoveStopped, Unlocked, RunningKey
<1> QED BY <1>2, <1>3, <1>4, Zenon DEF IInv

\* A timer fires, or a goroutine that was cancelled, or that sees the end of the
\* context, returns.
LEMMA TaskStepInv ==
  ASSUME IInv, NEW t \in Task, Fire(t) \/ TaskExit(t)
  PROVE  IInv'
<1>1. /\ t \in DOMAIN tasks /\ RetryTypes /\ RetryTracked
      /\ UNCHANGED <<ctxDone, stopping, configsPc, running, retrying, queue, status, locks,
                     attempts, managerPc>>
  BY Zenon DEF Fire, TaskExit, IInv, RetryInv
<1>2. RetryInv'
  <2>1. CASE Fire(t)
    <3>1. tasks' = [u \in DOMAIN tasks |-> IF u = t THEN [tasks[t] EXCEPT !.fired = TRUE]
                                           ELSE tasks[u]]
      BY <1>1, <2>1, Zenon DEF Fire, RetryTypes, TaskTypes
    <3> DEFINE r == [tasks[t] EXCEPT !.fired = TRUE]
    <3>2. r \in TaskRecord /\ r.cfg = tasks[t].cfg /\ r.cancelled = tasks[t].cancelled
      BY <1>1, Zenon DEF RetryTypes, TaskTypes, TaskRecord
    <3>3. /\ tasks' = [u \in DOMAIN tasks' |-> tasks'[u]] /\ DOMAIN tasks' = DOMAIN tasks
          /\ \A u \in DOMAIN tasks : tasks'[u] = IF u = t THEN r ELSE tasks[u]
      BY <3>1, Zenon
    <3> HIDE DEF r
    <3>4. RetryTypes'
      BY <1>1, <3>2, <3>3, Zenon DEF RetryTypes, TaskTypes
    <3>5. \A u \in DOMAIN tasks : /\ tasks'[u].cfg = tasks[u].cfg
                                  /\ tasks'[u].cancelled = tasks[u].cancelled
      BY <3>2, <3>3, Zenon
    <3>6. RetryTracked'
      BY <1>1, <3>3, <3>5 DEF RetryTracked
    <3> QED BY <3>4, <3>6, Zenon DEF RetryInv
  <2>2. CASE TaskExit(t)
    BY <1>1, <2>2 DEF TaskExit, Delete, RetryTypes, TaskTypes, RetryTracked, RetryInv
  <2> QED BY <2>1, <2>2, <1>1, Zenon
<1>3. JobsInv'
  BY <1>1, JobsUnchanged, Zenon DEF IInv, JobsInv, JobTypes
<1>4. \A h \in Hash : Budget(h)' = Budget(h)
  BY Zenon DEF Budget
<1>5. TriesInv'
  BY <1>1, <1>4, Zenon DEF IInv, TriesInv, TriesConserved
<1> QED BY <1>2, <1>3, <1>5, Zenon DEF IInv

\* cleanup unlocks, then stops the jobs.
LEMMA CleanupInv ==
  ASSUME IInv, CleanupUnlock \/ CleanupDone \/ \E j \in queue : CleanupStop(j)
  PROVE  IInv'
<1>1. UNCHANGED <<ctxDone, retrying, tasks, status, attempts, running, stopping, configsPc>>
  BY Zenon DEF CleanupUnlock, CleanupDone, CleanupStop, configVars
<1>2. managerPc' \in {"stopping", "done"} /\ configsPc' = "done" /\ queue' \subseteq queue
  BY Zenon DEF CleanupUnlock, CleanupDone, CleanupStop, configVars, IInv, JobsInv, Staged
<1>3. locks' = {}
  BY Zenon DEF CleanupUnlock, CleanupDone, CleanupStop, configVars, IInv, JobsInv, NoLockLeaked
<1>4. JobsInv'
  BY <1>1, <1>2, <1>3, Zenon
     DEF IInv, JobsInv, JobTypes, Staged, QueueMatchesRunning, NoLockLeaked
<1> QED BY <1>1, <1>4, OnlyJobs, Zenon

\* The strengthened invariant is inductive.
LEMMA StepInv == IInv /\ [Next]_vars => IInv'
<1> SUFFICES ASSUME IInv, [Next]_vars PROVE IInv'
  OBVIOUS
<1>1. CASE UNCHANGED vars
  BY <1>1, Elsewhere, Zenon DEF vars
<1>2. CASE \/ \E B \in Batch : ReceiveGroups(B)
           \/ \E g \in batch : HandleGroup(g)
           \/ GroupsHandled \/ GroupsReturn
  BY <1>2, Elsewhere, Zenon DEF ReceiveGroups, HandleGroup, GroupsHandled, GroupsReturn
<1>3. ASSUME NEW h \in Hash, SkipConfig(h) PROVE IInv'
  BY <1>3, Elsewhere, Zenon DEF SkipConfig
<1>4. ASSUME NEW h \in Hash, SendAdd(h) PROVE IInv'
  BY <1>4, CancelOwn, AddConfigInv, Zenon DEF IInv, SendAdd
<1>5. ASSUME NEW h \in Hash, SendRemove(h) PROVE IInv'
  BY <1>5, SendRemoveInv, Zenon
<1>6. ASSUME NEW h \in Hash, RemoveStopped(h) PROVE IInv'
  BY <1>6, RemoveStoppedInv, Zenon
<1>7. ASSUME NEW t \in Task, Fire(t) \/ TaskExit(t) PROVE IInv'
  BY <1>7, TaskStepInv, Zenon
<1>8. ASSUME NEW t \in Task, RetryAdd(t) PROVE IInv'
  BY <1>8, CancelSent, AddConfigInv, Zenon DEF RetryAdd, IInv, RetryInv, RetryTypes, TaskTypes,
     TaskRecord
<1>9. CASE ConfigsReturn \/ TickerReturn \/ Cancel \/ Terminated
  BY <1>9, Elsewhere, Zenon DEF ConfigsReturn, TickerReturn, Cancel, Terminated, vars
<1>10. CASE Notify
  <2>1. JobsInv'
    BY <1>10, BusyInv, Zenon DEF Notify, IInv
  <2> QED BY <1>10, <2>1, OnlyJobs, Zenon DEF Notify
<1>11. ASSUME NEW j \in queue, JobIdle(j) PROVE IInv'
  <2>1. {j} \in SUBSET queue /\ {[i EXCEPT !.busy = FALSE] : i \in {j}} = {[j EXCEPT !.busy = FALSE]}
    OBVIOUS
  <2>2. JobsInv'
    BY <1>11, <2>1, BusyInv, Zenon DEF JobIdle, IInv
  <2> QED BY <1>11, <2>2, OnlyJobs, Zenon DEF JobIdle
<1>12. CASE \E n \in Contended : OtherLock(n) \/ OtherUnlock(n)
  BY <1>12, Elsewhere, Zenon DEF OtherLock, OtherUnlock
<1>13. CASE CleanupUnlock \/ CleanupDone \/ \E j \in queue : CleanupStop(j)
  BY <1>13, CleanupInv, Zenon
<1> QED
  BY <1>1, <1>2, <1>3, <1>4, <1>5, <1>6, <1>7, <1>8, <1>9, <1>10, <1>11, <1>12, <1>13,
     Zenon DEF Next

\* The strengthened invariant holds throughout.
LEMMA Invariance == Spec => []IInv
BY InitInv, StepInv, PTL DEF Spec

\* Until cleanup stops the jobs, runningJobs and the queue agree and no two jobs
\* share a full name, whatever order addConfig, removeConfig and retries of
\* configs with the same full name come in (manager.go, run.go).
THEOREM QueueMatchesRunningCorrect == Spec => []QueueMatchesRunning
<1>1. IInv => QueueMatchesRunning
  BY Zenon DEF IInv, JobsInv
<1> QED BY <1>1, Invariance, PTL

\* A lock file is held only for a running job, and none when cleanup stops the
\* jobs: removeConfig and cleanup unlock what addConfig locked.
THEOREM NoLockLeakedCorrect == Spec => []NoLockLeaked
<1>1. IInv => NoLockLeaked
  BY Zenon DEF IInv, JobsInv
<1> QED BY <1>1, Invariance, PTL

\* A config with the status "retrying" has one live retry goroutine, and every
\* live one belongs to such a config, slow cancelled goroutines included
\* (retryingJobs in addConfig and removeConfig, runRetryTask).
THEOREM RetryTrackedCorrect == Spec => []RetryTracked
<1>1. IInv => RetryTracked
  BY Zenon DEF IInv, RetryInv
<1> QED BY <1>1, Invariance, PTL

\* The tries of a recovering job are neither lost nor multiplied between the job
\* and its retry tasks (addConfig, AutoDetection and RetryAutoDetection).
THEOREM TriesConservedCorrect == Spec => []TriesConserved
<1>1. IInv => TriesConserved
  BY Zenon DEF IInv, TriesInv
<1> QED BY <1>1, Invariance, PTL

-----------------------------------------------------------------------------
(* The configs that have a status *)

\* Without slow goroutines, no retry goroutine outlives its entry in
\* retryingJobs, not even when the context is done.
OwnedTasks(ts) == \A t \in DOMAIN ts : /\ ~ts[t].cancelled /\ ts[t].cfg \in DOMAIN retrying
                                       /\ retrying[ts[t].cfg].task = t

\* What the groups handler has still to send, and the config that removeConfig
\* is stopping, against what the cache provides.
Sent == /\ batch \subseteq Group /\ Counted(cache)
        /\ toAdd \subseteq Hash /\ toRemove \subseteq Hash
        /\ configsPc # "stopping" => stopping = {}
        /\ \A h, k \in stopping : h = k
        /\ \A h \in toAdd : status[h] = "none" \/ h \in stopping
        /\ ~ctxDone => /\ toAdd \subseteq Provided(cache)
                       /\ toRemove \cap Provided(cache) = {}
                       /\ stopping \cap toRemove = {}
                       /\ stopping \cap (Provided(cache) \ toAdd) = {}

TrackInv == OwnedTasks(tasks) /\ Sent /\ TrackedExactly

\* Nothing is provided and nothing has a status at first.
LEMMA TrackInit == Init => TrackInv
<1> SUFFICES ASSUME Init PROVE TrackInv
  OBVIOUS
<1>1. OwnedTasks(tasks)
  BY Zenon DEF Init, OwnedTasks, Empty
<1>2. Sent
  BY NewCacheCounts, Zenon DEF Init, Sent
<1>3. TrackedExactly
  BY NewCacheCounts, Zenon DEF Init, TrackedExactly
<1> QED BY <1>1, <1>2, <1>3, Zenon DEF TrackInv

\* Cancelling the task of a config leaves the tasks of the others.
LEMMA CancelOwned ==
  ASSUME ~StaleRetry, NEW ts, NEW h, OwnedTasks(ts)
  PROVE  /\ OwnedTasks(CancelRetry(ts, h))
         /\ \A t \in DOMAIN CancelRetry(ts, h) : CancelRetry(ts, h)[t].cfg # h
<1>1. CASE h \in DOMAIN retrying
  BY <1>1, Zenon DEF CancelRetry, CancelTask, Delete, OwnedTasks
<1>2. CASE h \notin DOMAIN retrying
  BY <1>2, Zenon DEF CancelRetry, OwnedTasks
<1> QED BY <1>1, <1>2, Zenon

\* A config that ends, and the others keep their tasks.
LEMMA EndsOwned ==
  ASSUME NEW h, NEW ts, NEW st, OwnedTasks(ts), \A t \in DOMAIN ts : ts[t].cfg # h, Ends(h, st, ts)
  PROVE  OwnedTasks(tasks)'
BY Zenon DEF Ends, Delete, OwnedTasks

\* addConfig gives the config a status, whatever happens, and leaves no task
\* without its entry.
LEMMA AddConfigTracked ==
  ASSUME ~StaleRetry, RetryInv, NEW h \in Hash, NEW ts, OwnedTasks(ts), AddConfig(h, ts)
  PROVE  /\ OwnedTasks(tasks)'
         /\ \E st \in Status \ {"none"} : status' = [status EXCEPT ![h] = st]
<1> DEFINE c == CancelRetry(ts, h)
<1>1. OwnedTasks(c) /\ \A t \in DOMAIN c : c[t].cfg # h
  BY CancelOwned, Zenon
<1>2. \/ \E st \in Status \ {"none"} : Ends(h, st, c)
      \/ /\ status' = [status EXCEPT ![h] = "retrying"]
         /\ \E t \in Task \ DOMAIN c : \E n :
              /\ tasks' = Put(c, t, [cfg |-> h, fired |-> FALSE, cancelled |-> FALSE])
              /\ retrying' = Put(retrying, h, [task |-> t, tries |-> n])
  BY Zenon DEF AddConfig, SkipDuplicate, CreateFails, DetectionFails, CheckFails, DetectionSucceeds,
         Starts, Status
<1> HIDE DEF c
<1>3. ASSUME NEW st \in Status \ {"none"}, Ends(h, st, c)
      PROVE  OwnedTasks(tasks)' /\ status' = [status EXCEPT ![h] = st]
  BY <1>1, <1>3, EndsOwned, Zenon DEF Ends
<1>4. ASSUME NEW t \in Task \ DOMAIN c, NEW n,
             tasks' = Put(c, t, [cfg |-> h, fired |-> FALSE, cancelled |-> FALSE]),
             retrying' = Put(retrying, h, [task |-> t, tries |-> n])
      PROVE  OwnedTasks(tasks)'
  <2>1. /\ DOMAIN tasks' = DOMAIN c \cup {t} /\ tasks'[t].cfg = h /\ ~tasks'[t].cancelled
        /\ \A u \in DOMAIN c : tasks'[u] = c[u]
    BY <1>4, Zenon DEF Put
  <2>2. /\ DOMAIN retrying' = DOMAIN retrying \cup {h} /\ retrying'[h].task = t
        /\ \A k \in DOMAIN retrying : k # h => retrying'[k] = retrying[k]
    BY <1>4, Zenon DEF Put
  <2> QED BY <1>1, <2>1, <2>2 DEF OwnedTasks
<1> QED BY <1>2, <1>3, <1>4, Zenon DEF Status

\* The steps that concern neither the groups handler nor the statuses.
LEMMA RestsTracked ==
  ASSUME TrackInv, UNCHANGED <<cache, toAdd, toRemove, stopping, status>>, OwnedTasks(tasks)',
         batch' \subseteq Group, configsPc' = configsPc \/ (configsPc = "idle" /\ configsPc' = "done"),
         ctxDone' = ctxDone \/ ctxDone' = TRUE
  PROVE  TrackInv'
<1>1. Sent'
  BY Zenon DEF TrackInv, Sent
<1>2. TrackedExactly'
  BY Zenon DEF TrackInv, TrackedExactly
<1> QED BY <1>1, <1>2, Zenon DEF TrackInv

\* A group is handled: what the cache adds and removes is still to be sent.
LEMMA HandleGroupTracked ==
  ASSUME TrackInv, RetryTypes, JobTypes, NEW g \in batch, HandleGroup(g)
  PROVE  TrackInv'
<1> DEFINE P == Provided(cache)
           Q == Provided(cache')
<1>1. /\ g \in Group /\ Counted(cache) /\ ~ctxDone /\ toRemove = {} /\ toAdd = {}
      /\ cache' = CacheAdd(cache, g).cache
      /\ UNCHANGED <<ctxDone, stopping, configsPc, configVars>> /\ batch' \subseteq batch
  BY Zenon DEF TrackInv, Sent, HandleGroup
<1>2. toAdd' = Q \ P /\ toRemove' = P \ Q /\ Counted(cache')
  BY <1>1, AddReportsDifference, AddKeepsCounts DEF HandleGroup
<1>3. P \subseteq Hash /\ Q \subseteq Hash
  BY <1>1, <1>2 DEF Counted, Cache, Provided
<1>4. {h \in Hash : status[h] # "none"} = P \cup stopping
  BY <1>1, Zenon DEF TrackInv, TrackedExactly
<1>5. stopping \cap P = {} /\ stopping \subseteq Hash
  BY <1>1, Zenon DEF TrackInv, Sent, JobTypes
<1> HIDE DEF P, Q
<1>6. Sent'
  BY <1>1, <1>2, <1>3, <1>4, <1>5, Zenon DEF TrackInv, Sent, Q, configVars
<1>7. TrackedExactly'
  BY <1>1, <1>2, <1>4, Zenon DEF TrackedExactly, Q, configVars
<1>8. OwnedTasks(tasks)'
  BY <1>1, Zenon DEF TrackInv, OwnedTasks, configVars
<1> QED BY <1>6, <1>7, <1>8, Zenon DEF TrackInv

\* A config reaches addConfig, from the groups handler.
LEMMA SendAddTracked ==
  ASSUME ~StaleRetry, TrackInv, RetryInv, NEW h \in Hash, SendAdd(h)
  PROVE  TrackInv'
<1>1. /\ configsPc = "idle" /\ stopping = {} /\ toRemove = {} /\ h \in toAdd /\ toAdd' = toAdd \ {h}
      /\ UNCHANGED <<ctxDone, batch, cache, toRemove, stopping, configsPc>>
  BY Zenon DEF SendAdd, TrackInv, Sent
<1>2. OwnedTasks(tasks)' /\ \E st \in Status \ {"none"} : status' = [status EXCEPT ![h] = st]
  BY AddConfigTracked, Zenon DEF SendAdd, TrackInv
<1>3. status'[h] # "none" /\ \A k \in Hash : k # h => status'[k] = status[k]
  BY <1>2, Zenon DEF RetryInv, RetryTypes
<1>4. Sent'
  BY <1>1, <1>3, Zenon DEF TrackInv, Sent
<1>5. TrackedExactly'
  BY <1>1, <1>3 DEF TrackInv, Sent, TrackedExactly
<1> QED BY <1>2, <1>4, <1>5, Zenon DEF TrackInv

\* A config reaches addConfig, from its retry task: it has a status already.
LEMMA RetryAddTracked ==
  ASSUME ~StaleRetry, TrackInv, RetryInv, NEW t, RetryAdd(t)
  PROVE  TrackInv'
<1> DEFINE h == tasks[t].cfg
<1>1. /\ configsPc = "idle" /\ stopping = {} /\ t \in DOMAIN tasks
      /\ UNCHANGED <<ctxDone, batch, cache, toAdd, toRemove, stopping, configsPc>>
  BY Zenon DEF RetryAdd, TrackInv, Sent, groupVars
<1>2. h \in Hash /\ status[h] = "retrying"
  BY <1>1, Zenon DEF TrackInv, OwnedTasks, RetryInv, RetryTypes, RetryTracked
<1>3. OwnedTasks(Delete(tasks, t))
  BY Zenon DEF TrackInv, OwnedTasks, Delete
<1> HIDE DEF h
<1>4. OwnedTasks(tasks)' /\ \E st \in Status \ {"none"} : status' = [status EXCEPT ![h] = st]
  BY <1>2, <1>3, AddConfigTracked, Zenon DEF RetryAdd, h
<1>5. status'[h] # "none" /\ \A k \in Hash : k # h => status'[k] = status[k]
  BY <1>2, <1>4, Zenon DEF RetryInv, RetryTypes
<1>6. Sent'
  BY <1>1, <1>2, <1>5, Zenon DEF TrackInv, Sent
<1>7. TrackedExactly'
  BY <1>1, <1>2, <1>5, Zenon DEF TrackInv, Sent, TrackedExactly
<1> QED BY <1>4, <1>6, <1>7, Zenon DEF TrackInv

\* removeConfig forgets a config ...
LEMMA ForgetTracked ==
  ASSUME ~StaleRetry, TrackInv, RetryInv, NEW h \in Hash, Forget(h)
  PROVE  /\ OwnedTasks(tasks)'
         /\ status'[h] = "none" /\ \A k \in Hash : k # h => status'[k] = status[k]
<1>1. OwnedTasks(tasks)'
  BY CancelOwned, EndsOwned, Zenon DEF TrackInv, Forget
<1> QED BY <1>1, Zenon DEF Forget, Ends, RetryInv, RetryTypes

\* ... at once, or first stops the job that has its full name ...
LEMMA SendRemoveTracked ==
  ASSUME ~StaleRetry, TrackInv, RetryInv, NEW h \in Hash, SendRemove(h)
  PROVE  TrackInv'
<1>1. /\ configsPc = "idle" /\ stopping = {} /\ h \in toRemove /\ toRemove' = toRemove \ {h}
      /\ UNCHANGED <<ctxDone, batch, cache, toAdd>>
  BY Zenon DEF SendRemove, TrackInv, Sent
<1>2. CASE configsPc' = "stopping" /\ stopping' = {h} /\ UNCHANGED configVars
  BY <1>1, <1>2 DEF TrackInv, OwnedTasks, configVars, Sent, TrackedExactly
<1>3. CASE Forget(h) /\ UNCHANGED <<configsPc, stopping>>
  BY <1>1, <1>3, ForgetTracked DEF TrackInv, Sent, TrackedExactly
<1> QED BY <1>2, <1>3, Zenon DEF SendRemove

\* ... during which the groups handler may have found the config provided again.
LEMMA RemoveStoppedTracked ==
  ASSUME ~StaleRetry, TrackInv, RetryInv, NEW h \in Hash, RemoveStopped(h)
  PROVE  TrackInv'
<1>1. /\ h \in stopping /\ stopping' = {} /\ Forget(h)
      /\ UNCHANGED <<ctxDone, batch, cache, toAdd, toRemove>>
  BY Zenon DEF RemoveStopped, groupVars
<1>2. /\ OwnedTasks(tasks)'
      /\ status'[h] = "none" /\ \A k \in Hash : k # h => status'[k] = status[k]
  BY <1>1, ForgetTracked, Zenon
<1>3. stopping = {h}
  BY <1>1, Zenon DEF TrackInv, Sent
<1>4. Sent'
  BY <1>1, <1>2, <1>3, Zenon DEF TrackInv, Sent
<1>5. TrackedExactly'
  BY <1>1, <1>2, <1>3, Zenon DEF TrackInv, Sent, TrackedExactly
<1> QED BY <1>2, <1>4, <1>5, Zenon DEF TrackInv

\* With the context done a config may be dropped instead of being sent.
LEMMA SkipConfigTracked ==
  ASSUME TrackInv, NEW h \in Hash, SkipConfig(h)
  PROVE  TrackInv'
<1>1. /\ ctxDone /\ toAdd' \subseteq toAdd /\ toRemove' \subseteq toRemove
      /\ UNCHANGED <<ctxDone, batch, cache, stopping, configsPc, configVars>>
  BY Zenon DEF SkipConfig
<1>2. OwnedTasks(tasks)'
  BY <1>1, Zenon DEF TrackInv, OwnedTasks, configVars
<1>3. Sent'
  BY <1>1, Zenon DEF TrackInv, Sent, configVars
<1>4. TrackedExactly'
  BY <1>1, Zenon DEF TrackedExactly
<1> QED BY <1>2, <1>3, <1>4, Zenon DEF TrackInv

\* No step breaks it, unless a retry goroutine is slow.
LEMMA TrackStep == ~StaleRetry /\ IInv /\ TrackInv /\ [Next]_vars => TrackInv'
<1> SUFFICES ASSUME ~StaleRetry, IInv, TrackInv, [Next]_vars PROVE TrackInv'
  OBVIOUS
<1>0. RetryInv /\ RetryTypes /\ JobTypes /\ batch \subseteq Group
  BY Zenon DEF IInv, RetryInv, JobsInv, TrackInv, Sent
<1>1. ASSUME UNCHANGED configVars PROVE OwnedTasks(tasks)'
  BY <1>1, Zenon DEF TrackInv, OwnedTasks, configVars
<1>2. CASE UNCHANGED vars
  BY <1>0, <1>1, <1>2, RestsTracked, Zenon DEF vars, groupVars, configVars
<1>3. ASSUME NEW B \in Batch, ReceiveGroups(B) PROVE TrackInv'
  BY <1>1, <1>3, RestsTracked, Zenon DEF ReceiveGroups, Batch, configVars
<1>4. ASSUME NEW g \in batch, HandleGroup(g) PROVE TrackInv'
  BY <1>0, <1>4, HandleGroupTracked, Zenon
<1>5. CASE GroupsHandled \/ GroupsReturn \/ ConfigsReturn \/ TickerReturn \/ Cancel
  BY <1>0, <1>1, <1>5, RestsTracked, Zenon
     DEF GroupsHandled, GroupsReturn, ConfigsReturn, TickerReturn, Cancel, groupVars, configVars
<1>6. ASSUME NEW h \in Hash, SkipConfig(h) \/ SendAdd(h) \/ SendRemove(h) \/ RemoveStopped(h)
      PROVE  TrackInv'
  BY <1>0, <1>6, SkipConfigTracked, SendAddTracked, SendRemoveTracked, RemoveStoppedTracked, Zenon
<1>7. ASSUME NEW t \in Task, RetryAdd(t) PROVE TrackInv'
  BY <1>0, <1>7, RetryAddTracked, Zenon
<1>8. ASSUME NEW t \in Task, Fire(t) \/ TaskExit(t) PROVE TrackInv'
  <2>1. OwnedTasks(tasks)'
    <3>1. CASE TaskExit(t)
      BY <3>1, Zenon DEF TaskExit, Delete, TrackInv, OwnedTasks
    <3>2. CASE Fire(t)
      BY <1>0, <3>2 DEF Fire, RetryTypes, TaskTypes, TrackInv, TaskRecord, OwnedTasks
    <3> QED BY <1>8, <3>1, <3>2, Zenon
  <2> QED BY <1>0, <1>8, <2>1, RestsTracked, Zenon DEF Fire, TaskExit, groupVars
<1>9. CASE \/ Notify \/ CleanupUnlock \/ CleanupDone \/ Terminated
           \/ \E j \in queue : JobIdle(j) \/ CleanupStop(j)
           \/ \E n \in Contended : OtherLock(n) \/ OtherUnlock(n)
  <2>1. UNCHANGED <<ctxDone, groupVars, stopping, configsPc, retrying, tasks, status>>
    BY <1>9, Zenon DEF Notify, CleanupUnlock, CleanupDone, Terminated, JobIdle, CleanupStop,
       OtherLock,
                OtherUnlock, configVars, vars
  <2>2. OwnedTasks(tasks)'
    BY <2>1, Zenon DEF TrackInv, OwnedTasks
  <2> QED BY <1>0, <2>1, <2>2, RestsTracked, Zenon DEF groupVars
<1> QED BY <1>2, <1>3, <1>4, <1>5, <1>6, <1>7, <1>8, <1>9, Zenon DEF Next

\* Without slow retry goroutines, the configs that have a status are exactly those
\* that discovery provides, up to what is still to be sent, for any sources,
\* configs, full names, batches and interleavings of groups, retries and stops:
\* addConfig and removeConfig lose no config, and none comes back after it was
\* removed (runConfigGroupsHandling, runConfigsHandling, runRetryTask).
THEOREM TrackedExactlyCorrect == ~StaleRetry /\ Spec => []TrackedExactly
<1> SUFFICES ASSUME ~StaleRetry PROVE Spec => []TrackedExactly
  OBVIOUS
<1>1. IInv /\ TrackInv /\ [Next]_vars => TrackInv'
  BY TrackStep, Zenon
<1>2. TrackInv => TrackedExactly
  BY Zenon DEF TrackInv
<1> QED BY <1>1, <1>2, TrackInit, Invariance, PTL DEF Spec

-----------------------------------------------------------------------------
(* The configs that are running *)

\* No two configs share a full name.
OwnName == \A h, k \in Hash : FullName[h] = FullName[k] => h = k

\* addConfig of a config that does not run.
LEMMA AddConfigRunning ==
  ASSUME RunningExactly, RetryTypes, NEW h \in Hash, NEW ts, AddConfig(h, ts), status[h] # "running",
         managerPc' = managerPc
  PROVE  RunningExactly'
<1>1. \/ UNCHANGED queue /\ \E st \in Status \ {"running"} : status' = [status EXCEPT ![h] = st]
      \/ /\ queue' = queue \cup {[cfg |-> h, busy |-> TRUE]}
         /\ status' = [status EXCEPT ![h] = "running"]
  BY Zenon DEF AddConfig, SkipDuplicate, CreateFails, DetectionFails, CheckFails, DetectionSucceeds,
         Starts, Ends, Status
<1>2. CASE UNCHANGED queue /\ \E st \in Status \ {"running"} : status' = [status EXCEPT ![h] = st]
  BY <1>2, Zenon DEF RetryTypes, RunningExactly
<1>3. CASE /\ queue' = queue \cup {[cfg |-> h, busy |-> TRUE]}
           /\ status' = [status EXCEPT ![h] = "running"]
  <2>1. status'[h] = "running" /\ \A k \in Hash : k # h => status'[k] = status[k]
    BY <1>3, Zenon DEF RetryTypes
  <2> DEFINE new == [cfg |-> h, busy |-> TRUE]
  <2>2. new.cfg = h /\ queue' = queue \cup {new}
    BY <1>3, Zenon
  <2> HIDE DEF new
  <2> QED BY <2>1, <2>2 DEF RunningExactly
<1> QED BY <1>1, <1>2, <1>3, Zenon

\* Jobs that go in and out of their select keep their config.
LEMMA BusyRunning ==
  ASSUME RunningExactly, JobTypes, NEW S \in SUBSET queue, NEW b \in BOOLEAN,
         queue' = (queue \ S) \cup {[j EXCEPT !.busy = b] : j \in S}, UNCHANGED <<status, managerPc>>
  PROVE  RunningExactly'
<1> DEFINE f(j) == [j EXCEPT !.busy = b]
<1>1. \A j \in queue : f(j).cfg = j.cfg
  BY Zenon DEF JobTypes
<1>2. queue' = (queue \ S) \cup {f(j) : j \in S}
  OBVIOUS
<1> HIDE DEF f
<1>3. \A h : (\E j \in queue' : j.cfg = h) <=> \E j \in queue : j.cfg = h
  <2> TAKE h
  <2>1. ASSUME NEW j \in queue, j.cfg = h PROVE \E i \in queue' : i.cfg = h
    BY <1>1, <1>2, <2>1, Zenon
  <2>2. ASSUME NEW i \in queue', i.cfg = h PROVE \E j \in queue : j.cfg = h
    BY <1>1, <1>2, <2>2, Zenon
  <2> QED BY <2>1, <2>2, Zenon
<1>4. {j.cfg : j \in queue'} = {j.cfg : j \in queue}
  BY <1>3, Zenon
<1> QED BY <1>4, Zenon DEF RunningExactly

\* No step of the plugin breaks it.
LEMMA RunningStep ==
  ~StaleRetry /\ OwnName /\ IInv /\ TrackInv /\ RunningExactly /\ [Next]_vars => RunningExactly'
<1> SUFFICES ASSUME ~StaleRetry, OwnName, IInv, TrackInv, RunningExactly, [Next]_vars
             PROVE  RunningExactly'
  OBVIOUS
<1>0. /\ RetryTypes /\ RetryTracked /\ JobTypes /\ Staged /\ QueueMatchesRunning
      /\ OwnedTasks(tasks) /\ Sent
  BY Zenon DEF IInv, RetryInv, JobsInv, TrackInv
<1>1. ASSUME NEW h \in Hash, SendAdd(h) PROVE RunningExactly'
  BY <1>0, <1>1, AddConfigRunning, Zenon DEF SendAdd, Sent
<1>2. ASSUME NEW t \in Task, RetryAdd(t) PROVE RunningExactly'
  BY <1>0, <1>2, AddConfigRunning, Zenon DEF RetryAdd, OwnedTasks, RetryTypes, RetryTracked
<1>3. ASSUME NEW h \in Hash, SendRemove(h) PROVE RunningExactly'
  BY <1>0, <1>3 DEF SendRemove, configVars, RunningExactly, Staged, QueueMatchesRunning, Forget,
     Ends, RetryTypes, RunningKey
<1>4. ASSUME NEW h \in Hash, RemoveStopped(h) PROVE RunningExactly'
  <2>1. managerPc = "running" /\ managerPc' = managerPc
    BY <1>0, <1>4, Zenon DEF RemoveStopped, Staged
  <2>2. \A j : j \in queue' <=> j \in queue /\ j.cfg # h
    <3>1. \A j \in queue : j.cfg \in Hash /\ (FullName[j.cfg] = FullName[h] => j.cfg = h)
      BY <1>0, Zenon DEF JobTypes, OwnName
    <3>2. \A j1, j2 \in queue : FullName[j1.cfg] = FullName[j2.cfg] => j1 = j2
      BY <1>0, <2>1, Zenon DEF QueueMatchesRunning
    <3>3. CASE Jobs(FullName[h]) = {}
      BY <1>4, <3>3, Zenon DEF RemoveStopped, StopJob, Jobs
    <3>4. CASE Jobs(FullName[h]) # {}
      <4> PICK i \in Jobs(FullName[h]) : queue' = queue \ {i}
        BY <1>4, <3>4, Zenon DEF RemoveStopped, StopJob
      <4>1. i \in queue /\ FullName[i.cfg] = FullName[h]
        BY Zenon DEF Jobs
      <4> QED BY <3>1, <3>2, <4>1, Zenon
    <3> QED BY <3>3, <3>4, Zenon
  <2>3. status'[h] = "none" /\ \A k \in Hash : k # h => status'[k] = status[k]
    BY <1>0, <1>4, Zenon DEF RemoveStopped, Forget, Ends, RetryTypes
  <2> QED BY <2>1, <2>2, <2>3 DEF RunningExactly
<1>5. CASE Notify
  BY <1>0, <1>5, BusyRunning, Zenon DEF Notify
<1>6. ASSUME NEW j \in queue, JobIdle(j) PROVE RunningExactly'
  <2>1. {j} \in SUBSET queue /\ {[i EXCEPT !.busy = FALSE] : i \in {j}} = {[j EXCEPT !.busy = FALSE]}
    OBVIOUS
  <2> QED BY <1>0, <1>6, <2>1, BusyRunning, Zenon DEF JobIdle
<1>7. CASE CleanupUnlock \/ CleanupDone \/ \E j \in queue : CleanupStop(j)
  BY <1>7, Zenon DEF CleanupUnlock, CleanupDone, CleanupStop, RunningExactly
<1>8. ASSUME UNCHANGED <<queue, status, managerPc>> PROVE RunningExactly'
  BY <1>8, Zenon DEF RunningExactly
<1>9. CASE \/ \E B \in Batch : ReceiveGroups(B)
           \/ \E g \in batch : HandleGroup(g)
           \/ GroupsHandled \/ GroupsReturn \/ \E h \in Hash : SkipConfig(h)
           \/ \E t \in Task : Fire(t) \/ TaskExit(t)
           \/ ConfigsReturn \/ TickerReturn \/ Cancel \/ Terminated \/ UNCHANGED vars
           \/ \E n \in Contended : OtherLock(n) \/ OtherUnlock(n)
  BY <1>8, <1>9, Zenon DEF ReceiveGroups, HandleGroup, GroupsHandled, GroupsReturn, SkipConfig,
     Fire,
     TaskExit, ConfigsReturn, TickerReturn, Cancel, Terminated, OtherLock, OtherUnlock,
     configVars, vars
<1> QED BY <1>1, <1>2, <1>3, <1>4, <1>5, <1>6, <1>7, <1>9, Zenon DEF Next

\* When, besides, no two configs share a full name, the saved status says
\* "running" of exactly the configs whose job is on the queue, until cleanup
\* (addConfig, removeConfig, stopJob and StatusSaver).
THEOREM RunningExactlyCorrect == ~StaleRetry /\ OwnName /\ Spec => []RunningExactly
<1> SUFFICES ASSUME ~StaleRetry, OwnName PROVE Spec => []RunningExactly
  OBVIOUS
<1>1. IInv /\ TrackInv /\ [Next]_vars => TrackInv'
  BY TrackStep, Zenon
<1>2. IInv /\ TrackInv /\ RunningExactly /\ [Next]_vars => RunningExactly'
  BY RunningStep, Zenon
<1>3. Init => RunningExactly
  BY Zenon DEF Init, RunningExactly
<1> QED BY <1>1, <1>2, <1>3, TrackInit, Invariance, PTL DEF Spec
=============================================================================
