------------------------------ MODULE FileLock ------------------------------
(***************************************************************************)
(* The lock files (agent/filelock) that keep several go.d plugin processes *)
(* from collecting the same job, together with the way the job manager     *)
(* uses them (jobmgr addConfig, removeConfig, cleanup).  A process may be  *)
(* killed at any moment: the kernel then drops its locks.                  *)
(*                                                                         *)
(* Each process keeps a map of the locks it holds (Locker.locks); the lock *)
(* itself is a kernel flock on an open file, external to this code.        *)
(***************************************************************************)
EXTENDS Naturals

CONSTANTS Plugin,  \* plugin processes
          Name     \* full names of jobs

VARIABLES phase,   \* per plugin: up, closing (in cleanup) or down
          locks,   \* per plugin: the keys of Locker.locks
          flocks,  \* per name: the processes to whose open file the kernel granted the lock
          job      \* per plugin and name: what became of the job

vars == <<phase, locks, flocks, job>>

\* "unlocked": started although the lock file could not be used; "stopping":
\* Stop has returned and Unlock is next.
JobState == {"none", "running", "unlocked", "stopping", "duplicate", "error"}
Collecting(p, n) == job[p][n] \in {"running", "unlocked"}

Init == /\ phase = [p \in Plugin |-> "up"]
        /\ locks = [p \in Plugin |-> {}]
        /\ flocks = [n \in Name |-> {}]
        /\ job = [p \in Plugin |-> [n \in Name |-> "none"]]

-----------------------------------------------------------------------------
\* flock.TryLock: granted unless an open file, of any process, has the lock.
AlwaysGranted(n) == TRUE
Free(n) == flocks[n] = {}

Becomes(p, n, s) == job' = [job EXCEPT ![p][n] = s]

\* addConfig, after a successful detection, when Lock says yes ...
Lock(p, n) ==
  /\ phase[p] = "up" /\ job[p][n] \in {"none", "duplicate", "error"}
  /\ n \in locks[p] \/ Free(n)
  /\ locks' = [locks EXCEPT ![p] = @ \cup {n}]
  /\ flocks' = [flocks EXCEPT ![n] = @ \cup {p}]
  /\ Becomes(p, n, "running")
  /\ UNCHANGED phase

\* ... says no, and the file is closed again ...
Denied(p, n) ==
  /\ phase[p] = "up" /\ job[p][n] \in {"none", "duplicate", "error"}
  /\ n \notin locks[p] /\ ~Free(n)
  /\ Becomes(p, n, "duplicate")
  /\ UNCHANGED <<phase, locks, flocks>>

\* ... or fails: with "too many open files" the job is not started, with any
\* other error it is.
Fails(p, n) ==
  /\ phase[p] = "up" /\ job[p][n] \in {"none", "duplicate", "error"}
  /\ n \notin locks[p]
  /\ \E s \in {"error", "unlocked"} : Becomes(p, n, s)
  /\ UNCHANGED <<phase, locks, flocks>>

\* removeConfig: the job is stopped ...
Stop(p, n) ==
  /\ phase[p] = "up" /\ Collecting(p, n)
  /\ Becomes(p, n, "stopping")
  /\ UNCHANGED <<phase, locks, flocks>>

\* ... then unlocked; Unlock does nothing for a lock that is not in the map.
ForgetOnly(p, n) ==
  /\ phase[p] = "up" /\ job[p][n] = "stopping"
  /\ locks' = [locks EXCEPT ![p] = @ \ {n}]
  /\ Becomes(p, n, "none")
  /\ UNCHANGED <<phase, flocks>>
Unlock(p, n) ==
  /\ phase[p] = "up" /\ job[p][n] = "stopping"
  /\ locks' = [locks EXCEPT ![p] = @ \ {n}]
  /\ flocks' = IF n \in locks[p] THEN [flocks EXCEPT ![n] = @ \ {p}] ELSE flocks
  /\ Becomes(p, n, "none")
  /\ UNCHANGED phase

\* A config that has no job is removed: only its status is dropped.
Forget(p, n) ==
  /\ phase[p] = "up" /\ job[p][n] \in {"duplicate", "error"}
  /\ Becomes(p, n, "none")
  /\ UNCHANGED <<phase, locks, flocks>>

-----------------------------------------------------------------------------
\* cleanup unlocks every running job ...
CleanupUnlock(p) ==
  /\ phase[p] = "up" /\ \A n \in Name : job[p][n] # "stopping"
  /\ phase' = [phase EXCEPT ![p] = "closing"]
  /\ flocks' = [n \in Name |-> IF n \in locks[p] /\ Collecting(p, n) THEN flocks[n] \ {p} ELSE flocks[n]]
  /\ locks' = [locks EXCEPT ![p] = {n \in @ : ~Collecting(p, n)}]
  /\ UNCHANGED job

\* ... and only then stops them, one by one.
CleanupStop(p, n) ==
  /\ phase[p] = "closing" /\ Collecting(p, n)
  /\ Becomes(p, n, "none")
  /\ UNCHANGED <<phase, locks, flocks>>

\* The process ends, by itself or killed; a new one may start.
Exit(p) ==
  /\ phase[p] # "down"
  /\ phase' = [phase EXCEPT ![p] = "down"]
  /\ locks' = [locks EXCEPT ![p] = {}]
  /\ flocks' = [n \in Name |-> flocks[n] \ {p}]
  /\ job' = [job EXCEPT ![p] = [n \in Name |-> "none"]]

StartUp(p) ==
  /\ phase[p] = "down"
  /\ phase' = [phase EXCEPT ![p] = "up"]
  /\ UNCHANGED <<locks, flocks, job>>

\* SIGHUP: agent.run returned after cleanup, and runs again with a new Locker;
\* an open file the old one still had would stay locked.
Reload(p) ==
  /\ phase[p] = "closing" /\ \A n \in Name : ~Collecting(p, n)
  /\ phase' = [phase EXCEPT ![p] = "up"]
  /\ locks' = [locks EXCEPT ![p] = {}]
  /\ job' = [job EXCEPT ![p] = [n \in Name |-> "none"]]
  /\ UNCHANGED flocks

Next == \E p \in Plugin :
          \/ \E n \in Name : \/ Lock(p, n) \/ Denied(p, n) \/ Fails(p, n)
                             \/ Stop(p, n) \/ Unlock(p, n) \/ Forget(p, n)
                             \/ CleanupStop(p, n)
          \/ CleanupUnlock(p) \/ Exit(p) \/ StartUp(p) \/ Reload(p)

Spec == Init /\ [][Next]_vars

-----------------------------------------------------------------------------
\* The types of the lock maps, the kernel's locks and the jobs.
TypeOK == /\ phase \in [Plugin -> {"up", "closing", "down"}]
          /\ locks \in [Plugin -> SUBSET Name]
          /\ flocks \in [Name -> SUBSET Plugin]
          /\ job \in [Plugin -> [Name -> JobState]]

\* Locker.locks says of each process exactly what the kernel knows: no lock is
\* left behind by Unlock, cleanup, a reload or a kill, and none is imagined.
MapMatchesKernel == \A p \in Plugin, n \in Name : n \in locks[p] <=> p \in flocks[n]

\* A lock belongs to a job that runs or is being stopped, in a process that is
\* not shutting down.  So cleanup, which looks only at the running jobs, leaves
\* none, and a reload may begin with an empty map.
LocksHaveJobs ==
  \A p \in Plugin, n \in Name :
    n \in locks[p] => phase[p] = "up" /\ job[p][n] \in {"running", "stopping"}

\* A job that got its lock keeps it until the job is stopped, while its process
\* is not shutting down.
LockedWhileRunning ==
  \A p \in Plugin, n \in Name :
    phase[p] = "up" /\ job[p][n] = "running" => p \in flocks[n]

\* No two processes collect the same job, unless one could not use the lock
\* file or is shutting down (cleanup unlocks before it stops the jobs).
OneCollector ==
  \A p, q \in Plugin, n \in Name :
    /\ phase[p] = "up" /\ job[p][n] = "running"
    /\ phase[q] = "up" /\ job[q][n] = "running"
    => p = q
=============================================================================
