----------------------------- MODULE FileStatus -----------------------------
(***************************************************************************)
(* The state file (agent/filestatus): the job manager saves job statuses   *)
(* into a store in memory and raises a flag (a channel of capacity one);   *)
(* Manager.Run, on a ticker, takes the flag and rewrites the file, and     *)
(* rewrites it once more when the context is done.  The next instance of   *)
(* the plugin loads the file to know which jobs to recover.                *)
(*                                                                         *)
(* os.Create empties the file before Write fills it, either may fail, and  *)
(* the process may be killed anywhere.  A store is a function from configs *)
(* to statuses, None for a config it does not hold.                        *)
(***************************************************************************)
EXTENDS Naturals

CONSTANTS Cfg,          \* configs
          Value,        \* statuses
          None,         \* no status
          Unreadable,   \* a file that LoadStore cannot decode, or no file
          MaxSaves,     \* bound: changes of a status per instance
          MaxInstances  \* bound: instances of the plugin

VARIABLES life,       \* the instance: up, exited or killed
          instances,  \* instances so far
          ctxDone,    \* the context is cancelled
          store,      \* Manager.store
          loaded,     \* the StatusStore of this instance
          saver,      \* the goroutine of the job manager: idle, trigger or done
          saves,      \* changes so far
          flag,       \* flushCh holds its element
          pc,         \* Manager.Run: wait, flush, open, write or done
          final,      \* this is the flush Run deferred
          snap,       \* the bytes being written
          file,       \* the state file
          dirty,      \* history: the store was changed by this instance
          failed,     \* history: the last flush failed
          late        \* history: configs changed after the context was done

storeVars == <<store, saver, saves, dirty, late>>
fileVars == <<flag, pc, final, snap, file, failed>>
vars == <<life, instances, ctxDone, loaded, storeVars, fileVars>>

Store == [Cfg -> Value \cup {None}]
EmptyStore == [c \in Cfg |-> None]

Init ==
  /\ life = "up" /\ instances = 1 /\ ctxDone = FALSE
  /\ store = EmptyStore /\ loaded = EmptyStore
  /\ saver = "idle" /\ saves = 0
  /\ flag = FALSE /\ pc = "wait" /\ final = FALSE /\ snap = EmptyStore /\ file = Unreadable
  /\ dirty = FALSE /\ failed = FALSE /\ late = {}

-----------------------------------------------------------------------------
(* The job manager *)

\* Save and Remove change the store unless the status is there already ...
Change(c, v) ==
  /\ life = "up" /\ saver = "idle" /\ saves < MaxSaves
  /\ store[c] # v
  /\ store' = [store EXCEPT ![c] = v]
  /\ saver' = "trigger"
  /\ saves' = saves + 1
  /\ dirty' = TRUE
  /\ late' = IF ctxDone THEN late \cup {c} ELSE late
  /\ UNCHANGED <<life, instances, ctxDone, loaded, fileVars>>

\* ... and raise the flag if it is not up.
NoTrigger == flag
Triggered == TRUE

TriggerFlush ==
  /\ life = "up" /\ saver = "trigger"
  /\ flag' = Triggered
  /\ saver' = "idle"
  /\ UNCHANGED <<life, instances, ctxDone, loaded, store, saves, dirty, late, pc, final, snap, file,
                 failed>>

\* The job manager returns.
SaverReturns ==
  /\ life = "up" /\ ctxDone /\ saver = "idle"
  /\ saver' = "done"
  /\ UNCHANGED <<life, instances, ctxDone, loaded, store, saves, dirty, late, fileVars>>

-----------------------------------------------------------------------------
(* Manager.Run *)

\* A tick, with the flag up.
TryFlush ==
  /\ life = "up" /\ pc = "wait" /\ flag
  /\ flag' = FALSE
  /\ pc' = "flush"
  /\ UNCHANGED <<life, instances, ctxDone, loaded, storeVars, final, snap, file, failed>>

\* The context is done: the deferred flush, flag or no flag.
ReturnsUnflushed ==
  /\ life = "up" /\ ctxDone /\ pc = "wait"
  /\ pc' = "done"
  /\ UNCHANGED <<life, instances, ctxDone, loaded, storeVars, flag, final, snap, file, failed>>
FinalFlush ==
  /\ life = "up" /\ ctxDone /\ pc = "wait"
  /\ pc' = "flush" /\ final' = TRUE
  /\ UNCHANGED <<life, instances, ctxDone, loaded, storeVars, flag, snap, file, failed>>

\* flush: marshal the store under its mutex ...
Bytes ==
  /\ life = "up" /\ pc = "flush"
  /\ snap' = store
  /\ pc' = "open"
  /\ UNCHANGED <<life, instances, ctxDone, loaded, storeVars, flag, final, file, failed>>

\* ... create the file, which empties it ...
Create ==
  /\ life = "up" /\ pc = "open"
  /\ file' = Unreadable
  /\ pc' = "write"
  /\ UNCHANGED <<life, instances, ctxDone, loaded, storeVars, flag, final, snap, failed>>

Flushed(ok) == pc' = (IF final THEN "done" ELSE "wait") /\ failed' = ~ok

\* ... and write it.
Write ==
  /\ life = "up" /\ pc = "write"
  /\ file' = snap
  /\ Flushed(TRUE)
  /\ UNCHANGED <<life, instances, ctxDone, loaded, storeVars, flag, final, snap>>

\* An error of os.Create or of Write: flush returns, and nothing tries again.
FlushFails ==
  /\ life = "up" /\ pc \in {"open", "write"}
  /\ Flushed(FALSE)
  /\ UNCHANGED <<life, instances, ctxDone, loaded, storeVars, flag, final, snap, file>>

-----------------------------------------------------------------------------
(* The instance *)

Cancel ==
  /\ life = "up" /\ ~ctxDone
  /\ ctxDone' = TRUE
  /\ UNCHANGED <<life, instances, loaded, storeVars, fileVars>>

Exit ==
  /\ life = "up" /\ saver = "done" /\ pc = "done"
  /\ life' = "exited"
  /\ UNCHANGED <<instances, ctxDone, loaded, storeVars, fileVars>>

Kill ==
  /\ life = "up"
  /\ life' = "killed"
  /\ UNCHANGED <<instances, ctxDone, loaded, storeVars, fileVars>>

NewStore == EmptyStore

\* A new instance (or a reload) loads the file and starts with an empty store.
\* When the file cannot be decoded no job is recovered.
Restart ==
  /\ life # "up" /\ instances < MaxInstances
  /\ life' = "up" /\ instances' = instances + 1 /\ ctxDone' = FALSE
  /\ loaded' = IF file = Unreadable THEN EmptyStore ELSE file
  /\ store' = NewStore /\ saver' = "idle" /\ saves' = 0
  /\ flag' = FALSE /\ pc' = "wait" /\ final' = FALSE /\ snap' = EmptyStore
  /\ dirty' = FALSE /\ failed' = FALSE /\ late' = {}
  /\ UNCHANGED file

Terminated == life # "up" /\ instances = MaxInstances /\ UNCHANGED vars

Flusher == FinalFlush \/ TryFlush \/ Bytes \/ Create \/ Write \/ FlushFails

Next == \/ \E c \in Cfg, v \in Value \cup {None} : Change(c, v)
        \/ TriggerFlush \/ SaverReturns
        \/ Flusher
        \/ Cancel \/ Exit \/ Kill \/ Restart
        \/ Terminated

\* Both goroutines run; nobody has to save, to cancel or to kill.
Fairness == WF_vars(TriggerFlush) /\ WF_vars(Flusher) /\ WF_vars(SaverReturns) /\ WF_vars(Exit)

Spec == Init /\ [][Next]_vars /\ Fairness

-----------------------------------------------------------------------------
\* Types; the store is empty until this instance changes it.
TypeOK ==
  /\ life \in {"up", "exited", "killed"} /\ instances \in 1..MaxInstances
  /\ ctxDone \in BOOLEAN /\ flag \in BOOLEAN /\ final \in BOOLEAN
  /\ store \in Store /\ loaded \in Store /\ snap \in Store /\ file \in Store \cup {Unreadable}
  /\ saver \in {"idle", "trigger", "done"} /\ saves \in 0..MaxSaves
  /\ pc \in {"wait", "flush", "open", "write", "done"}
  /\ dirty \in BOOLEAN /\ failed \in BOOLEAN /\ late \subseteq Cfg
  /\ ~dirty => store = EmptyStore

\* A clean exit leaves in the file every status that was not changed after the
\* context was done: the job manager may still save when Run has returned.
ExitKeepsStatuses ==
  life = "exited" /\ ~failed => /\ file # Unreadable
                                /\ \A c \in Cfg \ late : file[c] = store[c]

\* Every status reaches the file, or is replaced, unless a flush fails or the
\* instance is stopped first.
EventuallyFlushed ==
  \A c \in Cfg, v \in Value :
    (life = "up" /\ store[c] = v) ~> \/ file # Unreadable /\ file[c] = v
                                     \/ store[c] # v \/ failed \/ ctxDone \/ life # "up"
=============================================================================
