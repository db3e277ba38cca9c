---------------------------- MODULE FileWatcher ----------------------------
(***************************************************************************)
(* The file watcher (agent/discovery/file/watch.go) against a directory    *)
(* that changes under it.  On its ticker and on file events the watcher    *)
(* refreshes: it lists the files, reads those whose modification time is   *)
(* not the one in its cache, and sends the groups it read together with an *)
(* empty group for every cached file that is gone.                         *)
(*                                                                         *)
(* A file is rewritten, replaced or deleted between any two steps of a     *)
(* refresh.  Its content is a set of configs (empty for a file without     *)
(* any) or Malformed; writes have distinct modification times, 0 is the    *)
(* time of a file that does not exist or is not a regular file.            *)
(***************************************************************************)
EXTENDS Naturals

CONSTANTS File,       \* paths that match the patterns
          Hash,       \* configs
          Malformed,  \* the content of a file that cannot be parsed
          NoGroup,    \* no group for a file
          MaxWrites,  \* bound: changes of the directory
          MaxFaults   \* bound: failing NewWatcher, Lstat and ReadFile calls

VARIABLES ctxDone,    \* the context is cancelled
          mtime,      \* the directory: modification times ...
          content,    \* ... and contents
          writes,     \* changes so far
          faults,     \* failed calls so far
          pc,         \* Run: refresh, read, send, select or done
          cached,     \* w.cache, 0 for a path it does not hold
          todo,       \* listed files the refresh has still to look at
          seen,       \* the files the refresh has seen
          reading,    \* the file being parsed, with the time Lstat returned
          groups,     \* the groups of the refresh, NoGroup where there is none
          unreadable  \* history: modification time of the version that failed to parse

dirVars == <<mtime, content, writes>>
vars == <<ctxDone, dirVars, faults, pc, cached, todo, seen, reading, groups, unreadable>>

NoGroups == [f \in File |-> NoGroup]

Init == /\ ctxDone = FALSE
        /\ mtime = [f \in File |-> 0] /\ content = [f \in File |-> {}]
        /\ writes = 0 /\ faults = 0
        /\ pc = "refresh"
        /\ cached = [f \in File |-> 0]
        /\ todo = {} /\ seen = {} /\ reading = {} /\ groups = NoGroups
        /\ unreadable = [f \in File |-> 0]
-----------------------------------------------------------------------------
(* The directory *)

Write(f, c) == /\ writes < MaxWrites
               /\ writes' = writes + 1
               /\ mtime' = [mtime EXCEPT ![f] = writes + 1]
               /\ content' = [content EXCEPT ![f] = c]
               /\ UNCHANGED <<ctxDone, faults, pc, cached, todo, seen, reading, groups, unreadable>>

Delete(f) == /\ writes < MaxWrites /\ mtime[f] # 0
             /\ writes' = writes + 1
             /\ mtime' = [mtime EXCEPT ![f] = 0]
             /\ content' = [content EXCEPT ![f] = {}]
             /\ UNCHANGED <<ctxDone, faults, pc, cached, todo, seen, reading, groups, unreadable>>

Directory == \E f \in File : Delete(f) \/ \E c \in (SUBSET Hash) \cup {Malformed} : Write(f, c)
-----------------------------------------------------------------------------
(* refresh *)

\* refresh begins: nothing when the context is done, else the files are listed.
Refresh == /\ pc' = IF ctxDone THEN "select" ELSE "read"
           /\ todo' = IF ctxDone THEN {} ELSE {f \in File : mtime[f] # 0}
           /\ seen' = {}
           /\ UNCHANGED <<ctxDone, dirVars, faults, cached, reading, groups, unreadable>>

FirstRefresh == pc = "refresh" /\ Refresh

\* The file has gone since it was listed, or Lstat fails: as if it did not exist.
Unseen(f) == /\ pc = "read" /\ reading = {} /\ f \in todo
             /\ \/ mtime[f] = 0 /\ UNCHANGED faults
                \/ faults < MaxFaults /\ faults' = faults + 1
             /\ todo' = todo \ {f}
             /\ UNCHANGED <<ctxDone, dirVars, pc, cached, seen, reading, groups, unreadable>>

\* Lstat: a file with the cached modification time is passed over; the time of
\* any other is cached and the file is read.
Lstat(f) == /\ pc = "read" /\ reading = {} /\ f \in todo /\ mtime[f] # 0
            /\ todo' = todo \ {f}
            /\ seen' = seen \cup {f}
            /\ cached' = [cached EXCEPT ![f] = mtime[f]]
            /\ reading' = IF cached[f] = mtime[f] THEN {} ELSE {f}
            /\ UNCHANGED <<ctxDone, dirVars, faults, pc, groups, unreadable>>

\* parse, some time after Lstat.
Parse(f) == /\ pc = "read" /\ f \in reading /\ mtime[f] # 0 /\ content[f] # Malformed
            /\ groups' = [groups EXCEPT ![f] = content[f]]
            /\ reading' = {}
            /\ UNCHANGED <<ctxDone, dirVars, faults, pc, cached, todo, seen, unreadable>>

\* The file cannot be parsed, has gone, or cannot be read at this moment: no
\* group, and its modification time stays in the cache.
ForgetsFile(f) == /\ pc = "read" /\ f \in reading
                  /\ \/ content[f] = Malformed /\ UNCHANGED faults
                     \/ mtime[f] = 0 /\ UNCHANGED faults
                     \/ faults < MaxFaults /\ faults' = faults + 1
                  /\ cached' = [cached EXCEPT ![f] = 0]
                  /\ unreadable' = [unreadable EXCEPT ![f] = cached[f]]
                  /\ reading' = {}
                  /\ UNCHANGED <<ctxDone, dirVars, pc, todo, seen, groups>>
ParseFails(f) == /\ pc = "read" /\ f \in reading
                 /\ \/ content[f] = Malformed /\ UNCHANGED faults
                    \/ mtime[f] = 0 /\ UNCHANGED faults
                    \/ faults < MaxFaults /\ faults' = faults + 1
                 /\ unreadable' = [unreadable EXCEPT ![f] = cached[f]]
                 /\ reading' = {}
                 /\ UNCHANGED <<ctxDone, dirVars, pc, cached, todo, seen, groups>>

\* An empty group for every cached file that was not seen; if there are any
\* groups they are sent.
Gone == {f \in File \ seen : cached[f] # 0}

SendGroups ==
  /\ pc = "read" /\ reading = {} /\ todo = {}
  /\ cached' = [f \in File |-> IF f \in Gone THEN 0 ELSE cached[f]]
  /\ groups' = [f \in File |-> IF f \in Gone THEN {} ELSE groups[f]]
  /\ pc' = IF groups' = NoGroups THEN "select" ELSE "send"
  /\ UNCHANGED <<ctxDone, dirVars, faults, todo, seen, reading, unreadable>>

\* The receiver takes the groups (its side is for the composition to say), or
\* the context is done and they are dropped.
Sent == /\ pc = "send"
        /\ groups' = NoGroups
        /\ pc' = "select"
        /\ UNCHANGED <<ctxDone, dirVars, faults, cached, todo, seen, reading, unreadable>>

DropsWhenBusy == Sent
SendAbandoned == ctxDone /\ Sent
-----------------------------------------------------------------------------
(* Run *)

\* There are no notifications to be had: Run returns before the first refresh.
NewWatcherFails ==
  /\ pc = "refresh" /\ faults < MaxFaults
  /\ faults' = faults + 1
  /\ pc' = "done"
  /\ UNCHANGED <<ctxDone, dirVars, cached, todo, seen, reading, groups, unreadable>>

\* The ticker.
Tick == pc = "select" /\ Refresh

\* fsnotify reports an event for a file; the creation of a cached file is
\* ignored, as are events that only change the mode.
Event(f, created) == /\ pc = "select"
                     /\ ~(created /\ cached[f] # 0)
                     /\ Refresh

Return == /\ pc = "select" /\ ctxDone
          /\ pc' = "done"
          /\ UNCHANGED <<ctxDone, dirVars, faults, cached, todo, seen, reading, groups, unreadable>>

Cancel == /\ ~ctxDone
          /\ ctxDone' = TRUE
          /\ UNCHANGED <<dirVars, faults, pc, cached, todo, seen, reading, groups, unreadable>>

RefreshStep == \/ FirstRefresh \/ SendGroups \/ SendAbandoned
               \/ \E f \in File : Unseen(f) \/ Lstat(f) \/ Parse(f) \/ ParseFails(f)

\* Every step but the hand-over of the groups.
Internal == \/ Directory \/ RefreshStep
            \/ Tick \/ \E f \in File, created \in BOOLEAN : Event(f, created)
            \/ NewWatcherFails \/ Return \/ Cancel
=============================================================================
