-------------------------- MODULE ServiceDiscovery --------------------------
(***************************************************************************)
(* Service discovery (agent/discovery/sd/sd.go): config files come, change *)
(* and go; each valid one has a pipeline, a goroutine that sends groups    *)
(* until its context is cancelled.  A new version replaces the pipeline, a *)
(* file without data removes it; both wait until the old one has returned. *)
(* (NewServiceDiscovery returns nil: the agent does not use this yet.)     *)
(***************************************************************************)
EXTENDS Naturals, Sequences

CONSTANTS ConfFile,  \* sources of config files
          Valid,     \* contents a pipeline can be created from
          Invalid,   \* contents that cannot be decoded, or not be created from
          NoData,    \* the file was deleted
          MaxFiles   \* bound: config files received

ASSUME ServiceDiscoveryAssumption == Valid \cap Invalid = {} /\ NoData \notin Valid \cup Invalid

VARIABLES ctxDone,    \* the context is cancelled
          pc,         \* Run: select, add, remove, cleanup or done
          current,    \* the config file being handled
          files,      \* config files received so far
          confCache,  \* per source, the content handled last, NoData for none
          pipelines,  \* per source, the pipeline whose stop is registered, 0: none
          alive,      \* the pipelines whose goroutine runs
          cancelled,  \* the pipelines whose context is cancelled
          made,       \* per pipeline, source and content: pipelines are numbered
          newest,     \* history: per source, newest pipeline the receiver heard of
          wanted      \* history: per source, newest valid content, NoData after a removal

sdVars == <<confCache, pipelines, made, wanted>>
vars == <<ctxDone, pc, current, files, sdVars, alive, cancelled, newest>>

Init == /\ ctxDone = FALSE /\ pc = "select" /\ files = 0
        /\ current = <<>>
        /\ confCache = [f \in ConfFile |-> NoData]
        /\ pipelines = [f \in ConfFile |-> 0]
        /\ alive = {} /\ cancelled = {} /\ made = <<>>
        /\ newest = [f \in ConfFile |-> 0]
        /\ wanted = [f \in ConfFile |-> NoData]
-----------------------------------------------------------------------------
(* Run *)

\* The stop function of a source cancels its pipeline ...
Stopping(f) == cancelled \cup ({pipelines[f]} \ {0})

\* ... and waits for it.
NoWait(f) == TRUE
HasStopped(f) == pipelines[f] \notin alive

\* A file without data.
KeepsHash(f) == UNCHANGED confCache
ForgetHash(f) == confCache' = [confCache EXCEPT ![f] = NoData]

ReceiveRemoved(f) ==
  /\ pc = "select" /\ files < MaxFiles
  /\ files' = files + 1
  /\ ForgetHash(f)
  /\ wanted' = [wanted EXCEPT ![f] = NoData]
  /\ cancelled' = Stopping(f)
  /\ current' = <<f, NoData>>
  /\ pc' = "remove"
  /\ UNCHANGED <<ctxDone, pipelines, made, alive, newest>>

RemovePipeline ==
  /\ pc = "remove" /\ HasStopped(current[1])
  /\ pipelines' = [pipelines EXCEPT ![current[1]] = 0]
  /\ pc' = "select" /\ current' = <<>>
  /\ UNCHANGED <<ctxDone, files, confCache, made, wanted, alive, cancelled, newest>>

\* A file that is new or has changed.  addPipeline returns early when the
\* content is no good, and the old pipeline, if any, goes on; else the old one
\* is stopped ...
ReceiveInvalid(f) ==
  /\ pc = "select" /\ files < MaxFiles
  /\ \E data \in Invalid : /\ confCache[f] # data
                           /\ confCache' = [confCache EXCEPT ![f] = data]
  /\ files' = files + 1
  /\ UNCHANGED <<ctxDone, pc, current, pipelines, made, wanted, alive, cancelled, newest>>

ReceiveValid(f) ==
  /\ pc = "select" /\ files < MaxFiles
  /\ \E data \in Valid : /\ confCache[f] # data
                         /\ confCache' = [confCache EXCEPT ![f] = data]
                         /\ current' = <<f, data>>
                         /\ wanted' = [wanted EXCEPT ![f] = data]
  /\ files' = files + 1
  /\ cancelled' = Stopping(f)
  /\ pc' = "add"
  /\ UNCHANGED <<ctxDone, pipelines, made, alive, newest>>

\* A content that was handled before is passed over.
ReceiveUnchanged(f) ==
  /\ pc = "select" /\ files < MaxFiles /\ confCache[f] # NoData
  /\ files' = files + 1
  /\ wanted' = [wanted EXCEPT ![f] = IF confCache[f] \in Valid THEN confCache[f] ELSE @]
  /\ UNCHANGED <<ctxDone, pc, current, confCache, pipelines, made, alive, cancelled, newest>>

\* ... and the new one started.
AddPipeline ==
  /\ pc = "add" /\ HasStopped(current[1])
  /\ made' = Append(made, current)
  /\ pipelines' = [pipelines EXCEPT ![current[1]] = Len(made')]
  /\ alive' = alive \cup {Len(made')}
  /\ pc' = "select" /\ current' = <<>>
  /\ UNCHANGED <<ctxDone, files, confCache, wanted, cancelled, newest>>

\* The context is done: cleanup stops the pipelines, which it has cancelled.
Cleanup ==
  /\ pc = "select" /\ ctxDone
  /\ cancelled' = UNION {Stopping(f) : f \in ConfFile}
  /\ pc' = "cleanup"
  /\ UNCHANGED <<ctxDone, current, files, sdVars, alive, newest>>

Return ==
  /\ pc = "cleanup" /\ \A f \in ConfFile : HasStopped(f)
  /\ pc' = "done"
  /\ UNCHANGED <<ctxDone, current, files, sdVars, alive, cancelled, newest>>
-----------------------------------------------------------------------------
(* The pipelines *)

\* A pipeline sends groups, also when it has not noticed yet that it is
\* cancelled.
Sends(p) ==
  /\ p \in alive
  /\ newest' = [newest EXCEPT ![made[p][1]] = p]
  /\ UNCHANGED <<ctxDone, pc, current, files, sdVars, alive, cancelled>>

\* It returns when it is cancelled, or when all its discoverers have.
Returns(p) ==
  /\ p \in alive
  /\ alive' = alive \ {p}
  /\ UNCHANGED <<ctxDone, pc, current, files, sdVars, cancelled, newest>>

\* The pipelines' contexts derive from the context of Run.
Cancel ==
  /\ ~ctxDone
  /\ ctxDone' = TRUE
  /\ cancelled' = DOMAIN made
  /\ UNCHANGED <<pc, current, files, sdVars, alive, newest>>

Terminated == pc = "done" /\ alive = {} /\ UNCHANGED vars

Next == \/ \E f \in ConfFile : ReceiveRemoved(f) \/ ReceiveInvalid(f) \/ ReceiveValid(f)
                             \/ ReceiveUnchanged(f)
        \/ RemovePipeline \/ AddPipeline \/ Cleanup \/ Return
        \/ \E p \in alive : Sends(p) \/ Returns(p)
        \/ Cancel \/ Terminated

Spec == Init /\ [][Next]_vars
-----------------------------------------------------------------------------
\* Whenever Run waits for the next file, the newest valid content of a source
\* (since the file was last removed) has its pipeline and no other pipeline of
\* the source is left running, whatever invalid contents came in between.
PipelineMatchesFile ==
  pc = "select" /\ ~ctxDone => \A f \in ConfFile :
    /\ wanted[f] = IF pipelines[f] = 0 THEN NoData ELSE made[pipelines[f]][2]
    /\ \A p \in alive : made[p][1] = f => p = pipelines[f]

\* The receiver never hears of a replaced pipeline again once it has heard of
\* the one that replaced it: stop waits for the old goroutine to end.
NoStaleGroups == [][\A f \in ConfFile : newest'[f] >= newest[f]]_vars
=============================================================================
