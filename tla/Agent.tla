------------------------------- MODULE Agent -------------------------------
(***************************************************************************)
(* The plugin process (agent/agent.go): serve runs an instance of the      *)
(* agent and waits for a signal; SIGHUP stops the instance and starts the  *)
(* next one, any other signal stops it and exits.  Stopping is waiting     *)
(* until run has returned, which waits for its managers; after ten seconds *)
(* the process exits anyway.  keepAlive writes an empty line every second  *)
(* and exits at the third failure in a row.                                *)
(*                                                                         *)
(* The signal channel holds one signal; the runtime drops a signal that    *)
(* finds it full.  A job's Collect may hang for ever: then the manager of  *)
(* jobs does not return.  vnodes.Disabled is a variable of the process,    *)
(* Netdata's current host is set by the HOST lines on the output.          *)
(***************************************************************************)
EXTENDS Naturals, Sequences

CONSTANTS MaxSignals,    \* bound: signals sent
          MaxInstances   \* bound: instances started

Manager == {"functions", "jobs", "discovery", "status"}

VARIABLES serve,      \* serve: waiting, stopping or sleeping; exited for the process
          ch,         \* the signal channel
          exit,       \* serve's exit flag
          instances,  \* instances started
          ctxDone,    \* the newest context is cancelled
          phase,      \* run, per instance: loading, running or returned
          managers,   \* per instance, the managers that run
          hung,       \* a Collect of the newest instance hangs
          broken,     \* Netdata does not read any more
          errors,     \* keepAlive's errors in a row
          disabled,   \* vnodes.Disabled
          registry,   \* the newest instance found virtual nodes
          host,       \* the host Netdata puts data under: local or virtual
          signals,    \* signals sent
          termed,     \* history: a terminating signal was sent ...
          dropped,    \* ... and one was dropped
          found,      \* history: the values registry had
          misplaced   \* history: data of a job went to a host that is not its own

procVars == <<serve, ch, exit, instances, ctxDone>>
hostVars == <<disabled, registry, host, found, misplaced>>
sigVars == <<signals, termed, dropped>>
vars == <<procVars, phase, managers, hung, broken, errors, hostVars, sigVars>>

Init == /\ serve = "waiting" /\ ch = <<>> /\ exit = FALSE
        /\ instances = 1 /\ ctxDone = FALSE
        /\ phase = [i \in 1..MaxInstances |-> IF i = 1 THEN "loading" ELSE "returned"]
        /\ managers = [i \in 1..MaxInstances |-> {}]
        /\ hung = FALSE /\ broken = FALSE /\ errors = 0
        /\ disabled = FALSE /\ registry = FALSE /\ host = "local"
        /\ signals = 0 /\ termed = FALSE /\ dropped = FALSE
        /\ found = {} /\ misplaced = FALSE

Up == serve # "exited"
-----------------------------------------------------------------------------
(* Signals *)

Signal(sig) ==
  /\ Up /\ signals < MaxSignals
  /\ signals' = signals + 1
  /\ ch' = IF ch = <<>> THEN <<sig>> ELSE ch
  /\ termed' = (termed \/ sig = "term")
  /\ dropped' = (dropped \/ (sig = "term" /\ ch # <<>>))
  /\ UNCHANGED <<serve, exit, instances, ctxDone, phase, managers, hung, broken, errors, hostVars>>

\* serve takes a signal and cancels the context.
TakeSignal ==
  /\ serve = "waiting" /\ ch # <<>>
  /\ ch' = <<>>
  /\ exit' = (exit \/ Head(ch) # "hup")
  /\ ctxDone' = TRUE
  /\ serve' = "stopping"
  /\ UNCHANGED <<instances, phase, managers, hung, broken, errors, hostVars, sigVars>>

\* Every run has returned.
Stopped == \A i \in 1..MaxInstances : phase[i] = "returned"

StopDone ==
  /\ serve = "stopping" /\ Stopped
  /\ serve' = IF exit THEN "exited" ELSE "sleeping"
  /\ UNCHANGED <<ch, exit, instances, ctxDone, phase, managers, hung, broken, errors, hostVars,
                 sigVars>>

\* Ten seconds have passed.
ReloadsAnyway ==
  /\ serve = "stopping" /\ ~Stopped
  /\ serve' = "sleeping"
  /\ UNCHANGED <<ch, exit, instances, ctxDone, phase, managers, hung, broken, errors, hostVars,
                 sigVars>>
WaitsForever == FALSE
StopTimesOut ==
  /\ serve = "stopping" /\ ~Stopped
  /\ serve' = "exited"
  /\ UNCHANGED <<ch, exit, instances, ctxDone, phase, managers, hung, broken, errors, hostVars,
                 sigVars>>

Reload ==
  /\ serve = "sleeping" /\ instances < MaxInstances
  /\ serve' = "waiting"
  /\ instances' = instances + 1
  /\ ctxDone' = FALSE /\ hung' = FALSE
  /\ phase' = [phase EXCEPT ![instances + 1] = "loading"]
  /\ UNCHANGED <<ch, exit, managers, broken, errors, hostVars, sigVars>>
-----------------------------------------------------------------------------
(* run *)

\* The plugin is disabled, has no module to run or nothing to discover: run
\* returns, the process goes on.
NothingToRun(i) ==
  /\ Up /\ phase[i] = "loading"
  /\ phase' = [phase EXCEPT ![i] = "returned"]
  /\ UNCHANGED <<procVars, managers, hung, broken, errors, hostVars, sigVars>>

\* The managers start; without virtual nodes, these are disabled.
StartManagers(i) ==
  /\ Up /\ phase[i] = "loading"
  /\ phase' = [phase EXCEPT ![i] = "running"]
  /\ managers' = [managers EXCEPT ![i] = Manager]
  /\ registry' \in BOOLEAN
  /\ disabled' = (disabled \/ ~registry')
  /\ found' = found \cup {registry'}
  /\ UNCHANGED <<procVars, hung, broken, errors, host, misplaced, sigVars>>

Cancelled(i) == i < instances \/ ctxDone

ManagerReturns(i, m) ==
  /\ Up /\ Cancelled(i) /\ m \in managers[i]
  /\ ~(m = "jobs" /\ hung)
  /\ managers' = [managers EXCEPT ![i] = @ \ {m}]
  /\ UNCHANGED <<procVars, phase, hung, broken, errors, hostVars, sigVars>>

RunReturns(i) ==
  /\ Up /\ phase[i] = "running" /\ managers[i] = {} /\ Cancelled(i)
  /\ phase' = [phase EXCEPT ![i] = "returned"]
  /\ UNCHANGED <<procVars, managers, hung, broken, errors, hostVars, sigVars>>

CollectHangs ==
  /\ Up /\ ~hung /\ "jobs" \in managers[instances]
  /\ hung' = TRUE
  /\ UNCHANGED <<procVars, phase, managers, broken, errors, hostVars, sigVars>>

\* A job writes: when virtual nodes are not disabled, a HOST line comes first.
\* Jobs of virtual nodes exist only when the registry has the node.
OnlyForVirtual(own) == IF disabled \/ own = "local" THEN host ELSE own
HostLine(own) == IF disabled THEN host ELSE own

JobWrites(own) ==
  /\ Up /\ "jobs" \in managers[instances] /\ (own = "virtual" => registry)
  /\ host' = HostLine(own)
  /\ misplaced' = (misplaced \/ host' # own)
  /\ UNCHANGED <<procVars, phase, managers, hung, broken, errors, disabled, registry, found, sigVars>>
-----------------------------------------------------------------------------
(* keepAlive *)

NetdataGoes ==
  /\ Up /\ ~broken
  /\ broken' = TRUE
  /\ UNCHANGED <<procVars, phase, managers, hung, errors, hostVars, sigVars>>

\* A write may fail also when Netdata is there.
KeepAlive ==
  /\ Up
  /\ \E ok \in {FALSE, ~broken} : errors' = IF ok THEN 0 ELSE errors + 1
  /\ serve' = IF errors' = 3 THEN "exited" ELSE serve
  /\ UNCHANGED <<ch, exit, instances, ctxDone, phase, managers, hung, broken, hostVars, sigVars>>

Terminated == ~Up /\ UNCHANGED vars

Instance(i) == NothingToRun(i) \/ StartManagers(i) \/ RunReturns(i) \/ \E m \in Manager : ManagerReturns(i, m)
Serve == TakeSignal \/ StopDone \/ StopTimesOut \/ Reload

Next == \/ \E sig \in {"hup", "term"} : Signal(sig)
        \/ Serve
        \/ \E i \in 1..instances : Instance(i)
        \/ CollectHangs \/ \E own \in {"local", "virtual"} : JobWrites(own)
        \/ NetdataGoes \/ KeepAlive
        \/ Terminated

\* serve runs and its timer fires, keepAlive ticks; the managers owe nothing.
Fairness == WF_vars(Serve) /\ WF_vars(KeepAlive)

Spec == Init /\ [][Next]_vars /\ Fairness
-----------------------------------------------------------------------------
\* No two instances run at the same time: the next one starts only when every
\* manager of the one before has returned, hung collections or not.  Locks, state
\* file and charts rely on this.
OneInstance == \A i, j \in 1..MaxInstances :
  managers[i] # {} /\ managers[j] # {} => i = j

\* Data of a job goes to its own host, in every instance, as long as the reloads
\* agree on whether there are virtual nodes: vnodes.Disabled is never reset.
HostsRight == found # BOOLEAN => ~misplaced

BoundReached == serve = "sleeping" /\ instances = MaxInstances

\* A terminating signal ends the process, even with a collection that hangs,
\* unless the signal was dropped because an earlier one was still in the
\* channel; and the process ends when Netdata has gone.
ProcessEnds == /\ termed ~> (serve = "exited" \/ dropped \/ BoundReached)
               /\ broken ~> serve = "exited"
=============================================================================
