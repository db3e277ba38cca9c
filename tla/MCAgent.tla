------------------------------ MODULE MCAgent ------------------------------
(***************************************************************************)
(* FunctionManager and Agent for TLC: a behaviour is one of the one or one *)
(* of the other, as the constant-like variable subject says.               *)
(***************************************************************************)
EXTENDS FunctionManager

CONSTANTS MaxSignals, MaxInstances

VARIABLES subject,
          serve, ch, exit, instances, ctxDone, phase, managers, hung, broken, errors,
          disabled, registry, host, signals, termed, dropped, found, misplaced

agentVars == <<serve, ch, exit, instances, ctxDone, phase, managers, hung, broken, errors,
               disabled, registry, host, signals, termed, dropped, found, misplaced>>

A == INSTANCE Agent

ASSUME AgentAssumption == MaxInstances \in Nat \ {0}

MCInit == subject \in {"agent", "functions"} /\ Init /\ A!Init

MCNext == /\ UNCHANGED subject
          /\ \/ subject = "agent" /\ A!Next /\ UNCHANGED vars
             \/ subject = "functions" /\ Next /\ UNCHANGED agentVars

MCvars == <<subject, vars, agentVars>>

\* The fairness of Agent.
MCSpec == /\ MCInit /\ [][MCNext]_MCvars
          /\ WF_MCvars(subject = "agent" /\ A!Serve /\ UNCHANGED <<subject, vars>>)
          /\ WF_MCvars(subject = "agent" /\ A!KeepAlive /\ UNCHANGED <<subject, vars>>)

\* No two instances run at a time, data is written under its job's host, and a
\* terminated process ends (Agent).
OneInstance == A!OneInstance
HostsRight == A!HostsRight
ProcessEnds == A!ProcessEnds
=============================================================================
