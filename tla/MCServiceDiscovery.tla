------------------------ MODULE MCServiceDiscovery ------------------------
(***************************************************************************)
(* ServiceDiscovery and Pipeline for TLC.  A behaviour is one of the one   *)
(* or one of the other, as the constant-like variable subject says; they   *)
(* share the variable ctxDone.                                             *)
(***************************************************************************)
EXTENDS ServiceDiscovery, TLC

CONSTANTS Discoverer, Source, Owner, Target, Groups, Composed, NoGroup, NoHand, MaxGroups,
          d1, d2, s1, s2, t1, t2, t3  \* the discoverers, sources and targets of this instance

VARIABLES subject,
          finders, hand, tggs, flag, accPc, pipePc, items, out, published,
          groups, found, stored, crossed, processed

plVars == <<finders, hand, tggs, flag, accPc, pipePc, items, out, published,
            groups, found, stored, crossed, processed>>
allVars == <<subject, vars, plVars>>

\* The variables of ServiceDiscovery that Pipeline does not have.
otherVars == <<pc, current, files, sdVars, alive, cancelled, newest>>

MCOwner == (s1 :> d1) @@ (s2 :> d2)

\* One source whose targets change in every way (one comes, one goes, one takes the
\* place of another, all go) and one beside it.
MCGroups == (s1 :> {{}, {t1}, {t1, t3}, {t2}}) @@ (s2 :> {{t2}})

\* A target that no rule matches, and two that share a config.
MCComposed == (t1 :> {}) @@ (t2 :> {"a"}) @@ (t3 :> {"a", "b"})

PL == INSTANCE Pipeline

ASSUME GroupsAssumption == \A s \in Source : Groups[s] \subseteq SUBSET Target

\* An empty hand holds no group.
ASSUME NoHandAssumption == \A s \in Source, T \in SUBSET Target : <<s, T>> # NoHand

\* NoGroup is neither a set of targets nor a set of configs.
ASSUME NoGroupAssumption ==
  \A T \in SUBSET Target : T # NoGroup /\ PL!Configs(T) # NoGroup

MCInit == subject \in {"service discovery", "pipeline"} /\ Init /\ PL!Init

MCNext == /\ UNCHANGED subject
          /\ \/ subject = "service discovery" /\ Next /\ UNCHANGED plVars
             \/ subject = "pipeline" /\ PL!Next /\ UNCHANGED otherVars

\* The fairness of Pipeline.
MCSpec ==
  /\ MCInit /\ [][MCNext]_allVars
  /\ WF_allVars(subject = "pipeline" /\ PL!Running /\ UNCHANGED <<subject, otherVars>>)
  /\ WF_allVars(subject = "pipeline" /\ PL!Send /\ UNCHANGED <<subject, otherVars>>)
  /\ \A d \in Discoverer :
       WF_allVars(/\ subject = "pipeline" /\ (PL!Store(d) \/ PL!Trigger(d))
                  /\ UNCHANGED <<subject, otherVars>>)

\* The properties of Pipeline, under their own names.
MirrorsTargets == PL!MirrorsTargets
Delivers == PL!Delivers
=============================================================================
