-------------------------- MODULE MCCollectorState --------------------------
(***************************************************************************)
(* LogReader and K8sState for TLC.  A behaviour is one of the one or one   *)
(* of the other, as the constant-like variable subject says.               *)
(***************************************************************************)
EXTENDS LogReader

CONSTANTS Kinds, MaxChanges

VARIABLES subject,
          cluster, changes, myNodeName, store, queue, sending, relay, state, charts, running, ready, phase

k8sVars == <<cluster, changes, myNodeName, store, queue, sending, relay, state, charts, running, ready, phase>>
MCvars == <<subject, vars, k8sVars>>

\* Two pods of which one name begins with the other, and a node.
Objects == {"web-1", "web-10", "node-1"}
KindOf == [o \in Objects |-> IF o = "node-1" THEN "node" ELSE "pod"]
Extends == {<<"web-10", "web-1">>}

\* The node is to be followed, or only another one.
MyNodeNames == {"", "node-2"}

K8s == INSTANCE K8sState

\* The cluster has either the two pods or a pod and a node.
Existing == [pods |-> {"web-1", "web-10"}, mixed |-> {"web-1", "node-1"}]
OfLog == subject = "log reader" /\ UNCHANGED <<subject, k8sVars>>
OfK8s == subject \in DOMAIN Existing /\ UNCHANGED <<subject, vars>>

\* The component that is not the subject has one initial state only.
MCInit == /\ subject \in {"log reader"} \cup DOMAIN Existing
          /\ Init /\ K8s!Init
          /\ IF subject = "log reader" THEN cluster = {}
             ELSE cluster \subseteq Existing[subject] /\ parser = CHOOSE p \in Parsers : TRUE
          /\ subject # "mixed" => myNodeName = ""

MCNext == \/ OfLog /\ Next
          \/ OfK8s /\ K8s!Next /\ cluster' \subseteq Existing[subject]

\* The fairness of LogReader and of K8sState.
MCSpec ==
    /\ MCInit /\ [][MCNext]_MCvars
    /\ WF_MCvars(OfLog /\ Create) /\ WF_MCvars(OfLog /\ Switch)
    /\ WF_MCvars(OfLog /\ CollectorStep)
    /\ WF_MCvars(OfK8s /\ K8s!Starts) /\ WF_MCvars(OfK8s /\ K8s!Returns)
    /\ WF_MCvars(OfK8s /\ \E o \in Objects : K8s!enqueue(o))
    /\ \A o \in Objects : WF_MCvars(OfK8s /\ K8s!Resync(o))
    /\ \A kind \in Kinds : WF_MCvars(OfK8s /\ K8s!runDiscover(kind))
    /\ WF_MCvars(OfK8s /\ K8s!RelayReceives) /\ WF_MCvars(OfK8s /\ K8s!runUpdateState)
    /\ WF_MCvars(OfK8s /\ K8s!collectKubeState)

\* The properties of K8sState, under their own names.
ChartsFollowCluster == K8s!ChartsFollowCluster
GoroutinesReturn == K8s!GoroutinesReturn
=============================================================================
