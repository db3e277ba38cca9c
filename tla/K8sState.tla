------------------------------ MODULE K8sState ------------------------------
(* The k8s_state collector: one discoverer for nodes and one for pods follow  *)
(* the cluster through an informer and a work queue, a relay passes what they *)
(* read to the goroutine that updates the state under its lock, and Collect   *)
(* turns the state into charts under the same lock.                           *)
(*                                                                            *)
(* An object (a pod, a node) may be deleted and created again under the same  *)
(* name.  Statuses, resources and labels are left out.                        *)
EXTENDS Integers, SequencesExt

CONSTANTS
    Kinds,        \* "pod" and "node": one discoverer each
    Objects,      \* names of the objects
    KindOf,       \* their kinds
    MyNodeNames,  \* possible values of MY_NODE_NAME, "" if it is not set
    Extends,      \* pairs <<i, j>>: the chart prefix of j is one of i's charts too
    MaxChanges    \* bound: creations and deletions

VARIABLES
    cluster,      \* objects that exist
    changes,      \* creations and deletions so far
    myNodeName,   \* the value of MY_NODE_NAME
    store,        \* the informers' copies
    queue,        \* per kind: the keys in the work queue
    sending,      \* the resources that discoverers are sending, the longest waiting first
    relay,        \* the resource the relay is passing on
    state,        \* the records of nodes and pods
    charts,       \* objects with charts
    running,      \* goroutines that have not returned
    ready,        \* discoverers whose informer has synced
    phase         \* of the job

clusterVars == <<cluster, changes, myNodeName>>
pipeVars == <<sending, relay>>
vars == <<clusterVars, store, queue, pipeVars, state, charts, running, ready, phase>>

None == [object |-> "none"]
Absent == [known |-> FALSE]
Resource(o, exists) == [object |-> o, exists |-> exists]
Resources == {Resource(o, exists) : o \in Objects, exists \in BOOLEAN} \cup {None}

Goroutines == Kinds \cup {"relay", "updater"}

TypeOK ==
    /\ cluster \subseteq Objects /\ changes \in 0..MaxChanges /\ store \subseteq Objects
    /\ myNodeName \in MyNodeNames /\ queue \in [Kinds -> Seq(Objects)] /\ sending \in Seq(Resources)
    /\ relay \in Resources
    /\ state \in [Objects -> {Absent} \cup [known : {TRUE}, new : BOOLEAN, deleted : BOOLEAN]]
    /\ charts \subseteq Objects /\ running \subseteq Goroutines /\ ready \subseteq Kinds
    /\ phase \in {"new", "checked", "started", "cancelled"}

Init ==
    /\ cluster \in SUBSET Objects /\ changes = 0 /\ store = {} /\ myNodeName \in MyNodeNames
    /\ queue = [kind \in Kinds |-> <<>>] /\ sending = <<>> /\ relay = None
    /\ state = [o \in Objects |-> Absent] /\ charts = {}
    /\ running = {} /\ ready = {} /\ phase = "new"

Started == phase = "started"
Cancelled == phase = "cancelled"

----------------------------------------------------------------------------
(* The cluster and the informers                                              *)

\* Only what happens while the informers run can make a difference.
Change(o) ==
    /\ Started
    /\ changes < MaxChanges /\ changes' = changes + 1
    /\ cluster' = (cluster \ {o}) \cup ({o} \ cluster)
    /\ UNCHANGED <<myNodeName, store, queue, pipeVars, state, charts, running, ready, phase>>

\* The first list of an informer fills its store.
Sync(kind) ==
    /\ kind \in running \ ready /\ Started
    /\ LET listed == {o \in cluster : KindOf[o] = kind} IN
       /\ store' = store \cup listed
       /\ \E keys \in SetToSeqs(listed) : queue' = [queue EXCEPT ![kind] = keys]
    /\ ready' = ready \cup {kind}
    /\ UNCHANGED <<clusterVars, pipeVars, state, charts, running, phase>>

Queued(o) == Contains(queue[KindOf[o]], o)

\* A key that is in the queue already stays where it is.
Enqueued(o) == IF Queued(o) THEN queue ELSE [queue EXCEPT ![KindOf[o]] = Append(@, o)]

\* An event handler enqueues the key, whatever the event.
enqueue(o) ==
    /\ KindOf[o] \in ready /\ Started
    /\ o \in cluster <=> o \notin store
    /\ store' = (store \ {o}) \cup ({o} \cap cluster)
    /\ queue' = Enqueued(o)
    /\ UNCHANGED <<clusterVars, pipeVars, state, charts, running, ready, phase>>

\* Every resyncPeriod, and whenever its status changes, a stored object is
\* enqueued again.
Resync(o) ==
    /\ KindOf[o] \in ready /\ Started
    /\ o \in store /\ ~Queued(o)
    /\ queue' = Enqueued(o)
    /\ UNCHANGED <<clusterVars, store, pipeVars, state, charts, running, ready, phase>>

----------------------------------------------------------------------------
(* From the queues to the state                                               *)

From(kind, r) == KindOf[r.object] = kind
Sends(kind) == \E i \in DOMAIN sending : From(kind, sending[i])

\* The value is read from the store when the key is taken from the queue.
runDiscover(kind) ==
    /\ Started /\ queue[kind] # <<>> /\ ~Sends(kind)
    /\ queue' = [queue EXCEPT ![kind] = Tail(@)]
    /\ LET o == Head(queue[kind]) IN sending' = Append(sending, Resource(o, o \in store))
    /\ UNCHANGED <<clusterVars, store, relay, state, charts, running, ready, phase>>

RelayReceives ==
    /\ "relay" \in running /\ relay = None /\ sending # <<>>
    /\ relay' = Head(sending)
    /\ sending' = Tail(sending)
    /\ UNCHANGED <<clusterVars, store, queue, state, charts, running, ready, phase>>

\* With MY_NODE_NAME set, the other nodes get no record.
Ignored(o) == KindOf[o] = "node" /\ myNodeName # "" /\ o # myNodeName

\* A deleted object keeps its record, marked; a record that exists already is
\* updated and keeps its marks.
UpdatedState(o, exists) ==
    CASE exists /\ ~Ignored(o) /\ ~state[o].known -> [known |-> TRUE, new |-> TRUE, deleted |-> FALSE]
      [] ~exists /\ state[o].known -> [state[o] EXCEPT !.deleted = TRUE]
      [] OTHER -> state[o]

\* The updater takes the resource from the relay and applies it under the lock.
runUpdateState ==
    /\ {"relay", "updater"} \subseteq running /\ relay # None
    /\ state' = [state EXCEPT ![relay.object] = UpdatedState(relay.object, relay.exists)]
    /\ relay' = None
    /\ UNCHANGED <<clusterVars, store, queue, sending, charts, running, ready, phase>>

----------------------------------------------------------------------------
(* The job                                                                    *)

\* The version request may fail; then the job calls Cleanup.
Check ==
    /\ phase = "new"
    /\ phase' \in {"checked", "cancelled"}
    /\ UNCHANGED <<clusterVars, store, queue, pipeVars, state, charts, running, ready>>

\* The first Collect starts the goroutines.
Start ==
    /\ phase = "checked"
    /\ phase' = "started" /\ running' = Goroutines
    /\ UNCHANGED <<clusterVars, store, queue, pipeVars, state, charts, ready>>

Deleted == {o \in Objects : state[o].known /\ state[o].deleted}
New == {o \in Objects : state[o].known /\ ~state[o].deleted /\ state[o].new}

\* removePodCharts and removeNodeCharts compare prefixes.
RemovedWith(deleted) == deleted \cup {i \in Objects : \E j \in deleted : <<i, j>> \in Extends}

KeepsRecords ==
    [o \in Objects |-> IF o \in New THEN [state[o] EXCEPT !.new = FALSE] ELSE state[o]]

CollectedState ==
    [o \in Objects |-> IF o \in Deleted THEN Absent
                       ELSE IF o \in New THEN [state[o] EXCEPT !.new = FALSE]
                       ELSE state[o]]

\* The state is a map: a new object's charts may be added before or after
\* those of a deleted one are removed.
collectKubeState ==
    /\ Started /\ ready = Kinds
    /\ Deleted \cup New # {}
    /\ \E early \in SUBSET New :
           charts' = ((charts \cup early) \ RemovedWith(Deleted)) \cup (New \ early)
    /\ state' = CollectedState
    /\ UNCHANGED <<clusterVars, store, queue, pipeVars, running, ready, phase>>

\* Cleanup cancels the context and waits for the goroutines, three seconds at
\* most.
Cleanup ==
    /\ phase \in {"checked", "started"}
    /\ phase' = "cancelled"
    /\ UNCHANGED <<clusterVars, store, queue, pipeVars, state, charts, running, ready>>

SendBlocks(kind) ==
    /\ Cancelled /\ kind \in running /\ ~Sends(kind)
    /\ running' = running \ {kind}
    /\ UNCHANGED <<clusterVars, store, queue, pipeVars, state, charts, ready, phase>>

\* A discoverer returns: its queue is shut down, what it was sending is dropped.
DiscovererReturns(kind) ==
    /\ Cancelled /\ kind \in running
    /\ running' = running \ {kind}
    /\ sending' = SelectSeq(sending, LAMBDA r : ~From(kind, r))
    /\ UNCHANGED <<clusterVars, store, queue, relay, state, charts, ready, phase>>

RelayReturns ==
    /\ Cancelled /\ "relay" \in running
    /\ running' = running \ {"relay"} /\ relay' = None
    /\ UNCHANGED <<clusterVars, store, queue, sending, state, charts, ready, phase>>

UpdaterReturns ==
    /\ Cancelled /\ "updater" \in running
    /\ running' = running \ {"updater"}
    /\ UNCHANGED <<clusterVars, store, queue, pipeVars, state, charts, ready, phase>>

Next ==
    \/ \E o \in Objects : Change(o) \/ enqueue(o) \/ Resync(o)
    \/ \E kind \in Kinds : Sync(kind) \/ runDiscover(kind) \/ DiscovererReturns(kind)
    \/ RelayReceives \/ runUpdateState \/ RelayReturns \/ UpdaterReturns
    \/ Check \/ Start \/ collectKubeState \/ Cleanup

\* Each of these happens once to each goroutine.
Starts == Start \/ \E kind \in Kinds : Sync(kind)
Returns == RelayReturns \/ UpdaterReturns \/ \E kind \in Kinds : DiscovererReturns(kind)

(* Every goroutine runs, work queues and waiting senders are served in the    *)
(* order of their arrival, a select takes a cancelled context in the end, the *)
(* informers deliver their events in turn and resync, and the job collects at *)
(* every tick.                                                                *)
Fairness ==
    /\ WF_vars(Starts) /\ WF_vars(Returns)
    /\ WF_vars(\E o \in Objects : enqueue(o))
    /\ \A o \in Objects : WF_vars(Resync(o))
    /\ \A kind \in Kinds : WF_vars(runDiscover(kind))
    /\ WF_vars(RelayReceives) /\ WF_vars(runUpdateState) /\ WF_vars(collectKubeState)

Spec == Init /\ [][Next]_vars /\ Fairness

----------------------------------------------------------------------------
(* Properties                                                                 *)

Overlapped(o) == \E j \in Objects : <<o, j>> \in Extends

\* Once the cluster is at rest, every pod and every node that is not to be
\* ignored has its charts if it exists, and nothing else has, whatever was
\* deleted, created again, coalesced in a queue or reordered between the two
\* discoverers before.  (The charts of a pod whose name begins with a deleted
\* pod's name are removed with it.)
ChartsFollowCluster ==
    <>[](\/ phase # "started"
         \/ \A o \in Objects : Overlapped(o) \/ (o \in charts <=> o \in cluster /\ ~Ignored(o)))

\* After the context is cancelled every goroutine returns, also one that is
\* sending to another that has already gone.
GoroutinesReturn ==
    Cancelled ~> (running = {} /\ sending = <<>>)
=============================================================================
