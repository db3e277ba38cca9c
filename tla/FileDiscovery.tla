--------------------------- MODULE FileDiscovery ---------------------------
(***************************************************************************)
(* File discovery (agent/discovery/file) from the directory to the config  *)
(* group cache: the watcher hands its groups to the relay goroutine of     *)
(* runDiscoverer, which hands them on; the reader sends the groups of its  *)
(* files once, at the start.  The receiver applies the groups one at a     *)
(* time to the cache of ConfGroupCache.  The discovery manager between the *)
(* two keeps the newest group of each source (DiscoveryManager) and is     *)
(* left out.                                                               *)
(***************************************************************************)
EXTENDS ConfGroupCache

CONSTANTS File, Malformed, NoGroup, MaxWrites, MaxFaults,  \* see FileWatcher
          ReadFile                                         \* files the reader reads once

ASSUME FileDiscoveryAssumption ==
  /\ File \subseteq Source /\ ReadFile \subseteq Source /\ File \cap ReadFile = {}
  /\ \A configs \in SUBSET Hash : configs # NoGroup

VARIABLES ctxDone, mtime, content, writes, faults, pc, cached, todo, seen, reading, groups,
          unreadable,  \* the variables of FileWatcher
          relay,       \* the groups the relay of the watcher holds
          inbox,       \* the groups the receiver has still to apply
          reader       \* the reader: unsent or returned

Watcher == INSTANCE FileWatcher

cacheVars == <<cache, last>>
watcherVars == <<ctxDone, mtime, content, writes, faults, pc, cached, todo, seen, reading, groups,
                 unreadable>>
allVars == <<cacheVars, watcherVars, relay, inbox, reader>>

None == [s \in Source |-> NoGroup]
OfFiles(g) == [s \in Source |-> IF s \in File THEN g[s] ELSE NoGroup]

DiscoveryInit == /\ Init /\ Watcher!Init
                 /\ relay = None /\ inbox = None /\ reader = "unsent"

\* runDiscoverer receives from the watcher ...
RelayReceives == /\ relay = None /\ ~ctxDone
                 /\ Watcher!Sent
                 /\ relay' = OfFiles(groups)
                 /\ UNCHANGED <<cacheVars, inbox, reader>>

\* ... and passes the groups on, or drops them when the context is done.
RelaySends == /\ relay # None
              /\ inbox = None /\ inbox' = relay
              /\ relay' = None
              /\ UNCHANGED <<cacheVars, watcherVars, reader>>

RelayDrops == /\ relay # None /\ ctxDone
              /\ relay' = None
              /\ UNCHANGED <<cacheVars, watcherVars, inbox, reader>>

\* The reader's only batch: the files that cannot be read or parsed have no group.
ReaderSends ==
  /\ reader = "unsent" /\ inbox = None
  /\ \E g \in [ReadFile -> (SUBSET Hash) \cup {NoGroup}] :
       inbox' = [s \in Source |-> IF s \in ReadFile THEN g[s] ELSE NoGroup]
  /\ reader' = "returned"
  /\ UNCHANGED <<cacheVars, watcherVars, relay>>

ReaderReturns == /\ reader = "unsent" /\ ctxDone
                 /\ reader' = "returned"
                 /\ UNCHANGED <<cacheVars, watcherVars, relay, inbox>>

Apply(s) == /\ inbox[s] # NoGroup
            /\ Add([source |-> s, configs |-> inbox[s]])
            /\ inbox' = [inbox EXCEPT ![s] = NoGroup]
            /\ UNCHANGED <<watcherVars, relay, reader>>

Stopped == pc = "done" /\ relay = None /\ inbox = None /\ reader = "returned"
Terminated == Stopped /\ UNCHANGED allVars

Deliver == RelayReceives \/ RelaySends \/ RelayDrops \/ ReaderReturns \/ \E s \in Source : Apply(s)

DiscoveryNext == \/ Watcher!Internal /\ UNCHANGED <<cacheVars, relay, inbox, reader>>
                 \/ Deliver \/ ReaderSends
                 \/ Terminated

\* The goroutines run, the ticker ticks, and the end of the context is not
\* passed over for ever in the select of Run.
DiscoveryFairness ==
  /\ WF_allVars(Watcher!RefreshStep /\ UNCHANGED <<cacheVars, relay, inbox, reader>>)
  /\ WF_allVars(Watcher!Tick /\ UNCHANGED <<cacheVars, relay, inbox, reader>>)
  /\ SF_allVars(Watcher!Return /\ UNCHANGED <<cacheVars, relay, inbox, reader>>)
  /\ WF_allVars(Deliver)

DiscoverySpec == DiscoveryInit /\ [][DiscoveryNext]_allVars /\ DiscoveryFairness
-----------------------------------------------------------------------------
\* The group of a file nearest to the receiver's cache end, NoGroup if none is
\* on its way.
OnItsWay(f) == IF groups[f] # NoGroup THEN groups[f]
               ELSE IF relay[f] # NoGroup THEN relay[f] ELSE inbox[f]

\* What the receiver will have of a file once everything sent has arrived.
Final(f) == IF OnItsWay(f) # NoGroup THEN OnItsWay(f) ELSE cache.sources[f]

\* A file whose configs are, or are about to be, with the receiver is in the
\* watcher's cache, also when its newest version could not be parsed: so the
\* deletion of the file is noticed and its configs are withdrawn.
PublishedIsCached ==
  ~ctxDone => \A f \in File : cached[f] = 0 => Final(f) = {}

\* Once the directory rests, the receiver has exactly the configs of the files,
\* whatever was written, deleted or failed during the refreshes; the exceptions
\* are a file whose present version failed to parse, or to be read, when its
\* modification time was cached, and a watcher that could not be created.
Converges ==
  <>[](\/ ctxDone \/ pc = "done"
       \/ \A f \in File : \/ content[f] = cache.sources[f]
                          \/ content[f] = Malformed
                          \/ mtime[f] = unreadable[f])
=============================================================================
