-------------------------- MODULE DiscoveryManager --------------------------
(***************************************************************************)
(* The discovery manager (agent/discovery/manager.go, cache.go): one       *)
(* goroutine per discoverer puts the groups it receives into a shared      *)
(* cache and raises a flag (a channel of capacity one); one sender         *)
(* goroutine, once flagged, hands the cached groups to the consumer over   *)
(* an unbuffered channel.  The first batch is sent with a blocking send,   *)
(* the later ones, on a ticker, with a non-blocking send that succeeds     *)
(* only when the consumer is waiting at that moment.                       *)
(*                                                                         *)
(* A group is abstracted to the version its source reached: the n-th group *)
(* a source publishes is version n, 0 stands for no group.  The sections   *)
(* under the mutex are single steps.                                       *)
(***************************************************************************)
EXTENDS Naturals

CONSTANTS Discoverer,   \* the registered discoverers
          Source,       \* the sources of config groups
          Owner,        \* the discoverer that finds a source
          MaxVersion    \* bound: groups published per source

VARIABLES ctxDone,    \* the context is cancelled
          running,    \* discoverers whose runDiscoverer loop runs
          cache,      \* version of the cached group per source, 0: none
          flag,       \* the send channel holds its one element
          pc,         \* where the sender goroutine is
          held,       \* groups mustSend took out of the cache
          consumer,   \* the goroutine that reads the in channel
          latest,     \* history: newest version received per source
          seen        \* history: newest version the consumer got per source

vars == <<ctxDone, running, cache, flag, pc, held, consumer, latest, seen>>

NoGroups == [s \in Source |-> 0]

Init == /\ ctxDone = FALSE
        /\ running = Discoverer
        /\ cache = NoGroups
        /\ flag = FALSE
        /\ pc = "must"
        /\ held = NoGroups
        /\ consumer = "waiting"
        /\ latest = NoGroups
        /\ seen = NoGroups
-----------------------------------------------------------------------------
\* cache.update: the group of a source replaces the one cached before.
KeepFirst(S) == [s \in Source |-> IF s \in S /\ cache[s] = 0 THEN latest[s] + 1 ELSE cache[s]]
Update(S) == [s \in Source |-> IF s \in S THEN latest[s] + 1 ELSE cache[s]]

\* runDiscoverer receives groups, for the sources in S, possibly none at all.
Receive(d, S) ==
  /\ d \in running
  /\ \A s \in S : Owner[s] = d /\ latest[s] < MaxVersion
  /\ latest' = [s \in Source |-> IF s \in S THEN latest[s] + 1 ELSE latest[s]]
  /\ cache' = Update(S)
  /\ flag' = TRUE
  /\ UNCHANGED <<ctxDone, running, pc, held, consumer, seen>>

\* runDiscoverer returns: its updates channel is closed or the context is done.
DiscovererReturns(d) ==
  /\ d \in running
  /\ running' = running \ {d}
  /\ UNCHANGED <<ctxDone, cache, flag, pc, held, consumer, latest, seen>>
-----------------------------------------------------------------------------
\* What the consumer has seen after it receives the groups g.
Seen(g) == [s \in Source |-> IF g[s] = 0 THEN seen[s] ELSE g[s]]

\* mustSend: wait for the flag ...
MustTake == /\ pc = "must" /\ flag
            /\ flag' = FALSE
            /\ pc' = "mustTook"
            /\ UNCHANGED <<ctxDone, running, cache, held, consumer, latest, seen>>

\* ... take the groups out of the cache under the mutex ...
MustSnapshot == /\ pc = "mustTook"
                /\ held' = cache
                /\ cache' = NoGroups
                /\ pc' = "mustSend"
                /\ UNCHANGED <<ctxDone, running, flag, consumer, latest, seen>>

\* ... and send them, as long as it takes.
MustDeliverResetsCache == /\ pc = "mustSend" /\ consumer = "waiting"
                          /\ seen' = Seen(held)
                          /\ cache' = NoGroups
                          /\ held' = NoGroups
                          /\ consumer' = "busy"
                          /\ pc' = "loop"
                          /\ UNCHANGED <<ctxDone, running, flag, latest>>
MustDeliver == /\ pc = "mustSend" /\ consumer = "waiting"
               /\ seen' = Seen(held)
               /\ held' = NoGroups
               /\ consumer' = "busy"
               /\ pc' = "loop"
               /\ UNCHANGED <<ctxDone, running, cache, flag, latest>>

\* mustSend returns early when the context is done: before the flag or, with
\* the groups in hand, instead of the send.
Uninterruptible == FALSE
MustInterrupted == ctxDone /\ pc \in {"must", "mustSend"}

MustAbandon == /\ MustInterrupted
               /\ held' = NoGroups
               /\ pc' = "loop"
               /\ UNCHANGED <<ctxDone, running, cache, flag, consumer, latest, seen>>

\* sendLoop on a tick: the flag is taken ...
Tick == /\ pc = "loop" /\ flag
        /\ flag' = FALSE
        /\ pc' = "tryTook"
        /\ UNCHANGED <<ctxDone, running, cache, held, consumer, latest, seen>>

\* ... and trySend, under the mutex, sends the groups if the consumer waits ...
TrySend == /\ pc = "tryTook" /\ consumer = "waiting"
           /\ seen' = Seen(cache)
           /\ cache' = NoGroups
           /\ consumer' = "busy"
           /\ pc' = "loop"
           /\ UNCHANGED <<ctxDone, running, flag, held, latest>>

\* ... or raises the flag again, to try on a later tick.
GiveUp == /\ pc = "tryTook" /\ consumer # "waiting"
          /\ pc' = "loop"
          /\ UNCHANGED <<ctxDone, running, cache, flag, held, consumer, latest, seen>>
Retry == /\ pc = "tryTook" /\ consumer # "waiting"
         /\ flag' = TRUE
         /\ pc' = "loop"
         /\ UNCHANGED <<ctxDone, running, cache, held, consumer, latest, seen>>

SenderReturns == /\ ctxDone /\ pc = "loop"
                 /\ pc' = "done"
                 /\ UNCHANGED <<ctxDone, running, cache, flag, held, consumer, latest, seen>>
-----------------------------------------------------------------------------
\* The reader of the in channel (the job manager) finishes with a batch.
ConsumerReady == /\ consumer = "busy"
                 /\ consumer' = "waiting"
                 /\ UNCHANGED <<ctxDone, running, cache, flag, pc, held, latest, seen>>

ConsumerReturns == /\ ctxDone /\ consumer # "gone"
                   /\ consumer' = "gone"
                   /\ UNCHANGED <<ctxDone, running, cache, flag, pc, held, latest, seen>>

Cancel == /\ ~ctxDone
          /\ ctxDone' = TRUE
          /\ UNCHANGED <<running, cache, flag, pc, held, consumer, latest, seen>>

Stopped == running = {} /\ pc = "done" /\ consumer = "gone"

\* Everything has returned: nothing happens any more.
Terminated == Stopped /\ UNCHANGED vars

Sender == MustTake \/ MustSnapshot \/ MustDeliver \/ MustAbandon \/ Tick \/ TrySend \/ Retry

Next == \/ \E d \in Discoverer : \E S \in SUBSET Source : Receive(d, S)
        \/ \E d \in Discoverer : DiscovererReturns(d)
        \/ Sender \/ SenderReturns
        \/ ConsumerReady \/ ConsumerReturns
        \/ Cancel
        \/ Terminated

\* Goroutines that can run do run.  SenderReturns competes in a select with the
\* ticker; select picks among the ready cases at random, so it cannot be passed
\* over for ever: strong fairness.  Discoverers owe nothing until the context
\* is done, and nothing makes them publish or the context end.
Fairness == /\ WF_vars(Sender)
            /\ SF_vars(SenderReturns)
            /\ WF_vars(ConsumerReady)
            /\ WF_vars(ConsumerReturns)
            /\ \A d \in Discoverer : WF_vars(ctxDone /\ DiscovererReturns(d))

Spec == Init /\ [][Next]_vars /\ Fairness
-----------------------------------------------------------------------------
\* Types; mustSend holds groups only between taking and sending them, and a
\* cached group was published.
TypeOK == /\ ctxDone \in BOOLEAN /\ flag \in BOOLEAN
          /\ running \subseteq Discoverer
          /\ cache \in [Source -> Nat] /\ held \in [Source -> Nat]
          /\ latest \in [Source -> Nat] /\ seen \in [Source -> Nat]
          /\ pc \in {"must", "mustTook", "mustSend", "loop", "tryTook", "done"}
          /\ consumer \in {"waiting", "busy", "gone"}
          /\ pc # "mustSend" => held = NoGroups

\* Groups in the cache are never stranded: while the sender lives, the flag is
\* up or the sender has just taken it and is about to look at the cache
\* (manager.go: update and triggerSend under one lock, trySend's default case).
NothingStranded ==
  cache # NoGroups /\ pc # "done" => flag \/ pc \in {"mustTook", "tryTook"}

\* Until shutdown the newest group of every source is on its way or delivered:
\* in the cache, else in mustSend's hands, else with the consumer.  No update
\* that arrives while a batch is being sent is lost or overtaken.
NewestSurvives ==
  ~ctxDone => \A s \in Source :
    latest[s] = IF cache[s] # 0 THEN cache[s] ELSE IF held[s] # 0 THEN held[s] ELSE seen[s]

\* Versions move one way: what is cached is newer than what is in mustSend's
\* hands, which is newer than what the consumer has.
VersionsOrdered ==
  \A s \in Source : /\ seen[s] <= latest[s]
                    /\ held[s] # 0 => seen[s] < held[s] /\ held[s] <= latest[s]
                    /\ cache[s] # 0 => /\ seen[s] < cache[s] /\ held[s] < cache[s]
                                       /\ cache[s] <= latest[s]

\* Cancelling the context makes every goroutine return, wherever it is: no send
\* blocks for ever on a consumer that has gone.
StopsWhenCancelled == ctxDone ~> Stopped
=============================================================================
