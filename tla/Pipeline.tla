------------------------------ MODULE Pipeline ------------------------------
(***************************************************************************)
(* A service discovery pipeline (agent/discovery/sd/pipeline): discoverers *)
(* find groups of targets; the accumulator keeps the newest group of every *)
(* source and, on its ticker, offers them to the pipeline with a           *)
(* non-blocking send; the pipeline turns targets into configs, remembers   *)
(* what it made of every target, and sends a group of configs for a source *)
(* only when something has changed.                                        *)
(*                                                                         *)
(* A target is its hash.  Classify and compose are pure: Composed gives    *)
(* the configs of a target, none for one that no rule matches.             *)
(***************************************************************************)
EXTENDS Naturals

CONSTANTS Discoverer,  \* the target discoverers
          Source,      \* sources of target groups
          Owner,       \* the discoverer that finds a source
          NoHand,      \* no group in a goroutine's hand
          Target,      \* targets
          Groups,      \* the groups of targets a source may have
          Composed,    \* the configs of a target
          NoGroup,     \* no group for a source
          MaxGroups    \* bound: groups found

VARIABLES ctxDone,    \* the context is cancelled
          finders,    \* runDiscoverer: receiving, storing, triggering or returned
          hand,       \* the group it has received and not yet stored: <<source, targets>>
          tggs,       \* the accumulator's groups
          flag,       \* the send channel holds its element
          accPc,      \* accumulator.run: loop, try (flag taken), final or done
          pipePc,     \* Pipeline.Run: select, send or done
          items,      \* per source, the targets that have configs
          out,        \* the groups of configs being sent
          published,  \* what the receiver has, per source
          groups,     \* groups found so far
          found,      \* history: newest targets of a source
          stored,     \* history: targets of a source stored last
          crossed,    \* history: sources whose newest group was received with an
                      \* older one in another goroutine's hand
          processed   \* history: targets of a source the pipeline saw last

finding == <<groups, found, crossed>>
accVars == <<finders, hand, tggs, flag, finding, stored>>
pipeVars == <<items, out, published, processed>>
vars == <<ctxDone, accVars, accPc, pipePc, pipeVars>>

NoGroups == [s \in Source |-> NoGroup]
Configs(T) == UNION {Composed[t] : t \in T}

Init == /\ ctxDone = FALSE
        /\ finders = [d \in Discoverer |-> "receiving"]
        /\ hand = [d \in Discoverer |-> NoHand]
        /\ tggs = NoGroups /\ flag = FALSE /\ accPc = "loop"
        /\ pipePc = "select"
        /\ items = NoGroups /\ out = NoGroups /\ published = [s \in Source |-> {}]
        /\ groups = 0
        /\ found = [s \in Source |-> {}] /\ stored = [s \in Source |-> {}] /\ crossed = {}
        /\ processed = [s \in Source |-> {}]
-----------------------------------------------------------------------------
(* The accumulator *)

Holds(d, s) == hand[d] # NoHand /\ hand[d][1] = s

\* The discoverers share the channel of updates: whichever runDiscoverer waits
\* there receives the group a discoverer has found ...
Take(d, s, T) ==
  /\ finders[d] = "receiving" /\ finders[Owner[s]] # "returned" /\ groups < MaxGroups
  /\ groups' = groups + 1
  /\ found' = [found EXCEPT ![s] = T]
  /\ crossed' = IF \E e \in Discoverer : Holds(e, s) THEN crossed \cup {s} ELSE crossed \ {s}
  /\ hand' = [hand EXCEPT ![d] = <<s, T>>]
  /\ finders' = [finders EXCEPT ![d] = "storing"]
  /\ UNCHANGED <<ctxDone, tggs, flag, stored, accPc, pipePc, pipeVars>>

\* ... stores it under the mutex, over what is there ...
Store(d) ==
  /\ finders[d] = "storing"
  /\ LET s == hand[d][1]
         T == hand[d][2]
     IN  /\ tggs' = [tggs EXCEPT ![s] = T]
         /\ stored' = [stored EXCEPT ![s] = T]
  /\ hand' = [hand EXCEPT ![d] = NoHand]
  /\ finders' = [finders EXCEPT ![d] = "triggering"]
  /\ UNCHANGED <<ctxDone, flag, finding, accPc, pipePc, pipeVars>>

\* ... and then raises the flag.
Trigger(d) ==
  /\ finders[d] = "triggering"
  /\ flag' = TRUE
  /\ finders' = [finders EXCEPT ![d] = "receiving"]
  /\ UNCHANGED <<ctxDone, hand, tggs, finding, stored, accPc, pipePc, pipeVars>>

\* Discover ends, on its own or with the context.
FinderReturns(d) ==
  /\ finders[d] = "receiving"
  /\ finders' = [finders EXCEPT ![d] = "returned"]
  /\ UNCHANGED <<ctxDone, hand, tggs, flag, finding, stored, accPc, pipePc, pipeVars>>

\* A tick, with the flag up.
Tick ==
  /\ accPc = "loop" /\ flag
  /\ flag' = FALSE
  /\ accPc' = "try"
  /\ UNCHANGED <<ctxDone, finders, hand, tggs, finding, stored, pipePc, pipeVars>>

\* All discoverers have returned: one last try.
LastTry ==
  /\ accPc = "loop" /\ \A d \in Discoverer : finders[d] = "returned"
  /\ accPc' = "final"
  /\ UNCHANGED <<ctxDone, accVars, pipePc, pipeVars>>

Tried == accPc' = IF accPc = "final" THEN "done" ELSE "loop"

\* trySend when the pipeline does not wait at the channel: the flag goes up again.
GiveUp ==
  /\ accPc \in {"try", "final"} /\ pipePc # "select"
  /\ Tried
  /\ UNCHANGED <<ctxDone, accVars, pipePc, pipeVars>>
Retry ==
  /\ accPc \in {"try", "final"} /\ pipePc # "select"
  /\ flag' = TRUE
  /\ Tried
  /\ UNCHANGED <<ctxDone, finders, hand, tggs, finding, stored, pipePc, pipeVars>>

\* run returns when the context is done, if need be with discoverers still alive.
AccumulatorReturns ==
  /\ accPc = "loop" /\ ctxDone
  /\ accPc' = "done"
  /\ UNCHANGED <<ctxDone, accVars, pipePc, pipeVars>>
-----------------------------------------------------------------------------
(* The pipeline *)

\* The targets of a group that have configs; these are cached.
WithConfigs(T) == {t \in T : Composed[t] # {}}

\* processGroup: a group is sent when a target with configs is new or gone.
Known(s) == IF items[s] = NoGroup THEN {} ELSE items[s]
IgnoresGone(s, T) == WithConfigs(T) \ Known(s) # {}
Changed(s, T) == WithConfigs(T) # Known(s)

\* A group without targets: an empty group, if the source is known.
ProcessGroup(s, T) ==
  IF T = {} THEN [items |-> NoGroup, group |-> IF items[s] = NoGroup THEN NoGroup ELSE {}]
  ELSE [items |-> WithConfigs(T),
        group |-> IF Changed(s, T) THEN Configs(T) ELSE NoGroup]

\* trySend and Pipeline.Run meet: the groups leave the accumulator and are
\* processed.
Receive ==
  /\ accPc \in {"try", "final"} /\ pipePc = "select"
  /\ LET r == [s \in Source |-> IF tggs[s] = NoGroup
                                THEN [items |-> items[s], group |-> NoGroup]
                                ELSE ProcessGroup(s, tggs[s])]
     IN  /\ items' = [s \in Source |-> r[s].items]
         /\ out' = [s \in Source |-> r[s].group]
         /\ pipePc' = IF out' = NoGroups THEN "select" ELSE "send"
  /\ processed' = [s \in Source |-> IF tggs[s] = NoGroup THEN processed[s] ELSE tggs[s]]
  /\ tggs' = NoGroups
  /\ Tried
  /\ UNCHANGED <<ctxDone, finders, hand, flag, finding, stored, published>>

\* The receiver takes the groups, or the context is done.
Send ==
  /\ pipePc = "send"
  /\ published' = [s \in Source |-> IF out[s] = NoGroup THEN published[s] ELSE out[s]]
  /\ out' = NoGroups
  /\ pipePc' = "select"
  /\ UNCHANGED <<ctxDone, accVars, accPc, items, processed>>

SendAbandoned ==
  /\ pipePc = "send" /\ ctxDone
  /\ out' = NoGroups
  /\ pipePc' = "select"
  /\ UNCHANGED <<ctxDone, accVars, accPc, items, published, processed>>

\* Run returns with the accumulator, or some time after the context is done.
PipelineReturns ==
  /\ pipePc = "select" /\ (ctxDone \/ accPc = "done")
  /\ pipePc' = "done"
  /\ UNCHANGED <<ctxDone, accVars, accPc, pipeVars>>

Cancel == /\ ~ctxDone
          /\ ctxDone' = TRUE
          /\ UNCHANGED <<accVars, accPc, pipePc, pipeVars>>

Terminated == /\ accPc = "done" /\ pipePc = "done"
              /\ \A d \in Discoverer : finders[d] \in {"receiving", "returned"}
              /\ UNCHANGED vars

Running == \/ Tick \/ LastTry \/ Retry \/ Receive
           \/ Send \/ SendAbandoned \/ PipelineReturns
           \/ \E d \in Discoverer : Store(d) \/ Trigger(d)

Next == \/ \E d \in Discoverer, s \in Source : \E T \in Groups[s] : Take(d, s, T)
        \/ \E d \in Discoverer : FinderReturns(d)
        \/ Running \/ AccumulatorReturns \/ Cancel
        \/ Terminated

\* The goroutines of accumulator and pipeline run and the receiver receives;
\* nothing makes a discoverer find anything or return.
Fairness == /\ WF_vars(Running)
            /\ WF_vars(Send)
            /\ \A d \in Discoverer : WF_vars(Store(d) \/ Trigger(d))

Spec == Init /\ [][Next]_vars /\ Fairness
-----------------------------------------------------------------------------
\* What the pipeline last told the receiver of a source, or is telling it, is
\* what the targets it saw last compose to: processGroup leaves a group out only
\* when nothing has changed, whatever targets come, stay and go.
MirrorsTargets ==
  ~ctxDone => \A s \in Source : (IF out[s] = NoGroup THEN published[s] ELSE out[s])
                                  = Configs(processed[s])

\* When the discoverers rest, the receiver has the configs of what was stored
\* last for every source, however many groups came while the pipeline was
\* sending, and that is the newest group of the source unless an older one was
\* still in the hand of another runDiscoverer when it was received: the two then
\* race for the mutex.  The other exception is the one last try, after all
\* discoverers have returned, that finds the pipeline busy.
Delivers ==
  <>[](ctxDone \/ \A s \in Source :
         \/ /\ published[s] = Configs(stored[s])
            /\ s \in crossed \/ stored[s] = found[s]
         \/ accPc = "done" /\ tggs[s] # NoGroup)
=============================================================================
