----------------------- MODULE ServiceDiscoveryProofs -----------------------
(***************************************************************************)
(* The two properties of ServiceDiscovery, for any number of config files, *)
(* contents and pipelines, and the safety of Pipeline, for any number of   *)
(* discoverers, sources and targets and any rules.                         *)
(*                                                                         *)
(* The former rest on Numbered: the pipeline of a source that still runs   *)
(* is the registered one, since addPipeline and removePipeline replace the *)
(* entry only when that pipeline has returned.  So the numbers a source    *)
(* sends under grow.  Meant says which content the pipeline of a source    *)
(* was made from, between the steps of one file too.                       *)
(*                                                                         *)
(* The latter rests on Remembers (the cache of a source is the part of its *)
(* last group that has configs, so an unchanged cache means unchanged      *)
(* configs), on Accumulated (no group is left lying in the accumulator     *)
(* without a flag or a caller that will raise it) and on Uncrossed (where  *)
(* the newest group of a source is, between the channel and the mutex).    *)
(***************************************************************************)
EXTENDS MCServiceDiscovery, TLAPS

Types == /\ made \in Seq(ConfFile \X Valid)
         /\ pipelines \in [ConfFile -> Nat] /\ newest \in [ConfFile -> Nat]
         /\ wanted \in [ConfFile -> Valid \cup {NoData}]
         /\ confCache \in [ConfFile -> Valid \cup Invalid \cup {NoData}]
         /\ pc \in {"select", "add", "remove", "cleanup", "done"}
         /\ pc = "remove" => current \in ConfFile \X {NoData}
         /\ pc = "add" => current \in ConfFile \X Valid

\* A pipeline that runs is the registered one of its source, and no later one
\* of that source has been heard of.
Numbered ==
  /\ \A f \in ConfFile : /\ pipelines[f] <= Len(made) /\ newest[f] <= Len(made)
                         /\ pipelines[f] # 0 => made[pipelines[f]][1] = f
  /\ \A p \in alive : /\ p \in 1..Len(made)
                      /\ pipelines[made[p][1]] = p
                      /\ newest[made[p][1]] <= p

MadeFrom(f) == IF pipelines[f] = 0 THEN NoData ELSE made[pipelines[f]][2]

\* The pipeline of a source was made from the newest valid content, except for
\* the source whose file is being handled.
Meant ==
  /\ \A f \in ConfFile : confCache[f] \in Valid => wanted[f] = confCache[f]
  /\ \A f \in ConfFile : IF pc \in {"add", "remove"} /\ f = current[1]
                         THEN wanted[f] = current[2]
                         ELSE wanted[f] = MadeFrom(f)

IInv == Types /\ Numbered /\ Meant

LEMMA InitInv == Init => IInv
<1> SUFFICES ASSUME Init PROVE IInv
  OBVIOUS
<1>1. Types
  BY DEF Init, Types
<1>2. Numbered
  BY DEF Init, Numbered
<1>3. Meant
  BY Zenon DEF Init, Meant, MadeFrom
<1> QED BY <1>1, <1>2, <1>3, Zenon DEF IInv

\* A file arrives: it is passed over, only remembered, or begun with.
LEMMA ReceiveInv ==
  ASSUME IInv, NEW f \in ConfFile,
         ReceiveRemoved(f) \/ ReceiveInvalid(f) \/ ReceiveValid(f) \/ ReceiveUnchanged(f)
  PROVE  IInv'
<1>1. pc = "select" /\ UNCHANGED <<pipelines, made, alive, newest>>
  BY Zenon DEF ReceiveRemoved, ReceiveInvalid, ReceiveValid, ReceiveUnchanged
<1>2. Numbered'
  BY <1>1, Zenon DEF IInv, Numbered
<1>3. \A g \in ConfFile : MadeFrom(g)' = MadeFrom(g)
  BY <1>1, Zenon DEF MadeFrom
<1>4. CASE ReceiveRemoved(f)
  BY <1>1, <1>2, <1>3, <1>4 DEF ReceiveRemoved, ForgetHash, IInv, Types, Meant
<1>5. CASE ReceiveInvalid(f)
  <2> PICK data \in Invalid : confCache' = [confCache EXCEPT ![f] = data]
    BY <1>5, Zenon DEF ReceiveInvalid
  <2>1. UNCHANGED <<pc, current, wanted>>
    BY <1>5, Zenon DEF ReceiveInvalid
  <2>2. Types'
    BY <1>1, <2>1, Zenon DEF IInv, Types
  <2>3. \A g \in ConfFile : confCache'[g] \in Valid => wanted'[g] = confCache'[g]
    BY <2>1, ServiceDiscoveryAssumption, Zenon DEF IInv, Types, Meant
  <2>4. Meant'
    BY <1>1, <1>3, <2>1, <2>3 DEF IInv, Meant
  <2> QED BY <1>2, <2>2, <2>4, Zenon DEF IInv
<1>6. CASE ReceiveValid(f)
  <2> PICK data \in Valid : /\ confCache' = [confCache EXCEPT ![f] = data]
                            /\ current' = <<f, data>>
                            /\ wanted' = [wanted EXCEPT ![f] = data]
    BY <1>6, Zenon DEF ReceiveValid
  <2>1. pc' = "add"
    BY <1>6, Zenon DEF ReceiveValid
  <2>2. Types'
    BY <1>1, <2>1, Zenon DEF IInv, Types
  <2>3. \A g \in ConfFile : confCache'[g] \in Valid => wanted'[g] = confCache'[g]
    BY Zenon DEF IInv, Types, Meant
  <2>4. \A g \in ConfFile : IF g = current'[1] THEN wanted'[g] = current'[2]
                            ELSE wanted'[g] = MadeFrom(g)
    BY <1>1, Zenon DEF IInv, Types, Meant
  <2>5. Meant'
    BY <1>3, <2>1, <2>3, <2>4 DEF Meant
  <2> QED BY <1>2, <2>2, <2>5, Zenon DEF IInv
<1>7. CASE ReceiveUnchanged(f)
  BY <1>1, <1>2, <1>3, <1>7 DEF ReceiveUnchanged, IInv, Types, Meant
<1> QED BY <1>4, <1>5, <1>6, <1>7, Zenon

\* The old pipeline has returned: none of its source is alive.
LEMMA StoppedSource ==
  ASSUME IInv, NEW f \in ConfFile, HasStopped(f)
  PROVE  \A p \in alive : made[p][1] # f
BY Zenon DEF IInv, Numbered, HasStopped

LEMMA RemoveInv == IInv /\ RemovePipeline => IInv'
<1> SUFFICES ASSUME IInv, RemovePipeline PROVE IInv'
  OBVIOUS
<1> DEFINE f == current[1]
<1>1. /\ pc = "remove" /\ f \in ConfFile /\ current[2] = NoData /\ HasStopped(f)
      /\ pipelines' = [pipelines EXCEPT ![f] = 0] /\ pc' = "select"
      /\ UNCHANGED <<made, alive, newest, wanted, confCache>>
  BY Zenon DEF IInv, Types, RemovePipeline
<1> HIDE DEF f
<1>2. \A p \in alive : made[p][1] # f
  BY <1>1, StoppedSource, Zenon
<1>3. Types'
  BY <1>1, Zenon DEF IInv, Types
<1>4. \A p \in alive : made[p][1] \in ConfFile
  BY DEF IInv, Types, Numbered
<1>5. Numbered'
  <2>1. Len(made) \in Nat /\ \A g \in ConfFile : pipelines'[g] = IF g = f THEN 0 ELSE pipelines[g]
    BY <1>1 DEF IInv, Types
  <2>2. \A g \in ConfFile : /\ pipelines'[g] <= Len(made) /\ newest[g] <= Len(made)
                            /\ pipelines'[g] # 0 => made[pipelines'[g]][1] = g
    BY <2>1 DEF IInv, Numbered
  <2>3. \A p \in alive : pipelines'[made[p][1]] = pipelines[made[p][1]]
    BY <1>2, <1>4, <2>1, Zenon
  <2> QED BY <1>1, <2>2, <2>3, Zenon DEF IInv, Numbered
<1>6. Meant'
  BY <1>1, Zenon DEF IInv, Types, Meant, MadeFrom, f
<1> QED BY <1>3, <1>5, <1>6, Zenon DEF IInv

LEMMA AddInv == IInv /\ AddPipeline => IInv'
<1> SUFFICES ASSUME IInv, AddPipeline PROVE IInv'
  OBVIOUS
<1> DEFINE f == current[1]
           n == Len(made) + 1
<1>1. /\ pc = "add" /\ f \in ConfFile /\ HasStopped(f) /\ pc' = "select"
      /\ current \in ConfFile \X Valid /\ made' = Append(made, current)
      /\ UNCHANGED <<newest, wanted, confCache>>
  BY Zenon DEF IInv, Types, AddPipeline
<1>2. /\ made \in Seq(ConfFile \X Valid) /\ made' \in Seq(ConfFile \X Valid)
      /\ Len(made') = n /\ n \in Nat /\ n > Len(made) /\ Len(made) \in Nat
      /\ made'[n] = current /\ \A i \in 1..Len(made) : made'[i] = made[i]
  BY <1>1 DEF IInv, Types
<1>3. pipelines' = [pipelines EXCEPT ![f] = n] /\ alive' = alive \cup {n}
  BY <1>2, Zenon DEF AddPipeline
<1>4. \A p \in alive : made[p][1] # f /\ made[p][1] \in ConfFile /\ p \in 1..Len(made)
  BY <1>1, <1>2, StoppedSource DEF IInv, Numbered
<1>5. Types'
  BY <1>1, <1>2, <1>3, Zenon DEF IInv, Types
<1>6. Numbered'
  <2>1. \A g \in ConfFile : /\ pipelines'[g] <= n /\ newest'[g] <= n
                            /\ pipelines'[g] # 0 => made'[pipelines'[g]][1] = g
    <3> TAKE g \in ConfFile
    <3>1. pipelines[g] \in Nat /\ newest[g] \in Nat
      BY Zenon DEF IInv, Types
    <3>2. CASE g = f
      BY <1>1, <1>2, <1>3, <3>1, <3>2 DEF IInv, Types, Numbered
    <3>3. CASE g # f
      <4>1. pipelines'[g] = pipelines[g] /\ pipelines[g] <= Len(made) /\ newest[g] <= Len(made)
        BY <1>3, <3>3, Zenon DEF IInv, Types, Numbered
      <4>2. pipelines[g] # 0 => /\ made[pipelines[g]][1] = g
                                /\ made'[pipelines[g]] = made[pipelines[g]]
        BY <1>2, <3>1, <4>1 DEF IInv, Numbered
      <4> QED BY <1>1, <1>2, <3>1, <4>1, <4>2
    <3> QED BY <3>2, <3>3, Zenon
  <2>2. \A p \in alive' : /\ p \in 1..n
                          /\ pipelines'[made'[p][1]] = p
                          /\ newest'[made'[p][1]] <= p
    <3> TAKE p \in alive'
    <3>1. CASE p = n
      BY <1>1, <1>2, <1>3, <3>1 DEF IInv, Types, Numbered
    <3>2. CASE p # n
      <4>1. p \in alive
        BY <1>3, <3>2, Zenon
      <4>2. made'[p] = made[p] /\ made[p][1] # f /\ made[p][1] \in ConfFile
        BY <1>2, <1>4, <4>1, Zenon
      <4>3. /\ p \in 1..Len(made) /\ pipelines[made[p][1]] = p /\ newest[made[p][1]] <= p
        BY <4>1, Zenon DEF IInv, Numbered
      <4>4. pipelines'[made[p][1]] = pipelines[made[p][1]]
        BY <1>3, <4>2, Zenon DEF IInv, Types
      <4> QED BY <1>1, <1>2, <4>2, <4>3, <4>4
    <3> QED BY <3>1, <3>2, Zenon
  <2> QED BY <1>2, <2>1, <2>2, Zenon DEF Numbered
<1>7. Meant'
  <2>1. \A g \in ConfFile : wanted[g] = MadeFrom(g)'
    <3> TAKE g \in ConfFile
    <3>1. CASE g = f
      BY <1>1, <1>2, <1>3, <3>1 DEF IInv, Meant, Types, MadeFrom
    <3>2. CASE g # f
      <4>1. wanted[g] = MadeFrom(g)
        BY <3>2, Zenon DEF IInv, Meant
      <4>2. pipelines'[g] = pipelines[g] /\ pipelines[g] \in Nat /\ pipelines[g] <= Len(made)
        BY <1>3, <3>2, Zenon DEF IInv, Types, Numbered
      <4>3. pipelines[g] # 0 => made'[pipelines[g]] = made[pipelines[g]]
        BY <1>2, <4>2
      <4> QED BY <4>1, <4>2, <4>3, Zenon DEF MadeFrom
    <3> QED BY <3>1, <3>2, Zenon
  <2> QED BY <1>1, <2>1, Zenon DEF IInv, Meant
<1> QED BY <1>5, <1>6, <1>7, Zenon DEF IInv

\* A pipeline sends: it is the registered one of its source.
LEMMA SendsInv ==
  ASSUME IInv, NEW p \in alive, Sends(p)
  PROVE  IInv' /\ \A f \in ConfFile : newest'[f] >= newest[f]
<1> DEFINE f == made[p][1]
<1>1. /\ f \in ConfFile /\ p \in Nat /\ p <= Len(made) /\ pipelines[f] = p /\ newest[f] <= p
      /\ newest \in [ConfFile -> Nat] /\ newest' = [newest EXCEPT ![f] = p]
      /\ UNCHANGED <<pc, current, confCache, pipelines, made, wanted, alive>>
  BY DEF IInv, Types, Numbered, Sends, sdVars
<1>2. Types'
  BY <1>1, Zenon DEF IInv, Types
<1>3. \A q \in alive : made[q][1] \in ConfFile /\ (made[q][1] = f => q = p)
  BY <1>1 DEF IInv, Types, Numbered
<1> HIDE DEF f
<1>4. Numbered'
  BY <1>1, <1>3 DEF IInv, Numbered
<1>5. Meant'
  BY <1>1, Zenon DEF IInv, Meant, MadeFrom
<1>6. \A g \in ConfFile : newest'[g] >= newest[g]
  BY <1>1
<1> QED BY <1>2, <1>4, <1>5, <1>6, Zenon DEF IInv

\* The steps that end what is running and start nothing.
LEMMA EndInv ==
  ASSUME IInv, UNCHANGED <<sdVars, newest>>, alive' \subseteq alive,
         \/ UNCHANGED <<pc, current>>
         \/ pc \in {"select", "cleanup"} /\ pc' \in {"cleanup", "done"}
  PROVE  IInv'
<1>1. Types'
  BY Zenon DEF IInv, Types, sdVars
<1>2. Numbered'
  BY Zenon DEF IInv, Numbered, sdVars
<1>3. \A f \in ConfFile : MadeFrom(f)' = MadeFrom(f)
  BY Zenon DEF MadeFrom, sdVars
<1>4. Meant'
  BY <1>3, Zenon DEF IInv, Meant, sdVars
<1> QED BY <1>1, <1>2, <1>4, Zenon DEF IInv

LEMMA StepInv == IInv /\ [Next]_vars => IInv' /\ \A f \in ConfFile : newest'[f] >= newest[f]
<1> SUFFICES ASSUME IInv, [Next]_vars
             PROVE  IInv' /\ \A f \in ConfFile : newest'[f] >= newest[f]
  OBVIOUS
<1>1. ASSUME UNCHANGED newest PROVE \A f \in ConfFile : newest'[f] >= newest[f]
  BY <1>1 DEF IInv, Types
<1>2. ASSUME NEW f \in ConfFile, ReceiveRemoved(f) \/ ReceiveInvalid(f) \/ ReceiveValid(f)
                                 \/ ReceiveUnchanged(f)
      PROVE  IInv' /\ UNCHANGED newest
  BY <1>2, ReceiveInv, Zenon DEF ReceiveRemoved, ReceiveInvalid, ReceiveValid, ReceiveUnchanged
<1>3. CASE RemovePipeline
  BY <1>1, <1>3, RemoveInv, Zenon DEF RemovePipeline
<1>4. CASE AddPipeline
  BY <1>1, <1>4, AddInv, Zenon DEF AddPipeline
<1>5. CASE Cleanup \/ Return
  BY <1>1, <1>5, EndInv, Zenon DEF Cleanup, Return
<1>6. ASSUME NEW p \in alive, Sends(p)
      PROVE  IInv' /\ \A f \in ConfFile : newest'[f] >= newest[f]
  BY <1>6, SendsInv, Zenon
<1>7. ASSUME NEW p \in alive, Returns(p) PROVE IInv' /\ UNCHANGED newest
  BY <1>7, EndInv, Zenon DEF Returns
<1>8. CASE Cancel \/ Terminated \/ UNCHANGED vars
  BY <1>1, <1>8, EndInv, Zenon DEF Cancel, Terminated, vars
<1> QED BY <1>1, <1>2, <1>3, <1>4, <1>5, <1>6, <1>7, <1>8, Zenon DEF Next

\* The strengthened invariant holds throughout.
LEMMA Invariance == Spec => []IInv
BY InitInv, StepInv, PTL DEF Spec

\* Whenever Run waits for the next file, the newest valid content of each source
\* has its pipeline and no other pipeline of the source runs (sd.go).
THEOREM PipelineMatchesFileCorrect == Spec => []PipelineMatchesFile
<1>1. IInv => PipelineMatchesFile
  BY Zenon DEF IInv, Numbered, Meant, MadeFrom, PipelineMatchesFile
<1> QED BY <1>1, Invariance, PTL

\* The receiver never hears of a replaced pipeline again once it has heard of the
\* one that replaced it (addPipeline waits for the old one's goroutine).
THEOREM NoStaleGroupsCorrect == Spec => NoStaleGroups
<1>1. IInv /\ [Next]_vars => [\A f \in ConfFile : newest'[f] >= newest[f]]_vars
  BY StepInv, Zenon
<1> QED BY <1>1, Invariance, PTL DEF Spec, NoStaleGroups
-----------------------------------------------------------------------------
(* The pipeline *)

PipeTypes ==
  /\ tggs \in [Source -> (SUBSET Target) \cup {NoGroup}]
  /\ items \in [Source -> (SUBSET Target) \cup {NoGroup}]
  /\ processed \in [Source -> SUBSET Target] /\ found \in [Source -> SUBSET Target]
  /\ stored \in [Source -> SUBSET Target]
  /\ DOMAIN published = Source /\ DOMAIN out = Source
  /\ accPc \in {"loop", "try", "final", "done"}
  /\ finders \in [Discoverer -> {"receiving", "storing", "triggering", "returned"}]
  /\ hand \in [Discoverer -> (Source \X SUBSET Target) \cup {NoHand}]
  /\ \A d \in Discoverer : finders[d] = "storing" <=> hand[d] # NoHand

\* The cache of targets holds those of the last group that have configs; nothing
\* is being sent unless the pipeline is in its send.
Remembers == /\ \A s \in Source : PL!Known(s) = PL!WithConfigs(processed[s])
             /\ pipePc # "send" => out = PL!NoGroups

\* The targets stored last are those the pipeline saw last, or they wait in the
\* accumulator, which then has its flag up, is about to get it up or is
\* trying to send, unless its last try has failed.
Accumulated ==
  /\ \A s \in Source : stored[s] = IF tggs[s] = NoGroup THEN processed[s] ELSE tggs[s]
  /\ accPc # "done" /\ tggs # PL!NoGroups =>
       flag \/ accPc # "loop" \/ \E d \in Discoverer : finders[d] = "triggering"

\* The newest group of a source that met no older one is in one hand only, or is
\* the one stored last.
Uncrossed ==
  \A s \in Source \ crossed :
    /\ \A d \in Discoverer : PL!Holds(d, s) =>
         /\ hand[d][2] = found[s]
         /\ \A e \in Discoverer : PL!Holds(e, s) => e = d
    /\ (\A d \in Discoverer : ~PL!Holds(d, s)) => stored[s] = found[s]

PipeInv == PipeTypes /\ Remembers /\ MirrorsTargets /\ Accumulated /\ Uncrossed

\* Only the targets with configs matter for the configs of a group.
LEMMA SameConfigs ==
  ASSUME NEW T, NEW P, PL!WithConfigs(T) = PL!WithConfigs(P)
  PROVE  PL!Configs(T) = PL!Configs(P)
<1>1. \A S : PL!Configs(S) = UNION {Composed[t] : t \in PL!WithConfigs(S)}
  BY Zenon DEF PL!Configs, PL!WithConfigs
<1> QED BY <1>1, Zenon

\* processGroup, for a source whose last group had the targets P: it remembers
\* the new targets that have configs, and sends nothing only if the configs are
\* the same.
LEMMA ProcessGroupLemma ==
  ASSUME NEW s \in Source, NEW T \in SUBSET Target, NEW P \in SUBSET Target,
         PL!Known(s) = PL!WithConfigs(P), items[s] \in (SUBSET Target) \cup {NoGroup}
  PROVE  /\ PL!ProcessGroup(s, T).items \in (SUBSET Target) \cup {NoGroup}
         /\ (IF PL!ProcessGroup(s, T).items = NoGroup THEN {} ELSE PL!ProcessGroup(s, T).items)
              = PL!WithConfigs(T)
         /\ IF PL!ProcessGroup(s, T).group = NoGroup THEN PL!Configs(T) = PL!Configs(P)
            ELSE PL!ProcessGroup(s, T).group = PL!Configs(T)
<1> DEFINE r == PL!ProcessGroup(s, T)
<1>1. CASE T = {}
  BY <1>1, SameConfigs, NoGroupAssumption DEF PL!ProcessGroup, PL!WithConfigs, PL!Configs, PL!Known
<1>2. CASE T # {}
  <2>1. r = [items |-> PL!WithConfigs(T),
             group |-> IF PL!WithConfigs(T) # PL!Known(s) THEN PL!Configs(T) ELSE NoGroup]
    BY <1>2, Zenon DEF PL!ProcessGroup, PL!Changed
  <2>2. PL!WithConfigs(T) \in SUBSET Target /\ PL!WithConfigs(T) # NoGroup /\ PL!Configs(T) # NoGroup
    BY NoGroupAssumption, Zenon DEF PL!WithConfigs
  <2>3. PL!WithConfigs(T) = PL!Known(s) => PL!Configs(T) = PL!Configs(P)
    BY SameConfigs, Zenon
  <2> QED BY <2>1, <2>2, <2>3
<1> QED BY <1>1, <1>2, Zenon

\* A step that no group in hand has a part in.
LEMMA SameHands == Uncrossed /\ UNCHANGED <<hand, found, stored, crossed>> => Uncrossed'
<1> SUFFICES ASSUME Uncrossed, UNCHANGED <<hand, found, stored, crossed>> PROVE Uncrossed'
  OBVIOUS
<1>1. \A d \in Discoverer, s \in Source : PL!Holds(d, s)' <=> PL!Holds(d, s)
  BY Zenon DEF PL!Holds
<1> QED BY <1>1 DEF Uncrossed

\* A group passes from the accumulator into the pipeline.
LEMMA ReceivePipe == PipeInv /\ PL!Receive => PipeInv'
<1> SUFFICES ASSUME PipeInv, PL!Receive PROVE PipeInv'
  OBVIOUS
<1> DEFINE r(s) == IF tggs[s] = NoGroup THEN [items |-> items[s], group |-> NoGroup]
                   ELSE PL!ProcessGroup(s, tggs[s])
           T(s) == IF tggs[s] = NoGroup THEN processed[s] ELSE tggs[s]
<1>1. /\ pipePc = "select" /\ accPc \in {"try", "final"} /\ out = PL!NoGroups
      /\ items' = [s \in Source |-> r(s).items] /\ out' = [s \in Source |-> r(s).group]
      /\ processed' = [s \in Source |-> T(s)] /\ tggs' = PL!NoGroups
      /\ pipePc' = IF out' = PL!NoGroups THEN "select" ELSE "send"
      /\ accPc' \in {"done", "loop"}
      /\ UNCHANGED <<ctxDone, finders, hand, flag, found, stored, crossed, published>>
  BY Zenon DEF PL!Receive, PL!Tried, PL!finding, PipeInv, Remembers
<1>2. ASSUME NEW s \in Source
      PROVE  /\ T(s) \in SUBSET Target /\ r(s).items \in (SUBSET Target) \cup {NoGroup}
             /\ (IF r(s).items = NoGroup THEN {} ELSE r(s).items) = PL!WithConfigs(T(s))
             /\ IF r(s).group = NoGroup THEN PL!Configs(T(s)) = PL!Configs(processed[s])
                ELSE r(s).group = PL!Configs(T(s))
  <2>1. CASE tggs[s] = NoGroup
    BY <2>1, Zenon DEF PipeInv, PipeTypes, Remembers, PL!Known
  <2>2. CASE tggs[s] # NoGroup
    BY <2>2, ProcessGroupLemma DEF PipeInv, PipeTypes, Remembers
  <2> QED BY <2>1, <2>2, Zenon
<1> HIDE DEF r, T
<1>3. PipeTypes'
  BY <1>1, <1>2, Zenon DEF PipeInv, PipeTypes, PL!NoGroups
<1>4. Remembers'
  BY <1>1, <1>2, Zenon DEF Remembers, PL!Known
<1>5. MirrorsTargets'
  BY <1>1, <1>2, Zenon DEF PipeInv, MirrorsTargets, PL!MirrorsTargets, PL!NoGroups
<1>6. Accumulated'
  BY <1>1, Zenon DEF PipeInv, Accumulated, T, PL!NoGroups
<1>7. Uncrossed'
  BY <1>1, SameHands, Zenon DEF PipeInv
<1> QED BY <1>3, <1>4, <1>5, <1>6, <1>7, Zenon DEF PipeInv

\* A group is received: it is the newest of its source, and in one hand only
\* unless it met another there.
LEMMA TakePipe ==
  ASSUME PipeInv, NEW d \in Discoverer, NEW s \in Source, NEW T \in Groups[s], PL!Take(d, s, T)
  PROVE  PipeInv'
<1>1. /\ finders[d] = "receiving" /\ hand[d] = NoHand
      /\ T \in SUBSET Target /\ <<s, T>> \in Source \X SUBSET Target /\ <<s, T>> # NoHand
  BY GroupsAssumption, NoHandAssumption, Zenon DEF PL!Take, PipeInv, PipeTypes
<1>2. /\ hand' = [hand EXCEPT ![d] = <<s, T>>] /\ finders' = [finders EXCEPT ![d] = "storing"]
      /\ found' = [found EXCEPT ![s] = T]
      /\ crossed' = IF \E e \in Discoverer : PL!Holds(e, s) THEN crossed \cup {s} ELSE crossed \ {s}
      /\ UNCHANGED <<ctxDone, tggs, flag, stored, accPc, pipePc, items, out, published, processed>>
  BY Zenon DEF PL!Take, PL!pipeVars
<1>3. PipeTypes'
  BY <1>1, <1>2, Zenon DEF PipeInv, PipeTypes
<1>4. Remembers' /\ MirrorsTargets'
  BY <1>2 DEF PipeInv, Remembers, MirrorsTargets, PL!MirrorsTargets, PL!Known
<1>5. Accumulated'
  BY <1>1, <1>2, Zenon DEF PipeInv, PipeTypes, Accumulated
<1>6. PL!Holds(d, s)' /\ hand'[d][2] = T /\ \A r \in Source : r # s => ~PL!Holds(d, r)'
  BY <1>1, <1>2, Zenon DEF PipeInv, PipeTypes, PL!Holds
<1>7. \A e \in Discoverer, r \in Source : /\ e # d => (PL!Holds(e, r)' <=> PL!Holds(e, r))
                                          /\ e # d => hand'[e] = hand[e]
                                          /\ ~PL!Holds(d, r)
  BY <1>1, <1>2, Zenon DEF PipeInv, PipeTypes, PL!Holds
<1>8. Uncrossed'
  <2> SUFFICES ASSUME NEW r \in Source, r \notin crossed'
               PROVE  /\ \A e \in Discoverer : PL!Holds(e, r)' =>
                           /\ hand'[e][2] = found'[r]
                           /\ \A g \in Discoverer : PL!Holds(g, r)' => g = e
                      /\ (\A e \in Discoverer : ~PL!Holds(e, r)') => stored'[r] = found'[r]
    BY Zenon DEF Uncrossed
  <2>1. CASE r = s
    <3>1. \A e \in Discoverer : ~PL!Holds(e, s)
      BY <1>2, <2>1, Zenon
    <3>2. \A e \in Discoverer : PL!Holds(e, s)' => e = d
      BY <1>7, <3>1, Zenon
    <3>3. found'[s] = T
      BY <1>2, Zenon DEF PipeInv, PipeTypes
    <3> QED BY <1>6, <2>1, <3>2, <3>3, Zenon
  <2>2. CASE r # s
    <3>1. r \notin crossed /\ found'[r] = found[r] /\ stored'[r] = stored[r]
      BY <1>2, <2>2, Zenon DEF PipeInv, PipeTypes
    <3>2. \A e \in Discoverer : PL!Holds(e, r)' => e # d
      BY <1>6, <2>2, Zenon
    <3>3. \A e \in Discoverer : (PL!Holds(e, r)' <=> PL!Holds(e, r))
      BY <1>7, <3>2, Zenon
    <3>4. /\ \A e \in Discoverer : PL!Holds(e, r) => hand[e][2] = found[r]
          /\ \A e, g \in Discoverer : PL!Holds(e, r) /\ PL!Holds(g, r) => g = e
          /\ (\A e \in Discoverer : ~PL!Holds(e, r)) => stored[r] = found[r]
      BY <3>1, Zenon DEF PipeInv, Uncrossed
    <3>5. \A e \in Discoverer : PL!Holds(e, r) => hand'[e] = hand[e]
      BY <1>7, Zenon
    <3>6. ASSUME NEW e \in Discoverer, PL!Holds(e, r)'
          PROVE  /\ hand'[e][2] = found'[r]
                 /\ \A g \in Discoverer : PL!Holds(g, r)' => g = e
      <4>1. PL!Holds(e, r)
        BY <3>3, <3>6, Zenon
      <4>2. hand'[e] = hand[e] /\ hand[e][2] = found[r]
        BY <3>4, <3>5, <4>1, Zenon
      <4>3. \A g \in Discoverer : PL!Holds(g, r) => g = e
        BY <3>4, <4>1, Zenon
      <4> QED BY <3>1, <3>3, <4>2, <4>3, Zenon
    <3>7. (\A e \in Discoverer : ~PL!Holds(e, r)') => stored'[r] = found'[r]
      BY <3>1, <3>3, <3>4, Zenon
    <3> QED BY <3>6, <3>7, Zenon
  <2> QED BY <2>1, <2>2, Zenon
<1> QED BY <1>3, <1>4, <1>5, <1>8, Zenon DEF PipeInv

\* A group is stored: if it met no other it is the newest of its source.
LEMMA StorePipe ==
  ASSUME PipeInv, NEW d \in Discoverer, PL!Store(d)
  PROVE  PipeInv'
<1> DEFINE s == hand[d][1]
           T == hand[d][2]
<1>1. hand[d] # NoHand /\ s \in Source /\ T \in SUBSET Target /\ T # NoGroup /\ PL!Holds(d, s)
  <2>1. hand[d] # NoHand /\ hand[d] \in Source \X SUBSET Target
    BY Zenon DEF PL!Store, PipeInv, PipeTypes
  <2>2. s \in Source /\ T \in SUBSET Target
    BY <2>1, Zenon
  <2> QED BY <2>1, <2>2, NoGroupAssumption, Zenon DEF PL!Holds
<1>2. /\ hand' = [hand EXCEPT ![d] = NoHand] /\ finders' = [finders EXCEPT ![d] = "triggering"]
      /\ tggs' = [tggs EXCEPT ![s] = T] /\ stored' = [stored EXCEPT ![s] = T]
      /\ UNCHANGED <<ctxDone, flag, found, crossed, accPc, pipePc, items, out, published, processed>>
  BY Zenon DEF PL!Store, PL!pipeVars, PL!finding
<1> HIDE DEF T
<1>3. PipeTypes'
  BY <1>1, <1>2, Zenon DEF PipeInv, PipeTypes
<1>4. Remembers' /\ MirrorsTargets'
  BY <1>2 DEF PipeInv, Remembers, MirrorsTargets, PL!MirrorsTargets, PL!Known
<1>5. Accumulated'
  BY <1>1, <1>2, Zenon DEF PipeInv, PipeTypes, Accumulated
<1>6. \A e \in Discoverer, r \in Source : /\ e # d => (PL!Holds(e, r)' <=> PL!Holds(e, r))
                                          /\ e # d => hand'[e] = hand[e]
                                          /\ ~PL!Holds(d, r)'
                                          /\ r # s => ~PL!Holds(d, r)
  BY <1>1, <1>2, Zenon DEF PipeInv, PipeTypes, PL!Holds
<1>7. Uncrossed'
  <2> SUFFICES ASSUME NEW r \in Source, r \notin crossed
               PROVE  /\ \A e \in Discoverer : PL!Holds(e, r)' =>
                           /\ hand'[e][2] = found[r]
                           /\ \A g \in Discoverer : PL!Holds(g, r)' => g = e
                      /\ (\A e \in Discoverer : ~PL!Holds(e, r)') => stored'[r] = found[r]
    BY <1>2, Zenon DEF Uncrossed
  <2>1. CASE r = s
    <3>1. T = found[s] /\ \A e \in Discoverer : PL!Holds(e, s) => e = d
      BY <1>1, <2>1, Zenon DEF PipeInv, Uncrossed, T
    <3>2. stored'[s] = T
      BY <1>1, <1>2, Zenon DEF PipeInv, PipeTypes
    <3> QED BY <1>1, <1>6, <2>1, <3>1, <3>2, Zenon
  <2>2. CASE r # s
    <3>1. stored'[r] = stored[r]
      BY <1>2, <2>2, Zenon DEF PipeInv, PipeTypes
    <3>2. \A e \in Discoverer : (PL!Holds(e, r)' <=> PL!Holds(e, r)) /\ (PL!Holds(e, r) => e # d)
      BY <1>6, <2>2, Zenon
    <3>3. /\ \A e \in Discoverer : PL!Holds(e, r) => hand[e][2] = found[r]
          /\ \A e, g \in Discoverer : PL!Holds(e, r) /\ PL!Holds(g, r) => g = e
          /\ (\A e \in Discoverer : ~PL!Holds(e, r)) => stored[r] = found[r]
      BY Zenon DEF PipeInv, Uncrossed
    <3>4. \A e \in Discoverer : PL!Holds(e, r) => hand'[e] = hand[e]
      BY <1>6, <3>2, Zenon
    <3> QED BY <3>1, <3>2, <3>3, <3>4, Zenon
  <2> QED BY <2>1, <2>2, Zenon
<1> QED BY <1>3, <1>4, <1>5, <1>7, Zenon DEF PipeInv

\* No step of a discoverer, of the accumulator, of the pipeline or of its receiver
\* breaks the invariant.
LEMMA PipeStep == PipeInv /\ [PL!Next]_(PL!vars) => PipeInv'
<1> SUFFICES ASSUME PipeInv, [PL!Next]_(PL!vars) PROVE PipeInv'
  OBVIOUS
<1>0. PipeTypes /\ Remembers /\ MirrorsTargets /\ Accumulated /\ Uncrossed
  BY Zenon DEF PipeInv
<1>a. ASSUME UNCHANGED PL!pipeVars, pipePc' = pipePc \/ (pipePc # "send" /\ pipePc' # "send"),
             ctxDone' = ctxDone \/ ctxDone' = TRUE
      PROVE  Remembers' /\ MirrorsTargets'
  BY <1>0, <1>a DEF PL!pipeVars, Remembers, MirrorsTargets, PL!MirrorsTargets, PL!Known
<1>b. ASSUME UNCHANGED <<hand, found, stored, crossed>> PROVE Uncrossed'
  BY <1>0, <1>b, SameHands, Zenon
<1>1. ASSUME NEW d \in Discoverer, NEW s \in Source, NEW T \in Groups[s], PL!Take(d, s, T)
      PROVE  PipeInv'
  BY <1>1, TakePipe
<1>c. ASSUME NEW d \in Discoverer, PL!Store(d) PROVE PipeInv'
  BY <1>c, StorePipe
<1>2. ASSUME NEW d \in Discoverer, PL!Trigger(d) PROVE PipeInv'
  <2>1. PipeTypes' /\ Accumulated'
    BY <1>0, <1>2, Zenon DEF PL!Trigger, PL!pipeVars, PL!finding, PipeTypes, Accumulated
  <2> QED BY <1>2, <1>a, <1>b, <2>1, Zenon DEF PL!Trigger, PL!finding, PipeInv
<1>3. ASSUME NEW d \in Discoverer, PL!FinderReturns(d) PROVE PipeInv'
  <2>1. PipeTypes'
    BY <1>0, <1>3, Zenon DEF PL!FinderReturns, PL!pipeVars, PL!finding, PipeTypes
  <2>2. Accumulated'
    BY <1>0, <1>3, Zenon DEF PL!FinderReturns, PipeTypes, PL!pipeVars, PL!finding, Accumulated
  <2> QED BY <1>3, <1>a, <1>b, <2>1, <2>2, Zenon DEF PL!FinderReturns, PL!finding, PipeInv
<1>4. CASE PL!Tick \/ PL!LastTry \/ PL!Retry \/ PL!AccumulatorReturns \/ PL!Cancel \/ PL!PipelineReturns
  <2>1. PipeTypes'
    BY <1>0, <1>4, Zenon DEF PL!Tick, PL!LastTry, PL!Retry, PL!AccumulatorReturns, PL!Cancel,
       PL!PipelineReturns, PL!Tried, PL!accVars, PL!finding, PL!pipeVars, PipeTypes
  <2>2. Accumulated'
    BY <1>0, <1>4, Zenon DEF PL!Tick, PL!LastTry, PL!Retry, PL!AccumulatorReturns, PL!Cancel,
       PL!PipelineReturns, PL!Tried, PL!accVars, PL!finding, PL!pipeVars, Accumulated
  <2>3. Remembers' /\ MirrorsTargets'
    BY <1>4, <1>a, Zenon DEF PL!Tick, PL!LastTry, PL!Retry, PL!AccumulatorReturns, PL!Cancel,
       PL!PipelineReturns
  <2>4. Uncrossed'
    BY <1>4, <1>b, Zenon DEF PL!Tick, PL!LastTry, PL!Retry, PL!AccumulatorReturns, PL!Cancel,
       PL!PipelineReturns, PL!accVars, PL!finding
  <2> QED BY <2>1, <2>2, <2>3, <2>4, Zenon DEF PipeInv
<1>5. CASE PL!Receive
  BY <1>5, ReceivePipe, Zenon
<1>6. CASE PL!Send \/ PL!SendAbandoned
  <2>1. /\ UNCHANGED <<finders, hand, tggs, flag, found, stored, crossed, accPc, items, processed, ctxDone>>
        /\ pipePc = "send" /\ pipePc' = "select" /\ out' = PL!NoGroups
    BY <1>6, Zenon DEF PL!Send, PL!SendAbandoned, PL!accVars, PL!finding
  <2>3. PipeTypes' /\ Accumulated'
    BY <1>0, <1>6, <2>1, Zenon DEF PL!Send, PL!SendAbandoned, PipeTypes, Accumulated, PL!NoGroups
  <2>4. Remembers' /\ MirrorsTargets'
    BY <1>0, <1>6, <2>1 DEF PL!Send, PL!SendAbandoned, PL!NoGroups, Remembers, PL!Known,
       MirrorsTargets, PL!MirrorsTargets
  <2>2. Uncrossed'
    BY <1>b, <2>1, Zenon
  <2> QED BY <2>2, <2>3, <2>4, Zenon DEF PipeInv
<1>7. CASE PL!Terminated \/ UNCHANGED PL!vars
  <2>1. UNCHANGED PL!vars
    BY <1>7, Zenon DEF PL!Terminated
  <2>2. PipeTypes' /\ Accumulated'
    BY <1>0, <2>1, Zenon DEF PL!vars, PL!accVars, PL!finding, PL!pipeVars, PipeTypes, Accumulated
  <2> QED BY <1>a, <1>b, <2>1, <2>2, Zenon DEF PL!vars, PL!accVars, PL!finding, PipeInv
<1> QED BY <1>1, <1>c, <1>2, <1>3, <1>4, <1>5, <1>6, <1>7, Zenon DEF PL!Next, PL!Running

\* Nothing has been found, processed or published at first.
LEMMA PipeInit == PL!Init => PipeInv
<1> SUFFICES ASSUME PL!Init PROVE PipeInv
  OBVIOUS
<1>1. PipeTypes
  BY Zenon DEF PL!Init, PL!NoGroups, PipeTypes
<1>2. Remembers
  BY Zenon DEF PL!Init, PL!NoGroups, Remembers, PL!Known, PL!WithConfigs
<1>3. MirrorsTargets
  BY Zenon DEF PL!Init, PL!NoGroups, MirrorsTargets, PL!MirrorsTargets, PL!Configs
<1>4. Accumulated
  BY Zenon DEF PL!Init, PL!NoGroups, Accumulated
<1>5. Uncrossed
  BY Zenon DEF PL!Init, Uncrossed, PL!Holds
<1> QED BY <1>1, <1>2, <1>3, <1>4, <1>5, Zenon DEF PipeInv

\* The inductive invariant of the pipeline.
LEMMA PipeInvariance == PL!Spec => []PipeInv
BY PipeInit, PipeStep, PTL DEF PL!Spec

\* For any sources, targets and rules: what the pipeline last told its receiver of
\* a source, or is telling it, is what the targets it saw last compose to
\* (Pipeline.processGroups, processGroup).
THEOREM MirrorsTargetsCorrect == PL!Spec => []MirrorsTargets
<1>1. PipeInv => MirrorsTargets
  BY Zenon DEF PipeInv
<1> QED BY <1>1, PipeInvariance, PTL

\* The accumulator has nothing to do, the pipeline waits for it and no
\* runDiscoverer is on its way from the channel to the flag.
Resting == /\ ~ctxDone /\ accPc = "loop" /\ ~flag /\ pipePc = "select"
           /\ \A d \in Discoverer : finders[d] \in {"receiving", "returned"}

\* A group that has been stored is never forgotten: when all rest, the receiver has
\* the configs of the group of every source that was stored last, and this is the
\* newest one unless it met an older one in another hand.
RestsDelivered ==
  Resting => \A s \in Source : /\ published[s] = PL!Configs(stored[s])
                               /\ s \in crossed \/ stored[s] = found[s]

\* For any discoverers, sources, targets and rules: a lull of the accumulator
\* means that everything stored has been delivered, and that it is the newest of
\* every source whose groups did not cross between channel and mutex
\* (accumulator.run, runDiscoverer, trySend, Pipeline.processGroups).
THEOREM RestsDeliveredCorrect == PL!Spec => []RestsDelivered
<1>1. PipeInv => RestsDelivered
  <2> SUFFICES ASSUME PipeInv, Resting, NEW s \in Source
               PROVE  published[s] = PL!Configs(stored[s]) /\ (s \in crossed \/ stored[s] = found[s])
    BY Zenon DEF RestsDelivered
  <2>1. tggs = PL!NoGroups /\ out = PL!NoGroups
    <3>1. \A d \in Discoverer : finders[d] # "triggering"
      BY Zenon DEF Resting
    <3> QED BY <3>1, Zenon DEF PipeInv, Resting, Accumulated, Remembers
  <2>2. stored[s] = processed[s]
    BY <2>1, Zenon DEF PipeInv, Accumulated, PL!NoGroups
  <2>3. \A d \in Discoverer : ~PL!Holds(d, s)
    <3>1. \A d \in Discoverer : finders[d] # "storing"
      BY Zenon DEF Resting
    <3> QED BY <3>1, Zenon DEF PipeInv, PipeTypes, PL!Holds
  <2>4. s \in crossed \/ stored[s] = found[s]
    BY <2>3, Zenon DEF PipeInv, Uncrossed
  <2> QED BY <2>1, <2>2, <2>4, Zenon DEF PipeInv, Resting, MirrorsTargets, PL!MirrorsTargets, PL!NoGroups
<1> QED BY <1>1, PipeInvariance, PTL
=============================================================================
