-------------------------- MODULE DiscoveryProofs ---------------------------
(***************************************************************************)
(* The safety properties of ConfGroupCache, for any set of sources, and    *)
(* those of FileDiscovery, for any set of files and any contents, writes   *)
(* and faults.                                                             *)
(*                                                                         *)
(* A group on its way passes from the watcher to the relay, to the inbox   *)
(* and to the cache, and none of these steps changes what the receiver     *)
(* will have in the end (Final).  Only the watcher changes it: it reads a  *)
(* file it has just put into its cache (Reading), and it drops a file from *)
(* its cache only together with an empty group.                            *)
(*                                                                         *)
(* The properties of DiscoveryManager, for any sources and discoverers.    *)
(* The inductive invariant joins the types, the order of versions along    *)
(* cache, hands and consumer, and the two properties themselves:           *)
(* VersionsOrdered is what makes every delivery news (the refinement), the *)
(* clause of TypeOK on held is what lets NewestSurvives forget held once   *)
(* mustSend is over.                                                       *)
(***************************************************************************)
EXTENDS MCDiscovery, ConfGroupProofs

-----------------------------------------------------------------------------
(* The cache on its own: ConfGroupCache *)

Inv == TypeOK /\ CountsSources

\* Inv in the terms of ConfGroupProofs.
LEMMA InvCounts == Inv => Counted(cache)
BY Zenon DEF Inv, TypeOK, CountsSources, Counted

\* The cache is empty at first.
LEMMA InitInv == Init => Inv
<1> SUFFICES ASSUME Init PROVE Inv
  OBVIOUS
<1>1. Counted(cache) /\ last \in [added: SUBSET Hash, removed: SUBSET Hash]
  BY NewCacheCounts, Zenon DEF Init
<1>2. \A h \in Hash : cache.hashes[h] \in Nat
  BY <1>1, ProvidedIffCounted, Zenon DEF Counted
<1> QED BY <1>1, <1>2, Zenon DEF Inv, TypeOK, CountsSources, Counted

\* Add keeps the types and the counters.
LEMMA AddInv ==
  ASSUME Inv, NEW g \in Group, Add(g)
  PROVE  Inv'
<1>1. cache' = CacheAdd(cache, g).cache /\ Counted(cache)
  BY InvCounts, Zenon DEF Add
<1>2. Counted(cache)'
  BY <1>1, AddKeepsCounts, Zenon
<1>3. last' \in [added: SUBSET Hash, removed: SUBSET Hash]
  BY <1>1, AddType, Zenon DEF Add, Counted
<1>4. \A h \in Hash : cache'.hashes[h] \in Nat
  BY <1>2, ProvidedIffCounted, Zenon DEF Counted
<1> QED BY <1>2, <1>3, <1>4, Zenon DEF Inv, TypeOK, CountsSources, Counted

\* Nothing changes.
LEMMA StutterInv ==
  ASSUME Inv, UNCHANGED vars
  PROVE  Inv'
  BY Zenon DEF Inv, TypeOK, CountsSources, vars

\* The inductive invariant of the cache.
LEMMA Invariance == Spec => []Inv
<1>1. Inv /\ [Next]_vars => Inv'
  BY AddInv, StutterInv, Zenon DEF Next
<1> QED BY InitInv, <1>1, PTL DEF Spec

\* The types, and with them that no reference count is ever decremented below
\* zero: confgroup.Cache.Add cannot wrap a counter around.
THEOREM TypeCorrect == Spec => []TypeOK
  BY Invariance, PTL DEF Inv

\* Reference counts are the numbers of providing sources, for any number of
\* sources and configs and any sequence of groups given to Cache.Add.
THEOREM CountsCorrect == Spec => []CountsSources
  BY Invariance, PTL DEF Inv

\* One call of Add.
LEMMA AddExact ==
  ASSUME Inv, NEW g \in Group, Add(g)
  PROVE  /\ last'.added = Provided(cache)' \ Provided(cache)
         /\ last'.removed = Provided(cache) \ Provided(cache)'
  BY InvCounts, AddReportsDifference, Zenon DEF Add

\* What Cache.Add returns is exactly the change of the set of provided configs,
\* for any number of sources: the job manager is told of every config that
\* appears or disappears, once, and of no other.
THEOREM ReportsCorrect == Spec => ReportsExactDifference
<1>1. Inv /\ [Next]_vars => [/\ last'.added = Provided(cache)' \ Provided(cache)
                             /\ last'.removed = Provided(cache) \ Provided(cache)']_vars
  BY AddExact, Zenon DEF Next
<1> QED BY Invariance, <1>1, PTL DEF Spec, ReportsExactDifference

-----------------------------------------------------------------------------
(* The discovery *)

MaybeGroup == (SUBSET Hash) \cup {NoGroup}

Types == /\ mtime \in [File -> Nat] /\ writes \in Nat
         /\ content \in [File -> (SUBSET Hash) \cup {Malformed}]
         /\ cached \in [File -> Nat] /\ groups \in [File -> MaybeGroup]
         /\ relay \in [Source -> MaybeGroup] /\ inbox \in [Source -> MaybeGroup]

\* A file that is being read is in the watcher's cache.
Reading == \A f \in File : f \in reading => cached[f] # 0

DiscoveryInv == Inv /\ Types /\ Reading /\ PublishedIsCached

LEMMA DiscoveryInitInv == DiscoveryInit => DiscoveryInv
<1> SUFFICES ASSUME DiscoveryInit PROVE DiscoveryInv
  OBVIOUS
<1>1. Init /\ Inv
  BY InitInv, Zenon DEF DiscoveryInit
<1>2. Types /\ Reading
  BY Zenon DEF MaybeGroup, DiscoveryInit, Watcher!Init, Watcher!NoGroups, None, Types, Reading
<1>3. PublishedIsCached
  BY <1>1, FileDiscoveryAssumption
     DEF DiscoveryInit, Watcher!Init, Watcher!NoGroups, None, Init, NewCache,
         PublishedIsCached, Final, OnItsWay
<1> QED BY <1>1, <1>2, <1>3, Zenon DEF DiscoveryInv

\* The steps that leave the receiver's side alone, and every cached file and
\* every group that the watcher holds, too.
LEMMA WatcherRests ==
  ASSUME DiscoveryInv, UNCHANGED <<cacheVars, relay, inbox, cached, groups>>,
         reading' \subseteq reading, Types', ctxDone' = ctxDone \/ ctxDone' = TRUE
  PROVE  DiscoveryInv'
<1>1. Inv'
  BY StutterInv, Zenon DEF DiscoveryInv, cacheVars, vars
<1>2. Reading'
  BY Zenon DEF DiscoveryInv, Reading
<1>3. \A f \in File : Final(f)' = Final(f)
  BY Zenon DEF Final, OnItsWay, cacheVars
<1>4. PublishedIsCached'
  BY <1>3, Zenon DEF DiscoveryInv, PublishedIsCached
<1> QED BY <1>1, <1>2, <1>4, Zenon DEF DiscoveryInv

\* The directory changes.
LEMMA DirectoryInv ==
  ASSUME DiscoveryInv, Watcher!Directory, UNCHANGED <<cacheVars, relay, inbox, reader>>
  PROVE  DiscoveryInv'
<1>1. UNCHANGED <<ctxDone, cached, reading, groups>>
  BY Zenon DEF Watcher!Directory, Watcher!Delete, Watcher!Write
<1>2. mtime' \in [File -> Nat] /\ writes' \in Nat /\ content' \in [File -> (SUBSET Hash) \cup {Malformed}]
  BY DEF DiscoveryInv, Types, Watcher!Directory, Watcher!Delete, Watcher!Write
<1>3. Types'
  BY <1>1, <1>2, Zenon DEF DiscoveryInv, Types
<1> QED BY <1>1, <1>3, WatcherRests, Zenon

\* Lstat: the file is cached, whatever is on its way.
LEMMA LstatInv ==
  ASSUME DiscoveryInv, NEW f \in File, Watcher!Lstat(f),
         UNCHANGED <<cacheVars, relay, inbox, reader>>
  PROVE  DiscoveryInv'
<1>1. /\ mtime[f] # 0 /\ cached' = [cached EXCEPT ![f] = mtime[f]] /\ reading' \subseteq {f}
      /\ UNCHANGED <<ctxDone, mtime, content, writes, groups>>
  BY Zenon DEF Watcher!Lstat, Watcher!dirVars
<1>2. Inv'
  BY StutterInv, Zenon DEF DiscoveryInv, cacheVars, vars
<1>3. Types' /\ Reading'
  BY <1>1, Zenon DEF DiscoveryInv, Types, Reading
<1>4. \A g \in File : Final(g)' = Final(g)
  BY <1>1, Zenon DEF Final, OnItsWay, cacheVars
<1>5. \A g \in File : cached'[g] = 0 => cached[g] = 0
  BY <1>1, Zenon DEF DiscoveryInv, Types
<1>6. PublishedIsCached'
  BY <1>1, <1>4, <1>5, Zenon DEF DiscoveryInv, PublishedIsCached
<1> QED BY <1>2, <1>3, <1>6, Zenon DEF DiscoveryInv

\* The file that is parsed is cached.
LEMMA ParseInv ==
  ASSUME DiscoveryInv, NEW f \in File, Watcher!Parse(f),
         UNCHANGED <<cacheVars, relay, inbox, reader>>
  PROVE  DiscoveryInv'
<1>1. /\ f \in reading /\ content[f] # Malformed /\ reading' = {}
      /\ groups' = [groups EXCEPT ![f] = content[f]]
      /\ UNCHANGED <<ctxDone, mtime, content, writes, cached>>
  BY Zenon DEF Watcher!Parse, Watcher!dirVars
<1>2. Inv'
  BY StutterInv, Zenon DEF DiscoveryInv, cacheVars, vars
<1>3. Types' /\ Reading'
  BY <1>1, Zenon DEF DiscoveryInv, Types, MaybeGroup, Reading
<1>4. \A g \in File : g # f => groups'[g] = groups[g]
  BY <1>1, Zenon DEF DiscoveryInv, Types
<1>5. \A g \in File : g # f => Final(g)' = Final(g)
  BY <1>4, Zenon DEF Final, OnItsWay, cacheVars
<1>6. cached'[f] # 0
  BY <1>1, Zenon DEF DiscoveryInv, Reading
<1>7. PublishedIsCached'
  BY <1>1, <1>5, <1>6, Zenon DEF DiscoveryInv, PublishedIsCached
<1> QED BY <1>2, <1>3, <1>7, Zenon DEF DiscoveryInv

\* The files that have gone leave the cache, each with an empty group.
LEMMA SendGroupsInv ==
  ASSUME DiscoveryInv, Watcher!SendGroups, UNCHANGED <<cacheVars, relay, inbox, reader>>
  PROVE  DiscoveryInv'
<1> DEFINE G == Watcher!Gone
<1> HIDE DEF G
<1>1. /\ cached' = [f \in File |-> IF f \in G THEN 0 ELSE cached[f]]
      /\ groups' = [f \in File |-> IF f \in G THEN {} ELSE groups[f]]
      /\ reading = {} /\ reading' = {} /\ UNCHANGED <<ctxDone, mtime, content, writes>>
  BY Zenon DEF Watcher!SendGroups, Watcher!dirVars, G
<1>2. Inv'
  BY StutterInv, Zenon DEF DiscoveryInv, cacheVars, vars
<1>3. Types' /\ Reading'
  BY <1>1, Zenon DEF DiscoveryInv, Types, Reading, MaybeGroup
<1>4. ASSUME NEW f \in File, cached'[f] = 0, ~ctxDone PROVE Final(f)' = {}
  BY <1>1, <1>4, FileDiscoveryAssumption, Zenon DEF Final, OnItsWay, cacheVars, DiscoveryInv,
     PublishedIsCached
<1>5. PublishedIsCached'
  BY <1>1, <1>4, Zenon DEF PublishedIsCached
<1> QED BY <1>2, <1>3, <1>5, Zenon DEF DiscoveryInv

\* The groups are dropped: the context is done.
LEMMA AbandonedInv ==
  ASSUME DiscoveryInv, Watcher!SendAbandoned, UNCHANGED <<cacheVars, relay, inbox, reader>>
  PROVE  DiscoveryInv'
<1>1. /\ ctxDone /\ ctxDone' = ctxDone /\ groups' = [f \in File |-> NoGroup]
      /\ UNCHANGED <<mtime, content, writes, cached, reading>>
  BY Zenon DEF Watcher!SendAbandoned, Watcher!Sent, Watcher!dirVars, Watcher!NoGroups
<1>2. Inv'
  BY StutterInv, Zenon DEF DiscoveryInv, cacheVars, vars
<1>3. Types' /\ Reading'
  BY <1>1, Zenon DEF MaybeGroup, DiscoveryInv, Types, Reading
<1> QED BY <1>1, <1>2, <1>3, Zenon DEF DiscoveryInv, PublishedIsCached

LEMMA WatcherInv ==
  ASSUME DiscoveryInv, Watcher!Internal, UNCHANGED <<cacheVars, relay, inbox, reader>>
  PROVE  DiscoveryInv'
<1>1. CASE Watcher!Directory
  BY <1>1, DirectoryInv, Zenon
<1>2. CASE Watcher!FirstRefresh \/ Watcher!Tick \/ \E f \in File, created \in BOOLEAN : Watcher!Event(f, created)
  <2>1. UNCHANGED <<ctxDone, mtime, content, writes, cached, reading, groups>>
    BY <1>2, Zenon DEF Watcher!FirstRefresh, Watcher!Tick, Watcher!Event, Watcher!Refresh,
       Watcher!dirVars
  <2>2. Types'
    BY <2>1, Zenon DEF DiscoveryInv, Types
  <2> QED BY <2>1, <2>2, WatcherRests, Zenon
<1>3. CASE \/ Watcher!NewWatcherFails \/ Watcher!Return \/ Watcher!Cancel
           \/ \E f \in File : Watcher!Unseen(f) \/ Watcher!ParseFails(f)
  <2>1. /\ UNCHANGED <<mtime, content, writes, cached, groups>>
        /\ reading' \subseteq reading /\ (ctxDone' = ctxDone \/ ctxDone' = TRUE)
    BY <1>3, Zenon DEF Watcher!NewWatcherFails, Watcher!Return, Watcher!Cancel, Watcher!Unseen,
       Watcher!ParseFails, Watcher!dirVars
  <2>2. Types'
    BY <2>1, Zenon DEF DiscoveryInv, Types
  <2> QED BY <2>1, <2>2, WatcherRests, Zenon
<1>4. ASSUME NEW f \in File, Watcher!Lstat(f) PROVE DiscoveryInv'
  BY <1>4, LstatInv, Zenon
<1>5. ASSUME NEW f \in File, Watcher!Parse(f) PROVE DiscoveryInv'
  BY <1>5, ParseInv, Zenon
<1>6. CASE Watcher!SendGroups
  BY <1>6, SendGroupsInv, Zenon
<1>7. CASE Watcher!SendAbandoned
  BY <1>7, AbandonedInv, Zenon
<1> QED BY <1>1, <1>2, <1>3, <1>4, <1>5, <1>6, <1>7, Zenon DEF Watcher!Internal, Watcher!RefreshStep
-----------------------------------------------------------------------------
(* The way of the groups *)

\* A step that hands groups on without changing what the receiver will have.
LEMMA HandedOn ==
  ASSUME DiscoveryInv, Inv', Types',
         UNCHANGED <<ctxDone, cached, reading>>,
         \A f \in File : Final(f)' = Final(f)
  PROVE  DiscoveryInv'
BY Zenon DEF DiscoveryInv, Reading, PublishedIsCached

LEMMA RelayReceivesInv == DiscoveryInv /\ RelayReceives => DiscoveryInv'
<1> SUFFICES ASSUME DiscoveryInv, RelayReceives PROVE DiscoveryInv'
  OBVIOUS
<1>1. /\ relay = [s \in Source |-> NoGroup] /\ relay' = OfFiles(groups)
      /\ groups' = [f \in File |-> NoGroup]
      /\ UNCHANGED <<cacheVars, inbox, ctxDone, mtime, content, writes, cached, reading>>
  BY Zenon DEF RelayReceives, Watcher!Sent, Watcher!NoGroups, Watcher!dirVars, None
<1>2. Inv'
  BY <1>1, StutterInv, Zenon DEF DiscoveryInv, cacheVars, vars
<1>3. NoGroup \in MaybeGroup
  BY Zenon DEF MaybeGroup
<1>4. relay' \in [Source -> MaybeGroup]
  BY <1>1, <1>3, Zenon DEF OfFiles, DiscoveryInv, Types
<1>5. Types'
  BY <1>1, <1>3, <1>4, Zenon DEF DiscoveryInv, Types
<1>6. \A f \in File : /\ groups'[f] = NoGroup /\ relay[f] = NoGroup
                      /\ relay'[f] = groups[f] /\ inbox'[f] = inbox[f]
  BY <1>1, FileDiscoveryAssumption, Zenon DEF OfFiles
<1>7. \A f \in File : Final(f)' = Final(f)
  BY <1>1, <1>6, Zenon DEF Final, OnItsWay, cacheVars
<1> QED BY <1>1, <1>2, <1>5, <1>7, HandedOn, Zenon

LEMMA RelaySendsInv == DiscoveryInv /\ RelaySends => DiscoveryInv'
<1> SUFFICES ASSUME DiscoveryInv, RelaySends PROVE DiscoveryInv'
  OBVIOUS
<1>1. /\ inbox = [s \in Source |-> NoGroup] /\ inbox' = relay
      /\ relay' = [s \in Source |-> NoGroup]
      /\ UNCHANGED <<cacheVars, ctxDone, mtime, content, writes, cached, reading, groups>>
  BY Zenon DEF RelaySends, None, watcherVars
<1>2. Inv'
  BY <1>1, StutterInv, Zenon DEF DiscoveryInv, cacheVars, vars
<1>3. NoGroup \in MaybeGroup
  BY Zenon DEF MaybeGroup
<1>4. Types'
  BY <1>1, <1>3, Zenon DEF DiscoveryInv, Types
<1>5. \A f \in File : inbox[f] = NoGroup /\ relay'[f] = NoGroup
  BY <1>1, FileDiscoveryAssumption, Zenon
<1>6. \A f \in File : OnItsWay(f)' = OnItsWay(f)
  BY <1>1, <1>5, Zenon DEF OnItsWay
<1>7. \A f \in File : Final(f)' = Final(f)
  BY <1>1, <1>6, Zenon DEF Final, cacheVars
<1> QED BY <1>1, <1>2, <1>4, <1>7, HandedOn, Zenon

LEMMA RelayDropsInv == DiscoveryInv /\ RelayDrops => DiscoveryInv'
<1> SUFFICES ASSUME DiscoveryInv, RelayDrops PROVE DiscoveryInv'
  OBVIOUS
<1>1. /\ ctxDone /\ relay' = [s \in Source |-> NoGroup]
      /\ UNCHANGED <<cacheVars, ctxDone, inbox, mtime, content, writes, cached, reading, groups>>
  BY Zenon DEF RelayDrops, None, watcherVars
<1>2. Inv'
  BY <1>1, StutterInv, Zenon DEF DiscoveryInv, cacheVars, vars
<1>3. NoGroup \in MaybeGroup
  BY Zenon DEF MaybeGroup
<1>4. Types' /\ Reading'
  BY <1>1, <1>3, Zenon DEF DiscoveryInv, Types, Reading
<1> QED BY <1>1, <1>2, <1>4, Zenon DEF DiscoveryInv, PublishedIsCached

\* The reader's groups are not those of a watched file.
LEMMA ReaderSendsInv == DiscoveryInv /\ ReaderSends => DiscoveryInv'
<1> SUFFICES ASSUME DiscoveryInv, ReaderSends PROVE DiscoveryInv'
  OBVIOUS
<1> PICK g \in [ReadFile -> MaybeGroup] :
           inbox' = [s \in Source |-> IF s \in ReadFile THEN g[s] ELSE NoGroup]
  BY Zenon DEF ReaderSends, MaybeGroup
<1>1. /\ inbox = [s \in Source |-> NoGroup]
      /\ UNCHANGED <<cacheVars, ctxDone, relay, mtime, content, writes, cached, reading, groups>>
  BY Zenon DEF ReaderSends, None, watcherVars
<1>2. Inv'
  BY <1>1, StutterInv, Zenon DEF DiscoveryInv, cacheVars, vars
<1>3. NoGroup \in MaybeGroup
  BY Zenon DEF MaybeGroup
<1>4. Types'
  BY <1>1, <1>3, Zenon DEF DiscoveryInv, Types
<1>5. \A f \in File : inbox'[f] = inbox[f]
  BY <1>1, FileDiscoveryAssumption, Zenon
<1>6. \A f \in File : OnItsWay(f)' = OnItsWay(f)
  BY <1>1, <1>5 DEF OnItsWay
<1>7. \A f \in File : Final(f)' = Final(f)
  BY <1>1, <1>6, Zenon DEF Final, cacheVars
<1> QED BY <1>1, <1>2, <1>4, <1>7, HandedOn, Zenon

\* Add makes the group of a source its entry in the cache.
LEMMA ApplyInv ==
  ASSUME DiscoveryInv, NEW s \in Source, Apply(s)
  PROVE  /\ DiscoveryInv'
         /\ last'.added = Provided(cache)' \ Provided(cache)
         /\ last'.removed = Provided(cache) \ Provided(cache)'
<1> DEFINE g == [source |-> s, configs |-> inbox[s]]
<1>1. inbox[s] \in SUBSET Hash /\ inbox[s] # NoGroup
  BY Zenon DEF Apply, DiscoveryInv, Types, MaybeGroup
<1>2. g \in Group /\ g.source = s /\ g.configs = inbox[s] /\ Add(g)
  BY <1>1, Zenon DEF Group, Apply
<1>3. /\ inbox' = [inbox EXCEPT ![s] = NoGroup]
      /\ UNCHANGED <<ctxDone, relay, mtime, content, writes, cached, reading, groups>>
  BY Zenon DEF Apply, watcherVars
<1> HIDE DEF g
<1>4. Inv'
  BY <1>2, AddInv, Zenon DEF DiscoveryInv
<1>5. NoGroup \in MaybeGroup
  BY Zenon DEF MaybeGroup
<1>6. Types'
  BY <1>3, <1>5, Zenon DEF DiscoveryInv, Types
<1>7. cache \in Cache /\ cache'.sources = [cache.sources EXCEPT ![s] = inbox[s]]
  BY <1>2, AddSources DEF Add, DiscoveryInv, Inv, TypeOK
<1>8. \A f \in File : /\ inbox'[f] = (IF f = s THEN NoGroup ELSE inbox[f])
                      /\ cache'.sources[f] = (IF f = s THEN inbox[s] ELSE cache.sources[f])
  BY <1>3, <1>7, FileDiscoveryAssumption, Zenon DEF DiscoveryInv, Types, Cache
<1>9. ASSUME NEW f \in File, f # s PROVE Final(f)' = Final(f)
  BY <1>3, <1>8, <1>9, Zenon DEF Final, OnItsWay
<1>10. s \in File => Final(s)' = Final(s)
  BY <1>1, <1>3, <1>8, Zenon DEF Final, OnItsWay
<1>11. DiscoveryInv'
  BY <1>3, <1>4, <1>6, <1>9, <1>10, HandedOn, Zenon
<1> QED BY <1>2, <1>11, AddExact, Zenon DEF DiscoveryInv

\* A step of the composition applies a group, or leaves the cache alone.
LEMMA DiscoveryStepInv ==
  ASSUME DiscoveryInv, [DiscoveryNext]_allVars
  PROVE  DiscoveryInv' /\ [/\ last'.added = Provided(cache)' \ Provided(cache)
                           /\ last'.removed = Provided(cache) \ Provided(cache)']_vars
<1>1. CASE Watcher!Internal /\ UNCHANGED <<cacheVars, relay, inbox, reader>>
  BY <1>1, WatcherInv, Zenon DEF cacheVars, vars
<1>2. CASE RelayReceives
  BY <1>2, RelayReceivesInv, Zenon DEF RelayReceives, cacheVars, vars
<1>3. CASE RelaySends
  BY <1>3, RelaySendsInv, Zenon DEF RelaySends, cacheVars, vars
<1>4. CASE RelayDrops
  BY <1>4, RelayDropsInv, Zenon DEF RelayDrops, cacheVars, vars
<1>5. CASE ReaderSends
  BY <1>5, ReaderSendsInv, Zenon DEF ReaderSends, cacheVars, vars
<1>6. ASSUME NEW s \in Source, Apply(s)
      PROVE  /\ DiscoveryInv'
             /\ last'.added = Provided(cache)' \ Provided(cache)
             /\ last'.removed = Provided(cache) \ Provided(cache)'
  BY <1>6, ApplyInv, Zenon
<1>7. CASE ReaderReturns \/ Terminated \/ UNCHANGED allVars
  <2>1. UNCHANGED <<cacheVars, watcherVars, relay, inbox>>
    BY <1>7, Zenon DEF ReaderReturns, Terminated, allVars
  <2>2. Types'
    BY <2>1, Zenon DEF watcherVars, DiscoveryInv, Types
  <2> QED BY <2>1, <2>2, WatcherRests, Zenon DEF watcherVars, cacheVars, vars
<1> QED BY <1>1, <1>2, <1>3, <1>4, <1>5, <1>6, <1>7, Zenon DEF DiscoveryNext, Deliver

\* The strengthened invariant holds throughout.
LEMMA DiscoveryInvariance == DiscoverySpec => []DiscoveryInv
<1>1. DiscoveryInv /\ [DiscoveryNext]_allVars => DiscoveryInv'
  BY DiscoveryStepInv, Zenon
<1> QED BY <1>1, DiscoveryInitInv, PTL DEF DiscoverySpec

\* A file whose configs the receiver has, or is about to get, is in the cache of
\* the watcher, so that its deletion is noticed (refresh in watch.go).
THEOREM PublishedIsCachedCorrect == DiscoverySpec => []PublishedIsCached
<1>1. DiscoveryInv => PublishedIsCached
  BY Zenon DEF DiscoveryInv
<1> QED BY <1>1, DiscoveryInvariance, PTL

\* Fed by the watcher and the reader, Cache.Add still reports exactly how the set
\* of provided configs changed.
THEOREM DiscoveryReportsCorrect == DiscoverySpec => ReportsExactDifference
<1>1. DiscoveryInv /\ [DiscoveryNext]_allVars =>
        [/\ last'.added = Provided(cache)' \ Provided(cache)
         /\ last'.removed = Provided(cache) \ Provided(cache)']_vars
  BY DiscoveryStepInv, Zenon
<1> QED BY <1>1, DiscoveryInvariance, PTL DEF DiscoverySpec, ReportsExactDifference
-----------------------------------------------------------------------------
(* The discovery manager *)

ManagerInv == DM!TypeOK /\ DM!VersionsOrdered /\ DM!NothingStranded /\ DM!NewestSurvives

USE ManagerAssumption

LEMMA ManagerInitInv == DM!Init => ManagerInv
<1> SUFFICES ASSUME DM!Init PROVE ManagerInv
  OBVIOUS
<1> USE DEF DM!Init, DM!NoGroups
<1>1. DM!TypeOK
  BY Zenon DEF DM!TypeOK
<1>2. DM!VersionsOrdered
  BY DEF DM!VersionsOrdered
<1>3. DM!NothingStranded /\ DM!NewestSurvives
  BY Zenon DEF DM!NothingStranded, DM!NewestSurvives
<1> QED BY <1>1, <1>2, <1>3, Zenon DEF ManagerInv

\* A step of runDiscoverer: the new version is above all others of its source.
LEMMA ReceiveManager ==
  ASSUME ManagerInv, NEW d \in Discoverer, NEW S \in SUBSET Origin, DM!Receive(d, S)
  PROVE  ManagerInv'
<1> USE DEF ManagerInv, DM!Receive, DM!Update
<1>1. DM!TypeOK'
  BY DEF DM!TypeOK, DM!NoGroups
<1>2. DM!VersionsOrdered'
  BY DEF DM!TypeOK, DM!VersionsOrdered
<1>3. DM!NothingStranded'
  BY Zenon DEF DM!NothingStranded
<1>4. DM!NewestSurvives'
  BY DEF DM!TypeOK, DM!NewestSurvives
<1> QED BY <1>1, <1>2, <1>3, <1>4, Zenon

\* The steps that leave cache, hands and consumer alone.
LEMMA QuietManager ==
  ASSUME ManagerInv,
         \/ \E d \in Discoverer : DM!DiscovererReturns(d)
         \/ DM!MustTake \/ DM!Tick \/ DM!Retry \/ DM!SenderReturns
         \/ DM!ConsumerReady \/ DM!ConsumerReturns \/ DM!Cancel \/ UNCHANGED DM!vars
  PROVE  ManagerInv'
<1> USE DEF ManagerInv, DM!DiscovererReturns, DM!MustTake, DM!Tick, DM!Retry, DM!SenderReturns,
            DM!ConsumerReady, DM!ConsumerReturns, DM!Cancel, DM!vars
<1>1. DM!TypeOK'
  <2>1. UNCHANGED <<waiting, held, latest, delivered>>
    OBVIOUS
  <2>2. /\ managerDone' \in BOOLEAN /\ flag' \in BOOLEAN /\ running' \subseteq Discoverer
        /\ consumer' \in {"waiting", "busy", "gone"}
    BY Zenon DEF DM!TypeOK
  <2>3. /\ sender' \in {"must", "mustTook", "mustSend", "loop", "tryTook", "done"}
        /\ sender' = "mustSend" <=> sender = "mustSend"
    BY Zenon DEF DM!TypeOK
  <2> HIDE DEF DM!DiscovererReturns, DM!MustTake, DM!Tick, DM!Retry, DM!SenderReturns,
               DM!ConsumerReady, DM!ConsumerReturns, DM!Cancel, DM!vars
  <2> QED BY <2>1, <2>2, <2>3, Zenon DEF DM!TypeOK, DM!NoGroups
<1>2. DM!VersionsOrdered'
  BY Zenon DEF DM!VersionsOrdered
<1>3. DM!NothingStranded'
  BY Zenon DEF DM!NothingStranded, DM!NoGroups
<1>4. DM!NewestSurvives'
  BY Zenon DEF DM!TypeOK, DM!NewestSurvives
<1> QED BY <1>1, <1>2, <1>3, <1>4, Zenon

LEMMA SnapshotManager ==
  ASSUME ManagerInv, DM!MustSnapshot
  PROVE  ManagerInv'
<1> USE DEF ManagerInv, DM!MustSnapshot
<1>1. DM!TypeOK'
  BY Zenon DEF DM!TypeOK, DM!NoGroups
<1>2. DM!VersionsOrdered'
  BY Zenon DEF DM!TypeOK, DM!VersionsOrdered, DM!NoGroups
<1>3. DM!NothingStranded'
  BY Zenon DEF DM!NothingStranded
<1>4. DM!NewestSurvives'
  BY Zenon DEF DM!TypeOK, DM!NewestSurvives, DM!NoGroups
<1> QED BY <1>1, <1>2, <1>3, <1>4, Zenon

LEMMA AbandonManager ==
  ASSUME ManagerInv, DM!MustAbandon
  PROVE  ManagerInv'
<1> USE DEF ManagerInv, DM!MustAbandon, DM!MustInterrupted
<1>1. DM!TypeOK'
  BY Zenon DEF DM!TypeOK, DM!NoGroups
<1>2. DM!VersionsOrdered'
  BY DEF DM!TypeOK, DM!VersionsOrdered, DM!NoGroups
<1>3. DM!NothingStranded'
  BY Zenon DEF DM!NothingStranded
<1>4. DM!NewestSurvives'
  BY Zenon DEF DM!NewestSurvives
<1> QED BY <1>1, <1>2, <1>3, <1>4, Zenon

LEMMA DeliverManager ==
  ASSUME ManagerInv, DM!MustDeliver \/ DM!TrySend
  PROVE  ManagerInv'
<1> USE DEF ManagerInv, DM!MustDeliver, DM!TrySend, DM!Seen
<1>1. DM!TypeOK'
  BY DEF DM!TypeOK, DM!NoGroups
<1>2. DM!VersionsOrdered'
  BY DEF DM!TypeOK, DM!VersionsOrdered, DM!NoGroups
<1>3. DM!NothingStranded'
  BY Zenon DEF DM!NothingStranded, DM!TypeOK
<1>4. DM!NewestSurvives'
  BY DEF DM!TypeOK, DM!NewestSurvives, DM!NoGroups
<1> QED BY <1>1, <1>2, <1>3, <1>4, Zenon

LEMMA ManagerInvariance == DM!Spec => []ManagerInv
<1>1. ManagerInv /\ [DM!Next]_(DM!vars) => ManagerInv'
  <2> SUFFICES ASSUME ManagerInv, [DM!Next]_(DM!vars) PROVE ManagerInv'
    OBVIOUS
  <2> QED BY ReceiveManager, QuietManager, SnapshotManager, AbandonManager, DeliverManager, Zenon
          DEF DM!Next, DM!Sender, DM!Terminated
<1> QED BY ManagerInitInv, <1>1, PTL DEF DM!Spec

\* The types of the manager's state, and that mustSend has empty hands outside
\* its send.
THEOREM ManagerTypeCorrect == DM!Spec => []DM!TypeOK
  BY ManagerInvariance, PTL DEF ManagerInv

\* Cached groups are never left without a raised flag or a sender on its way,
\* for any number of sources, discoverers and interleavings of runDiscoverer,
\* mustSend and trySend.
THEOREM NothingStrandedCorrect == DM!Spec => []NothingStranded
  BY ManagerInvariance, PTL DEF ManagerInv, NothingStranded

\* The newest group of a source is never lost before shutdown.
THEOREM NewestSurvivesCorrect == DM!Spec => []DM!NewestSurvives
  BY ManagerInvariance, PTL DEF ManagerInv

\* Versions of a source never go backwards on their way to the consumer.
THEOREM VersionsOrderedCorrect == DM!Spec => []DM!VersionsOrdered
  BY ManagerInvariance, PTL DEF ManagerInv
-----------------------------------------------------------------------------
(* The discovery manager refines the conflating feed: every step is a step *)
(* of the feed or a stutter.                                               *)

LEMMA ReceivePublishes ==
  ASSUME NEW d \in Discoverer, NEW S \in SUBSET Origin, DM!Receive(d, S)
  PROVE  Feed!Next
  BY Zenon DEF DM!Receive, Feed!Next, Feed!Publish

\* Sending the groups g, all of them news, is a delivery of the feed.
LEMMA SeenDelivers ==
  ASSUME ManagerInv, NEW g \in [Origin -> Nat],
         \A s \in Origin : g[s] # 0 => delivered[s] < g[s] /\ g[s] <= latest[s],
         delivered' = DM!Seen(g), UNCHANGED <<latest, managerDone>>
  PROVE  Feed!Next
<1> DEFINE S == {s \in Origin : g[s] # 0}
<1>1. \A s \in Origin : delivered[s] \in 0..latest[s]
  BY DEF ManagerInv, DM!TypeOK, DM!VersionsOrdered
<1>2. \A s \in Origin : DM!Seen(g)[s] \in 0..latest[s]
  BY <1>1 DEF DM!Seen, ManagerInv, DM!TypeOK
<1>3. delivered' \in [Origin -> Feed!Published]
  BY <1>2, Zenon DEF DM!Seen, Feed!Published
<1>4. \A s \in Origin : IF s \in S THEN delivered[s] < delivered'[s] /\ delivered'[s] <= latest[s]
                                   ELSE delivered'[s] = delivered[s]
  BY Zenon DEF DM!Seen
<1>5. Feed!Deliver(S)
  BY <1>3, <1>4, Zenon DEF Feed!Deliver
<1> QED BY <1>5, Zenon DEF Feed!Next

LEMMA DeliverRefines ==
  ASSUME ManagerInv, DM!MustDeliver \/ DM!TrySend
  PROVE  Feed!Next
<1>1. CASE DM!MustDeliver
  <2>1. \A s \in Origin : held[s] # 0 => delivered[s] < held[s] /\ held[s] <= latest[s]
    BY Zenon DEF ManagerInv, DM!VersionsOrdered
  <2>2. held \in [Origin -> Nat]
    BY Zenon DEF ManagerInv, DM!TypeOK
  <2>3. delivered' = DM!Seen(held) /\ UNCHANGED <<latest, managerDone>>
    BY <1>1, Zenon DEF DM!MustDeliver
  <2> QED BY <2>1, <2>2, <2>3, SeenDelivers, Zenon
<1>2. CASE DM!TrySend
  BY <1>2, SeenDelivers, Zenon DEF ManagerInv, DM!VersionsOrdered, DM!TypeOK, DM!TrySend
<1> QED BY <1>1, <1>2, Zenon

LEMMA ManagerRefines == ManagerInv /\ [DM!Next]_(DM!vars) => [Feed!Next]_(Feed!vars)
<1> SUFFICES ASSUME ManagerInv, [DM!Next]_(DM!vars) PROVE [Feed!Next]_(Feed!vars)
  OBVIOUS
<1>1. CASE \E d \in Discoverer : \E S \in SUBSET Origin : DM!Receive(d, S)
  BY <1>1, ReceivePublishes, Zenon
<1>2. CASE DM!MustDeliver \/ DM!TrySend
  BY <1>2, DeliverRefines, Zenon
<1>3. CASE DM!Cancel
  BY <1>3, Zenon DEF DM!Cancel, Feed!Next, Feed!Stop
<1>4. CASE \/ \E d \in Discoverer : DM!DiscovererReturns(d)
           \/ DM!MustTake \/ DM!MustSnapshot \/ DM!MustAbandon \/ DM!Tick \/ DM!Retry \/ DM!SenderReturns
           \/ DM!ConsumerReady \/ DM!ConsumerReturns \/ UNCHANGED DM!vars
  BY <1>4, Zenon DEF DM!DiscovererReturns, DM!MustTake, DM!MustSnapshot, DM!MustAbandon, DM!Tick,
     DM!Retry, DM!SenderReturns, DM!ConsumerReady, DM!ConsumerReturns, DM!vars, Feed!vars
<1> QED BY <1>1, <1>2, <1>3, <1>4, Zenon DEF DM!Next, DM!Sender, DM!Terminated

\* The discovery manager implements the safety part of the conflating feed: a
\* consumer sees increasing versions of each source and only published ones.
THEOREM RefinesFeed == DM!Spec => Feed!Safety
<1>1. DM!Init => Feed!Init
  BY Zenon DEF DM!Init, Feed!Init, DM!NoGroups
<1> QED BY <1>1, ManagerRefines, ManagerInvariance, PTL DEF DM!Spec, Feed!Safety
=============================================================================
