-------------------------- MODULE ConfGroupProofs ---------------------------
(***************************************************************************)
(* What confgroup.Cache.Add computes, for any sets of sources and of       *)
(* configs.  The counters of a cache say how many sources provide a config *)
(* (Counted), so testing a counter for 0 (or for 1, before a decrement)    *)
(* decides whether any other source provides it.                           *)
(***************************************************************************)
EXTENDS ConfGroup, TLAPS

\* The sources after Add: only the entry of the group's source changes, and it
\* becomes the configs of the group (addEmpty and addNotEmpty alike).
LEMMA AddSources ==
  ASSUME NEW c \in Cache, NEW g \in Group
  PROVE  CacheAdd(c, g).cache.sources = [c.sources EXCEPT ![g.source] = g.configs]
  BY Zenon DEF Cache, Group, CacheAdd, AddEmpty, AddNotEmpty, DropsEntry

\* The counters after Add: plus one for a config the source starts to provide,
\* minus one for a config it gives up.
LEMMA AddHashes ==
  ASSUME NEW c \in Cache, NEW g \in Group, NEW h \in Hash
  PROVE  CacheAdd(c, g).cache.hashes[h] =
           c.hashes[h] + Int1(h \in g.configs \ c.sources[g.source])
                       - Int1(h \in c.sources[g.source] \ g.configs)
<1>1. CASE g.configs = {}
  BY <1>1 DEF Cache, Group, CacheAdd, AddEmpty, Int1
<1>2. CASE g.configs # {}
  BY <1>2, Zenon DEF Cache, Group, CacheAdd, AddNotEmpty, NewIn, Int1
<1> QED BY <1>1, <1>2, Zenon

\* Add returns a cache and sets of configs.
LEMMA AddType ==
  ASSUME NEW c \in Cache, NEW g \in Group
  PROVE  /\ CacheAdd(c, g).cache \in Cache
         /\ CacheAdd(c, g).added \in SUBSET Hash
         /\ CacheAdd(c, g).removed \in SUBSET Hash
<1>1. CASE g.configs = {}
  BY <1>1 DEF Cache, Group, CacheAdd, AddEmpty, DropsEntry, Int1
<1>2. CASE g.configs # {}
  BY <1>2 DEF Cache, Group, CacheAdd, AddNotEmpty, NewIn, Int1
<1> QED BY <1>1, <1>2, Zenon

\* The configs Add reports, in terms of the source's old set and the group.
LEMMA AddReports ==
  ASSUME NEW c \in Cache, NEW g \in Group
  PROVE  /\ CacheAdd(c, g).added =
              {h \in g.configs \ c.sources[g.source] : c.hashes[h] = 0}
         /\ CacheAdd(c, g).removed =
              {h \in c.sources[g.source] \ g.configs : c.hashes[h] = 1}
<1>1. \A h \in c.sources[g.source] : c.hashes[h] - 1 = 0 <=> c.hashes[h] = 1
  BY DEF Cache, Group
<1>2. CASE g.configs = {}
  BY <1>1, <1>2, Zenon DEF Cache, Group, CacheAdd, AddEmpty, Vanishes
<1>3. CASE g.configs # {}
  BY <1>1, <1>3, Zenon DEF Cache, Group, CacheAdd, AddNotEmpty, NewIn, Appears, Vanishes
<1> QED BY <1>2, <1>3, Zenon

\* After Add, a config's providers differ from the old ones at most by the
\* source of the group, which joins, leaves or keeps its place.
LEMMA AddProviders ==
  ASSUME NEW c \in Cache, NEW g \in Group, NEW h \in Hash
  PROVE  Providers(CacheAdd(c, g).cache, h) =
           IF h \in g.configs THEN Providers(c, h) \cup {g.source}
                              ELSE Providers(c, h) \ {g.source}
<1> DEFINE d == CacheAdd(c, g).cache.sources
<1>1. g.source \in Source /\ c.sources \in [Source -> SUBSET Hash]
  BY Zenon DEF Group, Cache
<1>2. \A s \in Source : d[s] = IF s = g.source THEN g.configs ELSE c.sources[s]
  <2>1. d = [c.sources EXCEPT ![g.source] = g.configs]
    BY AddSources, Zenon
  <2> HIDE DEF d
  <2> QED BY <1>1, <2>1, Zenon
<1>3. Providers(CacheAdd(c, g).cache, h) = {s \in Source : h \in d[s]}
  BY Zenon DEF Providers
<1> HIDE DEF d
<1>4. CASE h \in g.configs
  BY <1>1, <1>2, <1>3, <1>4, Zenon DEF Providers
<1>5. CASE h \notin g.configs
  BY <1>1, <1>2, <1>3, <1>5, Zenon DEF Providers
<1> QED BY <1>4, <1>5, Zenon

\* The empty set, and only it, has zero elements.
LEMMA CountsNothing ==
  ASSUME NEW n, NEW S, Counts(n, S)
  PROVE  n = 0 <=> S = {}
BY DEF Counts

\* A new element has the number after the last one.
LEMMA CountsJoined ==
  ASSUME NEW n, NEW S, Counts(n, S), NEW s, s \notin S
  PROVE  Counts(n + 1, S \cup {s})
<1>1. PICK e \in [1..n -> S] : /\ \A i, j \in 1..n : e[i] = e[j] => i = j
                               /\ \A t \in S : \E i \in 1..n : e[i] = t
  BY Zenon DEF Counts
<1>2. n \in Nat /\ n + 1 \in Nat
  BY DEF Counts
<1> DEFINE d == [i \in 1..(n + 1) |-> IF i = n + 1 THEN s ELSE e[i]]
<1>3. d \in [1..(n + 1) -> S \cup {s}]
  BY <1>2
<1>4. \A i, j \in 1..(n + 1) : d[i] = d[j] => i = j
  BY <1>1, <1>2
<1>5. \A t \in S \cup {s} : \E i \in 1..(n + 1) : d[i] = t
  BY <1>1, <1>2
<1> HIDE DEF d
<1> QED BY <1>2, <1>3, <1>4, <1>5, Zenon DEF Counts

\* The last element takes the number of the one that leaves.
LEMMA CountsLeft ==
  ASSUME NEW n, NEW S, Counts(n, S), NEW s \in S
  PROVE  Counts(n - 1, S \ {s})
<1>1. PICK e \in [1..n -> S] : /\ \A i, j \in 1..n : e[i] = e[j] => i = j
                               /\ \A t \in S : \E i \in 1..n : e[i] = t
  BY Zenon DEF Counts
<1>2. PICK k \in 1..n : e[k] = s
  BY <1>1, Zenon
<1>3. n \in Nat /\ n - 1 \in Nat
  BY <1>2 DEF Counts
<1> DEFINE d == [i \in 1..(n - 1) |-> IF i = k THEN e[n] ELSE e[i]]
<1>4. d \in [1..(n - 1) -> S \ {s}]
  BY <1>1, <1>2, <1>3
<1>5. \A i, j \in 1..(n - 1) : d[i] = d[j] => i = j
  BY <1>1, <1>2, <1>3
<1>6. ASSUME NEW t \in S \ {s}
      PROVE  \E i \in 1..(n - 1) : d[i] = t
  <2>1. PICK i \in 1..n : e[i] = t
    BY <1>1, Zenon
  <2>2. CASE i = n
    BY <1>2, <1>3, <2>1, <2>2
  <2>3. CASE i # n
    BY <1>2, <1>3, <2>1, <2>3
  <2> QED BY <2>2, <2>3, Zenon
<1> HIDE DEF d
<1> QED BY <1>3, <1>4, <1>5, <1>6, Zenon DEF Counts

\* The number of providers moves with the counter.
LEMMA AddCounts ==
  ASSUME NEW c \in Cache, NEW g \in Group, NEW h \in Hash, NEW n, Counts(n, Providers(c, h))
  PROVE  Counts(n + Int1(h \in g.configs \ c.sources[g.source])
                  - Int1(h \in c.sources[g.source] \ g.configs),
                Providers(CacheAdd(c, g).cache, h))
<1> DEFINE P == Providers(c, h)
<1>1. n \in Nat
  BY Zenon DEF Counts
<1>2. g.source \in P <=> h \in c.sources[g.source]
  BY Zenon DEF Providers, Group
<1>3. Providers(CacheAdd(c, g).cache, h) =
        IF h \in g.configs THEN P \cup {g.source} ELSE P \ {g.source}
  BY AddProviders, Zenon
<1> HIDE DEF P
<1>4. Counts(n, P)
  BY Zenon DEF P
<1>5. CASE h \in g.configs /\ g.source \notin P
  <2>1. n + Int1(h \in g.configs \ c.sources[g.source])
          - Int1(h \in c.sources[g.source] \ g.configs) = n + 1
    BY <1>1, <1>2, <1>5 DEF Int1
  <2> QED BY <1>3, <1>4, <1>5, <2>1, CountsJoined
<1>6. CASE h \notin g.configs /\ g.source \in P
  <2>1. n + Int1(h \in g.configs \ c.sources[g.source])
          - Int1(h \in c.sources[g.source] \ g.configs) = n - 1
    BY <1>1, <1>2, <1>6 DEF Int1
  <2> QED BY <1>3, <1>4, <1>6, <2>1, CountsLeft
<1>7. CASE h \in g.configs <=> g.source \in P
  <2>1. n + Int1(h \in g.configs \ c.sources[g.source])
          - Int1(h \in c.sources[g.source] \ g.configs) = n
    BY <1>1, <1>2, <1>7 DEF Int1
  <2>2. Providers(CacheAdd(c, g).cache, h) = P
    BY <1>3, <1>7, Zenon
  <2> QED BY <1>4, <2>1, <2>2, Zenon
<1> QED BY <1>5, <1>6, <1>7, Zenon

\* The counters of the cache are the numbers of providers.
Counted(c) == c \in Cache /\ \A h \in Hash : Counts(c.hashes[h], Providers(c, h))

\* A config is provided when its counter is not zero.
LEMMA ProvidedIffCounted ==
  ASSUME NEW c, Counted(c), NEW h \in Hash
  PROVE  c.hashes[h] \in Nat /\ (h \in Provided(c) <=> c.hashes[h] # 0)
<1>1. Counts(c.hashes[h], Providers(c, h))
  BY Zenon DEF Counted
<1>2. c.hashes[h] = 0 <=> Providers(c, h) = {}
  BY <1>1, CountsNothing, Zenon
<1> QED BY <1>1, <1>2 DEF Provided, Providers, Counts

\* The cache of a new manager (NewCache) counts nothing.
LEMMA NewCacheCounts == Counted(NewCache) /\ Provided(NewCache) = {}
<1>1. NewCache \in Cache
  BY DEF NewCache, Cache
<1>2. \A h \in Hash : Providers(NewCache, h) = {} /\ NewCache.hashes[h] = 0
  BY Zenon DEF NewCache, Providers
<1>3. Provided(NewCache) = {}
  BY Zenon DEF NewCache, Provided
<1>4. Counts(0, {})
  <2> DEFINE e == [i \in 1..0 |-> i]
  <2>1. e \in [1..0 -> {}] /\ 1..0 = {}
    OBVIOUS
  <2> HIDE DEF e
  <2> QED BY <2>1, Zenon DEF Counts
<1> QED BY <1>1, <1>2, <1>3, <1>4, Zenon DEF Counted

\* Add keeps the counters right.
LEMMA AddKeepsCounts ==
  ASSUME NEW c, Counted(c), NEW g \in Group
  PROVE  Counted(CacheAdd(c, g).cache)
<1>1. c \in Cache
  BY Zenon DEF Counted
<1>2. ASSUME NEW h \in Hash
      PROVE  Counts(CacheAdd(c, g).cache.hashes[h], Providers(CacheAdd(c, g).cache, h))
  BY <1>1, AddHashes, AddCounts DEF Counted
<1> QED BY <1>1, <1>2, AddType, Zenon DEF Counted

\* Add reports exactly how the set of provided configs changes.
LEMMA AddReportsDifference ==
  ASSUME NEW c, Counted(c), NEW g \in Group
  PROVE  /\ CacheAdd(c, g).added = Provided(CacheAdd(c, g).cache) \ Provided(c)
         /\ CacheAdd(c, g).removed = Provided(c) \ Provided(CacheAdd(c, g).cache)
<1> DEFINE r == CacheAdd(c, g)
           n(h) == c.hashes[h]
           m(h) == r.cache.hashes[h]
<1>1. c \in Cache /\ r.cache \in Cache
  BY AddType, Zenon DEF Counted
<1>2. \A h \in Hash : m(h) = n(h) + Int1(h \in g.configs \ c.sources[g.source])
                                  - Int1(h \in c.sources[g.source] \ g.configs)
  BY <1>1, AddHashes, Zenon
<1>3. \A h \in Hash : /\ n(h) \in Nat /\ (h \in Provided(c) <=> n(h) # 0)
                      /\ m(h) \in Nat /\ (h \in Provided(r.cache) <=> m(h) # 0)
  BY AddKeepsCounts, ProvidedIffCounted, Zenon
<1>4. Provided(c) \subseteq Hash /\ Provided(r.cache) \subseteq Hash
  BY <1>1 DEF Provided, Cache
<1>5. g.configs \subseteq Hash /\ c.sources[g.source] \subseteq Hash
  BY <1>1, Zenon DEF Group, Cache
<1>6. r.added = Provided(r.cache) \ Provided(c)
  <2>1. r.added = {h \in g.configs \ c.sources[g.source] : n(h) = 0}
    BY <1>1, AddReports, Zenon
  <2>2. ASSUME NEW h \in Hash
        PROVE  h \in r.added <=> n(h) = 0 /\ m(h) # 0
    BY <1>2, <1>3, <1>5, <2>1, <2>2 DEF Int1
  <2>3. r.added \subseteq Hash
    BY <1>5, <2>1, Zenon
  <2> QED BY <1>3, <1>4, <2>2, <2>3, Zenon
<1>7. r.removed = Provided(c) \ Provided(r.cache)
  <2>1. r.removed = {h \in c.sources[g.source] \ g.configs : n(h) = 1}
    BY <1>1, AddReports, Zenon
  <2>2. ASSUME NEW h \in Hash
        PROVE  h \in r.removed <=> n(h) # 0 /\ m(h) = 0
    BY <1>2, <1>3, <1>5, <2>1, <2>2 DEF Int1
  <2>3. r.removed \subseteq Hash
    BY <1>5, <2>1, Zenon
  <2> QED BY <1>3, <1>4, <2>2, <2>3, Zenon
<1> QED BY <1>6, <1>7, Zenon
==============================================================================
