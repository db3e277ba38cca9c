----------------------------- MODULE ConfGroup -----------------------------
(***************************************************************************)
(* Config groups and the reference-counting cache that turns a stream of   *)
(* groups into the configs that appeared and the configs that went away    *)
(* (agent/confgroup/cache.go).                                             *)
(*                                                                         *)
(* A config is known to the cache only by its hash: Hash is the set of     *)
(* hashes.  A group is what one source (a file, a discoverer) provides     *)
(* right now; its configs are a set because a second config with the hash  *)
(* of an earlier one is skipped.  A source that has no entry in the Go map *)
(* and one whose entry is empty are the same value here: the code deletes  *)
(* an entry when it becomes empty.                                         *)
(***************************************************************************)
EXTENDS Integers

CONSTANTS Source,   \* origins of config groups
          Hash      \* config identities

Group == [source: Source, configs: SUBSET Hash]

\* The counters are Go uints.  They are integers here, so that a decrement of
\* zero, which would wrap around in Go, shows as a negative number.
Cache == [hashes: [Hash -> Int], sources: [Source -> SUBSET Hash]]

NewCache == [hashes  |-> [h \in Hash |-> 0],
             sources |-> [s \in Source |-> {}]]

Int1(b) == IF b THEN 1 ELSE 0

\* The test for a config that no other source provides.
AppearsUnchecked(c, h) == TRUE
Appears(c, h) == c.hashes[h] = 0

\* The test for a config whose last provider gives it up.
Vanishes(c, h) == c.hashes[h] - 1 = 0

\* The configs of a group its source did not provide yet: the others are skipped.
NewIn(set, configs) == configs \ set

\* The sources after an empty group: the entry of its source is gone.
DropsEntry(c, s) == [c.sources EXCEPT ![s] = {}]

AddEmpty(c, s) ==
  LET set == c.sources[s]
  IN  [cache   |-> [hashes  |-> [h \in Hash |-> c.hashes[h] - Int1(h \in set)],
                    sources |-> DropsEntry(c, s)],
       added   |-> {},
       removed |-> {h \in set : Vanishes(c, h)}]

AddNotEmpty(c, s, seen) ==
  LET set == c.sources[s]
      new == NewIn(set, seen)
      old == set \ seen
  IN  [cache   |-> [hashes  |-> [h \in Hash |-> c.hashes[h] + Int1(h \in new)
                                                              - Int1(h \in old)],
                    sources |-> [c.sources EXCEPT ![s] = seen]],
       added   |-> {h \in new : Appears(c, h)},
       removed |-> {h \in old : Vanishes(c, h)}]

\* The Add method: the new cache and the configs to add and to remove.
CacheAdd(c, g) == IF g.configs = {} THEN AddEmpty(c, g.source)
                                    ELSE AddNotEmpty(c, g.source, g.configs)

\* The configs some source provides.
Provided(c) == UNION {c.sources[s] : s \in Source}

\* The sources of a cache that provide a config.
Providers(c, h) == {s \in Source : h \in c.sources[s]}

\* S has n elements: they can be numbered from 1 to n, each of them once.
Counts(n, S) == /\ n \in Nat
                /\ \E e \in [1..n -> S] :
                     /\ \A i, j \in 1..n : e[i] = e[j] => i = j
                     /\ \A s \in S : \E i \in 1..n : e[i] = s
=============================================================================
