--------------------------- MODULE ConfGroupCache ---------------------------
(***************************************************************************)
(* The confgroup cache on its own: any source may send any group at any    *)
(* time, in any order, with configs shared between sources.                *)
(***************************************************************************)
EXTENDS ConfGroup

VARIABLES cache,  \* the reference counts and the per-source sets
          last    \* what the latest call of Add returned

vars == <<cache, last>>

Init == /\ cache = NewCache
        /\ last = [added |-> {}, removed |-> {}]

Add(g) == LET r == CacheAdd(cache, g)
          IN  /\ cache' = r.cache
              /\ last' = [added |-> r.added, removed |-> r.removed]

Next == \E g \in Group : Add(g)

Spec == Init /\ [][Next]_vars
-----------------------------------------------------------------------------
\* The counters stay naturals: Add never decrements a counter that is zero.
TypeOK == /\ cache \in Cache
          /\ \A h \in Hash : cache.hashes[h] \in Nat
          /\ last \in [added: SUBSET Hash, removed: SUBSET Hash]

\* The reference count of a config is the number of sources that provide it,
\* whatever groups arrived in whatever order (cache.go: hashes and sources).
CountsSources ==
  \A h \in Hash : Counts(cache.hashes[h], Providers(cache, h))

\* What Add reports is exactly how the set of provided configs changed: a
\* config one source drops while another still provides it is not removed, and
\* one that a second source starts to provide is not added again.
ReportsExactDifference ==
  [][/\ last'.added = Provided(cache)' \ Provided(cache)
     /\ last'.removed = Provided(cache) \ Provided(cache)']_vars
=============================================================================
