---------------------------- MODULE MCDiscovery ----------------------------
(***************************************************************************)
(* FileDiscovery and DiscoveryManager for TLC: FilesSpec is the one with   *)
(* the other at rest, ManagerSpec the other way round.                     *)
(***************************************************************************)
EXTENDS FileDiscovery

CONSTANTS Discoverer, Origin, Owner, MaxVersion,  \* see DiscoveryManager; Origin are its sources
          d1, d2, s1, s2, s3

VARIABLES managerDone, running, waiting, flag, sender, held, consumer, latest, delivered

managerVars == <<managerDone, running, waiting, flag, sender, held, consumer, latest, delivered>>

DM == INSTANCE DiscoveryManager
      WITH Source <- Origin, ctxDone <- managerDone, cache <- waiting, pc <- sender,
           seen <- delivered

ASSUME ManagerAssumption == Owner \in [Origin -> Discoverer] /\ MaxVersion \in Nat

\* Two discoverers: one watches two sources, the other one.
MCDiscoverer == {d1, d2}
MCOrigin == {s1, s2, s3}
MCOwner == [s \in MCOrigin |-> IF s = s3 THEN d2 ELSE d1]

BothInit == DiscoveryInit /\ DM!Init

FilesSpec == /\ BothInit
             /\ [][DiscoveryNext /\ UNCHANGED managerVars]_<<allVars, managerVars>>
             /\ DiscoveryFairness

ManagerSpec == /\ BothInit
               /\ [][DM!Next /\ UNCHANGED allVars]_<<allVars, managerVars>>
               /\ DM!Fairness

\* The properties of DiscoveryManager, under their own names.
NothingStranded == DM!NothingStranded
StopsWhenCancelled == DM!StopsWhenCancelled

Feed == INSTANCE ConflatingFeed
        WITH Source <- Origin, seen <- delivered, stopped <- managerDone

\* The discovery manager implements the conflating feed, its liveness included.
FeedSpec == Feed!Spec
=============================================================================
