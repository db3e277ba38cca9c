---------------------------- MODULE MCCollector ----------------------------
(* The whole catalogue, on two instances one of whose names begins with the   *)
(* other; VMs alone for the charts a prefix removes.                          *)
EXTENDS Collector

Modules == INSTANCE Collectors

MCIds == {"vm-1", "vm-12"}
MCExtends == {<<"vm-12", "vm-1">>}
MCSubjects == Modules!Catalogue
MCVSphere == {Modules!VSphere}
MCDeviating == Modules!DeviatingCollectors
MCStraying == Modules!StrayingCollectors
MCNeverReconnecting == Modules!NeverReconnectingCollectors
MCGivingUp == Modules!GivingUpCollectors
=============================================================================
