----------------------------- MODULE Collectors -----------------------------
(* The catalogue of collectors under modules/: for each one, how it holds its *)
(* session, the steps of its Collect in the order of the code, and how it     *)
(* finds the charts of a vanished instance.  Module Collector gives these     *)
(* records their meaning.  What a collector does with the values it reads is  *)
(* left out.                                                                  *)
EXTENDS DatabaseCollectors, WebCollectors, NetworkCollectors, SystemCollectors,
        WindowsCollectors

Catalogue ==
    DatabaseCatalogue \cup WebCatalogue \cup NetworkCatalogue \cup SystemCatalogue
    \cup WindowsCatalogue

\* Their charts do not follow the instances, as the comments at them say.
DeviatingCollectors ==
    {PostgresTables, PostgresIndexes, NginxPlus, NginxPlusServers, DnsmasqDHCP, NTPd, NVMe,
     WindowsCores, WindowsADCS, WindowsProxies}

\* A client is left open by a failed opening or by Cleanup.
StrayingCollectors == {MongoDatabases, MongoMembers, MongoShards, VSphere}

\* The session is never replaced.
NeverReconnectingCollectors == {Logind}

\* A query that failed once, whatever the reason, is never tried again.
GivingUpCollectors == {MySQL}
=============================================================================
