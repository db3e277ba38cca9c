--------------------------- MODULE SystemCollectors ---------------------------
(* The catalogue of collectors, part 4: the host and its services, hardware,  *)
(* storage and virtual machines.  The names are those of modules              *)
(* DatabaseCollectors and WebCollectors.                                      *)
LOCAL INSTANCE CollectorSteps
LOCAL INSTANCE Sequences

----------------------------------------------------------------------------
(* The host                                                                   *)

SystemdUnitsInit == {"settings"}
SystemdUnitsSession == Needing(SystemdUnitsInit, HeldUntilError)
SystemdUnitsCharts  == AddCharts
SystemdUnits ==
    Of(SystemdUnitsSession, "exact",
       <<Once(Must), ResetMarks, Empty("error", List("error")), SystemdUnitsCharts>>)

\* The D-Bus connection is never replaced.
LogindSession == Held
LogindRequest == Must
Logind == Of(LogindSession, "exact", <<LogindRequest, LogindRequest>>)

SupervisordInit == HTTPClient
SupervisordSession == Needing(SupervisordInit, PerRequest)
SupervisordRequest == List("error")
SupervisordMatch   == "affix"
Supervisord == Of(SupervisordSession, SupervisordMatch, Seen(SupervisordRequest))

\* The file system is always there.
FileCheckInit == {"settings"}
FileCheckSession == Needing(FileCheckInit, PerRequest)
FileCheckFiles ==
    [Of(FileCheckSession, "exact",
        <<Timed(1, ResetMarks), Timed(1, List("never")), Timed(1, AddCharts),
          Timed(1, RemoveCharts), Local>>)
        EXCEPT !.checks = 0]
FileCheckDirs ==
    [Of(FileCheckSession, "exact",
        <<Local, Timed(2, ResetMarks), Timed(2, List("never")), Timed(2, AddCharts),
          Timed(2, RemoveCharts), Local>>)
        EXCEPT !.checks = 0]

----------------------------------------------------------------------------
(* Containers and coordination                                                *)

DockerSession == Pool
DockerMatch   == "affix"
Docker ==
    Of(DockerSession, DockerMatch,
       <<Ask("lastTry"), Must, Must>> \o Seen(List("error")))

ZookeeperSession == Needing(TLSConfig, PerCollect)
ZookeeperRequest == Must
Zookeeper == Plain(ZookeeperSession, ZookeeperRequest)

----------------------------------------------------------------------------
(* Hardware                                                                   *)

UpsdSession == Needing({"settings"}, HeldUntilBroken)
UpsdClient  == List("error")
UpsdMatch   == "affix"
Upsd == Of(UpsdSession, UpsdMatch, Seen(Empty("bare", UpsdClient)))

NvidiaSMIInit == {"host"}
NvidiaSMISession == Needing(NvidiaSMIInit, PerRequest)
NvidiaSMIXML     == List("error")
NvidiaSMIMatch   == "affix"
NvidiaSMI == Of(NvidiaSMISession, NvidiaSMIMatch, Seen(Empty("bare", NvidiaSMIXML)))
NvidiaSMIMIGs == NvidiaSMI

\* In the other format it first asks which properties there are.
NvidiaSMIProperties == Once(Must)
NvidiaSMIQuery      == List("error")
NvidiaSMICSV ==
    Of(NvidiaSMISession, NvidiaSMIMatch,
       <<NvidiaSMIProperties>> \o Seen(Empty("bare", NvidiaSMIQuery)))

\* The list deletes the device name from a map keyed by path.
NVMeInit == {"settings", "host"}
NVMeSession == Needing(NVMeInit, PerRequest)
NVMeList    == List("error")
NVMeSmartLog == May
NVMeMatch   == "affix"
NVMe ==
    [Of(NVMeSession, NVMeMatch,
        <<Timed(1, ResetMarks), Timed(1, NVMeList), Timed(1, AddCharts),
          Timed(1, RemoveCharts), NVMeSmartLog>>)
        EXCEPT !.forgets = FALSE]

----------------------------------------------------------------------------
(* Storage and virtual machines                                               *)

\* Check logs in; the client logs in again when its token has expired.
ScaleIOSession == Needing(HTTPClient, ProbedPool)
ScaleIOLogin     == [ScaleIOSession EXCEPT !.heals = TRUE]
ScaleIODiscovery == <<Timed(1, ResetMarks), Timed(1, List("error"))>>
ScaleIOCharts    == AddCharts
ScaleIO == Of(ScaleIOLogin, "exact", ScaleIODiscovery \o <<Must, ScaleIOCharts>>)
ScaleIOPools  == ScaleIO
ScaleIOSdcs   == ScaleIO
ScaleIOSystem == Of(ScaleIOLogin, "exact", <<Timed(1, Must), Must>>)

VCSAInit == HTTPClient
VCSASession == Needing(VCSAInit, ProbedPool)
VCSALogin   == [VCSASession EXCEPT !.heals = TRUE]
VCSAPing    == Must
VCSAHealth  == May
VCSA == Of(VCSALogin, "exact", <<VCSAPing, VCSAHealth>>)

\* The client logs in when it is made, and again from its keep-alive when the
\* session has expired.  Cleanup stops the discovery and does not log out.
VSphereSoapClient == {"settings"} \cup TLSConfig
VSphereIncludes   == {"settings"}
VSphereInit       == {"settings"} \cup VSphereSoapClient \cup VSphereIncludes
VSphereClient     == [InitPool EXCEPT !.dials = TRUE, !.heals = FALSE]
VSphereKeepAlive  == [VSphereClient EXCEPT !.heals = TRUE]
VSphereSession    == Needing(VSphereInit, [VSphereKeepAlive EXCEPT !.closes = FALSE])

\* The inventory: five queries, of which the first that fails ends it, then the
\* powered-on hosts and VMs with their clusters and data centers (a missing
\* parent is not an error), those the settings include (none is an error), and
\* the metrics the server has for them.
VSphereQueries     == Must
VSphereBuild       == Local
VSphereHierarchy   == Local
VSphereFilter      == Empty("error", Local)
VSphereMetricLists == Must
VSphereDiscovery   ==
    <<VSphereQueries, VSphereBuild, VSphereHierarchy, VSphereFilter, VSphereMetricLists>>

\* VMs; the hosts are scraped before them.  A scrape asks in chunks; of the
\* chunks that failed nothing is known, and nothing at all is an error.
VSphereScrape    == Empty("scraped", List("error"))
VSphereHosts     == Must
VSphereVMs       == VSphereScrape
VSphereCharts    == UpdateCharts
VSphereMatch     == "affix"
failedUpdatesLimit == 10
VSphere ==
    [Of(VSphereSession, VSphereMatch, <<VSphereHosts, ResetMarks, VSphereVMs, VSphereCharts>>)
        EXCEPT !.checks = 0, !.limit = failedUpdatesLimit, !.discovery = VSphereDiscovery]

SystemCatalogue ==
    {SystemdUnits, Logind, Supervisord, FileCheckFiles, FileCheckDirs, Docker, Zookeeper,
     Upsd, NvidiaSMI, NvidiaSMIMIGs, NvidiaSMICSV, NVMe, ScaleIOPools, ScaleIOSdcs,
     ScaleIOSystem, VCSA, VSphere}
=============================================================================
