-------------------------- MODULE WindowsCollectors --------------------------
(* The catalogue of collectors, part 5: the Windows exporter.  One scrape     *)
(* answers for all of them; each of the exporter's own collectors may have    *)
(* failed within it, and the module then skips that one.                      *)
LOCAL INSTANCE CollectorSteps
LOCAL INSTANCE Sequences

WindowsInit == HTTPClient
WindowsSession == Needing(WindowsInit, PerRequest)
WindowsScrape   == Must
WindowsSucceeded == List("skips")
WindowsCollector(match) ==
    Of(WindowsSession, match, <<WindowsScrape>> \o Seen(WindowsSucceeded))

\* Their charts are fixed.
WindowsFixed == Of(WindowsSession, "exact", <<WindowsScrape, May>>)

\* removeCharts compares the chart ids with a prefix.
WindowsMatch == "affix"

----------------------------------------------------------------------------
(* The exporter's collectors, with the charts each of them adds and removes   *)

WindowsAD      == WindowsFixed
WindowsADFS    == WindowsFixed
WindowsLogon   == WindowsFixed
WindowsMemory  == WindowsFixed
WindowsOS      == WindowsFixed
WindowsSystem  == WindowsFixed
WindowsTCP     == WindowsFixed
WindowsQueues  == WindowsFixed

\* Cores are removed as "cpu_core_", the first chart is added as "core_".
WindowsCoresMatch == "partly"
WindowsCores == WindowsCollector(WindowsCoresMatch)

\* Templates are removed as "adcs_cert_template_", the first chart lacks the
\* last "_".
WindowsADCSMatch == "partly"
WindowsADCS == WindowsCollector(WindowsADCSMatch)

\* The charts are added as "exchange_proxy_", removed as "exchange_http_proxy_".
WindowsProxiesMatch == "never"
WindowsProxies == WindowsCollector(WindowsProxiesMatch)

\* A process is a dimension of charts that stay.
WindowsProcessesMatch == "exact"
WindowsProcesses == WindowsCollector(WindowsProcessesMatch)

WindowsDisksMatch          == WindowsMatch
WindowsDisks               == WindowsCollector(WindowsDisksMatch)
WindowsNICsMatch           == WindowsMatch
WindowsNICs                == WindowsCollector(WindowsNICsMatch)
WindowsThermalZonesMatch   == WindowsMatch
WindowsThermalZones        == WindowsCollector(WindowsThermalZonesMatch)
WindowsServicesMatch       == WindowsMatch
WindowsServices            == WindowsCollector(WindowsServicesMatch)
WindowsWebsitesMatch       == WindowsMatch
WindowsWebsites            == WindowsCollector(WindowsWebsitesMatch)
WindowsWorkloadsMatch      == WindowsMatch
WindowsWorkloads           == WindowsCollector(WindowsWorkloadsMatch)
WindowsLDAPMatch           == WindowsMatch
WindowsLDAP                == WindowsCollector(WindowsLDAPMatch)
WindowsMSSQLInstancesMatch == WindowsMatch
WindowsMSSQLInstances      == WindowsCollector(WindowsMSSQLInstancesMatch)
WindowsMSSQLDatabasesMatch == WindowsMatch
WindowsMSSQLDatabases      == WindowsCollector(WindowsMSSQLDatabasesMatch)

----------------------------------------------------------------------------
(* Hyper-V                                                                    *)

WindowsVMsMatch         == WindowsMatch
WindowsVMs              == WindowsCollector(WindowsVMsMatch)
WindowsVMDevicesMatch   == WindowsMatch
WindowsVMDevices        == WindowsCollector(WindowsVMDevicesMatch)
WindowsVMInterfacesMatch == WindowsMatch
WindowsVMInterfaces     == WindowsCollector(WindowsVMInterfacesMatch)
WindowsVSwitchesMatch   == WindowsMatch
WindowsVSwitches        == WindowsCollector(WindowsVSwitchesMatch)
WindowsHyperVHealth     == WindowsFixed

----------------------------------------------------------------------------
(* .NET processes: the prefix goes on after the name of the process, so that  *)
(* it tells one name from another that begins with it.                        *)

NetFrameworkExceptionsMatch == "exact"
NetFrameworkExceptions      == WindowsCollector(NetFrameworkExceptionsMatch)
NetFrameworkInteropMatch    == "exact"
NetFrameworkInterop         == WindowsCollector(NetFrameworkInteropMatch)
NetFrameworkJITMatch        == "exact"
NetFrameworkJIT             == WindowsCollector(NetFrameworkJITMatch)
NetFrameworkLoadingMatch    == "exact"
NetFrameworkLoading         == WindowsCollector(NetFrameworkLoadingMatch)
NetFrameworkLocksMatch      == "exact"
NetFrameworkLocks           == WindowsCollector(NetFrameworkLocksMatch)
NetFrameworkMemoryMatch     == "exact"
NetFrameworkMemory          == WindowsCollector(NetFrameworkMemoryMatch)
NetFrameworkRemotingMatch   == "exact"
NetFrameworkRemoting        == WindowsCollector(NetFrameworkRemotingMatch)
NetFrameworkSecurityMatch   == "exact"
NetFrameworkSecurity        == WindowsCollector(NetFrameworkSecurityMatch)

\* The exporter's collectors themselves, named in every scrape.
WindowsExporterMatch == WindowsMatch
WindowsExporter == Of(WindowsSession, WindowsExporterMatch, Seen(List("error")))

WindowsCatalogue ==
    {WindowsAD, WindowsADFS, WindowsLogon, WindowsMemory, WindowsOS, WindowsSystem,
     WindowsTCP, WindowsQueues, WindowsHyperVHealth, WindowsCores, WindowsADCS,
     WindowsProxies, WindowsProcesses, WindowsDisks, WindowsNICs, WindowsThermalZones,
     WindowsServices, WindowsWebsites, WindowsWorkloads, WindowsLDAP,
     WindowsMSSQLInstances, WindowsMSSQLDatabases, WindowsVMs, WindowsVMDevices,
     WindowsVMInterfaces, WindowsVSwitches, NetFrameworkExceptions, NetFrameworkInterop,
     NetFrameworkJIT, NetFrameworkLoading, NetFrameworkLocks, NetFrameworkMemory,
     NetFrameworkRemoting, NetFrameworkSecurity, WindowsExporter}
=============================================================================
