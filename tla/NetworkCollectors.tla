-------------------------- MODULE NetworkCollectors --------------------------
(* The catalogue of collectors, part 3: name servers, DHCP, time, VPN and     *)
(* network devices, and the checks of remote endpoints.  The names are those  *)
(* of modules DatabaseCollectors and WebCollectors.                           *)
LOCAL INSTANCE CollectorSteps
LOCAL INSTANCE Sequences

----------------------------------------------------------------------------
(* Name servers                                                               *)

BindSession == Needing(HTTPClient, PerRequest)
BindXML      == List("error")
BindJSON     == List("error")
BindRequests == {BindXML, BindJSON}
Bind(request) == Of(BindSession, "exact", Growing(request))

CoreDNSSession == Needing(HTTPClient, PerRequest)
CoreDNSScrape  == ScrapeSeries
CoreDNSCharts  == AddCharts
CoreDNSSummary == Plain(CoreDNSSession, Must)
CoreDNSServers == Of(CoreDNSSession, "exact", <<ResetMarks, CoreDNSScrape, CoreDNSCharts>>)
CoreDNSZones   == CoreDNSServers

DNSdistInit == HTTPClient \cup HTTPRequest
DNSdistSession == Needing(DNSdistInit, PerRequest)
DNSdist == Plain(DNSdistSession, Must)

DnsmasqInit == {"settings"}
DnsmasqSession == Needing(DnsmasqInit, PerRequest)
Dnsmasq == Plain(DnsmasqSession, Must)

PiholeInit == HTTPClient
PiholeSession == Needing(PiholeInit, PerRequest)
PiholeVersion == Once(Must)
Pihole == Of(PiholeSession, "exact", <<PiholeVersion, May, May>>)

PowerDNSInit == HTTPClient \cup HTTPRequest
PowerDNSSession == Needing(PowerDNSInit, PerRequest)
PowerDNS == Plain(PowerDNSSession, Must)

PowerDNSRecursorInit == HTTPClient \cup HTTPRequest
PowerDNSRecursorSession == Needing(PowerDNSRecursorInit, PerRequest)
PowerDNSRecursor == Plain(PowerDNSRecursorSession, Must)

\* What cannot be read of Unbound's own configuration is logged.
UnboundConfFile == {}
UnboundConfig   == UnboundConfFile
UnboundInit == {"settings"} \cup TLSConfig \cup UnboundConfig
UnboundSession == Needing(UnboundInit, PerCollect)
UnboundScrape  == List("error")
Unbound == Of(UnboundSession, "exact", Growing(UnboundScrape))

----------------------------------------------------------------------------
(* DHCP                                                                       *)

\* A configuration file or directory that cannot be read is passed over: its
\* ranges then count as gone.  The range is in the middle of a chart id, the removal looks at its end.
DnsmasqDHCPInit == {"settings", "host"}
DnsmasqDHCPSession == Needing(DnsmasqDHCPInit, PerRequest)
DnsmasqDHCPConfFile == "ignored"
DnsmasqDHCPConfDirs == DnsmasqDHCPConfFile
DnsmasqDHCPRanges  == List(DnsmasqDHCPConfDirs)
DnsmasqDHCPMatch   == "never"
DnsmasqDHCP ==
    Of(DnsmasqDHCPSession, DnsmasqDHCPMatch,
       <<Timed(1, ResetMarks), Timed(1, DnsmasqDHCPRanges), Timed(1, AddCharts),
         Timed(1, RemoveCharts), Must>>)

\* The leases are read again when the file has been modified since.
ISCDHCPdInit == {"settings"}
ISCDHCPdSession == Needing(ISCDHCPdInit, PerRequest)
ISCDHCPdLeases  == Timed(1, Must)
ISCDHCPd == Of(ISCDHCPdSession, "exact", <<Must, ISCDHCPdLeases>>)

----------------------------------------------------------------------------
(* Time                                                                       *)

ChronyInit == {"settings"}
ChronySession == Needing(ChronyInit, Pool)
ChronyRequest == Must
Chrony == Of(ChronySession, "exact", <<ChronyRequest, Ask("partial")>>)

\* A peer whose information cannot be read counts as gone.
NTPdSession == Needing({"settings"}, Pool)
NTPdSystem  == Must
NTPdPeers   == <<ResetMarks, List("skips"), Probe, AddCharts, RemoveCharts>>
NTPdMatch   == "affix"
NTPd ==
    Of(NTPdSession, NTPdMatch,
       <<NTPdSystem>> \o [k \in DOMAIN NTPdPeers |-> Timed(1, NTPdPeers[k])] \o <<May>>)

----------------------------------------------------------------------------
(* VPN, access and devices                                                    *)

WireGuardSession == Pool
WireGuardMatch   == "affix"
WireGuard ==
    Of(WireGuardSession, WireGuardMatch,
       <<ResetMarks, Empty("bare", List("error")), AddCharts, Timed(1, RemoveCharts)>>)

\* Check asks for the version, it does not collect.
OpenVPNSession == Needing({"settings"}, PerCollect)
OpenVPNCheck   == 1
OpenVPNRequest == List("error")
OpenVPN ==
    [Of(OpenVPNSession, "exact", <<Once(Must), Must>> \o Growing(OpenVPNRequest))
        EXCEPT !.checks = OpenVPNCheck]

OpenVPNStatusLogInit == {"settings"}
OpenVPNStatusLogSession == Needing(OpenVPNStatusLogInit, PerRequest)
OpenVPNStatusLogParser  == List("error")
OpenVPNStatusLog == Of(OpenVPNStatusLogSession, "exact", Growing(OpenVPNStatusLogParser))

FreeradiusInit == {"settings"}
FreeradiusSession == Needing(FreeradiusInit, PerRequest)
Freeradius == Plain(FreeradiusSession, Must)

SNMPInit == {"settings", "host"}
SNMPSession == Needing(SNMPInit, InitPool)
SNMP == Of(SNMPSession, "exact", <<Must, Must>>)

----------------------------------------------------------------------------
(* Checks: a failed request is what they measure                              *)

HTTPCheckInit == HTTPClient
HTTPCheckSession == Needing(HTTPCheckInit, PerRequest)
HTTPCheck == Plain(HTTPCheckSession, Measured)

PortCheckInit == {"settings"}
PortCheckSession == Needing(PortCheckInit, PerRequest)
PortCheck == [Plain(PortCheckSession, Measured) EXCEPT !.checks = 0]

DNSQueryInit == {"settings"}
DNSQuerySession == Needing(DNSQueryInit, PerRequest)
DNSQuery == [Plain(DNSQuerySession, Measured) EXCEPT !.checks = 0]

\* Every host is probed by itself, one that cannot be is left out.
PingInit == {"settings"}
PingSession == Needing(PingInit, PerRequest)
PingProber  == List("ignored")
Ping == Of(PingSession, "exact", Growing(Empty("bare", PingProber)))

WhoisQueryInit == {"settings"}
WhoisQuerySession == Needing(WhoisQueryInit, PerRequest)
WhoisQueryRequest == Must
WhoisQuery == Plain(WhoisQuerySession, WhoisQueryRequest)

X509CheckInit == {"settings"} \cup TLSConfig
X509CheckSession == Needing(X509CheckInit, PerRequest)
X509CheckRequest == Must
X509Check == Plain(X509CheckSession, X509CheckRequest)

NetworkCatalogue ==
    {Bind(request) : request \in BindRequests} \cup
    {CoreDNSSummary, CoreDNSServers, CoreDNSZones, DNSdist, Dnsmasq, Pihole, PowerDNS, PowerDNSRecursor, Unbound,
     DnsmasqDHCP, ISCDHCPd, Chrony, NTPd, WireGuard, OpenVPN, OpenVPNStatusLog, Freeradius,
     SNMP, HTTPCheck, PortCheck, DNSQuery, Ping, WhoisQuery, X509Check}
=============================================================================
