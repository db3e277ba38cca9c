---------------------------- MODULE WebCollectors ----------------------------
(* The catalogue of collectors, part 2: web servers, message brokers, service *)
(* meshes and other applications asked over HTTP or FastCGI.  The names are   *)
(* those of module DatabaseCollectors; XRequest is the client of a collector  *)
(* that keeps it in a file of its own.                                        *)
LOCAL INSTANCE CollectorSteps
LOCAL INSTANCE Sequences

----------------------------------------------------------------------------
(* Web servers and application servers                                        *)

ApacheInit == HTTPClient
ApacheSession == Needing(ApacheInit, PerRequest)
Apache == Plain(ApacheSession, Must)

LighttpdSession == Needing(HTTPClient, PerRequest)
LighttpdRequest == Must
Lighttpd == Plain(LighttpdSession, LighttpdRequest)

NginxSession == Needing(HTTPClient, PerRequest)
NginxRequest == Must
Nginx == Plain(NginxSession, NginxRequest)

\* A client that cannot be made is logged only; Check then panics, after which
\* the job gives up just as it does after a failed Init.  The error of the
\* request is logged and not returned; no metric comes out.
NginxVTSInit == HTTPClient \cup HTTPRequest
NginxVTSSession == Needing(NginxVTSInit, PerRequest)
NginxVTS == Plain(NginxVTSSession, May)

TengineSession == Needing(HTTPClient, PerRequest)
TengineRequest == Must
Tengine == Plain(TengineSession, TengineRequest)

PHPDaemonSession == Needing(HTTPClient \cup HTTPRequest, PerRequest)
PHPDaemonRequest == Must
PHPDaemon == Plain(PHPDaemonSession, PHPDaemonRequest)

\* Over a Unix socket, Init looks for the socket that PHP-FPM makes.
PhpfpmClients == {"socket", "tcp", "http"}
PhpfpmInit == [socket |-> {"application"}, tcp |-> {}, http |-> HTTPClient]
PhpfpmSession(client) == Needing({"settings"} \cup PhpfpmInit[client], PerRequest)
PhpfpmRequest == Must
Phpfpm(client) == Plain(PhpfpmSession(client), PhpfpmRequest)

HAProxyInit == HTTPClient \cup HTTPRequest
HAProxySession == Needing(HAProxyInit, PerRequest)
HAProxy == Of(HAProxySession, "exact", Growing(Empty("bare", List("error"))))

TraefikInit == HTTPClient
TraefikSession == Needing(TraefikInit, PerRequest)
Traefik == Of(TraefikSession, "exact", Growing(Empty("bare", List("error"))))

\* Check scrapes once and looks for a Spring metric, it does not collect.
SpringBoot2Check == 1
SpringBoot2 ==
    [Of(Needing(HTTPClient, PerRequest), "exact", <<Once(Must), Must>>)
        EXCEPT !.checks = SpringBoot2Check]

\* Check reads the version, it does not collect.
SolrCheck  == 1
SolrParser == Growing(Empty("error", List("error")))
Solr ==
    [Of(Needing(HTTPClient, PerRequest), "exact", <<Once(Must)>> \o SolrParser)
        EXCEPT !.checks = SolrCheck]

----------------------------------------------------------------------------
(* NGINX Plus: a zone whose query failed ages like one that is gone.          *)

notSeenLimit == 3
NginxPlusSession == Needing(HTTPClient, PerRequest)
NginxPlusVersion   == Once(Must)
NginxPlusEndpoints == Timed(1, Must)
NginxPlusQueries   == <<May, List("ignored")>>
NginxPlusReset     == ResetMarks
NginxPlusCharts    == UpdateCharts
NginxPlusMatch     == "affix"
NginxPlus ==
    [Of(NginxPlusSession, NginxPlusMatch,
        <<NginxPlusVersion, NginxPlusEndpoints, NginxPlusReset>> \o NginxPlusQueries
        \o <<NginxPlusCharts>>)
        EXCEPT !.limit = notSeenLimit]

\* removeHTTPUpstreamServerCharts builds the prefix from swapped arguments.
NginxPlusServersMatch == "never"
NginxPlusServers == [NginxPlus EXCEPT !.match = NginxPlusServersMatch]

----------------------------------------------------------------------------
(* Message brokers                                                            *)

ActiveMQSession == Needing(HTTPClient, PerRequest)
ActiveMQRequest(kind) == <<Naming(kind, "queue", Must), Naming(kind, "topic", Must)>>
ActiveMQMatch   == "exact"
ActiveMQ(kind) ==
    Of(ActiveMQSession, ActiveMQMatch,
       <<ResetMarks>> \o ActiveMQRequest(kind) \o <<AddCharts, RemoveCharts>>)
ActiveMQQueues == ActiveMQ("queue")
ActiveMQTopics == ActiveMQ("topic")

RabbitMQSession == Needing(HTTPClient, PerRequest)
RabbitMQOverview == Must
RabbitMQNode     == Ask("partial")

RabbitMQVhostsMatch == "affix"
RabbitMQVhosts ==
    Of(RabbitMQSession, RabbitMQVhostsMatch,
       <<RabbitMQOverview, RabbitMQNode>> \o Seen(List("partial")) \o <<Ask("partial")>>)

RabbitMQQueuesMatch == "affix"
RabbitMQQueues ==
    Of(RabbitMQSession, RabbitMQQueuesMatch,
       <<RabbitMQOverview, RabbitMQNode, Ask("partial")>> \o Seen(List("partial")))

\* The marks are cleared when the charts have been updated.
PulsarInit == HTTPClient
PulsarSession == Needing(PulsarInit, PerRequest)
PulsarAdjust  == Once(Local)
PulsarCharts  == <<AddCharts, RemoveCharts>>
PulsarScrape  == ScrapeSeries
PulsarNamespaces ==
    Of(PulsarSession, "exact",
       <<PulsarScrape, PulsarAdjust>> \o PulsarCharts \o <<ResetMarks>>)
PulsarTopics  == PulsarNamespaces

VerneMQInit == HTTPClient
VerneMQSession == Needing(VerneMQInit, PerRequest)
VerneMQScrape  == ScrapeSeries
VerneMQReasons == AddCharts
VerneMQ      == Of(VerneMQSession, "exact", <<ResetMarks, VerneMQScrape, VerneMQReasons>>)
VerneMQFixed == Plain(VerneMQSession, Must)

----------------------------------------------------------------------------
(* Service meshes and orchestration                                           *)

ConsulInit == HTTPClient \cup HTTPRequest
ConsulSession == Needing(ConsulInit, PerRequest)
ConsulConfiguration == Once(Must)
ConsulAutopilot     == Must
ConsulRTT           == Must
ConsulMetrics       == Must
ConsulChecksMatch   == "exact"
ConsulChecks ==
    Of(ConsulSession, ConsulChecksMatch,
       <<ConsulConfiguration>> \o Seen(List("error"))
       \o <<ConsulAutopilot, ConsulRTT, ConsulMetrics>>)

\* The charts of a leader and those of a follower replace each other; without
\* the gauge that tells the role neither changes.
ConsulRoleMatch == "exact"
ConsulRoles ==
    Of(ConsulSession, ConsulRoleMatch,
       <<ConsulConfiguration, Must, ConsulAutopilot, ConsulRTT>>
       \o Seen(Empty("skips", List("error"))))

EnvoyInit == HTTPClient
EnvoySession == Needing(EnvoyInit, PerRequest)
EnvoyMatch   == "affix"
EnvoyScrape  == ScrapeSeries

\* Every kind of instance has its own record of what was seen.  The removal
\* looks at the end of a chart id, whatever the kind.
EnvoyServers           == Of(EnvoySession, EnvoyMatch, Seen(EnvoyScrape))
EnvoyClusterManagers   == EnvoyServers
EnvoyClusterUpstreams  == EnvoyServers
EnvoyListenerManagers  == EnvoyServers
EnvoyAdminListeners    == EnvoyServers
EnvoyListeners         == EnvoyServers

KubeletSession == Needing(HTTPClient, PerRequest)
KubeletMatch   == "exact"
KubeletScrape  == ScrapeSeries
KubeletPods       == Of(KubeletSession, KubeletMatch, Seen(KubeletScrape))
KubeletVolumes    == Of(KubeletSession, KubeletMatch, Growing(KubeletScrape))
KubeletRequests   == KubeletVolumes
KubeletOperations == KubeletVolumes
KubeletFixed      == Plain(KubeletSession, Must)

KubeproxySession == Needing(HTTPClient, PerRequest)
Kubeproxy == Of(KubeproxySession, "exact", Growing(List("error")))

HDFSInit == HTTPClient
HDFSSession == Needing(HDFSInit, PerRequest)
HDFSNodeType == Once(Must)
HDFSRequest  == Must
HDFS == Of(HDFSSession, "exact", <<HDFSNodeType, HDFSRequest>>)

----------------------------------------------------------------------------
(* Telemetry pipelines and scrapers                                           *)

LogstashSession == Needing(HTTPClient, PerRequest)
LogstashMatch   == "affix"
Logstash == Of(LogstashSession, LogstashMatch, Seen(List("error")))

FluentdRequest == List("error")
Fluentd ==
    Of(Needing(HTTPClient, PerRequest), "exact", Growing(Empty("bare", FluentdRequest)))

\* What is scraped from any application; a series may be missing for a while.
maxNotSeenTimes == 10
PrometheusInit == HTTPClient \cup {"host"}
PrometheusSession == Needing(PrometheusInit, PerRequest)
PrometheusReset   == ResetMarks
PrometheusCharts  == AddCharts
PrometheusMatch   == "exact"
Prometheus ==
    [Of(PrometheusSession, PrometheusMatch,
        <<PrometheusReset, Empty("error", List("error")), PrometheusCharts, RemoveCharts>>)
        EXCEPT !.limit = maxNotSeenTimes]

GethInit == HTTPClient
GethSession == Needing(GethInit, PerRequest)
Geth == Plain(GethSession, Must)

EnergidInit == HTTPClient \cup HTTPRequest
EnergidSession == Needing(EnergidInit, PerRequest)
EnergidRequest == Must
Energid == Plain(EnergidSession, EnergidRequest)

\* Each repository is asked by itself, a failure is logged.
DockerHubSession == Needing(HTTPClient, PerRequest)
DockerHubRequest == May
DockerHub == Plain(DockerHubSession, DockerHubRequest)

DockerEngineInit == HTTPClient
DockerEngineSession == Needing(DockerEngineInit, PerRequest)
DockerEngine == Plain(DockerEngineSession, Must)

WebCatalogue ==
    {Phpfpm(client) : client \in PhpfpmClients} \cup
    {Apache, Lighttpd, Nginx, NginxVTS, Tengine, PHPDaemon, HAProxy, Traefik,
     SpringBoot2, Solr, NginxPlus, NginxPlusServers, ActiveMQQueues, ActiveMQTopics,
     RabbitMQVhosts, RabbitMQQueues, PulsarNamespaces, PulsarTopics, VerneMQ, VerneMQFixed,
     ConsulChecks, ConsulRoles, EnvoyServers, EnvoyClusterManagers, EnvoyClusterUpstreams,
     EnvoyListenerManagers, EnvoyAdminListeners, EnvoyListeners, KubeletPods, KubeletVolumes,
     KubeletRequests, KubeletOperations, KubeletFixed, Kubeproxy, HDFS, Logstash, Fluentd, Prometheus, Geth, Energid, DockerHub,
     DockerEngine}
=============================================================================
