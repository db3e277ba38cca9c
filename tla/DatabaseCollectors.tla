------------------------- MODULE DatabaseCollectors -------------------------
(* The catalogue of collectors, part 1: databases and their proxies.  For a   *)
(* collector X, XSession is how its Init, Collect and Cleanup hold the        *)
(* client, XMatch how its charts of a vanished instance are found, and X the  *)
(* steps of its collect() in the order of the code.  Requests in a row whose  *)
(* failure has the same consequence are one step.  A collector with several   *)
(* kinds of instances has one record for each kind.                           *)
LOCAL INSTANCE CollectorSteps
LOCAL INSTANCE Sequences

----------------------------------------------------------------------------
(* MySQL: a transient failure of an optional query disables it for good.  The *)
(* global variables are asked for in every Collect: recheckGlobalVarsTime is  *)
(* compared but never set, so it is always long ago.                          *)

MySQLInit == {"settings", "host"}
MySQLSession == Needing(MySQLInit, ProbedPool)
MySQLVersion          == Once(Must)
MySQLGlobalStatus     == Must
MySQLGlobalVariables  == Must
MySQLSlaveStatus      == Ask("disables")
MySQLUserStatistics   == Ask("disables")
MySQLProcessList      == May
MySQL ==
    Of(MySQLSession, "exact",
       <<MySQLVersion, MySQLGlobalStatus, MySQLGlobalVariables, MySQLSlaveStatus,
         MySQLUserStatistics, MySQLProcessList>>)

----------------------------------------------------------------------------
(* PostgreSQL                                                                 *)

PostgresInit == {"settings"}
PostgresSession == Needing(PostgresInit, ProbedPool)
PostgresServer        == <<Once(Must), Once(Must), Once(Must)>>
PostgresSettings      == Timed(1, Must)
PostgresGlobal        == Must
PostgresReplication   == Must
PostgresDatabaseStats == Must
PostgresQueryable     == Must
PostgresTableStats    == May
PostgresIndexStats    == May
PostgresBloat         == Timed(2, May)
PostgresColumns       == Timed(2, May)
PostgresCharts        == UpdateCharts
PostgresMatch         == "affix"

\* resetMetrics keeps the mark of an index.
PostgresReset(kind) == IF kind = "index" THEN <<>> ELSE <<ResetMarks>>

\* A failed table query is only logged: every table then counts as unseen.
Postgres(kind) ==
    Of(PostgresSession, PostgresMatch,
       PostgresServer \o <<PostgresSettings>> \o PostgresReset(kind)
       \o <<PostgresGlobal, Naming(kind, "standby", PostgresReplication),
            Naming(kind, "database", PostgresDatabaseStats), PostgresQueryable,
            Naming(kind, "table", PostgresTableStats), Naming(kind, "index", PostgresIndexStats),
            PostgresBloat, PostgresColumns, PostgresCharts>>)

PostgresStandbys  == Postgres("standby")
PostgresDatabases == Postgres("database")
PostgresTables    == Postgres("table")
PostgresIndexes   == Postgres("index")

----------------------------------------------------------------------------
(* MongoDB: a client whose ping fails is forgotten, not closed.               *)

MongoInit == {"settings"}
MongoSession == Needing(MongoInit, ProbedPool)
MongoClient       == [MongoSession EXCEPT !.strays = TRUE]
MongoServerStatus == Must
MongoListDatabases == List("partial")
MongoReplicaSet   == List("partial")
MongoSharding     == List("partial")
MongoMatch        == "affix"

MongoDatabases ==
    Of(MongoClient, MongoMatch,
       <<MongoServerStatus, ResetMarks, MongoListDatabases, Ask("partial"), AddCharts, RemoveCharts>>)
MongoMembers ==
    Of(MongoClient, MongoMatch,
       <<MongoServerStatus, Ask("partial")>> \o Seen(MongoReplicaSet))
MongoShards ==
    Of(MongoClient, MongoMatch,
       <<MongoServerStatus, Ask("partial"), Ask("partial")>> \o Seen(MongoSharding))

----------------------------------------------------------------------------
(* Proxies                                                                    *)

ProxySQLSession == Needing({"settings"}, ProbedPool)
ProxySQLVersion == Ask("lastTry")
ProxySQLReset   == ResetMarks
ProxySQLCharts  == UpdateCharts
ProxySQLMatch   == "affix"
ProxySQL(kind) ==
    Of(ProxySQLSession, ProxySQLMatch,
       <<ProxySQLVersion, ProxySQLReset, Must, Naming(kind, "command", Must),
         Naming(kind, "user", Must), Naming(kind, "backend", Must), ProxySQLCharts>>)
ProxySQLCommands == ProxySQL("command")
ProxySQLUsers    == ProxySQL("user")
ProxySQLBackends == ProxySQL("backend")

PgBouncerInit == {"settings"}
PgBouncerSession == Needing(PgBouncerInit, Pool)
PgBouncerVersion   == Once(Must)
PgBouncerSettings  == Must
PgBouncerReset     == ResetMarks
PgBouncerDatabases == List("error")
PgBouncerStats     == Must
PgBouncerPools     == Must
PgBouncerCharts    == UpdateCharts
PgBouncerMatch     == "affix"
PgBouncer ==
    Of(PgBouncerSession, PgBouncerMatch,
       <<PgBouncerVersion, PgBouncerSettings, PgBouncerReset, PgBouncerDatabases,
         PgBouncerStats, PgBouncerPools, PgBouncerCharts>>)

----------------------------------------------------------------------------
(* Key-value and document stores                                              *)

RedisInit == {"settings"} \cup TLSConfig
RedisSession == Needing(RedisInit, InitPool)
RedisInfo    == Growing(List("error"))
RedisLatency == May
Redis == Of(RedisSession, "exact", RedisInfo \o <<RedisLatency>>)

PikaInit == {"settings"} \cup TLSConfig
PikaSession == Needing(PikaInit, InitPool)
PikaInfo    == Growing(List("error"))
Pika == Of(PikaSession, "exact", PikaInfo)

CouchDBInit == HTTPClient \cup HTTPRequest
CouchDBSession == Needing(CouchDBInit, PerRequest)
CouchDB == Of(CouchDBSession, "exact", <<Once(Must), May, May, May, May>>)

CouchbaseInit == HTTPClient \cup HTTPRequest
CouchbaseSession == Needing(CouchbaseInit, PerRequest)
Couchbase == Of(CouchbaseSession, "exact", Growing(Empty("error", List("error"))))

CassandraInit == HTTPClient
CassandraSession == Needing(CassandraInit, PerRequest)
CassandraScrape  == ScrapeSeries
CassandraCharts  == AddCharts
CassandraThreadPools ==
    Of(CassandraSession, "exact", <<ResetMarks, CassandraScrape, CassandraCharts>>)
CassandraFixed   == Plain(CassandraSession, Must)

CockroachDBInit == HTTPClient
CockroachDBSession == Needing(CockroachDBInit, PerRequest)
CockroachDB == Plain(CockroachDBSession, Must)

ElasticsearchInit == HTTPClient \cup HTTPRequest
ElasticsearchSession == Needing(ElasticsearchInit, PerRequest)
ElasticsearchMatch   == "affix"
ElasticsearchSteps(nodes, indices) == <<Once(Must)>> \o nodes \o <<May, May>> \o indices
ElasticsearchNodes ==
    Of(ElasticsearchSession, ElasticsearchMatch,
       ElasticsearchSteps(Seen(Empty("skips", List("skips"))), <<May>>))
ElasticsearchIndices ==
    Of(ElasticsearchSession, ElasticsearchMatch,
       ElasticsearchSteps(<<May>>, Seen(Empty("skips", List("skips")))))

DatabaseCatalogue ==
    {MySQL, PostgresStandbys, PostgresDatabases, PostgresTables, PostgresIndexes,
     MongoDatabases, MongoMembers, MongoShards, ProxySQLCommands, ProxySQLUsers,
     ProxySQLBackends, PgBouncer, Redis, Pika, CouchDB, Couchbase, CassandraThreadPools,
     CassandraFixed, CockroachDB, ElasticsearchNodes, ElasticsearchIndices}
=============================================================================
