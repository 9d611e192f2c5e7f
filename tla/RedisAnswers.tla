---------------------------- MODULE RedisAnswers ----------------------------
(***************************************************************************)
(* What a server says of itself: the facts and the text they are put into. *)
(* The server is not in this repository; the forms are the ones the        *)
(* parsers' comments and tests show.  The facts are a record               *)
(*                                                                         *)
(*   kind      the product and its version, which decides the forms        *)
(*   masters   the masters it replicates, none when it is a master         *)
(*   replicas  the replicas it lists                                       *)
(*   dbs       the databases that hold keys, in order                      *)
(*   cmds      the commands that were called, in order                     *)
(*   brief     the commands whose statistics lack a field                  *)
(*   clients   the connected clients                                       *)
(*   sentinel, cluster   whether it runs in that mode                      *)
(*   denied    the commands it refuses to the exporter                     *)
(***************************************************************************)
EXTENDS MetricDesc

CONSTANTS
    Databases,      \* the number of databases in the server's configuration
    Now             \* the time of the scrape

ASSUME DatabasesAssumption == Databases \in 1 .. 16

Kinds == {"redis2.4", "redis5.0", "redis6.2", "redis7.0", "redis7.4", "keydb", "valkey7", "valkey8",
          "later"}

\* The kinds that know replica lag and average TTL; the counts of refused and failed calls and
\* the users; latency statistics and protocol versions; watched keys and the keys with fields
\* that expire.
Since28 == Kinds \ {"redis2.4"}
Since62 == Since28 \ {"redis5.0"}
Since70 == Since62 \ {"redis6.2", "keydb"}
Since74 == Since70 \ {"redis7.0", "valkey7"}
Valkey == {"valkey7", "valkey8"}

\* What the facts may be.  A server lists a database, a command, a client or a master once; a
\* replica it may list twice.  A sentinel replicates nothing and holds no data.
Facts ==
    [kind : Kinds, sentinel : BOOLEAN, cluster : BOOLEAN, denied : SUBSET STRING, brief : SUBSET STRING,
     masters : Seq([host : STRING, port : STRING, up : BOOLEAN, io : Int, offset : Int]),
     replicas : Seq([ip : STRING, port : STRING, state : STRING, offset : Int, lag : Nat]),
     dbs : Seq([db : 0 .. Databases - 1, keys : Nat, expires : Nat, ttl : Nat, other : Nat]),
     cmds : Seq([cmd : STRING, calls : Nat \ {0}, usec : Nat, rejected : Nat]),
     clients : Seq([id : STRING, name : STRING, host : STRING, port : Nat, age : Nat, equals : BOOLEAN])]

Consistent(s) ==
    /\ Len(s.masters) <= 16
    /\ \A i, j \in DOMAIN s.masters :
          i # j => <<s.masters[i].host, s.masters[i].port>> # <<s.masters[j].host, s.masters[j].port>>
    /\ \A i, j \in DOMAIN s.dbs : i # j => s.dbs[i].db # s.dbs[j].db
    /\ \A i, j \in DOMAIN s.cmds : i # j => s.cmds[i].cmd # s.cmds[j].cmd
    /\ \A i, j \in DOMAIN s.clients : i # j => s.clients[i].id # s.clients[j].id
    /\ s.sentinel => s.masters = <<>> /\ s.replicas = <<>> /\ s.dbs = <<>> /\ s.cmds = <<>>

\* The decimal form of a small number.
Itoa(n) == <<"0", "1", "2", "3", "4", "5", "6", "7", "8", "9", "10", "11", "12", "13", "14", "15">>[n + 1]

Header(h) == <<Field("#", h, <<>>)>>
Line(k, p) == <<Field(k, "", <<p>>)>>
Each(f(_), n) == [i \in 1 .. n |-> f(i)]

\* One master's fields; KeyDB numbers those of the second master on.
MasterFields(m, n) ==
    <<Field("master_host", n, <<Txt("", m.host)>>), Field("master_port", n, <<Txt("", m.port)>>),
      Field("master_link_status", n, <<Txt("", IF m.up THEN "up" ELSE "down")>>),
      Field("master_last_io_seconds_ago", n, <<Num("", m.io)>>),
      Field("master_sync_in_progress", n, <<Num("", IF m.up THEN 0 ELSE 1)>>),
      Field("slave_repl_offset", "", <<Num("", m.offset)>>)>>

ReplicaField(sv, r, n) ==
    Field("slave", n, <<Txt("ip", r.ip), Txt("port", r.port), Txt("state", r.state),
                        Num("offset", r.offset)>>
                      \o If(sv.kind \in Since28, <<Num("lag", r.lag)>>))

\* The fourth number is KeyDB's cached keys or the keys with expiring fields; a fifth may follow.
KeyspaceField(sv, d) ==
    Field("db", Itoa(d.db), <<Num("keys", d.keys), Num("expires", d.expires)>>
        \o If(sv.kind \in Since28, <<Num("avg_ttl", d.ttl)>>)
        \o If(sv.kind = "keydb", <<Num("cached_keys", d.other)>>)
        \o If(sv.kind \in Since74, <<Num("subexpiry", d.other)>>)
        \o If(sv.kind = "later", <<Num("more", 0)>>))

CommandField(sv, c) ==
    Field("cmdstat_", c.cmd, <<Num("calls", c.calls), Num("usec", c.usec)>>
        \o If(c.cmd \notin sv.brief, <<Num("usec_per_call", c.usec \div c.calls)>>
             \o If(sv.kind \in Since62, <<Num("rejected_calls", c.rejected), Num("failed_calls", 1)>>)))

PercentileField(c) ==
    Field("latency_percentiles_usec_", c.cmd, <<Num("p50", c.usec), Num("p99", c.usec + 1)>>)

MasterOfSentinel ==
    Field("master", "0", <<Txt("name", "m"), Txt("status", "ok"), Txt("address", "a"),
                           Num("slaves", 1), Num("sentinels", 2)>>)

\* INFO ALL.
InfoText(sv) ==
    Header("Server") \o Line("redis_version", Txt("", sv.kind))
    \o If(sv.kind \in Valkey, Line("valkey_version", Txt("", sv.kind)))
    \o If(sv.kind = "valkey8", Line("valkey_release_stage", Txt("", "ga")))
    \o Line("uptime_in_seconds", Num("", 5)) \o Line("hz", Num("", 10))
    \o Header("Stats") \o Line("latest_fork_usec", Num("", 7))
    \o (IF sv.sentinel
        THEN Header("Sentinel") \o Line("sentinel_masters", Num("", 1)) \o <<MasterOfSentinel>>
        ELSE Header("Replication")
             \o Line("role", Txt("", IF sv.masters = <<>> THEN "master" ELSE "slave"))
             \o FlattenSeq([i \in DOMAIN sv.masters |->
                               MasterFields(sv.masters[i], IF i = 1 THEN "" ELSE Itoa(i - 1))])
             \o If(sv.masters # <<>>, Line("slave_read_only", Txt("", "1")))
             \o Line("connected_slaves", Num("", Len(sv.replicas)))
             \o Each(LAMBDA i : ReplicaField(sv, sv.replicas[i], Itoa(i - 1)), Len(sv.replicas))
             \o Header("Commandstats")
             \o Each(LAMBDA i : CommandField(sv, sv.cmds[i]), Len(sv.cmds))
             \o If(sv.kind \in Since62,
                   Header("Errorstats") \o <<Field("errorstat_", "ERR", <<Num("count", 4)>>)>>)
             \o If(sv.kind \in Since70,
                   Header("Latencystats")
                   \o Each(LAMBDA i : PercentileField(sv.cmds[i]), Len(sv.cmds)))
             \o Header("Cluster")
             \o Line("cluster_enabled", Num("", IF sv.cluster THEN 1 ELSE 0))
             \o Header("Keyspace") \o Each(LAMBDA i : KeyspaceField(sv, sv.dbs[i]), Len(sv.dbs)))

ClusterText == Line("cluster_state", Txt("", "ok")) \o Line("cluster_stats_messages_sent", Num("", 3))

\* CONFIG GET *; the limits are cut at their blanks.
ConfigText ==
    Line("databases", Num("", Databases)) \o Line("maxmemory", Num("", 9)) \o Line("requirepass", Txt("", "pw"))
    \o <<Field("client-output-buffer-limit", "", <<Txt("", "normal"), Num("", 1), Num("", 2), Num("", 3)>>)>>

\* LATENCY LATEST, and LATENCY HISTOGRAM whose last entry a later server words differently.
LatestAnswer == <<[event |-> "fork", last |-> 6, duration |-> 8]>>
HistogramAnswer(sv) ==
    Each(LAMBDA i : [cmd |-> sv.cmds[i].cmd, calls |-> sv.cmds[i].calls,
                     scans |-> ~(sv.kind = "later" /\ i = Len(sv.cmds)),
                     buckets |-> {<<1, sv.cmds[i].calls>>}], Len(sv.cmds))

\* The numbers of a client, in the order of clients.go, each with a value of its own.
ClientNumbers == <<"omem", "tot-mem", "age", "idle", "sub", "psub", "qbuf", "qbuf-free", "obl", "oll">>

\* One client of CLIENT LIST; a name may hold the "=" that the fields are cut at.
ClientLine(sv, c) ==
    Field("client", c.id,
        <<Txt("id", c.id), [n |-> "addr", s |-> c.host, x |-> c.port],
          Txt(IF c.equals THEN "" ELSE "name", c.name), Txt("flags", "N"), Txt("db", "0")>>
        \o [j \in DOMAIN ClientNumbers |-> Num(ClientNumbers[j], c.age + j)]
        \o If(sv.kind \in Since70, <<Num("ssub", 0)>>) \o If(sv.kind \in Since74, <<Num("watch", 1)>>)
        \o If(sv.kind \in Since62, <<Txt("user", "default")>>)
        \o If(sv.kind \in Since70, <<Txt("resp", "2")>>))

ClientText(sv) == Each(LAMBDA i : ClientLine(sv, sv.clients[i]), Len(sv.clients))

\* SERVER EXT of Tile38, and INFO MODULES, one of whose modules has fewer properties than seven.
TileAnswer == <<Field("num_hooks", "", <<Num("", 2)>>)>>
ModulesText ==
    <<Field("module", "", <<Txt("name", "search"), Txt("ver", "1"), Txt("api", "1"), Txt("filters", "0"),
                            Txt("usedby", "a"), Txt("using", "b"), Txt("options", "c")>>),
      Field("module", "", <<Txt("name", "old"), Txt("ver", "1")>>),
      Field("search_number_of_indexes", "", <<Num("", 3)>>)>>
=============================================================================
