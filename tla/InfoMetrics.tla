---------------------------- MODULE InfoMetrics -----------------------------
(***************************************************************************)
(* info.go: the walk over the lines of INFO ALL.  A header says which      *)
(* section follows, and the section says how a line is read; what is left  *)
(* over goes by its name.  Some lines only make sense with others, lines   *)
(* before them (the address of a master) or sections away (the count, the  *)
(* sum and the percentiles of one command), so the walk carries            *)
(*                                                                         *)
(*   parse.cls         the section                                         *)
(*   parse.host, port  the last master address seen                        *)
(*   parse.kv          the fields that become labels at the end            *)
(*   parse.stats, lat  what is known of each command                       *)
(*   parse.handled     the databases that were listed                      *)
(***************************************************************************)
EXTENDS RedisAnswers

VARIABLES
    section,    \* of scrapeRedisHost
    todo,       \* the lines still to come of the answer the section reads
    parse,      \* the walk's own state
    dbCount,    \* the number of databases, as far as it is known
    exp         \* the exporter: descriptions and series

infoVars == <<section, todo, parse, dbCount, exp>>

BaseLabels == <<"role", "redis_version", "redis_build_id", "redis_mode", "os", "maxmemory_policy",
                "tcp_port", "run_id", "process_id", "master_replid">>
InfoFields == ToSet(BaseLabels) \cup {"valkey_version", "valkey_release_stage", "master_host",
                                      "master_port", "slave_read_only"}

NewParse == [cls |-> "", host |-> "", port |-> "", kv |-> <<>>, stats |-> <<>>, lat |-> <<>>,
             handled |-> {}]

\* strings.Split(s, "=") gives two parts and the second is a number.
extractVal(p) == p.n # "" /\ p.s = ""

Has(v, n) == \E i \in DOMAIN v : v[i].n = n
Get(v, n) == v[CHOOSE i \in DOMAIN v : v[i].n = n /\ \A j \in DOMAIN v : v[j].n = n => j <= i]
HasNumber(v, n) == Has(v, n) /\ Get(v, n).s = ""
Atoi(v) == v[1].x

\* Fault: only the unnumbered fields of a master are its address.
SeenUnnumbered(p, f) ==
    [p EXCEPT !.kv = IF f.i = "" /\ f.k \in InfoFields THEN With(@, f.k, f.v[1].s) ELSE @,
              !.host = IF f.k = "master_host" /\ f.i = "" THEN f.v[1].s ELSE @,
              !.port = IF f.k = "master_port" /\ f.i = "" THEN f.v[1].s ELSE @]

\* What every line leaves behind: its value, and the address of a master, numbered or not.  The
\* lines of the sections that do not call it are none of those.
Seen(p, f) ==
    [p EXCEPT !.kv = IF f.i = "" /\ f.k \in InfoFields THEN With(@, f.k, f.v[1].s) ELSE @,
              !.host = IF f.k = "master_host" THEN f.v[1].s ELSE @,
              !.port = IF f.k = "master_port" THEN f.v[1].s ELSE @]

-----------------------------------------------------------------------------
\* A replica: every part is name=value, the offset is a number and so is the lag if there is one.
parseConnectedSlaveString(f) ==
    /\ f.k = "slave"
    /\ \A i \in DOMAIN f.v : f.v[i].n # ""
    /\ HasNumber(f.v, "offset")
    /\ Has(f.v, "lag") => HasNumber(f.v, "lag")

replicaMetrics(v) ==
    LET who == <<Get(v, "ip").s, Get(v, "port").s, Get(v, "state").s>>
    IN  <<Metric("connected_slave_offset_bytes", Whole(Get(v, "offset").x), who)>>
        \o If(Has(v, "lag") /\ Get(v, "lag").x > -1,
              <<Metric("connected_slave_lag_seconds", Whole(Get(v, "lag").x), who)>>)

\* handleMetricsReplication: the metrics it registers; it has handled the line if there are any.
replicationMetrics(p, f) ==
    LET master == <<p.host, p.port>>
    IN  CASE f.k = "master_link_status" ->
                 <<Metric("master_link_up", Whole(IF f.v[1].s = "up" THEN 1 ELSE 0), master)>>
          [] f.k \in {"master_last_io_seconds_ago", "master_sync_in_progress", "slave_repl_offset"} ->
                 <<Metric(f.k, Whole(Atoi(f.v)), master)>>
          [] parseConnectedSlaveString(f) -> replicaMetrics(f.v)
          [] OTHER -> <<>>

handleMetricsServer(e, f) ==
    CASE f.k = "uptime_in_seconds" /\ f.v[1].s = "" ->
             registerPlain(e, "start_time_seconds", Whole(Now - f.v[1].x))
      [] f.k \in {"hz", "configured_hz"} /\ f.v[1].s = "" -> registerPlain(e, f.k, Whole(Atoi(f.v)))
      [] OTHER -> e

\* A command's statistics: the first two numbers and, from the fourth piece on, two more.
StatsParse(f) ==
    /\ f.k = "cmdstat_"
    /\ Len(f.v) >= 3 /\ extractVal(f.v[1]) /\ extractVal(f.v[2])
    /\ Len(f.v) >= 5 => extractVal(f.v[4]) /\ extractVal(f.v[5])

\* What the parser hands back on any path: what it had read when it stopped.
StatsRead(f) ==
    LET calls == f.k = "cmdstat_" /\ Len(f.v) >= 3 /\ extractVal(f.v[1])
    IN  [calls |-> IF calls THEN f.v[1].x ELSE 0,
         usec |-> IF calls /\ extractVal(f.v[2]) THEN f.v[2].x ELSE 0]

commandMetrics(f) ==
    IF ~StatsParse(f) THEN <<>>
    ELSE <<Metric("commands_total", Whole(f.v[1].x), <<f.i>>),
           Metric("commands_duration_seconds_total", Micro(f.v[2].x), <<f.i>>)>>
         \o If(Len(f.v) >= 5,
               <<Metric("commands_rejected_calls_total", Whole(f.v[4].x), <<f.i>>),
                 Metric("commands_failed_calls_total", Whole(f.v[5].x), <<f.i>>)>>)

\* A piece that is no pair counts as the percentile 0 with the value 0.
extractPercentileVal(p) == IF p.n = "" THEN <<"p0", 0>> ELSE <<p.n, p.x>>
PercentilesParse(f) ==
    f.k = "latency_percentiles_usec_" /\ \A i \in DOMAIN f.v : f.v[i].n # "" => f.v[i].s = ""

\* db0:keys=1,expires=0,avg_ttl=0,cached_keys=0, read by position.
parseDBKeyspaceString(f) ==
    f.k = "db" /\ Len(f.v) \in 2 .. 4 /\ \A i \in DOMAIN f.v : extractVal(f.v[i])

\* Fault: the fourth field is read as the average TTL.
keyspaceMetricsShifted(f) ==
    <<Metric("db_keys", Whole(f.v[1].x), <<f.i>>), Metric("db_keys_expiring", Whole(f.v[2].x), <<f.i>>)>>
    \o If(Len(f.v) > 3 /\ f.v[4].x > -1, <<Metric("db_keys_cached", Whole(f.v[3].x), <<f.i>>)>>)
    \o If(Len(f.v) > 2 /\ f.v[3].x > -1, <<Metric("db_avg_ttl_seconds", Milli(f.v[Len(f.v)].x), <<f.i>>)>>)

keyspaceMetrics(f) ==
    <<Metric("db_keys", Whole(f.v[1].x), <<f.i>>), Metric("db_keys_expiring", Whole(f.v[2].x), <<f.i>>)>>
    \o If(Len(f.v) > 3 /\ f.v[4].x > -1, <<Metric("db_keys_cached", Whole(f.v[4].x), <<f.i>>)>>)
    \o If(Len(f.v) > 2 /\ f.v[3].x > -1, <<Metric("db_avg_ttl_seconds", Milli(f.v[3].x), <<f.i>>)>>)

\* master0:name=...,status=...,address=...,slaves=...,sentinels=...
parseSentinelMasterString(f) == f.k = "master" /\ HasNumber(f.v, "slaves") /\ HasNumber(f.v, "sentinels")

sentinelMetrics(v) ==
    LET at == <<Get(v, "name").s, Get(v, "address").s>>
        status == Get(v, "status").s
    IN  <<Metric("sentinel_master_status", Whole(IF status = "ok" THEN 1 ELSE 0), Append(at, status)),
          Metric("sentinel_master_slaves", Whole(Get(v, "slaves").x), at),
          Metric("sentinel_master_sentinels", Whole(Get(v, "sentinels").x), at)>>

\* Two of the five numbers it knows by name, or a master.
handleMetricsSentinel(e, f) ==
    CASE f.k \in {"sentinel_masters", "sentinel_tilt"} -> registerPlain(e, f.k, Whole(Atoi(f.v)))
      [] parseSentinelMasterString(f) -> registerLabelled(e, sentinelMetrics(f.v))
      [] OTHER -> e

-----------------------------------------------------------------------------
(***************************************************************************)
(* The walk, one action per section.                                       *)
(***************************************************************************)
AtLine == section = "info" /\ todo # <<>>
InClass(cls) == AtLine /\ Head(todo).k # "#" /\ parse.cls = cls
Walk == todo' = Tail(todo) /\ UNCHANGED <<section, dbCount>>

HeaderLine ==
    /\ AtLine /\ Head(todo).k = "#"
    /\ parse' = [parse EXCEPT !.cls = Head(todo).i]
    /\ Walk /\ UNCHANGED exp

ReplicationLine ==
    /\ InClass("Replication")
    /\ LET f == Head(todo)
           p == Seen(parse, f)
           ms == replicationMetrics(p, f)
       IN  /\ parse' = p
           /\ exp' = IF ms # <<>> THEN registerLabelled(exp, ms) ELSE registerField(exp, f)
    /\ Walk

ServerLine ==
    /\ InClass("Server")
    /\ parse' = Seen(parse, Head(todo))
    /\ exp' = registerField(handleMetricsServer(exp, Head(todo)), Head(todo))
    /\ Walk

CommandstatsLine ==
    /\ InClass("Commandstats")
    /\ LET f == Head(todo)
       IN  /\ parse' = [parse EXCEPT !.stats = With(@, f.i, StatsRead(f))]
           /\ exp' = registerLabelled(exp, commandMetrics(f))
    /\ Walk

LatencystatsLine ==
    /\ InClass("Latencystats")
    /\ LET f == Head(todo)
       IN  parse' = IF PercentilesParse(f)
                    THEN [parse EXCEPT !.lat =
                             With(@, f.i, {extractPercentileVal(f.v[i]) : i \in DOMAIN f.v})]
                    ELSE parse
    /\ Walk /\ UNCHANGED exp

ErrorstatsLine ==
    /\ InClass("Errorstats")
    /\ LET f == Head(todo)
       IN  exp' = IF f.k = "errorstat_" /\ Len(f.v) = 1 /\ extractVal(f.v[1])
                  THEN registerLabelled(exp, <<Metric("errors_total", Whole(f.v[1].x), <<f.i>>)>>)
                  ELSE exp
    /\ Walk /\ UNCHANGED parse

\* Fault: the database is not marked as listed.
KeyspaceLineUnmarked ==
    /\ InClass("Keyspace")
    /\ LET f == Head(todo)
       IN  exp' = IF parseDBKeyspaceString(f) THEN registerLabelled(exp, keyspaceMetrics(f))
                  ELSE registerField(exp, f)
    /\ Walk /\ UNCHANGED parse

KeyspaceLine ==
    /\ InClass("Keyspace")
    /\ LET f == Head(todo)
       IN  IF parseDBKeyspaceString(f)
           THEN /\ parse' = [parse EXCEPT !.handled = @ \cup {f.i}]
                /\ exp' = registerLabelled(exp, keyspaceMetrics(f))
           ELSE exp' = registerField(exp, f) /\ UNCHANGED parse
    /\ Walk

SentinelLine ==
    /\ InClass("Sentinel")
    /\ exp' = registerField(handleMetricsSentinel(exp, Head(todo)), Head(todo))
    /\ Walk /\ UNCHANGED parse

OtherLine ==
    /\ AtLine /\ Head(todo).k # "#"
    /\ parse.cls \notin {"Replication", "Server", "Commandstats", "Latencystats", "Errorstats",
                         "Keyspace", "Sentinel"}
    /\ parse' = Seen(parse, Head(todo))
    /\ exp' = registerField(exp, Head(todo))
    /\ Walk

-----------------------------------------------------------------------------
(***************************************************************************)
(* What follows the last line.                                             *)
(***************************************************************************)
\* A summary needs both sections: the percentiles and the count and sum.
generateCommandLatencySummaries(e, p) ==
    LET cmds == SetToSeq(DOMAIN p.lat \cap DOMAIN p.stats)
        Summary(c) == Distribution("latency_percentiles_usec", Whole(p.stats[c].usec), <<c>>,
                                   p.stats[c].calls, p.lat[c])
    IN  registerDistributions(createMetricDescription(e, "latency_percentiles_usec", <<"cmd">>),
                              [i \in DOMAIN cmds |-> Summary(cmds[i])])

\* The databases below dbCount that were not listed count as empty.
padDatabases(e, p) ==
    LET empty == SetToSeq({Itoa(d) : d \in 0 .. dbCount - 1} \ p.handled)
    IN  registerLabelled(e, Each(LAMBDA i : Metric("db_keys", Whole(0), <<empty[i]>>), Len(empty))
                            \o Each(LAMBDA i : Metric("db_keys_expiring", Whole(0), <<empty[i]>>),
                                    Len(empty)))

instanceLabels(kv) ==
    BaseLabels \o If("valkey_version" \in DOMAIN kv, <<"valkey_version">>)
               \o If("valkey_release_stage" \in DOMAIN kv, <<"valkey_release_stage">>)

Value(kv, f) == IF f \in DOMAIN kv THEN kv[f] ELSE ""

instanceValues(kv) ==
    [i \in DOMAIN BaseLabels |-> Value(kv, BaseLabels[i])]
    \o If("valkey_version" \in DOMAIN kv, <<Value(kv, "valkey_version")>>)
    \o If("valkey_release_stage" \in DOMAIN kv, <<Value(kv, "valkey_release_stage")>>)

registerInstance(e, kv) ==
    registerLabelled(createMetricDescription(e, "instance_info", instanceLabels(kv)),
        <<Metric("instance_info", Whole(1), instanceValues(kv))>>
        \o If(Value(kv, "role") = "slave",
              <<Metric("slave_info", Whole(1), <<Value(kv, "master_host"), Value(kv, "master_port"),
                                                Value(kv, "slave_read_only")>>)>>))

\* The end of extractInfoMetrics, with or without the padding of empty databases.
InfoDone(pad) ==
    /\ section = "info" /\ todo = <<>>
    /\ LET e == generateCommandLatencySummaries(exp, parse)
       IN  exp' = registerInstance(IF pad THEN padDatabases(e, parse) ELSE e, parse.kv)
    /\ section' = "latest"
    /\ UNCHANGED <<todo, parse, dbCount>>

InfoLine ==
    \/ HeaderLine \/ ReplicationLine \/ ServerLine \/ CommandstatsLine \/ LatencystatsLine
    \/ ErrorstatsLine \/ KeyspaceLine \/ SentinelLine \/ OtherLine
=============================================================================
