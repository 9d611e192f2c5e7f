----------------------------- MODULE MetricDesc -----------------------------
(***************************************************************************)
(* metrics.go: how a value becomes a time series.  A series needs a        *)
(* description, which fixes the names of its labels.  The exporter starts  *)
(* with a table of them (exporter.go), makes the others when it first      *)
(* meets a metric, and keeps all of them, by name, as long as it lives.    *)
(*                                                                         *)
(* An exporter is a record [descs, out, panic]: its descriptions, the      *)
(* series of the running scrape and whether a registration panicked.  A    *)
(* float is a fraction <<numerator, denominator>>, not reduced.            *)
(*                                                                         *)
(* A field of a server's answer is a record [k, i, v]: its name, the       *)
(* number or the name that ends it (slave0, cmdstat_get) or "", and its    *)
(* value cut at the commas.  A piece of a value is [n, s, x]: n the name   *)
(* before "=" or "", then a text s or, with s = "", a number x.            *)
(***************************************************************************)
EXTENDS Integers, SequencesExt

If(b, s) == IF b THEN s ELSE <<>>

Num(n, x) == [n |-> n, s |-> "", x |-> x]
Txt(n, t) == [n |-> n, s |-> t, x |-> 0]
Field(k, i, v) == [k |-> k, i |-> i, v |-> v]

\* A map with one more entry, or another value for one it has.
With(f, k, v) == [x \in DOMAIN f \cup {k} |-> IF x = k THEN v ELSE f[x]]

Whole(x) == <<x, 1>>
Milli(x) == <<x, 1000>>
Micro(x) == <<x, 1000000>>

\* A summary or a histogram, and a gauge or a counter; labels are paired with their values when one
\* is sent.
Distribution(name, val, values, count, dist) ==
    [name |-> name, val |-> val, values |-> values, count |-> count, dist |-> dist]
Metric(name, val, values) == Distribution(name, val, values, 0, {})

CmdMetrics == {"commands_total", "commands_duration_seconds_total", "commands_rejected_calls_total",
               "commands_failed_calls_total", "commands_latencies_usec", "latency_percentiles_usec"}
DbMetrics == {"db_keys", "db_keys_expiring", "db_keys_cached", "db_avg_ttl_seconds"}
MasterMetrics == {"master_link_up", "master_last_io_seconds_ago", "master_sync_in_progress",
                  "slave_repl_offset"}
\* Fault: the table lacks the replicas' lag, which no call makes a description for.
ReplicaMetricsNoLag == {"connected_slave_offset_bytes"}

ReplicaMetrics == {"connected_slave_offset_bytes", "connected_slave_lag_seconds"}
SpikeMetrics == {"latency_spike_last", "latency_spike_duration_seconds"}
SentinelMetrics == {"sentinel_master_slaves", "sentinel_master_sentinels"}
LimitMetrics == {"config_client_output_buffer_limit_bytes",
                 "config_client_output_buffer_limit_overcome_seconds"}
PlainMetrics == {"start_time_seconds", "sentinel_masters", "sentinel_tilt", "up"}

\* The labels in the table of NewRedisExporter.
KnownLabels(m) ==
    CASE m \in CmdMetrics -> <<"cmd">>
      [] m \in DbMetrics -> <<"db">>
      [] m \in MasterMetrics -> <<"master_host", "master_port">>
      [] m \in ReplicaMetrics -> <<"slave_ip", "slave_port", "slave_state">>
      [] m \in SpikeMetrics -> <<"event_name">>
      [] m \in SentinelMetrics -> <<"master_name", "master_address">>
      [] m = "sentinel_master_status" -> <<"master_name", "master_address", "master_status">>
      [] m = "errors_total" -> <<"err">>
      [] m = "slave_info" -> <<"master_host", "master_port", "read_only">>
      [] m = "config_key_value" -> <<"key", "value">>
      [] m = "config_value" -> <<"key">>
      [] m \in LimitMetrics -> <<"class", "limit">>
      [] m = "module_info" -> <<"name", "ver", "api", "filters", "usedby", "using">>
      [] OTHER -> <<>>

KnownDescs ==
    [m \in CmdMetrics \cup DbMetrics \cup MasterMetrics \cup ReplicaMetrics \cup SpikeMetrics
           \cup SentinelMetrics \cup PlainMetrics \cup LimitMetrics
           \cup {"config_key_value", "config_value", "sentinel_master_status", "errors_total", "slave_info",
                 "module_info"}
        |-> KnownLabels(m)]

NewExporter == [descs |-> KnownDescs, out |-> <<>>, panic |-> FALSE]

\* The first description made under a name is the one that stays.
createMetricDescriptions(e, names, labels) ==
    [descs |-> [n \in DOMAIN e.descs \cup names |-> IF n \in DOMAIN e.descs THEN e.descs[n] ELSE labels],
     out |-> e.out, panic |-> e.panic]

createMetricDescription(e, name, labels) == createMetricDescriptions(e, {name}, labels)

Known(e, name) == name \in DOMAIN e.descs
Fits(e, m) == Known(e, m.name) /\ Len(e.descs[m.name]) = Len(m.values)

LabelsOf(e, m) == [i \in DOMAIN m.values |-> <<e.descs[m.name][i], m.values[i]>>]

Series(e, m) ==
    [name |-> m.name, lbls |-> LabelsOf(e, m), val |-> m.val, count |-> m.count, dist |-> m.dist]

\* The metrics that fit become series.
Sent(e, ms) == FlattenSeq([i \in DOMAIN ms |-> If(Fits(e, ms[i]), <<Series(e, ms[i])>>)])

\* registerConstMetric with labels, for several metrics: an unknown name panics, a wrong number of
\* labels is logged and the metric is lost.
registerLabelled(e, ms) ==
    [descs |-> e.descs, out |-> e.out \o Sent(e, ms),
     panic |-> e.panic \/ \E i \in DOMAIN ms : ~Known(e, ms[i].name)]

\* registerConstMetric without labels makes the description it needs.
registerPlain(e, name, val) ==
    registerLabelled(createMetricDescription(e, name, <<>>), <<Metric(name, val, <<>>)>>)

\* registerConstSummary and registerConstHistogram, for several of them: anything wrong panics.
registerDistributions(e, ms) ==
    [descs |-> e.descs, out |-> e.out \o Sent(e, ms),
     panic |-> e.panic \/ \E i \in DOMAIN ms : ~Fits(e, ms[i])]

-----------------------------------------------------------------------------
\* Some of the fields in metricMapGauges and metricMapCounters and the names of their metrics;
\* the other entries of the two maps are treated alike.
metricMap ==
    [f \in {"uptime_in_seconds", "connected_slaves", "latest_fork_usec", "keyspace_hits", "used_memory",
            "cluster_stats_messages_sent", "tile38_num_hooks", "search_number_of_indexes"} |->
        CASE f = "keyspace_hits" -> "keyspace_hits_total"
          [] f = "used_memory" -> "memory_used_bytes"
          [] f = "cluster_stats_messages_sent" -> "cluster_messages_sent_total"
          [] f = "tile38_num_hooks" -> "tile38_num_hooks_total"
          [] OTHER -> f]

\* The fields whose names begin with one of the prefixes that are always included.
ClusterFields == {"cluster_enabled", "cluster_state", "cluster_stats_messages_sent"}
includeMetric(f) == f.k \in {"db", "cmdstat_"} \cup ClusterFields \cup DOMAIN metricMap

\* strconv.ParseFloat and the words that count as numbers, on a whole value.
IsFloat(v) ==
    Len(v) = 1 /\ v[1].n = "" /\ v[1].s \in {"", "ok", "true", "err", "fail", "false"}
ParseFloat(v) ==
    CASE v[1].s \in {"ok", "true"} -> 1
      [] v[1].s \in {"err", "fail", "false"} -> 0
      [] OTHER -> v[1].x

parseAndRegisterConstMetric(e, f) ==
    LET name == IF f.k \in DOMAIN metricMap THEN metricMap[f.k] ELSE f.k
    IN  IF ~IsFloat(f.v) THEN e
        ELSE IF name = "latest_fork_usec"
             THEN registerPlain(e, "latest_fork_seconds", Micro(ParseFloat(f.v)))
             ELSE registerPlain(e, name, Whole(ParseFloat(f.v)))

\* What the loops over fields do with one they have no other use for.
registerField(e, f) == IF includeMetric(f) THEN parseAndRegisterConstMetric(e, f) ELSE e
=============================================================================
