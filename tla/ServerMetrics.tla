--------------------------- MODULE ServerMetrics ----------------------------
(***************************************************************************)
(* What a scrape makes of the server's own answers, scrape after scrape:   *)
(* configuration, cluster, INFO, latency, clients, Tile38 and modules.     *)
(* The exporter behind /metrics lives on and keeps its descriptions, while *)
(* the server behind the address may be replaced between two scrapes.      *)
(***************************************************************************)
EXTENDS InfoMetrics

CONSTANTS
    Servers,        \* the servers a scrape may find at the address
    Options,        \* the command lines
    DefaultDbs,     \* the number of databases when nothing tells it, 16
    Extensions,     \* for each command, the commands whose names begin with its name
    Spelled,        \* the commands whose names extractUsecRegexp can match
    MaxScrapes      \* bound on the scrapes

ASSUME ServerMetricsAssumption ==
    /\ Options \subseteq [config : BOOLEAN, redact : BOOLEAN, emptyDbs : BOOLEAN, latency : BOOLEAN,
                          clients : BOOLEAN, inclPort : BOOLEAN, tile38 : BOOLEAN, modules : BOOLEAN]
    /\ Servers \subseteq Facts /\ \A s \in Servers : Consistent(s)
    /\ DefaultDbs \in 1 .. 16 /\ MaxScrapes \in Nat \ {0}
    /\ \A c \in DOMAIN Extensions : c \in Extensions[c]
    /\ Spelled \subseteq DOMAIN Extensions

VARIABLES
    sv,         \* the server
    opts,       \* the options
    scrapes,    \* the scrapes begun
    past        \* the servers of the earlier scrapes

vars == <<infoVars, sv, opts, scrapes, past>>

Init ==
    /\ sv \in Servers /\ opts \in Options
    /\ exp = NewExporter
    /\ section = "config" /\ todo = If("CONFIG" \notin sv.denied, ConfigText)
    /\ parse = NewParse /\ dbCount = 0
    /\ scrapes = 1 /\ past = {}

Same == UNCHANGED <<sv, opts, scrapes, past>>

-----------------------------------------------------------------------------
\* Every setting as a label, on request; those that hold passwords may be left out.  The first word
\* stands for a value of several.
Redacted == {"masterauth", "requirepass", "tls-key-file-pass", "tls-client-key-file-pass"}

settingMetrics(f) ==
    LET p == f.v[1]
    IN  If(opts.config /\ (f.k \notin Redacted \/ ~opts.redact),
           <<Metric("config_key_value", Whole(1), <<f.k, IF p.s = "" THEN Itoa(p.x) ELSE p.s>>)>>
           \o If(Len(f.v) = 1 /\ p.s = "", <<Metric("config_value", Whole(p.x), <<f.k>>)>>))

\* The limits of the client classes, four words each.
limitMetrics(f) ==
    If(f.k = "client-output-buffer-limit",
       FlattenSeq([j \in 1 .. Len(f.v) \div 4 |->
           LET v == SubSeq(f.v, 4 * j - 3, 4 * j)
           IN  <<Metric("config_client_output_buffer_limit_bytes", Whole(v[2].x), <<v[1].s, "hard">>),
                 Metric("config_client_output_buffer_limit_bytes", Whole(v[3].x), <<v[1].s, "soft">>),
                 Metric("config_client_output_buffer_limit_overcome_seconds", Whole(v[4].x),
                        <<v[1].s, "soft">>)>>]))

\* One pair of CONFIG GET: the number of databases, and the settings that are metrics.
extractConfigMetrics ==
    /\ section = "config" /\ todo # <<>>
    /\ LET f == Head(todo)
           e == registerLabelled(exp, settingMetrics(f) \o limitMetrics(f))
       IN  /\ dbCount' = IF f.k = "databases" THEN Atoi(f.v) ELSE dbCount
           /\ exp' = IF f.k = "maxmemory" THEN registerPlain(e, "config_maxmemory", Whole(Atoi(f.v))) ELSE e
    /\ todo' = Tail(todo)
    /\ UNCHANGED <<section, parse>> /\ Same

\* INFO is asked for; a cluster's state comes first and settles the number of databases.
FetchInfo ==
    /\ section = "config" /\ todo = <<>>
    /\ LET state == sv.cluster /\ "CLUSTER" \notin sv.denied
       IN  /\ section' = IF state THEN "cluster" ELSE "info"
           /\ todo' = IF state THEN ClusterText ELSE InfoText(sv)
           /\ dbCount' = CASE state -> 1
                           [] ~sv.cluster /\ dbCount = 0 -> DefaultDbs
                           [] OTHER -> dbCount
    /\ UNCHANGED <<parse, exp>> /\ Same

extractClusterInfoMetrics ==
    /\ section = "cluster"
    /\ IF todo = <<>>
       THEN section' = "info" /\ todo' = InfoText(sv) /\ UNCHANGED exp
       ELSE exp' = registerField(exp, Head(todo)) /\ todo' = Tail(todo) /\ UNCHANGED section
    /\ UNCHANGED <<parse, dbCount>> /\ Same

Info == (InfoLine \/ InfoDone(opts.emptyDbs)) /\ Same

\* LATENCY LATEST and, whatever became of it, LATENCY HISTOGRAM, which only some servers know.
extractLatencyLatestMetrics ==
    /\ section = "latest"
    /\ LET asked == opts.latency /\ "LATENCY" \notin sv.denied
           spikes == If(asked, LatestAnswer)
       IN  /\ exp' = registerLabelled(exp, FlattenSeq([i \in DOMAIN spikes |->
                  <<Metric("latency_spike_last", Whole(spikes[i].last), <<spikes[i].event>>),
                    Metric("latency_spike_duration_seconds", Milli(spikes[i].duration),
                           <<spikes[i].event>>)>>]))
           /\ todo' = If(asked /\ sv.kind \in Since70, HistogramAnswer(sv))
    /\ section' = "histogram"
    /\ UNCHANGED <<parse, dbCount>> /\ Same

\* Fault: the command's name is not compared.
extractTotalUsecForCommandAll(cmd) ==
    LET lines == {i \in DOMAIN sv.cmds : sv.cmds[i].cmd \in Spelled}
    IN  MapThenSumSet(LAMBDA i : sv.cmds[i].usec, lines)

\* The time of every command whose name begins with this one, found in the text of INFO by a
\* regular expression that does not know all characters of a name.
extractTotalUsecForCommand(cmd) ==
    LET lines == {i \in DOMAIN sv.cmds : sv.cmds[i].cmd \in Extensions[cmd] \cap Spelled}
    IN  MapThenSumSet(LAMBDA i : sv.cmds[i].usec, lines)

\* One command of the histogram; an entry that cannot be scanned ends the section.
extractLatencyHistogramMetrics ==
    /\ section = "histogram" /\ todo # <<>>
    /\ LET h == Head(todo)
           e == createMetricDescription(exp, "commands_latencies_usec", <<"cmd">>)
           m == Distribution("commands_latencies_usec", Whole(extractTotalUsecForCommand(h.cmd)),
                             <<h.cmd>>, h.calls, h.buckets)
       IN  IF h.scans
           THEN exp' = registerDistributions(e, <<m>>) /\ todo' = Tail(todo)
           ELSE todo' = <<>> /\ UNCHANGED exp
    /\ UNCHANGED <<section, parse, dbCount>> /\ Same

\* The sections between these two use the connection, not what the server says of itself.
FetchClients ==
    /\ section = "histogram" /\ todo = <<>>
    /\ section' = "clients"
    /\ todo' = If(opts.clients /\ "CLIENT" \notin sv.denied, ClientText(sv))
    /\ UNCHANGED <<parse, dbCount, exp>> /\ Same

\* Every part of a client's line has exactly one "=".
parseClientListString(v) == \A i \in DOMAIN v : v[i].n # ""

Text(v, n) == IF Has(v, n) THEN Get(v, n).s ELSE ""

\* Fault: the labels that only some servers have are appended in another order than their values.
clientLabelsSwapped(v) ==
    <<"id", "name", "flags", "db", "host">> \o If(opts.inclPort, <<"port">>)
    \o If(Text(v, "resp") # "", <<"resp">>) \o If(Text(v, "user") # "", <<"user">>)

clientLabels(v) ==
    <<"id", "name", "flags", "db", "host">> \o If(opts.inclPort, <<"port">>)
    \o If(Text(v, "user") # "", <<"user">>) \o If(Text(v, "resp") # "", <<"resp">>)

clientValues(v) ==
    <<Text(v, "id"), Text(v, "name"), Text(v, "flags"), Text(v, "db"), Text(v, "addr")>>
    \o If(opts.inclPort, <<Itoa(Get(v, "addr").x)>>)
    \o If(Text(v, "user") # "", <<Text(v, "user")>>) \o If(Text(v, "resp") # "", <<Text(v, "resp")>>)

\* The ten numbers every client has, in the order of ClientNumbers; durations become times.
ClientMetrics ==
    <<"connected_client_output_buffer_memory_usage_bytes", "connected_client_total_memory_consumed_bytes",
      "connected_client_created_at_timestamp", "connected_client_idle_since_timestamp",
      "connected_client_channel_subscriptions_count", "connected_client_pattern_matching_subscriptions_count",
      "connected_client_query_buffer_length_bytes", "connected_client_query_buffer_free_space_bytes",
      "connected_client_output_buffer_length_bytes", "connected_client_output_list_length">>

ClientNumber(v, n) ==
    LET x == IF Has(v, n) THEN Get(v, n).x ELSE 0 IN IF n \in {"age", "idle"} THEN Now - x ELSE x

clientMetrics(v) ==
    LET who == <<Text(v, "id"), Text(v, "name")>>
    IN  [j \in DOMAIN ClientMetrics |->
             Metric(ClientMetrics[j], Whole(ClientNumber(v, ClientNumbers[j])), who)]
        \o If(Has(v, "ssub"), <<Metric("connected_client_shard_channel_subscriptions_count",
                                       Whole(Get(v, "ssub").x), who)>>)
        \o If(Has(v, "watch"), <<Metric("connected_client_shard_channel_watched_keys",
                                        Whole(Get(v, "watch").x), who)>>)

registerClient(e, v) ==
    LET ms == clientMetrics(v)
        e1 == createMetricDescription(e, "connected_client_info", clientLabels(v))
        e2 == registerLabelled(e1, <<Metric("connected_client_info", Whole(1), clientValues(v))>>)
        e3 == createMetricDescriptions(e2, {ms[j].name : j \in DOMAIN ms}, <<"id", "name">>)
    IN  registerLabelled(e3, ms)

parseConnectedClientMetrics ==
    /\ section = "clients" /\ todo # <<>>
    /\ LET v == Head(todo).v
       IN  exp' = IF parseClientListString(v) THEN registerClient(exp, v) ELSE exp
    /\ todo' = Tail(todo)
    /\ UNCHANGED <<section, parse, dbCount>> /\ Same

\* The name of a Tile38 field has a prefix in the table.
tile38Field(f) == IF f.k = "num_hooks" THEN [f EXCEPT !.k = "tile38_num_hooks"] ELSE f

moduleMetrics(f) ==
    If(Len(f.v) = 7, <<Metric("module_info", Whole(1), [i \in 1 .. 6 |-> f.v[i].s])>>)

\* SERVER EXT.
FetchTile38 ==
    /\ section = "clients" /\ todo = <<>>
    /\ section' = "tile38"
    /\ todo' = If(opts.tile38 /\ "SERVER" \notin sv.denied, TileAnswer)
    /\ UNCHANGED <<parse, dbCount, exp>> /\ Same

extractTile38Metrics ==
    /\ section = "tile38" /\ todo # <<>>
    /\ exp' = registerField(exp, tile38Field(Head(todo)))
    /\ todo' = Tail(todo)
    /\ UNCHANGED <<section, parse, dbCount>> /\ Same

\* INFO MODULES.
FetchModules ==
    /\ section = "tile38" /\ todo = <<>>
    /\ section' = "modules"
    /\ todo' = If(opts.modules /\ "MODULES" \notin sv.denied, ModulesText)
    /\ UNCHANGED <<parse, dbCount, exp>> /\ Same

extractModulesMetrics ==
    /\ section = "modules" /\ todo # <<>>
    /\ LET f == Head(todo)
       IN  exp' = IF f.k = "module" THEN registerLabelled(exp, moduleMetrics(f)) ELSE registerField(exp, f)
    /\ todo' = Tail(todo)
    /\ UNCHANGED <<section, parse, dbCount>> /\ Same

EndScrape ==
    /\ section = "modules" /\ todo = <<>>
    /\ section' = "end"
    /\ UNCHANGED <<todo, parse, dbCount, exp>> /\ Same

\* The next scrape, of the same server or of another one at its address.
NextScrape ==
    /\ section = "end" /\ scrapes < MaxScrapes
    /\ sv' \in Servers
    /\ scrapes' = scrapes + 1 /\ past' = past \cup {sv}
    /\ exp' = [exp EXCEPT !.out = <<>>]
    /\ section' = "config" /\ todo' = If("CONFIG" \notin sv'.denied, ConfigText)
    /\ parse' = NewParse /\ dbCount' = 0
    /\ UNCHANGED opts

Terminated == section = "end" /\ scrapes = MaxScrapes /\ UNCHANGED vars

Next ==
    \/ extractConfigMetrics \/ FetchInfo \/ extractClusterInfoMetrics \/ Info
    \/ extractLatencyLatestMetrics \/ extractLatencyHistogramMetrics
    \/ FetchClients \/ parseConnectedClientMetrics
    \/ FetchTile38 \/ extractTile38Metrics \/ FetchModules \/ extractModulesMetrics \/ EndScrape
    \/ NextScrape \/ Terminated

Spec == Init /\ [][Next]_vars

-----------------------------------------------------------------------------
(***************************************************************************)
(* Properties of a finished scrape: what was exported against the facts.   *)
(***************************************************************************)
Out == ToSet(exp.out)
ValuesOf(s) == [i \in DOMAIN s.lbls |-> s.lbls[i][2]]
Found(name) == {<<ValuesOf(s), s.val>> : s \in {x \in Out : x.name = name}}
AtEnd == section = "end"

\* The variables have their types, and no registration asked for a description that is not there.
TypeOK ==
    /\ section \in {"config", "cluster", "info", "latest", "histogram", "clients", "tile38", "modules", "end"}
    /\ sv \in Servers /\ opts \in Options /\ scrapes \in 1 .. MaxScrapes
    /\ dbCount \in 0 .. Databases \cup {DefaultDbs}
    /\ parse.handled \subseteq {Itoa(d) : d \in 0 .. Databases - 1}
    /\ DOMAIN parse.kv \subseteq InfoFields
    /\ DOMAIN KnownDescs \subseteq DOMAIN exp.descs /\ ~exp.panic

\* The databases whose line can be read, and how many there are as far as the exporter can know.
Readable == IF sv.kind = "later" THEN {} ELSE ToSet(sv.dbs)
KnownDatabases ==
    IF sv.cluster /\ "CLUSTER" \notin sv.denied THEN 1
    ELSE IF "CONFIG" \notin sv.denied THEN Databases
    ELSE IF sv.cluster THEN 0 ELSE DefaultDbs
Absent ==
    IF opts.emptyDbs THEN {n \in 0 .. KnownDatabases - 1 : \A d \in ToSet(sv.dbs) : d.db # n} ELSE {}

\* Each database has its own numbers in each series: the listed ones theirs, the ones known of but
\* not listed 0 on request (info.go 131-145, 162-170).  Left out are the databases whose line is
\* given up on, which may be missing or shown as empty, and db_keys_cached on servers whose fourth
\* field counts something else: there the series are not what their help texts say.
DatabasesExact ==
    AtEnd =>
        LET Read(name) ==
                {x \in Found(name) : \A d \in ToSet(sv.dbs) \ Readable : x[1] # <<Itoa(d.db)>>}
            Listed(f(_)) == {<<<<Itoa(d.db)>>, f(d)>> : d \in Readable}
            Empty == {<<<<Itoa(n)>>, Whole(0)>> : n \in Absent}
            none == {d \in {} : TRUE}
        IN  /\ Read("db_keys") = Listed(LAMBDA d : Whole(d.keys)) \cup Empty
            /\ Read("db_keys_expiring") = Listed(LAMBDA d : Whole(d.expires)) \cup Empty
            /\ Read("db_avg_ttl_seconds") =
                   IF sv.kind \in Since28 THEN Listed(LAMBDA d : Milli(d.ttl)) ELSE none
            /\ sv.kind \notin Since74 =>
                   Found("db_keys_cached") =
                       IF sv.kind = "keydb" THEN Listed(LAMBDA d : Whole(d.other)) ELSE none

\* Each master's series carry that master's address, the numbered ones of KeyDB too, each replica
\* has its own offset and lag, and a slave names its first master (info.go 99-112, 331-372).
ReplicationExact ==
    AtEnd =>
        LET Masters(f(_)) == {<<<<m.host, m.port>>, f(m)>> : m \in ToSet(sv.masters)}
            Replicas(f(_)) == {<<<<r.ip, r.port, r.state>>, f(r)>> : r \in ToSet(sv.replicas)}
        IN  /\ Found("master_link_up") = Masters(LAMBDA m : Whole(IF m.up THEN 1 ELSE 0))
            /\ Found("master_last_io_seconds_ago") = Masters(LAMBDA m : Whole(m.io))
            /\ Found("master_sync_in_progress") = Masters(LAMBDA m : Whole(IF m.up THEN 0 ELSE 1))
            /\ Found("slave_repl_offset") = Masters(LAMBDA m : Whole(m.offset))
            /\ Found("connected_slave_offset_bytes") = Replicas(LAMBDA r : Whole(r.offset))
            /\ sv.kind \in Since28 => Found("connected_slave_lag_seconds") = Replicas(LAMBDA r : Whole(r.lag))
            /\ Found("slave_info") =
                   {<<<<m.host, m.port, "1">>, Whole(1)>> :
                        m \in {sv.masters[i] : i \in DOMAIN sv.masters \cap {1}}}

\* What is said of a command is that command's: its summary, put together from two sections, and
\* its histogram, put together from two answers (info.go 209-218, latency.go 56-90).  A summary of
\* no calls stands for statistics that could not be read.  The histogram's time is wrong for a
\* name other names begin with and for one the expression cannot match.
CommandsExact ==
    AtEnd =>
        \A c \in ToSet(sv.cmds) :
            LET Of(name) == {s \in Out : s.name = name /\ s.lbls = <<<<"cmd", c.cmd>>>>}
                told == c.cmd \notin sv.brief
                others == {x.cmd : x \in ToSet(sv.cmds)} \cap Extensions[c.cmd]
            IN  /\ {s.val : s \in Of("commands_total")} = {Whole(x) : x \in IF told THEN {c.calls} ELSE {}}
                /\ Of("commands_rejected_calls_total") # {} <=> told /\ sv.kind \in Since62
                /\ Of("latency_percentiles_usec") # {} <=> sv.kind \in Since70
                /\ \A s \in Of("latency_percentiles_usec") :
                       /\ s.count = (IF told THEN c.calls ELSE 0) /\ s.val = Whole(IF told THEN c.usec ELSE 0)
                       /\ s.dist = {<<"p50", c.usec>>, <<"p99", c.usec + 1>>}
                /\ \A s \in Of("commands_latencies_usec") :
                       /\ s.count = c.calls
                       /\ others = {c.cmd} /\ c.cmd \in Spelled => s.val = Whole(c.usec)
                /\ opts.latency /\ sv.kind \in Since70 \ {"later"} /\ "LATENCY" \notin sv.denied
                       => Of("commands_latencies_usec") # {}

\* The labels the server's kind has in the two series whose labels vary.
InstanceLabelSet(s) == ToSet(BaseLabels)
    \cup (IF s.kind \in Valkey THEN {"valkey_version"} ELSE {})
    \cup (IF s.kind = "valkey8" THEN {"valkey_release_stage"} ELSE {})
ClientLabelSet(s) ==
    (IF s.kind \in Since62 THEN {"user"} ELSE {}) \cup (IF s.kind \in Since70 THEN {"resp"} ELSE {})

Truth(label, c) ==
    CASE label = "role" -> IF sv.sentinel THEN "" ELSE IF sv.masters = <<>> THEN "master" ELSE "slave"
      [] label \in {"redis_version", "valkey_version"} -> sv.kind
      [] label = "valkey_release_stage" -> "ga"
      [] label = "id" -> c.id [] label = "name" -> c.name [] label = "host" -> c.host
      [] label = "port" -> Itoa(c.port) [] label = "user" -> "default" [] label = "resp" -> "2"
      [] label = "flags" -> "N" [] label = "db" -> "0"
      [] OTHER -> ""

\* instance_info and connected_client_info have the labels of the first server the exporter met.
\* A label never carries another label's value, and while all servers met so far have the same
\* labels no instance and no client whose name can be read is missing (metrics.go 84-99, 130-137;
\* info.go 172-197, clients.go 143-166).
LabelsExact ==
    AtEnd =>
        LET Right(name, c) == {s \in Out : s.name = name
                                   /\ \A i \in DOMAIN s.lbls : s.lbls[i][2] = Truth(s.lbls[i][1], c)}
            Named == {c \in ToSet(sv.clients) : ~c.equals}
            noClient == [id |-> "", name |-> "", host |-> "", port |-> 0]
        IN  /\ {s \in Out : s.name = "instance_info"} = Right("instance_info", noClient)
            /\ {s \in Out : s.name = "connected_client_info"}
                   = UNION {Right("connected_client_info", c) : c \in Named}
            /\ (\A s \in past : InstanceLabelSet(s) = InstanceLabelSet(sv))
                   => Right("instance_info", noClient) # {}
            /\ (\A s \in past : ClientLabelSet(s) = ClientLabelSet(sv)) /\ opts.clients
               /\ "CLIENT" \notin sv.denied
                   => \A c \in Named : Right("connected_client_info", c) # {}

\* No series is sent twice in one scrape, which Prometheus would refuse, but for replicas that the
\* server lists alike (info.go 353-369).
NoDuplicates ==
    AtEnd =>
        \A i, j \in DOMAIN exp.out :
            i < j /\ exp.out[i].name = exp.out[j].name /\ exp.out[i].lbls = exp.out[j].lbls
                => /\ exp.out[i].name \in ReplicaMetrics
                   /\ \E m, n \in DOMAIN sv.replicas :
                         /\ m # n
                         /\ <<sv.replicas[m].ip, sv.replicas[m].port, sv.replicas[m].state>>
                            = <<sv.replicas[n].ip, sv.replicas[n].port, sv.replicas[n].state>>
=============================================================================
