-------------------------- MODULE MCServerMetrics ---------------------------
(***************************************************************************)
(* An instance of ServerMetrics for TLC.                                   *)
(***************************************************************************)
EXTENDS ServerMetrics

Cmd(c, calls, usec) == [cmd |-> c, calls |-> calls, usec |-> usec, rejected |-> 2]
Replica(ip, off, lag) == [ip |-> ip, port |-> "p", state |-> "online", offset |-> off, lag |-> lag]
Master(h, up, io) == [host |-> h, port |-> "p", up |-> up, io |-> io, offset |-> 20 + io]
Db(n, keys, other) == [db |-> n, keys |-> keys, expires |-> 1, ttl |-> 30 + n, other |-> other]
Client(id, equals) ==
    [id |-> id, name |-> "n", host |-> "h", port |-> 5, age |-> IF equals THEN 1 ELSE 2, equals |-> equals]

Plain ==
    [kind |-> "redis7.0", masters |-> <<>>, replicas |-> <<>>, dbs |-> <<Db(0, 4, 8)>>,
     cmds |-> <<Cmd("get", 2, 6), Cmd("getex", 1, 5), Cmd("config|get", 1, 3), Cmd("georadius_ro", 2, 4)>>,
     brief |-> {}, clients |-> <<Client("3", FALSE), Client("4", TRUE)>>,
     sentinel |-> FALSE, cluster |-> FALSE, denied |-> {}]

\* Every kind of server, as a master and as a replica that has lost its master, with and without
\* clients.
ByKind ==
    {[Plain EXCEPT !.kind = k, !.masters = m] : k \in Kinds, m \in {<<>>, <<Master("h1", FALSE, -1)>>}}
    \cup {[Plain EXCEPT !.kind = k, !.clients = <<>>, !.brief = {"get"}] : k \in Kinds}

\* KeyDB with two masters, replicas with and without replicas of their own, two of them alike.
ByReplication ==
    {[Plain EXCEPT !.kind = "keydb", !.masters = <<Master("h1", TRUE, 1), Master("h2", FALSE, 3)>>],
     [Plain EXCEPT !.masters = <<Master("h1", TRUE, 1)>>, !.replicas = <<Replica("r1", 4, 0)>>],
     [Plain EXCEPT !.replicas = <<Replica("r1", 4, 0), Replica("r2", 5, 7)>>],
     [Plain EXCEPT !.replicas = <<Replica("r1", 4, 0), Replica("r1", 4, 0)>>]}

\* No database, several, one of them past the default number; a cluster; a sentinel.
ByMode ==
    {[Plain EXCEPT !.dbs = <<>>], [Plain EXCEPT !.dbs = <<Db(0, 4, 8), Db(2, 1, 0)>>, !.brief = {"getex"}],
     [Plain EXCEPT !.cluster = TRUE],
     [Plain EXCEPT !.sentinel = TRUE, !.dbs = <<>>, !.cmds = <<>>]}

ByDenied ==
    {[Plain EXCEPT !.cluster = cl, !.denied = d] :
         cl \in BOOLEAN, d \in {{"CONFIG"}, {"CONFIG", "CLUSTER"}, {"LATENCY", "CLIENT", "MODULES"}}}

MCServers == ByKind \cup ByReplication \cup ByMode \cup ByDenied

MCOptions ==
    {[config |-> all, redact |-> pad, emptyDbs |-> pad, latency |-> all, clients |-> TRUE,
      inclPort |-> all, tile38 |-> all, modules |-> all] : all \in BOOLEAN, pad \in BOOLEAN}

MCExtensions ==
    [c \in {"get", "getex", "config|get", "georadius_ro"} |-> IF c = "get" THEN {"get", "getex"} ELSE {c}]
MCSpelled == {"get", "getex", "config|get"}
=============================================================================
