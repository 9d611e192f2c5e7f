------------------------------- MODULE Scrape -------------------------------
(***************************************************************************)
(* One scrape of a redis instance: Collect and scrapeRedisHost of          *)
(* exporter/exporter.go, from the connection to the metrics "up" and       *)
(* "exporter_last_scrape_error".  The sections of a scrape (slow log, key  *)
(* groups, scripts, ...) are told apart by the name of what they export;   *)
(* what they parse is left to other modules.                               *)
(*                                                                         *)
(* Most sections log a failure and go on; a few end the scrape.  Every     *)
(* connection may be lost between two steps, and the server may deny any   *)
(* command.                                                                *)
(***************************************************************************)
EXTENDS Integers, FiniteSets

CONSTANTS
    Options,       \* the option settings to consider
    Servers,       \* the servers to consider
    Scripts,       \* Lua script files
    DefaultDbs     \* the number of databases assumed when CONFIG is denied

\* The optional sections that one or more commands on the first connection make up.
Extras == {"sentinel", "client_list", "tile38", "modules", "search_indexes"}

OptionSet == [ping : BOOLEAN, config : BOOLEAN, latency : BOOLEAN, cluster : BOOLEAN,
              skipMaster : BOOLEAN, checkKeys : BOOLEAN, countKeys : BOOLEAN,
              streams : BOOLEAN, keyGroups : BOOLEAN,
              extras : SUBSET (Extras \ {"sentinel"}), scripts : SUBSET Scripts]

Commands == {"PING", "CONFIG", "INFO_ALL", "INFO", "CLUSTER_INFO", "LATENCY", "SLOWLOG",
             "SELECT", "EVAL"} \cup Extras

ServerSet == [clusterEnabled : BOOLEAN,             \* INFO says cluster_enabled:1
              role : {"master", "slave"},
              sentinel : BOOLEAN,
              config : {"databases", "silent", "malformed"},  \* what CONFIG GET says
              dbs : Nat \ {0},
              denied : SUBSET Commands,
              badScripts : SUBSET Scripts,          \* scripts that fail
              rejectsKeys : BOOLEAN]                \* denies TYPE on a checked key

ASSUME OptionsAssumption == Options \subseteq OptionSet
ASSUME ServersAssumption == Servers \subseteq ServerSet
ASSUME DefaultAssumption == DefaultDbs \in Nat \ {0}

VARIABLES
    options, server,
    pc,
    open,       \* the connections that are open: "c", "keyConn", "keyGroupConn"
    alive,      \* those that have not been lost
    defers,     \* the connections that deferred functions will close
    dirty,      \* replies with an error are pending on c
    dbCount,
    exported,   \* the sections that have exported their metrics
    left, ran,  \* scripts still to run, and those that were successful
    result,     \* what scrapeRedisHost returns: "none", "nil" or "err"
    up,         \* the metric, -1 before it is exported
    lost        \* history: a connection was lost, or could not be made

vars == <<options, server, pc, open, alive, defers, dirty, dbCount, exported,
          left, ran, result, up, lost>>

Init ==
    /\ options \in Options
    /\ server \in Servers
    /\ pc = "connect"
    /\ open = {} /\ alive = {} /\ defers = {}
    /\ dirty = FALSE
    /\ dbCount = 0
    /\ exported = {}
    /\ left = options.scripts /\ ran = {}
    /\ result = "none"
    /\ up = -1
    /\ lost = FALSE

(***************************************************************************)
(* doRedisCmd on connection x succeeds.  Do reads the pending replies      *)
(* first and reports an error among them as its own: see KeyPipeline.      *)
(***************************************************************************)
Ok(x, cmd) == x \in alive /\ cmd \notin server.denied /\ ~(x = "c" /\ dirty)

\* The sections of S whose command succeeds on c.
Succeed(S) == {s \in S : Ok("c", s)}

Export(S) == exported' = exported \cup S

\* scrapeRedisHost returns: what remains is to run the deferred functions.
Return(r) == result' = r /\ pc' = "return"

Continue(label) == pc' = label /\ UNCHANGED result

\* A fault: only the first connection is closed when the scrape ends.
OpenNotDeferred(x) ==
    /\ open' = open \cup {x}
    /\ alive' = alive \cup {x}
    /\ defers' = defers \cup ({x} \cap {"c"})

\* A connection is made, and a deferred function will close it.
Open(x) ==
    /\ open' = open \cup {x}
    /\ alive' = alive \cup {x}
    /\ defers' = defers \cup {x}

-----------------------------------------------------------------------------
(***************************************************************************)
(* The connection, and what must succeed: CONFIG if it answers, and INFO.  *)
(***************************************************************************)
Connect ==
    /\ pc = "connect"
    /\ \/ Open("c") /\ Continue("ping") /\ UNCHANGED lost
       \/ Return("err") /\ lost' = TRUE /\ UNCHANGED <<open, alive, defers>>
    /\ Export({"connect_time"})
    /\ UNCHANGED <<options, server, dirty, dbCount, left, ran, up>>

\* PING and CLIENT SETNAME: failures are logged.
Ping ==
    /\ pc = "ping"
    /\ Export(IF options.ping /\ Ok("c", "PING") THEN {"ping_time"} ELSE {})
    /\ Continue("config")
    /\ UNCHANGED <<options, server, open, alive, defers, dirty, dbCount, left, ran,
                   up, lost>>

\* The number of databases in the answer to CONFIG GET, 0 if it is not in it.
extractConfigMetrics == IF server.config = "databases" THEN server.dbs ELSE 0

\* A fault: -1 for an unknown number of databases.
ConfigUnknown ==
    /\ pc = "config"
    /\ LET answered == options.config /\ Ok("c", "CONFIG") IN
       /\ dbCount' = IF answered THEN extractConfigMetrics ELSE -1
       /\ IF answered /\ server.config = "malformed" THEN Return("err") ELSE Continue("info")
    /\ UNCHANGED <<options, server, open, alive, defers, dirty, exported, left, ran,
                   up, lost>>

\* The databases count, where CONFIG GET tells it; a reply extractConfigMetrics cannot
\* use ends the scrape, CONFIG being denied does not.
Config ==
    /\ pc = "config"
    /\ LET answered == options.config /\ Ok("c", "CONFIG") IN
       /\ dbCount' = IF answered THEN extractConfigMetrics ELSE 0
       /\ IF answered /\ server.config = "malformed" THEN Return("err") ELSE Continue("info")
    /\ UNCHANGED <<options, server, open, alive, defers, dirty, exported, left, ran,
                   up, lost>>

\* INFO ALL, or INFO where it fails or answers nothing.
Info ==
    /\ pc = "info"
    /\ IF Ok("c", "INFO_ALL") \/ Ok("c", "INFO") THEN Continue("cluster") ELSE Return("err")
    /\ UNCHANGED <<options, server, open, alive, defers, dirty, dbCount, exported, left,
                   ran, up, lost>>

\* A fault: the default number of databases is not assumed.
ClusterInfoNoDefault ==
    /\ pc = "cluster"
    /\ IF server.clusterEnabled /\ Ok("c", "CLUSTER_INFO")
         THEN dbCount' = 1 /\ Export({"cluster_info"})
         ELSE UNCHANGED <<dbCount, exported>>
    /\ Continue("metrics")
    /\ UNCHANGED <<options, server, open, alive, defers, dirty, left, ran, up, lost>>

\* A cluster node has one database; elsewhere an unknown number becomes the default.
ClusterInfo ==
    /\ pc = "cluster"
    /\ IF server.clusterEnabled
         THEN IF Ok("c", "CLUSTER_INFO") THEN dbCount' = 1 /\ Export({"cluster_info"})
                                         ELSE UNCHANGED <<dbCount, exported>>
         ELSE /\ dbCount' = IF dbCount = 0 THEN DefaultDbs ELSE dbCount
              /\ UNCHANGED exported
    /\ Continue("metrics")
    /\ UNCHANGED <<options, server, open, alive, defers, dirty, left, ran, up, lost>>

\* extractInfoMetrics on the text already received, then the latency commands.
InfoMetrics ==
    /\ pc = "metrics"
    /\ Export({"info"} \cup IF options.latency /\ Ok("c", "LATENCY") THEN {"latency"} ELSE {})
    /\ Continue("keyConn")
    /\ UNCHANGED <<options, server, open, alive, defers, dirty, dbCount, left, ran,
                   up, lost>>

-----------------------------------------------------------------------------
(***************************************************************************)
(* The checked keys, counted keys and streams, over the connection itself  *)
(* or, in cluster mode, over one that knows the cluster.                   *)
(***************************************************************************)
keyConn == IF options.cluster THEN "keyConn" ELSE "c"

KeyConn ==
    /\ pc = "keyConn"
    /\ IF server.role = "slave" \/ ~options.skipMaster
         THEN \/ /\ options.cluster /\ Open("keyConn")
                 /\ Continue("checkKeys") /\ UNCHANGED lost
              \/ /\ options.cluster /\ lost' = TRUE         \* could not connect
                 /\ Continue("slowlog") /\ UNCHANGED <<open, alive, defers>>
              \/ /\ ~options.cluster
                 /\ Continue("checkKeys") /\ UNCHANGED <<open, alive, defers, lost>>
         ELSE Continue("slowlog") /\ UNCHANGED <<open, alive, defers, lost>>
    /\ UNCHANGED <<options, server, dirty, dbCount, exported, left, ran, up>>

\* Over a connection that knows the cluster every key is asked for by itself and no
\* database is selected.  Over c the commands are pipelined (KeyPipeline): a SELECT or
\* a key the server rejects shifts the replies, so that what is exported is anyone's
\* guess and an error may be left pending.
CheckKeys ==
    /\ pc = "checkKeys"
    /\ IF options.checkKeys /\ keyConn \in alive
         THEN IF options.cluster \/ ("SELECT" \notin server.denied /\ ~server.rejectsKeys)
                THEN Export({"check_keys"}) /\ UNCHANGED dirty
                ELSE /\ dirty' \in BOOLEAN
                     /\ exported' \in {exported, exported \cup {"check_keys"}}
         ELSE UNCHANGED <<exported, dirty>>
    /\ Continue("countKeys")
    /\ UNCHANGED <<options, server, open, alive, defers, dbCount, left, ran, up, lost>>

\* SELECT, then SCAN for the pattern.  SELECT takes what is pending.
CountKeys ==
    /\ pc = "countKeys"
    /\ Export(IF options.countKeys /\ Ok(keyConn, "SELECT") THEN {"keys_count"} ELSE {})
    /\ dirty' = (dirty /\ ~options.countKeys)
    /\ Continue("streams")
    /\ UNCHANGED <<options, server, open, alive, defers, dbCount, left, ran, up, lost>>

Streams ==
    /\ pc = "streams"
    /\ Export(IF options.streams /\ Ok(keyConn, "SELECT") THEN {"streams"} ELSE {})
    /\ dirty' = (dirty /\ ~options.streams)
    /\ Continue("slowlog")
    /\ UNCHANGED <<options, server, open, alive, defers, dbCount, left, ran, up, lost>>

\* SLOWLOG LEN, then SLOWLOG GET: the first one takes what is pending.
SlowLog ==
    /\ pc = "slowlog"
    /\ Export((IF Ok("c", "SLOWLOG") THEN {"slowlog_length"} ELSE {}) \cup
              (IF "c" \in alive /\ "SLOWLOG" \notin server.denied
               THEN {"slowlog_last_id"} ELSE {}))
    /\ dirty' = FALSE
    /\ Continue("keyGroups")
    /\ UNCHANGED <<options, server, open, alive, defers, dbCount, left, ran, up, lost>>

\* Key groups have a connection of their own in cluster mode.  No role is spared.
KeyGroups ==
    /\ pc = "keyGroups"
    /\ \/ /\ options.cluster /\ Open("keyGroupConn") /\ UNCHANGED lost
          /\ Export(IF options.keyGroups /\ dbCount > 0
                       /\ {"SELECT", "EVAL"} \cap server.denied = {}
                    THEN {"key_groups"} ELSE {})
       \/ /\ options.cluster /\ lost' = TRUE                \* could not connect
          /\ UNCHANGED <<open, alive, defers, exported>>
       \/ /\ ~options.cluster
          /\ Export(IF options.keyGroups /\ dbCount > 0 /\ Ok("c", "SELECT") /\ Ok("c", "EVAL")
                    THEN {"key_groups"} ELSE {})
          /\ UNCHANGED <<open, alive, defers, lost>>
    /\ Continue("extras")
    /\ UNCHANGED <<options, server, dirty, dbCount, left, ran, up>>

\* Sentinel (where INFO has that section), client list, Tile38, modules, search.
ExtraSections ==
    /\ pc = "extras"
    /\ Export(Succeed(options.extras \cup IF server.sentinel THEN {"sentinel"} ELSE {}))
    /\ Continue("scripts")
    /\ UNCHANGED <<options, server, open, alive, defers, dirty, dbCount, left, ran,
                   up, lost>>

-----------------------------------------------------------------------------
(***************************************************************************)
(* The Lua scripts, in any order; the first failure ends the scrape.       *)
(***************************************************************************)
\* A script runs and returns numbers, or nothing.
extractLuaScriptMetrics(s) == Ok("c", "EVAL") /\ s \notin server.badScripts

\* A fault: a failing script does not end the scrape.
ScriptIgnored ==
    /\ pc = "scripts"
    /\ \E s \in left :
          /\ left' = left \ {s}
          /\ IF extractLuaScriptMetrics(s)
               THEN ran' = ran \cup {s} ELSE UNCHANGED ran
    /\ Continue("scripts")
    /\ UNCHANGED <<options, server, open, alive, defers, dirty, dbCount, exported, up, lost>>

\* A fault: a failing script is run again.
ScriptRetried ==
    /\ pc = "scripts"
    /\ \E s \in left :
          /\ IF extractLuaScriptMetrics(s)
               THEN ran' = ran \cup {s} /\ left' = left \ {s}
               ELSE UNCHANGED <<ran, left>>
    /\ Continue("scripts")
    /\ UNCHANGED <<options, server, open, alive, defers, dirty, dbCount, exported, up, lost>>

Script ==
    /\ pc = "scripts"
    /\ \E s \in left :
          /\ left' = left \ {s}
          /\ IF extractLuaScriptMetrics(s)
               THEN ran' = ran \cup {s} /\ Continue("scripts")
               ELSE Return("err") /\ UNCHANGED ran
    /\ UNCHANGED <<options, server, open, alive, defers, dirty, dbCount, exported, up, lost>>

ScriptsDone ==
    /\ pc = "scripts"
    /\ left = {}
    /\ Return("nil")
    /\ UNCHANGED <<options, server, open, alive, defers, dirty, dbCount, exported, left,
                   ran, up, lost>>

\* The deferred functions of scrapeRedisHost, and the end of Collect.
Finish ==
    /\ pc = "return"
    /\ open' = open \ defers
    /\ alive' = alive \ defers
    /\ defers' = {}
    /\ up' = IF result = "nil" THEN 1 ELSE 0
    /\ pc' = "done"
    /\ UNCHANGED <<options, server, dirty, dbCount, exported, left, ran, result, lost>>

\* A connection is lost: every later command on it fails.
Lose ==
    /\ \E x \in alive : alive' = alive \ {x}
    /\ lost' = TRUE
    /\ UNCHANGED <<options, server, pc, open, defers, dirty, dbCount, exported, left, ran, result, up>>

Terminated == pc = "done" /\ UNCHANGED vars

Step ==
    \/ Connect \/ Ping \/ Config \/ Info \/ ClusterInfo \/ InfoMetrics
    \/ KeyConn \/ CheckKeys \/ CountKeys \/ Streams
    \/ SlowLog \/ KeyGroups \/ ExtraSections
    \/ Script \/ ScriptsDone \/ Finish

Next == Step \/ Lose \/ Terminated

(***************************************************************************)
(* The goroutine runs, and every command returns: redis answers or the     *)
(* connection's timeouts expire.                                           *)
(***************************************************************************)
Spec == Init /\ [][Next]_vars /\ WF_vars(Step)

-----------------------------------------------------------------------------
(***************************************************************************)
(* Properties.                                                             *)
(***************************************************************************)
Conns == {"c", "keyConn", "keyGroupConn"}
Labels == {"connect", "ping", "config", "info", "cluster", "metrics", "keyConn", "checkKeys",
           "countKeys", "streams", "slowlog", "keyGroups", "extras", "scripts", "return",
           "done"}
Sections == Extras \cup {"connect_time", "ping_time", "cluster_info", "info", "latency",
                         "check_keys", "keys_count", "streams", "slowlog_length",
                         "slowlog_last_id", "key_groups"}

\* The variables have their types; only an open connection is alive.
TypeOK ==
    /\ options \in Options /\ server \in Servers
    /\ pc \in Labels
    /\ open \subseteq Conns /\ alive \subseteq open /\ defers \subseteq Conns
    /\ dirty \in BOOLEAN /\ lost \in BOOLEAN
    /\ dbCount \in Nat
    /\ exported \subseteq Sections
    /\ left \subseteq Scripts /\ ran \subseteq Scripts
    /\ result \in {"none", "nil", "err"}
    /\ up \in {-1, 0, 1}

\* Every connection a scrape makes is closed when it ends, on every path: the early
\* returns, a cluster that cannot be reached, a script that fails.
NoLeak == pc = "done" => open = {}

\* "up" is 1 exactly when the instance's INFO was exported and every script ran: none
\* of the other sections, nor a connection lost after INFO, has a say in it.
UpExact ==
    pc = "done" => ((up = 1) <=> ("info" \in exported /\ ran = options.scripts))

\* What a complete scrape exports.
Spared == server.role = "master" /\ options.skipMaster

Expected ==
    (IF Spared THEN {}
     ELSE (IF options.checkKeys THEN {"check_keys"} ELSE {}) \cup
          (IF options.countKeys /\ "SELECT" \notin server.denied THEN {"keys_count"} ELSE {}) \cup
          (IF options.streams /\ "SELECT" \notin server.denied THEN {"streams"} ELSE {}))
    \cup (IF "SLOWLOG" \in server.denied THEN {} ELSE {"slowlog_length", "slowlog_last_id"})
    \cup (IF options.keyGroups /\ {"SELECT", "EVAL"} \cap server.denied = {}
          THEN {"key_groups"} ELSE {})
    \cup ((options.extras \cup IF server.sentinel THEN {"sentinel"} ELSE {}) \ server.denied)

\* The number of databases is unknown: the server is a cluster node that answers
\* neither CONFIG nor CLUSTER INFO.
NoDatabases ==
    /\ server.clusterEnabled /\ "CLUSTER_INFO" \in server.denied
    /\ ~options.config \/ "CONFIG" \in server.denied \/ server.config # "databases"

\* A SELECT or a key that the server rejects has been pipelined over the first connection.
Poisoned ==
    /\ server.rejectsKeys \/ "SELECT" \in server.denied
    /\ options.checkKeys /\ ~options.cluster /\ ~Spared

\* The sections do not depend on each other: once INFO has been exported and as long as
\* the connections hold, every enabled section whose commands are allowed exports its
\* metrics, whatever else the server denies and whichever script fails; with two
\* exceptions, keys the server rejects and a cluster node with no databases known.
SectionsIndependent ==
    (pc = "done" /\ "info" \in exported /\ ~lost /\ ~Poisoned /\ ~NoDatabases) =>
        Expected \subseteq exported

\* Every scrape ends.
Terminates == <>(pc = "done")
=============================================================================
