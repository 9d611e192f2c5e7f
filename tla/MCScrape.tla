------------------------------ MODULE MCScrape ------------------------------
(***************************************************************************)
(* Instances of Scrape for TLC.                                            *)
(***************************************************************************)
EXTENDS Scrape

\* All sections but the counted keys and streams, which are enabled or not; with and
\* without scripts; cluster mode, skipMaster and CONFIG either way.
MCOptions ==
    {o \in OptionSet :
        /\ o.ping /\ o.latency /\ o.keyGroups /\ o.checkKeys
        /\ o.streams = o.countKeys
        /\ o.extras = Extras \ {"sentinel"}
        /\ o.scripts = IF o.config THEN Scripts ELSE {}}

\* A server that denies one command (or the two that tell the number of databases, or
\* both forms of INFO), and one that denies none, with each kind of CONFIG answer, with
\* good and bad scripts, with and without rejected keys.
MCServers ==
    {s \in [clusterEnabled : BOOLEAN, role : {"master", "slave"}, sentinel : BOOLEAN,
            config : {"databases", "silent", "malformed"}, dbs : {2},
            denied : {{}} \cup {{c} : c \in Commands} \cup
                     {{"CONFIG", "CLUSTER_INFO"}, {"INFO_ALL", "INFO"}},
            badScripts : {{}} \cup {{x} : x \in Scripts}, rejectsKeys : BOOLEAN] :
        /\ s.sentinel <=> s.denied # {}
        /\ s.denied # {} => s.config = "databases" /\ s.badScripts = {} /\ ~s.rejectsKeys}

=============================================================================
