--------------------------- MODULE MCKeyPipeline ---------------------------
(***************************************************************************)
(* Instances of KeyPipeline for TLC.                                       *)
(***************************************************************************)
EXTENDS KeyPipeline

MCDbs == {"0", "1"}
MCKeys == {"k1", "k2"}

\* Pairs of values for the keys of database 0, such that each value occurs next to one that
\* is read by other commands; database 1 holds them the other way round.
MCPairs == {<<"number", "none">>, <<"hll", "list">>, <<"text", "empty">>, <<"number", "module">>}

MCStores == {[d \in MCDbs |-> [k \in MCKeys |-> IF (d = "0") = (k = "k1") THEN p[1] ELSE p[2]]] :
                p \in MCPairs}

\* Two keys in one database, keys in two databases, a key asked for twice, and a
\* database the server does not have.
MCInputs == { << <<"0", "k1">>, <<"0", "k2">> >>,
              << <<"0", "k1">>, <<"1", "k1">> >>,
              << <<"0", "k1">>, <<"0", "k1">> >>,
              << <<"7", "k1">>, <<"0", "k2">> >> }

\* The commands the key pattern of an ACL applies to.
KeyCmds == {"TYPE", "MEMORY_USAGE", "PFCOUNT", "STRLEN", "GET"} \cup
           {SizeCmd[t] : t \in Collections}

\* Nothing denied, all commands on k1, or some that the pipeline relies on.
MCACLs == { {}, {<<c, "k1">> : c \in KeyCmds}, {<<"MEMORY_USAGE", "k1">>},
            {<<"STRLEN", "k1">>, <<"PFCOUNT", "k1">>}, {<<"GET", "k1">>} }

\* The smallest case of a denied key: three keys in one database.
MCThreeKeys == {"k1", "k2", "k3"}
MCDb0 == {"0"}
MCThree == { << <<"0", "k1">>, <<"0", "k2">>, <<"0", "k3">> >> }
MCDenyKey == { {<<c, "k1">> : c \in KeyCmds} }
MCAllStores == [Dbs -> [Keys -> Values]]
=============================================================================
