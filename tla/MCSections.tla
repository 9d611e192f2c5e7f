----------------------------- MODULE MCSections -----------------------------
(***************************************************************************)
(* Instances of Sections for TLC.                                          *)
(***************************************************************************)
EXTENDS Sections

MCKeys == {"s1", "s2", "k"}
MCMatch == [p \in MCKeys \cup {"s*"} |-> IF p = "s*" THEN {"s1", "s2"} ELSE {p}]

\* Database 0 has a stream between other keys, database 1 two streams, database 2 nothing.
MCStore == << [s1 |-> "stream1", s2 |-> "list", k |-> "list"],
              [s1 |-> "stream2", s2 |-> "stream1", k |-> "none"],
              [s1 |-> "none", s2 |-> "none", k |-> "none"] >>

NoOptions == [checkKeys |-> <<>>, singleKeys |-> <<>>, countKeys |-> <<>>, checkStreams |-> <<>>,
              singleStreams |-> <<>>, excludeConsumers |-> FALSE, keyGroups |-> FALSE,
              sentinel |-> FALSE, config |-> FALSE, search |-> {}]

Scenario(o, a) == [opts |-> o, store |-> [d \in 0 .. 2 |-> MCStore[d + 1]], acl |-> a,
                   masters |-> [m \in {} |-> 0], indexes |-> [i \in {} |-> ""]]

\* What a user of the server may be denied.
Deny(cs, ds) == [cmds |-> cs, dbs |-> ds]
MCACLs == {Open, Deny({}, {1}), Deny({"SCAN"}, {}), Deny({"XINFO"}, {}), Deny({"TYPE"}, {})}

\* Patterns before, between and after names, in two databases.
CheckOptions ==
    { [NoOptions EXCEPT !.singleKeys = <<Entry(0, "k")>>,
                        !.checkKeys = <<Entry(1, "s*"), Entry(0, "k"), Entry(0, "s*")>>],
      [NoOptions EXCEPT !.countKeys = <<Entry(0, "s*"), Entry(1, "s*"), Entry(0, "k")>>,
                        !.keyGroups = TRUE] }

\* Streams by name and by pattern, after a key check that the server may refuse.
StreamOptions ==
    { [NoOptions EXCEPT !.singleKeys = <<Entry(1, "k")>>, !.checkStreams = c, !.excludeConsumers = x,
                        !.singleStreams = <<Entry(0, "s1"), Entry(1, "s2")>>] :
          c \in {<<Entry(1, "s*")>>, <<>>}, x \in BOOLEAN }

MCConfigPairs == <<"number", "odd", "text">>

\* A sentinel, on which keys cannot be asked for, and a server with search indexes.
Named(q, s, r) == [named |-> TRUE, quorum |-> q, sentinels |-> s, slaves |-> r]

SentinelScenario(a) ==
    [Scenario([NoOptions EXCEPT !.sentinel = TRUE, !.config = TRUE, !.countKeys = <<Entry(0, "k")>>], a)
        EXCEPT !.masters = [m1 |-> Named(TRUE, <<"ok", "odd", "down">>, <<"ok">>),
                            m2 |-> Named(FALSE, <<>>, <<"down", "ok", "ok">>),
                            m3 |-> [Named(TRUE, <<>>, <<>>) EXCEPT !.named = FALSE]]]

SearchScenario(a) ==
    [Scenario([NoOptions EXCEPT !.search = {"i1", "i2", "i4"}, !.singleKeys = <<Entry(1, "k")>>], a)
        EXCEPT !.indexes = [i1 |-> "odd", i2 |-> "ok", i3 |-> "ok", i4 |-> "ok"]]

MCScenarios ==
    {Scenario(o, a) : o \in CheckOptions \cup StreamOptions, a \in MCACLs} \cup
    {SentinelScenario(a) : a \in {Open, Deny({"SENTINEL_SLAVES"}, {0}), Deny({"SENTINEL_MASTERS"}, {})}} \cup
    {SearchScenario(a) : a \in {Open, Deny({"FT.INFO"}, {}), Deny({"FT._LIST"}, {1})}}
=============================================================================
