----------------------------- MODULE StreamInfo -----------------------------
(***************************************************************************)
(* extractStreamMetrics of exporter/streams.go: each stream is described   *)
(* by XINFO STREAM, XINFO GROUPS and one XINFO CONSUMERS per group, four   *)
(* or more commands between which other clients may change or delete it.   *)
(***************************************************************************)
EXTENDS KeyScan

VARIABLES
    info        \* what is known of the stream or the master at hand

\* The stream at hand: its number of groups as XINFO STREAM has it, the groups to
\* ask for consumers, and the groups with their consumers.
Stream(n, left, groups) == [n |-> n, left |-> left, groups |-> groups]
NoInfo == Stream(0, <<>>, {})

key == entry.pat

\* The key is a stream here and now, and the command is allowed.
StreamHere == key \in Keys /\ store[selected][key] \in Streams

groups == GroupsOf[store[selected][key]]

\* getKeysFromPatterns is done: the single streams come first.
StreamsListed ==
    /\ section = "streams" /\ step = "next" /\ todo = <<>>
    /\ todo' = opts.singleStreams \o expanded
    /\ step' = "select"
    /\ UNCHANGED <<serverVars, selected, owed, pending, section, scanVars, out, info>>

\* An error ends the description of this stream, not the loop.
NextStream == todo' = Tail(todo) /\ step' = "select" /\ info' = NoInfo

\* Fault: a database that cannot be selected does not end the iteration.
SelectStreamDbAnyway ==
    /\ section = "streams" /\ step = "select" /\ todo # <<>>
    /\ Selects(entry.db) /\ ReadPending(section)
    /\ step' = "stream"
    /\ UNCHANGED <<todo, info>>
    /\ UNCHANGED <<serverVars, owed, section, scanVars, out>>

SelectStreamDb ==
    /\ section = "streams" /\ step = "select" /\ todo # <<>>
    /\ Selects(entry.db) /\ ReadPending(section)
    /\ IF SelectFails(entry.db)
         THEN NextStream
         ELSE step' = "stream" /\ UNCHANGED <<todo, info>>
    /\ UNCHANGED <<serverVars, owed, section, scanVars, out>>

XInfoStream ==
    /\ section = "streams" /\ step = "stream"
    /\ ReadPending(section)
    /\ IF Fails("XINFO") \/ ~StreamHere
         THEN NextStream
         ELSE /\ info' = [NoInfo EXCEPT !.n = Cardinality(groups)]
              /\ step' = "groups"
              /\ UNCHANGED todo
    /\ UNCHANGED <<serverVars, selected, owed, section, scanVars, out>>

\* A group that cannot be scanned is skipped.
XInfoGroups ==
    /\ section = "streams" /\ step = "groups"
    /\ ReadPending(section)
    /\ IF Fails("XINFO") \/ ~StreamHere
         THEN NextStream
         ELSE /\ info' = [info EXCEPT !.left = SetToSeq(groups \ {"odd"})]
              /\ step' = "consumers"
              /\ UNCHANGED todo
    /\ UNCHANGED <<serverVars, selected, owed, section, scanVars, out>>

\* Fault: one stream that changes under its description ends the loop.
XInfoConsumersLast ==
    /\ section = "streams" /\ step = "consumers" /\ info.left # <<>>
    /\ ReadPending(section)
    /\ LET g == Head(info.left) IN
       IF Fails("XINFO") \/ ~StreamHere \/ g \notin groups
         THEN todo' = <<>> /\ step' = "select" /\ info' = NoInfo
         ELSE /\ info' = [info EXCEPT !.left = Tail(@),
                                      !.groups = @ \cup {<<g, Consumers \ {"odd"}>>}]
              /\ UNCHANGED <<step, todo>>
    /\ UNCHANGED <<serverVars, selected, owed, section, scanVars, out>>

\* A consumer that cannot be scanned is skipped; a group that has gone ends the stream.
XInfoConsumers ==
    /\ section = "streams" /\ step = "consumers" /\ info.left # <<>>
    /\ ReadPending(section)
    /\ LET g == Head(info.left) IN
       IF Fails("XINFO") \/ ~StreamHere \/ g \notin groups
         THEN NextStream
         ELSE /\ info' = [info EXCEPT !.left = Tail(@),
                                      !.groups = @ \cup {<<g, Consumers \ {"odd"}>>}]
              /\ UNCHANGED <<step, todo>>
    /\ UNCHANGED <<serverVars, selected, owed, section, scanVars, out>>

\* The groups as registered: without their consumers if the option says so.
Registered(gs) == IF opts.excludeConsumers THEN {<<g[1], {}>> : g \in gs} ELSE gs

RegisterStream ==
    /\ section = "streams" /\ step = "consumers" /\ info.left = <<>>
    /\ out' = Append(out, [name |-> "stream", db |-> entry.db, key |-> key, at |-> selected,
                           value |-> info.n, groups |-> Registered(info.groups)])
    /\ NextStream
    /\ UNCHANGED <<serverVars, selected, owed, pending, section, scanVars>>

StreamsDone ==
    /\ section = "streams" /\ step = "select" /\ todo = <<>>
    /\ section' = "slowlog" /\ step' = "next"
    /\ UNCHANGED <<serverVars, selected, owed, pending, todo, scanVars, out, info>>

StreamsNext ==
    \/ StreamsListed \/ SelectStreamDb \/ XInfoStream \/ XInfoGroups \/ XInfoConsumers
    \/ RegisterStream \/ StreamsDone
=============================================================================
