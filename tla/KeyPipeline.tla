---------------------------- MODULE KeyPipeline ----------------------------
(***************************************************************************)
(* extractCheckKeyMetricsPipelined and getKeyInfoPipelined of              *)
(* exporter/keys.go: the metrics of the checked keys, gathered over one    *)
(* connection whose commands are written in batches and whose replies are  *)
(* matched to keys by nothing but their order.                             *)
(*                                                                         *)
(* A metric is kept with the reply its value was taken from, so that a     *)
(* value exported under the wrong key can be seen.                         *)
(***************************************************************************)
EXTENDS RedisConn, FiniteSets

CONSTANTS
    Inputs,                     \* the lists of <<db, key>> to check
    DisableExportingKeyValues   \* the option of that name

ASSUME InputsAssumption ==
    \A in \in Inputs : in \in Seq(STRING \X Keys)
ASSUME OptionAssumption == DisableExportingKeyValues \in BOOLEAN

VARIABLES
    pc,
    allKeys,    \* the list to check
    todo,       \* the part of allKeys not yet grouped
    keysByDb,   \* the grouped keys, by database number
    dbsLeft,    \* the databases the range loop has not visited
    db,         \* the database of this iteration
    idx,        \* index into arrayOfKeys
    keyTypes,   \* keyTypes[i] is the reply the i-th type was read from
    metrics,    \* what was sent to the metrics channel, in order
    doResult    \* the outcome of the next Do on the connection

exporterVars == <<pc, allKeys, todo, keysByDb, dbsLeft, db, idx, keyTypes, metrics, doResult>>

vars == <<connVars, exporterVars>>

NoDb == "-"

\* The databases that occur in a list of keys.
DbsOf(ks) == {ks[i][1] : i \in DOMAIN ks}

arrayOfKeys == keysByDb[db]

NKeys == Len(arrayOfKeys)

Metric(name, key, from) == [name |-> name, db |-> db, key |-> key, from |-> from]

Init ==
    /\ ConnInit
    /\ pc = "group"
    /\ allKeys \in Inputs
    /\ todo = allKeys
    /\ keysByDb = [d \in DbsOf(allKeys) |-> <<>>]
    /\ dbsLeft = {}
    /\ db = NoDb
    /\ idx = 0
    /\ keyTypes = <<>>
    /\ metrics = <<>>
    /\ doResult = "none"

-----------------------------------------------------------------------------
(***************************************************************************)
(* Grouping by database.                                                   *)
(***************************************************************************)
\* Fault: a key without a database of its own inherits the one before it.
GroupKeyFirstDb ==
    /\ pc = "group"
    /\ todo # <<>>
    /\ keysByDb' = [keysByDb EXCEPT ![allKeys[1][1]] = Append(@, Head(todo)[2])]
    /\ todo' = Tail(todo)
    /\ UNCHANGED <<sent, broken, received, pc, dbsLeft, db, idx, keyTypes, metrics, doResult>>

GroupKey ==
    /\ pc = "group"
    /\ todo # <<>>
    /\ keysByDb' = [keysByDb EXCEPT ![Head(todo)[1]] = Append(@, Head(todo)[2])]
    /\ todo' = Tail(todo)
    /\ UNCHANGED <<sent, broken, received, pc, dbsLeft, db, idx, keyTypes, metrics, doResult>>

\* Fault: the loop visits the databases of the server.
GroupDoneAll ==
    /\ pc = "group"
    /\ todo = <<>>
    /\ dbsLeft' = Dbs
    /\ pc' = "loop"
    /\ UNCHANGED <<sent, broken, received, todo, keysByDb, db, idx, keyTypes, metrics, doResult>>

GroupDone ==
    /\ pc = "group"
    /\ todo = <<>>
    /\ dbsLeft' = DbsOf(allKeys)
    /\ pc' = "loop"
    /\ UNCHANGED <<sent, broken, received, todo, keysByDb, db, idx, keyTypes, metrics, doResult>>

-----------------------------------------------------------------------------
(***************************************************************************)
(* First batch: SELECT, then TYPE and MEMORY USAGE of every key.  Go       *)
(* ranges over a map in any order.                                         *)
(***************************************************************************)
SendSelect ==
    /\ pc = "loop"
    /\ \E d \in dbsLeft :
          /\ db' = d
          /\ dbsLeft' = dbsLeft \ {d}
          /\ \/ /\ Send(<<Cmd("SELECT", d)>>)
                /\ idx' = 1
                /\ pc' = "sendTypes"
             \/ /\ WriteFails       \* continue
                /\ UNCHANGED <<idx, pc>>
    /\ UNCHANGED <<received, todo, keysByDb, keyTypes, metrics, doResult>>

SendType ==
    /\ pc = "sendTypes"
    /\ idx <= NKeys
    /\ \/ /\ Send(<< Cmd("TYPE", arrayOfKeys[idx]), Cmd("MEMORY_USAGE", arrayOfKeys[idx]) >>)
          /\ idx' = idx + 1
          /\ pc' = pc
       \/ /\ WriteFails             \* return
          /\ pc' = "done"
          /\ UNCHANGED idx
    /\ UNCHANGED <<received, todo, keysByDb, dbsLeft, db, keyTypes, metrics, doResult>>

\* Fault: a flush that fails is tried again, for ever.
FlushTypesRetried ==
    /\ pc = "sendTypes"
    /\ idx > NKeys
    /\ pc' = IF alive THEN "recvSelect" ELSE pc
    /\ UNCHANGED <<sent, broken, received, todo, keysByDb, dbsLeft, db, idx, keyTypes, metrics, doResult>>

FlushTypes ==
    /\ pc = "sendTypes"
    /\ idx > NKeys
    /\ \/ Flush /\ pc' = "recvSelect"
       \/ WriteFails /\ pc' = "done"
    /\ UNCHANGED <<received, todo, keysByDb, dbsLeft, db, idx, keyTypes, metrics, doResult>>

(***************************************************************************)
(* The reply of SELECT is thrown away; if it is an error the code goes on  *)
(* with the next database, and leaves the other replies of the batch       *)
(* where they are.                                                         *)
(***************************************************************************)
ReceiveSelect ==
    /\ pc = "recvSelect"
    /\ Ready(1)
    /\ received' = Taken(1)
    /\ IF StringOk(Pending(1))
         THEN /\ pc' = "recvTypes"
              /\ idx' = 1
              /\ keyTypes' = [i \in 1 .. NKeys |-> NoReply]
         ELSE /\ pc' = "loop"
              /\ UNCHANGED <<idx, keyTypes>>
    /\ UNCHANGED <<sent, broken, todo, keysByDb, dbsLeft, db, metrics, doResult>>

(***************************************************************************)
(* The type of the key, and its memory usage: the second reply is received *)
(* only if the first one was a string.                                     *)
(***************************************************************************)
\* Fault: the memory usage of a key that does not exist is not received.
TypeRepliesSkipMissing ==
    IF StringOk(Pending(1)) /\ Pending(1).str # "none" THEN 2 ELSE 1

TypeReplies == IF StringOk(Pending(1)) THEN 2 ELSE 1

ReceiveType ==
    /\ pc = "recvTypes"
    /\ idx <= NKeys
    /\ Ready(TypeReplies)
    /\ LET t == Pending(1)
           m == Pending(2)
       IN  /\ keyTypes' = [keyTypes EXCEPT ![idx] = IF StringOk(t) THEN t ELSE NoReply]
           /\ metrics' = IF StringOk(t) /\ Int64Ok(m)
                         THEN Append(metrics, Metric("key_memory_usage_bytes",
                                                     arrayOfKeys[idx], m))
                         ELSE metrics
    /\ received' = Taken(TypeReplies)
    /\ idx' = idx + 1
    /\ UNCHANGED <<sent, broken, pc, todo, keysByDb, dbsLeft, db, doResult>>

TypesReceived ==
    /\ pc = "recvTypes"
    /\ idx > NKeys
    /\ pc' = "sendSizes"
    /\ idx' = 1
    /\ UNCHANGED <<sent, broken, received, todo, keysByDb, dbsLeft, db, keyTypes, metrics, doResult>>

-----------------------------------------------------------------------------
(***************************************************************************)
(* Second batch: getKeyInfoPipelined.  Which commands a key needs depends  *)
(* on its type.                                                            *)
(***************************************************************************)
keyType == keyTypes[idx].str

\* Fault: the value is asked for before the type is looked at.
SizeCmdsGetFirst(t, k) ==
    CASE t = "string" -> <<Cmd("PFCOUNT", k), Cmd("STRLEN", k), Cmd("GET", k)>>
      [] t \in Collections -> <<Cmd(SizeCmd[t], k)>>
      [] OTHER -> <<Cmd("GET", k)>>

SizeCmds(t, k) ==
    CASE t = "string" -> <<Cmd("PFCOUNT", k), Cmd("STRLEN", k), Cmd("GET", k)>>
      [] t \in Collections -> <<Cmd(SizeCmd[t], k)>>
      [] OTHER -> <<>>

SendSize ==
    /\ pc = "sendSizes"
    /\ idx <= NKeys
    /\ \/ /\ Send(SizeCmds(keyType, arrayOfKeys[idx]))
          /\ idx' = idx + 1
          /\ pc' = pc
       \/ /\ WriteFails             \* return to the loop
          /\ pc' = "loop"
          /\ UNCHANGED idx
    /\ UNCHANGED <<received, todo, keysByDb, dbsLeft, db, keyTypes, metrics, doResult>>

FlushSizes ==
    /\ pc = "sendSizes"
    /\ idx > NKeys
    /\ \/ Flush /\ pc' = "recvSizes" /\ idx' = 1
       \/ WriteFails /\ pc' = "loop" /\ idx' = idx
    /\ UNCHANGED <<received, todo, keysByDb, dbsLeft, db, keyTypes, metrics, doResult>>

(***************************************************************************)
(* The metrics of a string key from its replies to PFCOUNT, STRLEN and     *)
(* GET: PFCOUNT succeeds on a HyperLogLog only, whose value is not         *)
(* exported.                                                               *)
(***************************************************************************)
ValueMetric(k, g) ==
    IF ~DisableExportingKeyValues /\ StringOk(g) /\ g.str # "empty"
    THEN << Metric(IF g.str = "number" THEN "key_value" ELSE "key_value_as_string", k, g) >>
    ELSE <<>>

\* Fault: the length of a HyperLogLog's string is exported as its size.
StringMetricsStrlenFirst(k, h, s, g) ==
    IF Int64Ok(s) THEN Append(ValueMetric(k, g), Metric("key_size", k, s))
    ELSE IF Int64Ok(h) THEN << Metric("key_size", k, h) >>
    ELSE <<>>

\* Fault: both sizes are exported when both are known.
StringMetricsBoth(k, h, s, g) ==
    (IF Int64Ok(h) THEN << Metric("key_size", k, h) >> ELSE <<>>) \o
    (IF Int64Ok(s) THEN Append(ValueMetric(k, g), Metric("key_size", k, s)) ELSE <<>>)

StringMetrics(k, h, s, g) ==
    IF Int64Ok(h) THEN << Metric("key_size", k, h) >>
    ELSE IF Int64Ok(s) THEN Append(ValueMetric(k, g), Metric("key_size", k, s))
    ELSE <<>>

ReceiveSize ==
    /\ pc = "recvSizes"
    /\ idx <= NKeys
    /\ LET k == arrayOfKeys[idx] IN
       \/ /\ keyType = "none"
          /\ metrics' = Append(metrics, Metric("key_size", k, keyTypes[idx]))
          /\ UNCHANGED received
       \/ /\ keyType = "string"
          /\ Ready(3)
          /\ metrics' = metrics \o StringMetrics(k, Pending(1), Pending(2), Pending(3))
          /\ received' = Taken(3)
       \/ /\ keyType \in Collections
          /\ Ready(1)
          /\ metrics' = IF Int64Ok(Pending(1))
                        THEN Append(metrics, Metric("key_size", k, Pending(1)))
                        ELSE metrics
          /\ received' = Taken(1)
       \/ /\ keyType \notin Collections \cup {"none", "string"}
          /\ UNCHANGED <<received, metrics>>
    /\ idx' = idx + 1
    /\ UNCHANGED <<sent, broken, pc, todo, keysByDb, dbsLeft, db, keyTypes, doResult>>

SizesReceived ==
    /\ pc = "recvSizes"
    /\ idx > NKeys
    /\ pc' = "loop"
    /\ UNCHANGED <<sent, broken, received, todo, keysByDb, dbsLeft, db, idx, keyTypes, metrics, doResult>>

LoopDone ==
    /\ pc = "loop"
    /\ dbsLeft = {}
    /\ pc' = "done"
    /\ UNCHANGED <<sent, broken, received, todo, keysByDb, dbsLeft, db, idx, keyTypes, metrics, doResult>>

-----------------------------------------------------------------------------
(***************************************************************************)
(* The connection goes on to be used with Do: the next command is the      *)
(* SELECT of extractCountKeysMetrics.  Do first reads every pending reply, *)
(* and reports the first error among them as its own.                      *)
(***************************************************************************)
NextDo ==
    /\ pc = "done"
    /\ \/ /\ \E d \in Dbs : Send(<<Cmd("SELECT", d)>>)
          /\ pc' = "do" /\ UNCHANGED doResult
       \/ /\ WriteFails
          /\ pc' = "end" /\ doResult' = "error"
    /\ UNCHANGED <<received, todo, keysByDb, dbsLeft, db, idx, keyTypes, metrics>>

DoReturns ==
    /\ pc = "do"
    /\ Ready(Outstanding)
    /\ doResult' = IF \E n \in 1 .. Outstanding : Pending(n).kind = "error"
                   THEN "error" ELSE "ok"
    /\ received' = Taken(Outstanding)
    /\ pc' = "end"
    /\ UNCHANGED <<sent, broken, todo, keysByDb, dbsLeft, db, idx, keyTypes, metrics>>

-----------------------------------------------------------------------------
Exporter ==
    /\ \/ GroupKey \/ GroupDone
       \/ SendSelect \/ SendType \/ FlushTypes
       \/ ReceiveSelect \/ ReceiveType \/ TypesReceived
       \/ SendSize \/ FlushSizes \/ ReceiveSize \/ SizesReceived
       \/ LoopDone \/ NextDo \/ DoReturns
    /\ UNCHANGED <<store, selected, acl, replies, alive, changes, allKeys>>

Environment ==
    /\ ServerExec \/ OtherClient \/ ConnLost
    /\ UNCHANGED exporterVars

Terminated == pc = "end" /\ UNCHANGED vars

Next == Exporter \/ Environment \/ Terminated

(***************************************************************************)
(* The exporter's goroutine runs whenever it can; a server that is still   *)
(* connected answers.  Nothing is assumed of the other clients, nor that   *)
(* the connection is ever lost: no wait depends on the read timeout.       *)
(***************************************************************************)
Fairness ==
    /\ WF_vars(Exporter)
    /\ WF_vars(ServerExec /\ UNCHANGED exporterVars)

Spec == Init /\ [][Next]_vars /\ Fairness

-----------------------------------------------------------------------------
(***************************************************************************)
(* The path taken in cluster mode, extractCheckKeyMetricsNotPipelined and  *)
(* getKeyInfo: one Do per command, so no reply can be mistaken for another *)
(* one.  DirectMetrics(d, k) is what it exports for a key while nobody     *)
(* writes to the store: the metric names, and the commands that gave their *)
(* values.  (It labels every key with db0; the label is left out here.)    *)
(***************************************************************************)
Do(c, d, k) == IF <<c, k>> \in acl THEN Rejection ELSE Answer(c, store[d][k])

getStringInfoNotPipelined(d, k) ==
    LET g == Do("GET", d, k) IN
    IF Int64Ok(Do("PFCOUNT", d, k)) THEN {<<"key_size", "PFCOUNT">>}
    ELSE IF Int64Ok(Do("STRLEN", d, k))
    THEN {<<"key_size", "STRLEN">>} \cup
         (IF ~DisableExportingKeyValues /\ StringOk(g) /\ g.str # "empty"
          THEN {<<IF g.str = "number" THEN "key_value" ELSE "key_value_as_string", "GET">>}
          ELSE {})
    ELSE {}

getKeyInfo(t, d, k) ==
    CASE t = "none" -> {<<"key_size", "TYPE">>}
      [] t = "string" -> getStringInfoNotPipelined(d, k)
      [] t \in Collections ->
            IF Int64Ok(Do(SizeCmd[t], d, k)) THEN {<<"key_size", SizeCmd[t]>>} ELSE {}
      [] OTHER -> {}

DirectMetrics(d, k) ==
    LET t == Do("TYPE", d, k) IN
    IF ~StringOk(t) THEN {}
    ELSE getKeyInfo(t.str, d, k) \cup
         (IF Int64Ok(Do("MEMORY_USAGE", d, k))
          THEN {<<"key_memory_usage_bytes", "MEMORY_USAGE">>} ELSE {})

-----------------------------------------------------------------------------
(***************************************************************************)
(* Properties.                                                             *)
(***************************************************************************)
MetricNames == {"key_memory_usage_bytes", "key_size", "key_value", "key_value_as_string"}

\* The variables have their types, and no reply is handed out twice or before
\* its command was sent.
TypeOK ==
    /\ pc \in {"group", "loop", "sendTypes", "recvSelect", "recvTypes", "sendSizes",
               "recvSizes", "done", "do", "end"}
    /\ selected \in Dbs
    /\ received \in 0 .. Len(replies) /\ Len(replies) <= Len(sent)
    /\ alive \in BOOLEAN
    /\ changes \in 0 .. MaxChanges
    /\ dbsLeft \subseteq DbsOf(allKeys)
    /\ db \in DbsOf(allKeys) \cup {NoDb}
    /\ \A i \in DOMAIN metrics : metrics[i].name \in MetricNames
    /\ doResult \in {"none", "ok", "error"}

\* The server has refused a SELECT or a TYPE command of the batches (the
\* database does not exist, or the ACL denies it).
Rejected ==
    \E i \in 1 .. received : /\ replies[i].cmd \in {"SELECT", "TYPE"}
                            /\ replies[i].kind = "error"

\* The commands a metric's value may come from.
ValueCmds(name) ==
    CASE name = "key_memory_usage_bytes" -> {"MEMORY_USAGE"}
      [] name = "key_size" -> {"TYPE", "PFCOUNT", "STRLEN"} \cup {SizeCmd[t] : t \in Collections}
      [] OTHER -> {"GET"}

\* Every exported value is the server's answer, in the labelled database, to a
\* question about the labelled key, and to the right question: what the help
\* texts say ("The memory usage of "key" in bytes", 'The length or size of "key"').
Attributed ==
    \A i \in DOMAIN metrics :
        LET m == metrics[i] IN
        /\ m.from.arg = m.key
        /\ m.from.db = m.db
        /\ m.from.cmd \in ValueCmds(m.name)

\* Matching replies to keys by their order alone is right, whatever other clients
\* write meanwhile and wherever the connection is lost, as long as the server
\* accepts the SELECT and TYPE commands.
AttributedUnlessRejected == Rejected \/ Attributed

\* The pipelined path leaves no reply behind for the next user of the connection.
DrainedUnlessRejected ==
    (pc = "done" /\ alive /\ ~Rejected) => Outstanding = 0

\* The next Do on the connection fails only when the server refuses its own command.
NextDoUnlessRejected ==
    (doResult = "error" /\ alive) => Rejected

\* No time series is exported twice for a key that was asked for once: a duplicate
\* makes the registry report an error for the whole scrape.  This holds for rejected
\* commands and lost connections too.
Occurrences(d, k) == Cardinality({i \in DOMAIN allKeys : allKeys[i] = <<d, k>>})

NoDuplicates ==
    \A i \in DOMAIN metrics :
        Cardinality({j \in DOMAIN metrics : /\ metrics[j].name = metrics[i].name
                                            /\ metrics[j].db = metrics[i].db
                                            /\ metrics[j].key = metrics[i].key})
            <= Occurrences(metrics[i].db, metrics[i].key)

\* "both paths here (pipelined/non-pipelined) need to be modified" (keys.go): on a
\* store nobody writes to, both export the same metrics from the same commands.
AgreesWithDirect ==
    (pc = "done" /\ alive /\ changes = 0 /\ ~Rejected) =>
        \A d \in DbsOf(allKeys) : \A k \in Keys :
            {<<metrics[i].name, metrics[i].from.cmd>> :
                 i \in {j \in DOMAIN metrics : metrics[j].db = d /\ metrics[j].key = k}}
            = IF Occurrences(d, k) > 0 THEN DirectMetrics(d, k) ELSE {}

(***************************************************************************)
(* The refinement: what was gathered so far, seen as KeyGather's state.    *)
(***************************************************************************)
KeyAnswers == {replies[i] : i \in {j \in DOMAIN replies : replies[j].cmd # "SELECT"}}

Gather == INSTANCE KeyGather WITH
    wanted <- allKeys,
    answers <- KeyAnswers,
    refused <- Rejected,
    done <- pc \in {"done", "do", "end"}

\* The pipelined check keeps KeyGather's promise step by step: every value it sends
\* is an answer the server gave about the labelled key, in the labelled database,
\* while the check was running, and batches, lost connections and other clients
\* cannot be told from the outside.
Implements == Gather!Spec

\* The gathering always comes to its end, and so does the next command: no Receive
\* waits for a reply that no command asked for.
Terminates == <>(pc = "end")
=============================================================================
