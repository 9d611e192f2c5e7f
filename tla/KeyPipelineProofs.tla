------------------------- MODULE KeyPipelineProofs -------------------------
(***************************************************************************)
(* Proofs about KeyPipeline, for any databases, keys, values, access       *)
(* control lists, lists of keys to check and writes by other clients:      *)
(* replies are matched to keys by their order alone, and rightly.          *)
(*                                                                         *)
(* The argument.  In every state that is Sound (nothing was refused, the   *)
(* writer has not failed, replies may still come) what is outstanding on   *)
(* the connection is exactly what the code is going to receive: Aligned    *)
(* says which command each outstanding position holds, InDb in which       *)
(* database it runs.  A state that is not Sound never becomes Sound again, *)
(* and there no reply is handed out any more, unless one was refused.      *)
(***************************************************************************)
EXTENDS KeyPipeline, TLAPS, FiniteSetTheorems, SequenceTheorems

KeyCommands == {"TYPE", "MEMORY_USAGE", "PFCOUNT", "STRLEN", "GET",
                "LLEN", "SCARD", "ZCARD", "HLEN", "XLEN"}

DbNames == Dbs \cup DbsOf(allKeys) \cup {""}
Texts == {"", "OK", "string"} \cup AllValues

Commands == [cmd : {"SELECT"}, arg : DbNames] \cup [cmd : KeyCommands, arg : Keys]
ReplySet == [cmd : KeyCommands \cup {"SELECT", ""}, arg : DbNames \cup Keys, db : DbNames,
             kind : Kinds, str : Texts]
MetricSet == [name : MetricNames, db : DbsOf(allKeys), key : Keys, from : ReplySet]

Sending == {"sendTypes", "recvSelect"}
Receiving == {"recvTypes", "sendSizes", "recvSizes"}
Batch == Sending \cup Receiving

\* The types of the variables.
TypeInv ==
    /\ pc \in {"group", "loop", "done", "do", "end"} \cup Batch
    /\ store \in [Dbs -> [Keys -> Values]]
    /\ selected \in Dbs
    /\ sent \in Seq(Commands) /\ replies \in Seq(ReplySet)
    /\ received \in 0 .. Len(replies) /\ Len(replies) <= Len(sent)
    /\ alive \in BOOLEAN /\ broken \in BOOLEAN
    /\ changes \in 0 .. MaxChanges
    /\ allKeys \in Seq(DbsOf(allKeys) \X Keys) /\ todo \in Seq(DbsOf(allKeys) \X Keys)
    /\ keysByDb \in [DbsOf(allKeys) -> Seq(Keys)]
    /\ dbsLeft \subseteq DbsOf(allKeys) /\ db \in DbsOf(allKeys) \cup {NoDb}
    /\ idx \in Nat
    /\ metrics \in Seq(MetricSet)
    /\ doResult \in {"none", "ok", "error"}
    /\ pc \in Batch => db \in DbsOf(allKeys) /\ idx \in 1 .. NKeys + 1
    /\ pc \in Receiving => keyTypes \in [1 .. NKeys -> ReplySet]
    /\ pc = "recvSelect" => idx = NKeys + 1

\* Replies answer the commands in their order; the writer fails only on a lost connection, and
\* then nothing is sent or received any more.
Matched ==
    /\ \A p \in 1 .. Len(replies) :
          /\ replies[p].cmd = sent[p].cmd /\ replies[p].arg = sent[p].arg
          /\ replies[p].cmd \in {"SELECT", "TYPE"} => replies[p].kind \in {"status", "error"}
    /\ broken => ~alive /\ pc \in {"loop", "done", "end"}

\* No reply will ever be handed out again.
Stalled == ~alive /\ received = Len(replies)

Sound == ~Rejected /\ ~Stalled /\ ~broken

TypesAt(p, i) ==
    /\ sent[p + 1] = Cmd("TYPE", arrayOfKeys[i])
    /\ sent[p + 2] = Cmd("MEMORY_USAGE", arrayOfKeys[i])

SizesOf(i) == SizeCmds(keyTypes[i].str, arrayOfKeys[i])

\* The second batch has the commands of key i after position off[i].
Laid(off, i) ==
    /\ off[i + 1] = off[i] + Len(SizesOf(i))
    /\ \A n \in 1 .. Len(SizesOf(i)) : sent[off[i] + n] = SizesOf(i)[n]

Offsets == [1 .. NKeys + 1 -> 0 .. Len(sent)]

\* What is outstanding is what the code is going to receive.
Aligned ==
    /\ pc \in {"group", "loop", "done"} => received = Len(sent)
    /\ pc = "do" => received + 1 = Len(sent) /\ sent[Len(sent)].cmd = "SELECT"
    /\ pc \in Sending =>
          /\ Len(sent) = received + 2 * idx - 1
          /\ sent[received + 1] = Cmd("SELECT", db)
          /\ \A i \in 1 .. idx - 1 : TypesAt(received + 2 * i - 1, i)
    /\ pc = "recvTypes" =>
          /\ Len(sent) = received + 2 * (NKeys + 1 - idx)
          /\ \A i \in idx .. NKeys : TypesAt(received + 2 * (i - idx), i)
    /\ pc = "sendSizes" =>
          \E off \in Offsets : /\ off[1] = received /\ off[idx] = Len(sent)
                               /\ \A i \in 1 .. idx - 1 : Laid(off, i)
    /\ pc = "recvSizes" =>
          \E off \in Offsets : /\ off[idx] = received /\ off[NKeys + 1] = Len(sent)
                               /\ \A i \in idx .. NKeys : Laid(off, i)

\* Outstanding commands run in the database that the batch has selected.
InDb ==
    /\ pc \in Sending =>
          /\ \A q \in received + 2 .. Len(sent) : sent[q].cmd # "SELECT"
          /\ (Len(replies) > received /\ replies[received + 1].kind # "error") =>
                /\ \A q \in received + 2 .. Len(replies) : replies[q].db = db
                /\ alive => selected = db
    /\ pc \in Receiving =>
          /\ \A q \in received + 1 .. Len(sent) : sent[q].cmd # "SELECT"
          /\ \A q \in received + 1 .. Len(replies) : replies[q].db = db
          /\ alive => selected = db

\* A key type that is kept was handed out, and is the type of that key in that database.
KnownType(i) ==
    \/ keyTypes[i] = NoReply
    \/ /\ \E p \in 1 .. received : replies[p] = keyTypes[i]
       /\ keyTypes[i].cmd = "TYPE" /\ keyTypes[i].kind = "status"
       /\ keyTypes[i].arg = arrayOfKeys[i] /\ keyTypes[i].db = db

Known == pc \in Receiving => \A i \in 1 .. NKeys : KnownType(i)

\* The inductive invariant.
IInv ==
    /\ TypeInv
    /\ Matched
    /\ Sound => Aligned /\ InDb
    /\ Rejected \/ Known
    /\ AttributedUnlessRejected

\* Keys are grouped one by one: h[d][i] is the position of the list that the i-th key of
\* database d stems from, and no two stem from the same one.
GroupedBy(h) ==
    \A d \in DbsOf(allKeys) :
        /\ Len(keysByDb[d]) <= Len(allKeys) - Len(todo)
        /\ \A i \in 1 .. Len(keysByDb[d]) :
              /\ h[d][i] \in 1 .. Len(allKeys) - Len(todo)
              /\ allKeys[h[d][i]] = <<d, keysByDb[d][i]>>
        /\ \A i, j \in 1 .. Len(keysByDb[d]) : h[d][i] = h[d][j] => i = j

Positions == [DbsOf(allKeys) -> [1 .. Len(allKeys) -> 0 .. Len(allKeys)]]

Grouped ==
    /\ Len(todo) <= Len(allKeys)
    /\ \A i \in 1 .. Len(todo) : todo[i] = allKeys[Len(allKeys) - Len(todo) + i]
    /\ \E h \in Positions : GroupedBy(h)

\* Which metrics of key number n of the current database may have been sent already.
MaySend(m, n) ==
    /\ pc \notin {"group"} \cup Sending
    /\ pc = "recvTypes" => m.name = "key_memory_usage_bytes" /\ n < idx
    /\ pc = "sendSizes" => m.name = "key_memory_usage_bytes"
    /\ pc = "recvSizes" => (m.name # "key_memory_usage_bytes" => n < idx)

\* The i-th metric stems from key number at[i] of its database, and no two of one name stem from
\* the same key.
SentFor(at) ==
    /\ \A i \in 1 .. Len(metrics) :
          /\ metrics[i].db \in DbsOf(allKeys) \ dbsLeft
          /\ at[i] \in 1 .. Len(keysByDb[metrics[i].db])
          /\ metrics[i].key = keysByDb[metrics[i].db][at[i]]
          /\ metrics[i].db = db => MaySend(metrics[i], at[i])
    /\ \A i, j \in 1 .. Len(metrics) :
          /\ metrics[i].name = metrics[j].name
          /\ metrics[i].db = metrics[j].db
          /\ at[i] = at[j]
          => i = j

Once ==
    /\ \E at \in [1 .. Len(metrics) -> Nat] : SentFor(at)
    /\ pc = "group" => metrics = <<>>
    /\ pc \in Batch => db \notin dbsLeft

-----------------------------------------------------------------------------
(***************************************************************************)
(* The operators.                                                          *)
(***************************************************************************)
\* An answer has a kind and a text, and TYPE is answered with a status (RedisConn).
LEMMA AnswerFacts ==
    ASSUME NEW c, NEW v \in AllValues
    PROVE  /\ Answer(c, v) \in [kind : Kinds, str : Texts]
           /\ c = "TYPE" => Answer(c, v).kind = "status"
<1>1. TypeName(v) \in Texts /\ Text(v) \in Texts
  BY DEF TypeName, Text, Texts, AllValues, Strings, Collections
<1> DEFINE A == [kind : Kinds, str : Texts]
<1>2. \A k \in Kinds, t \in Texts : [kind |-> k, str |-> t] \in A
  OBVIOUS
<1> HIDE DEF A
<1>3. CASE c = "TYPE"
  BY <1>1, <1>2, <1>3 DEF Answer, Kinds
<1>4. CASE c \in {"MEMORY_USAGE", "PFCOUNT", "STRLEN"}
  BY <1>2, <1>4 DEF Answer, Kinds, Texts
<1>5. CASE c = "GET"
  BY <1>1, <1>2, <1>5 DEF Answer, Kinds, Texts
<1>6. CASE c \notin {"TYPE", "MEMORY_USAGE", "PFCOUNT", "STRLEN", "GET"}
  BY <1>2, <1>6 DEF Answer, Kinds, Texts
<1>7. QED
  BY <1>3, <1>4, <1>5, <1>6 DEF A

\* A reply names its command and the database it ran in.
LEMMA ReplyFacts ==
    ASSUME TypeInv, NEW c \in Commands
    PROVE  /\ ExecReply(c) \in ReplySet
           /\ ExecReply(c).cmd = c.cmd /\ ExecReply(c).arg = c.arg
           /\ ExecReply(c).db = selected
           /\ c.cmd \in {"SELECT", "TYPE"} => ExecReply(c).kind \in {"status", "error"}
           /\ c.cmd = "SELECT" /\ ExecReply(c).kind # "error" => c.arg \in Dbs
<1> DEFINE A == [kind : Kinds, str : Texts]
<1>1. c.cmd \in KeyCommands \cup {"SELECT", ""} /\ c.arg \in DbNames \cup Keys
      /\ (c.cmd # "SELECT" => c.arg \in Keys)
  BY DEF Commands, KeyCommands
<1>2. selected \in Dbs
  BY DEF TypeInv
<1>3. \A a \in A : /\ Reply(c, selected, a) \in ReplySet
                   /\ Reply(c, selected, a).cmd = c.cmd /\ Reply(c, selected, a).arg = c.arg
                   /\ Reply(c, selected, a).db = selected
                   /\ Reply(c, selected, a).kind = a.kind
  BY <1>1, <1>2 DEF Reply, ReplySet, DbNames
<1>4. Rejection \in A /\ Rejection.kind = "error"
  BY DEF Rejection, Kinds, Texts
<1>5. [kind |-> "status", str |-> "OK"] \in A
  BY DEF Kinds, Texts
<1>6. ASSUME c.cmd # "SELECT"
      PROVE  /\ Answer(c.cmd, store[selected][c.arg]) \in A
             /\ c.cmd = "TYPE" => Answer(c.cmd, store[selected][c.arg]).kind = "status"
  <2>1. store[selected][c.arg] \in AllValues
    BY <1>1, <1>2, <1>6, ValuesAssumption DEF TypeInv
  <2>2. QED
    BY <2>1, AnswerFacts
<1> HIDE DEF A
<1>7. CASE <<c.cmd, c.arg>> \in acl
  BY <1>3, <1>4, <1>7 DEF ExecReply
<1>8. CASE <<c.cmd, c.arg>> \notin acl /\ c.cmd = "SELECT"
  BY <1>3, <1>4, <1>5, <1>8 DEF ExecReply
<1>9. CASE <<c.cmd, c.arg>> \notin acl /\ c.cmd # "SELECT"
  BY <1>3, <1>6, <1>9 DEF ExecReply
<1>10. QED
  BY <1>7, <1>8, <1>9

\* Receive hands out replies of the log, and takes no more than there are.
LEMMA ReceiveFacts ==
    ASSUME TypeInv
    PROVE  /\ NoReply \in ReplySet
           /\ \A n \in Nat \ {0} : Pending(n) \in ReplySet
           /\ \A n \in Nat : Taken(n) \in received .. Len(replies)
<1>1. NoReply \in ReplySet
  BY DEF NoReply, ReplySet, Kinds, DbNames, Texts
<1>2. ASSUME NEW n \in Nat \ {0} PROVE Pending(n) \in ReplySet
  BY <1>1 DEF TypeInv, Pending, Available
<1>3. ASSUME NEW n \in Nat PROVE Taken(n) \in received .. Len(replies)
  BY DEF TypeInv, Taken, Available
<1>4. QED
  BY <1>1, <1>2, <1>3

\* Receive never moves past the replies that have come.
LEMMA TakenRange ==
    ASSUME TypeInv, NEW n \in Nat
    PROVE  Taken(n) \in 0 .. Len(replies)
<1>1. Taken(n) \in received .. Len(replies)
  BY ReceiveFacts
<1>2. received \in Nat /\ Len(replies) \in Nat
  BY DEF TypeInv
<1>3. QED
  BY <1>1, <1>2

\* The commands of the second batch, by type.
LEMMA SizeCmdsCases ==
    ASSUME NEW t, NEW k
    PROVE  /\ t = "string" =>
                 SizeCmds(t, k) = <<Cmd("PFCOUNT", k), Cmd("STRLEN", k), Cmd("GET", k)>>
           /\ t \in Collections => SizeCmds(t, k) = <<Cmd(SizeCmd[t], k)>>
           /\ t \notin Collections \cup {"string"} => SizeCmds(t, k) = <<>>
           /\ \A u \in Collections : SizeCmd[u] \in {"LLEN", "SCARD", "ZCARD", "HLEN", "XLEN"}
<1>1. ASSUME t = "string"
      PROVE  SizeCmds(t, k) = <<Cmd("PFCOUNT", k), Cmd("STRLEN", k), Cmd("GET", k)>>
  BY <1>1 DEF SizeCmds, Collections
<1>2. ASSUME t \in Collections PROVE SizeCmds(t, k) = <<Cmd(SizeCmd[t], k)>>
  BY <1>2 DEF SizeCmds, Collections
<1>3. ASSUME t \notin Collections \cup {"string"} PROVE SizeCmds(t, k) = <<>>
  BY <1>3 DEF SizeCmds
<1>4. \A u \in Collections : SizeCmd[u] \in {"LLEN", "SCARD", "ZCARD", "HLEN", "XLEN"}
  BY DEF SizeCmd, Collections
<1>5. QED
  BY <1>1, <1>2, <1>3, <1>4

\* They are well formed, and none of them is a SELECT.
LEMMA SizeCmdsFacts ==
    ASSUME NEW t, NEW k \in Keys
    PROVE  /\ SizeCmds(t, k) \in Seq(Commands)
           /\ \A n \in 1 .. Len(SizeCmds(t, k)) : SizeCmds(t, k)[n].cmd # "SELECT"
<1>1. \A c \in KeyCommands : Cmd(c, k) \in Commands /\ Cmd(c, k).cmd # "SELECT"
  BY DEF Cmd, Commands, KeyCommands
<1>2. \A a, b, c \in Commands : /\ <<a, b, c>> \in Seq(Commands)
                                /\ Len(<<a, b, c>>) = 3
                                /\ \A n \in 1 .. 3 : <<a, b, c>>[n] \in {a, b, c}
  OBVIOUS
<1>3. \A a \in Commands : /\ <<a>> \in Seq(Commands)
                          /\ Len(<<a>>) = 1
                          /\ \A n \in 1 .. 1 : <<a>>[n] = a
  OBVIOUS
<1>4. <<>> \in Seq(Commands) /\ Len(<<>>) = 0
  OBVIOUS
<1>5. CASE t = "string"
  <2>1. {"PFCOUNT", "STRLEN", "GET"} \subseteq KeyCommands
    BY DEF KeyCommands
  <2>2. SizeCmds(t, k) = <<Cmd("PFCOUNT", k), Cmd("STRLEN", k), Cmd("GET", k)>>
    BY <1>5, SizeCmdsCases
  <2>3. QED
    BY <1>1, <1>2, <2>1, <2>2
<1>6. CASE t \in Collections
  <2>1. SizeCmd[t] \in KeyCommands
    BY <1>6, SizeCmdsCases DEF KeyCommands
  <2>2. SizeCmds(t, k) = <<Cmd(SizeCmd[t], k)>>
    BY <1>6, SizeCmdsCases
  <2>3. QED
    BY <1>1, <1>3, <2>1, <2>2
<1>7. CASE t \notin Collections \cup {"string"}
  <2>1. SizeCmds(t, k) = <<>>
    BY <1>7, SizeCmdsCases
  <2>2. QED
    BY <1>4, <2>1
<1>8. QED
  BY <1>5, <1>6, <1>7

\* Short tuples are sequences.
LEMMA Tuples ==
    ASSUME NEW S, NEW a \in S, NEW b \in S
    PROVE  /\ <<a>> \in Seq(S) /\ Len(<<a>>) = 1 /\ <<a>>[1] = a
           /\ <<a, b>> \in Seq(S) /\ Len(<<a, b>>) = 2 /\ <<a, b>>[1] = a /\ <<a, b>>[2] = b
OBVIOUS

\* Sequences that grow by one or two elements.
LEMMA Grow ==
    ASSUME NEW S, NEW s \in Seq(S), NEW a \in S, NEW b \in S
    PROVE  /\ s \o <<>> = s
           /\ s \o <<a>> = Append(s, a)
           /\ s \o Append(<<a>>, b) = Append(Append(s, a), b)
<1>1. s \o <<>> = s /\ s \o <<a>> = Append(s, a)
  BY ConcatEmptySeq, AppendIsConcat
<1>2. <<a>> \in Seq(S) /\ <<b>> \in Seq(S)
  OBVIOUS
<1>3. Append(<<a>>, b) = <<a>> \o <<b>>
  BY <1>2, AppendIsConcat
<1>4. s \o (<<a>> \o <<b>>) = (s \o <<a>>) \o <<b>>
  BY <1>2, ConcatAssociative
<1>5. Append(s, a) \in Seq(S)
  OBVIOUS
<1>6. Append(s, a) \o <<b>> = Append(Append(s, a), b)
  BY <1>5, AppendIsConcat
<1>7. QED
  BY <1>1, <1>3, <1>4, <1>6, Zenon

\* The metrics of a string key: none, a size, or a value and a size, each from its own reply.
LEMMA StringMetricsCases ==
    ASSUME NEW k, NEW h, NEW s, NEW g
    PROVE  \/ StringMetrics(k, h, s, g) = <<>>
           \/ Int64Ok(h) /\ StringMetrics(k, h, s, g) = <<Metric("key_size", k, h)>>
           \/ Int64Ok(s) /\ StringMetrics(k, h, s, g) = <<Metric("key_size", k, s)>>
           \/ /\ Int64Ok(s) /\ StringOk(g)
              /\ \E name \in {"key_value", "key_value_as_string"} :
                    StringMetrics(k, h, s, g)
                        = Append(<<Metric(name, k, g)>>, Metric("key_size", k, s))
<1>1. \/ ValueMetric(k, g) = <<>>
      \/ StringOk(g) /\ \E name \in {"key_value", "key_value_as_string"} :
                            ValueMetric(k, g) = <<Metric(name, k, g)>>
  BY DEF ValueMetric
<1>2. \A a : Append(<<>>, a) = <<a>>
  <2> TAKE a
  <2>1. a \in {a} /\ <<>> \in Seq({a})
    OBVIOUS
  <2>2. QED
    BY <2>1
<1>3. QED
  BY <1>1, <1>2 DEF StringMetrics
-----------------------------------------------------------------------------
(***************************************************************************)
(* Types.                                                                  *)
(***************************************************************************)
\* The keys of the database at hand.
LEMMA BatchFacts ==
    ASSUME TypeInv, pc \in Batch
    PROVE  /\ db \in DbsOf(allKeys) /\ idx \in 1 .. NKeys + 1
           /\ arrayOfKeys \in Seq(Keys) /\ NKeys \in Nat
           /\ \A i \in 1 .. NKeys : arrayOfKeys[i] \in Keys
BY DEF TypeInv, arrayOfKeys, NKeys

\* The list to check never changes, and with it the sets that are built from it.
LEMMA SameSets ==
    ASSUME allKeys' = allKeys
    PROVE  /\ DbsOf(allKeys)' = DbsOf(allKeys)
           /\ Commands' = Commands /\ ReplySet' = ReplySet /\ MetricSet' = MetricSet
BY DEF DbsOf, DbNames, Commands, ReplySet, MetricSet

\* What the exporter sends and exports is well formed.
LEMMA RecordTypes ==
    ASSUME TypeInv, pc \in Batch
    PROVE  /\ \A d \in Dbs \cup DbsOf(allKeys) : Cmd("SELECT", d) \in Commands
           /\ \A k \in Keys, c \in KeyCommands : Cmd(c, k) \in Commands
           /\ \A name \in MetricNames, k \in Keys, r \in ReplySet :
                 Metric(name, k, r) \in MetricSet
BY BatchFacts DEF Cmd, Commands, DbNames, Metric, MetricSet

\* SELECT of any database that a key names is a command.
LEMMA SelectType ==
    \A d \in Dbs \cup DbsOf(allKeys) : Cmd("SELECT", d) \in Commands
BY DEF Cmd, Commands, DbNames

\* One key's type and memory usage: the metrics and replies that are taken.
LEMMA ReceiveTypeCases ==
    ASSUME TypeInv, ReceiveType
    PROVE  LET k == arrayOfKeys[idx]
               t == Pending(1)
               m == Pending(2)
           IN  /\ pc \in Batch /\ idx \in 1 .. NKeys /\ idx' = idx + 1
               /\ k \in Keys /\ t \in ReplySet /\ m \in ReplySet
               /\ keyTypes' = [keyTypes EXCEPT ![idx] = IF StringOk(t) THEN t ELSE NoReply]
               /\ \/ metrics' = metrics
                  \/ /\ StringOk(t) /\ Int64Ok(m)
                     /\ metrics' = Append(metrics, Metric("key_memory_usage_bytes", k, m))
               /\ \/ StringOk(t) /\ Ready(2) /\ received' = Taken(2)
                  \/ ~StringOk(t) /\ Ready(1) /\ received' = Taken(1)
<1>1. pc \in Batch
  BY DEF ReceiveType, Batch, Receiving
<1>2. idx \in 1 .. NKeys
  BY <1>1, BatchFacts DEF ReceiveType
<1>3. Pending(1) \in ReplySet /\ Pending(2) \in ReplySet
  BY ReceiveFacts
<1>4. arrayOfKeys[idx] \in Keys
  BY <1>1, <1>2, BatchFacts
<1>5. \/ StringOk(Pending(1)) /\ Ready(2) /\ received' = Taken(2)
      \/ ~StringOk(Pending(1)) /\ Ready(1) /\ received' = Taken(1)
  BY DEF ReceiveType, TypeReplies
<1>6. QED
  BY <1>1, <1>2, <1>3, <1>4, <1>5 DEF ReceiveType

\* One key's size and value: the metrics and replies that are taken.
LEMMA ReceiveSizeCases ==
    ASSUME TypeInv, ReceiveSize
    PROVE  LET k == arrayOfKeys[idx]
               t == keyTypes[idx]
           IN  /\ pc \in Batch /\ idx \in 1 .. NKeys /\ idx' = idx + 1
               /\ k \in Keys /\ t \in ReplySet
               /\ \/ /\ t.str = "none"
                     /\ metrics' = Append(metrics, Metric("key_size", k, t))
                     /\ received' = received
                  \/ /\ t.str = "string" /\ Ready(3) /\ received' = Taken(3)
                     /\ \/ metrics' = metrics
                        \/ \E n \in {1, 2} :
                              /\ Int64Ok(Pending(n))
                              /\ metrics' = Append(metrics, Metric("key_size", k, Pending(n)))
                        \/ \E name \in {"key_value", "key_value_as_string"} :
                              /\ StringOk(Pending(3)) /\ Int64Ok(Pending(2))
                              /\ metrics' = Append(Append(metrics, Metric(name, k, Pending(3))),
                                                   Metric("key_size", k, Pending(2)))
                  \/ /\ t.str \in Collections /\ Ready(1) /\ received' = Taken(1)
                     /\ \/ metrics' = metrics
                        \/ /\ Int64Ok(Pending(1))
                           /\ metrics' = Append(metrics, Metric("key_size", k, Pending(1)))
                  \/ /\ t.str \notin Collections \cup {"string"}
                     /\ metrics' = metrics /\ received' = received
<1> DEFINE k == arrayOfKeys[idx]
<1> DEFINE t == keyTypes[idx]
<1>1. pc \in Batch /\ pc \in Receiving
  BY DEF ReceiveSize, Batch, Receiving
<1>2. idx \in 1 .. NKeys
  BY <1>1, BatchFacts DEF ReceiveSize
<1>3. k \in Keys /\ t \in ReplySet
  BY <1>1, <1>2, BatchFacts DEF TypeInv
<1>4. Pending(1) \in ReplySet /\ Pending(2) \in ReplySet /\ Pending(3) \in ReplySet
  BY ReceiveFacts
<1>5. ASSUME NEW r \in ReplySet, NEW name \in MetricNames PROVE Metric(name, k, r) \in MetricSet
  BY <1>1, <1>3, RecordTypes
<1>6. {"key_size", "key_value", "key_value_as_string"} \subseteq MetricNames
  BY DEF MetricNames
<1>7. metrics \in Seq(MetricSet)
  BY DEF TypeInv
<1>8. CASE t.str = "string" /\ Ready(3) /\ received' = Taken(3)
           /\ metrics' = metrics \o StringMetrics(k, Pending(1), Pending(2), Pending(3))
  <2>1. \A name \in {"key_size", "key_value", "key_value_as_string"}, r \in ReplySet :
           Metric(name, k, r) \in MetricSet
    BY <1>5, <1>6
  <2>2. metrics \o <<>> = metrics
    BY <1>7, ConcatEmptySeq
  <2>3. \A a \in MetricSet : metrics \o <<a>> = Append(metrics, a)
    BY <1>7, Grow
  <2>4. \A a, b \in MetricSet : metrics \o Append(<<a>>, b) = Append(Append(metrics, a), b)
    BY <1>7, Grow
  <2> HIDE DEF k, t
  <2>5. \/ metrics' = metrics
        \/ \E n \in {1, 2} :
              /\ Int64Ok(Pending(n))
              /\ metrics' = Append(metrics, Metric("key_size", k, Pending(n)))
        \/ \E name \in {"key_value", "key_value_as_string"} :
              /\ StringOk(Pending(3)) /\ Int64Ok(Pending(2))
              /\ metrics' = Append(Append(metrics, Metric(name, k, Pending(3))),
                                   Metric("key_size", k, Pending(2)))
    <3>1. CASE StringMetrics(k, Pending(1), Pending(2), Pending(3)) = <<>>
      BY <3>1, <1>8, <2>2
    <3>2. CASE Int64Ok(Pending(1)) /\ StringMetrics(k, Pending(1), Pending(2), Pending(3))
                                        = <<Metric("key_size", k, Pending(1))>>
      BY <3>2, <1>4, <1>8, <2>1, <2>3
    <3>3. CASE Int64Ok(Pending(2)) /\ StringMetrics(k, Pending(1), Pending(2), Pending(3))
                                        = <<Metric("key_size", k, Pending(2))>>
      BY <3>3, <1>4, <1>8, <2>1, <2>3
    <3>4. CASE /\ Int64Ok(Pending(2)) /\ StringOk(Pending(3))
               /\ \E name \in {"key_value", "key_value_as_string"} :
                     StringMetrics(k, Pending(1), Pending(2), Pending(3))
                       = Append(<<Metric(name, k, Pending(3))>>, Metric("key_size", k, Pending(2)))
      BY <3>4, <1>4, <1>8, <2>1, <2>4
    <3>5. QED
      BY <3>1, <3>2, <3>3, <3>4, StringMetricsCases
  <2>6. QED
    BY <1>1, <1>2, <1>3, <1>8, <2>5 DEF ReceiveSize, k, t
<1>9. QED
  BY <1>1, <1>2, <1>3, <1>8 DEF ReceiveSize, keyType

\* Initially every variable has its type.
LEMMA TypeInit == Init => TypeInv
<1> SUFFICES ASSUME Init PROVE TypeInv
  OBVIOUS
<1>1. allKeys \in Seq(STRING \X Keys)
  BY InputsAssumption DEF Init
<1>2. allKeys \in Seq(DbsOf(allKeys) \X Keys)
  <2>1. \A i \in 1 .. Len(allKeys) : allKeys[i] \in DbsOf(allKeys) \X Keys
    <3> TAKE i \in 1 .. Len(allKeys)
    <3>1. allKeys[i] \in STRING \X Keys
      BY <1>1, ElementOfSeq
    <3>2. allKeys[i][1] \in DbsOf(allKeys)
      BY <1>1 DEF DbsOf
    <3>3. QED
      BY <3>1, <3>2
  <2>2. allKeys \in [1 .. Len(allKeys) -> DbsOf(allKeys) \X Keys] /\ Len(allKeys) \in Nat
    BY <1>1, <2>1
  <2>3. QED
    BY <2>2, SeqDef
<1>3. store \in [Dbs -> [Keys -> Values]]
  BY StoresAssumption DEF Init, ConnInit
<1>4. keysByDb \in [DbsOf(allKeys) -> Seq(Keys)]
  BY DEF Init
<1>5. alive \in BOOLEAN /\ broken \in BOOLEAN
  BY DEF Init, ConnInit
<1>6. received \in 0 .. Len(replies) /\ Len(replies) <= Len(sent)
  BY DEF Init, ConnInit
<1>7. /\ sent \in Seq(Commands) /\ replies \in Seq(ReplySet) /\ metrics \in Seq(MetricSet)
      /\ todo \in Seq(DbsOf(allKeys) \X Keys)
  BY <1>2 DEF Init, ConnInit
<1>8. changes \in 0 .. MaxChanges /\ selected \in Dbs
  BY ChangesAssumption DEF Init, ConnInit
<1>9. /\ pc = "group" /\ dbsLeft = {} /\ db = NoDb /\ idx = 0 /\ doResult = "none"
  BY DEF Init
<1>10. QED
  BY <1>2, <1>3, <1>4, <1>5, <1>6, <1>7, <1>8, <1>9
     DEF TypeInv, Batch, Sending, Receiving

\* The environment keeps the types (RedisConn).
LEMMA TypeEnvironment ==
    ASSUME TypeInv, Environment
    PROVE  TypeInv'
<1>1. UNCHANGED exporterVars
  BY DEF Environment
<1>2. /\ pc' = pc /\ allKeys' = allKeys /\ todo' = todo /\ keysByDb' = keysByDb
      /\ dbsLeft' = dbsLeft /\ db' = db /\ idx' = idx /\ keyTypes' = keyTypes
      /\ metrics' = metrics /\ doResult' = doResult /\ NKeys' = NKeys
  BY <1>1 DEF exporterVars, NKeys, arrayOfKeys
<1> USE <1>2, SameSets
<1>3. CASE ServerExec
  <2> DEFINE c == sent[Len(replies) + 1]
  <2>1. c \in Commands
    BY <1>3 DEF ServerExec, TypeInv
  <2>2. ExecReply(c) \in ReplySet
    BY <2>1, ReplyFacts
  <2>3. c.cmd = "SELECT" /\ ExecReply(c).kind # "error" => c.arg \in Dbs
    BY <2>1, ReplyFacts
  <2>4. /\ replies' = Append(replies, ExecReply(c)) /\ selected' \in Dbs
        /\ Len(replies) < Len(sent)
        /\ UNCHANGED <<store, sent, received, alive, broken, changes>>
    BY <1>3, <2>3 DEF ServerExec, TypeInv
  <2> HIDE DEF c
  <2>5. replies' \in Seq(ReplySet) /\ Len(replies') = Len(replies) + 1
    BY <2>2, <2>4 DEF TypeInv
  <2>6. QED
    BY <2>4, <2>5 DEF TypeInv
<1>4. CASE OtherClient
  <2>1. PICK d \in Dbs, k \in Keys, v \in Values : store' = [store EXCEPT ![d][k] = v]
    BY <1>4 DEF OtherClient
  <2>2. store' \in [Dbs -> [Keys -> Values]]
    BY <2>1 DEF TypeInv
  <2>3. QED
    BY <1>4, <2>2, ChangesAssumption DEF OtherClient, TypeInv
<1>5. CASE ConnLost
  <2>1. PICK n \in received .. Len(replies) : replies' = SubSeq(replies, 1, n)
    BY <1>5 DEF ConnLost
  <2>2. replies' \in Seq(ReplySet) /\ Len(replies') = n
    BY <2>1 DEF TypeInv
  <2>3. alive' \in BOOLEAN /\ UNCHANGED <<store, selected, sent, received, broken, changes>>
    BY <1>5 DEF ConnLost
  <2>4. received' \in 0 .. Len(replies') /\ Len(replies') <= Len(sent')
    BY <2>2, <2>3 DEF TypeInv
  <2>5. QED
    BY <2>2, <2>3, <2>4 DEF TypeInv
<1>6. QED
  BY <1>3, <1>4, <1>5 DEF Environment

\* What a step of the exporter leaves alone.
LEMMA ExporterFacts ==
    ASSUME Exporter
    PROVE  /\ UNCHANGED <<store, selected, acl, replies, alive, changes, allKeys>>
           /\ DbsOf(allKeys)' = DbsOf(allKeys)
           /\ Commands' = Commands /\ ReplySet' = ReplySet /\ MetricSet' = MetricSet
BY SameSets DEF Exporter

\* Writing: the log of commands grows by well formed ones, or the writer fails.
LEMMA SendFacts ==
    ASSUME TypeInv, NEW cmds \in Seq(Commands), Send(cmds)
    PROVE  /\ sent' \in Seq(Commands) /\ broken' = broken /\ ~broken
           /\ Len(sent') = Len(sent) + Len(cmds)
           /\ \A p \in 1 .. Len(sent) : sent'[p] = sent[p]
           /\ \A p \in 1 .. Len(cmds) : sent'[Len(sent) + p] = cmds[p]
BY DEF Send, TypeInv

\* A single command goes to the end of what was sent.
LEMMA SendOne ==
    ASSUME TypeInv, NEW a \in Commands, Send(<<a>>)
    PROVE  /\ Len(sent') = Len(sent) + 1 /\ sent'[Len(sent) + 1] = a
           /\ \A p \in 1 .. Len(sent) : sent'[p] = sent[p]
<1> DEFINE cmds == <<a>>
<1>1. cmds \in Seq(Commands) /\ Len(cmds) = 1 /\ cmds[1] = a
  BY Tuples, Zenon
<1>2. Send(cmds)
  OBVIOUS
<1> HIDE DEF cmds
<1>3. /\ Len(sent') = Len(sent) + Len(cmds)
      /\ \A p \in 1 .. Len(sent) : sent'[p] = sent[p]
      /\ \A p \in 1 .. Len(cmds) : sent'[Len(sent) + p] = cmds[p]
  BY <1>1, <1>2, SendFacts
<1>4. 1 \in 1 .. Len(cmds)
  BY <1>1
<1>5. sent'[Len(sent) + 1] = cmds[1]
  BY <1>3, <1>4
<1>6. QED
  BY <1>1, <1>3, <1>5

\* Two commands go to the end of what was sent, in their order.
LEMMA SendTwo ==
    ASSUME TypeInv, NEW a \in Commands, NEW b \in Commands, Send(<<a, b>>)
    PROVE  /\ Len(sent') = Len(sent) + 2
           /\ sent'[Len(sent) + 1] = a /\ sent'[Len(sent) + 2] = b
           /\ \A p \in 1 .. Len(sent) : sent'[p] = sent[p]
<1> DEFINE cmds == <<a, b>>
<1>1. cmds \in Seq(Commands) /\ Len(cmds) = 2 /\ cmds[1] = a /\ cmds[2] = b
  BY Tuples, Zenon
<1>2. Send(cmds)
  OBVIOUS
<1> HIDE DEF cmds
<1>3. /\ Len(sent') = Len(sent) + Len(cmds)
      /\ \A p \in 1 .. Len(sent) : sent'[p] = sent[p]
      /\ \A p \in 1 .. Len(cmds) : sent'[Len(sent) + p] = cmds[p]
  BY <1>1, <1>2, SendFacts
<1>4. 1 \in 1 .. Len(cmds) /\ 2 \in 1 .. Len(cmds)
  BY <1>1
<1>5. sent'[Len(sent) + 1] = cmds[1] /\ sent'[Len(sent) + 2] = cmds[2]
  BY <1>3, <1>4
<1>6. QED
  BY <1>1, <1>3, <1>5

\* A write, done or failed, keeps the types and forgets nothing that was sent.
LEMMA WriteTypes ==
    ASSUME TypeInv, NEW cmds \in Seq(Commands), Send(cmds) \/ WriteFails
    PROVE  sent' \in Seq(Commands) /\ broken' \in BOOLEAN /\ Len(sent') >= Len(sent)
<1>1. CASE Send(cmds)
  BY <1>1, SendFacts DEF TypeInv
<1>2. CASE WriteFails
  <2>1. broken' \in BOOLEAN /\ sent' = sent
    BY <1>2 DEF WriteFails
  <2>2. QED
    BY <2>1 DEF TypeInv
<1>3. QED
  BY <1>1, <1>2

\* The commands of the two batches are well formed.
LEMMA SendTypeFacts ==
    ASSUME TypeInv, SendType
    PROVE  LET k == arrayOfKeys[idx] IN
           /\ pc \in Batch /\ idx \in 1 .. NKeys /\ k \in Keys
           /\ Cmd("TYPE", k) \in Commands /\ Cmd("MEMORY_USAGE", k) \in Commands
           /\ <<Cmd("TYPE", k), Cmd("MEMORY_USAGE", k)>> \in Seq(Commands)
<1>1. pc \in Batch /\ idx <= NKeys
  BY DEF SendType, Batch, Sending
<1>2. idx \in 1 .. NKeys /\ arrayOfKeys[idx] \in Keys
  BY <1>1, BatchFacts
<1>3. {"TYPE", "MEMORY_USAGE"} \subseteq KeyCommands
  BY DEF KeyCommands
<1>4. /\ Cmd("TYPE", arrayOfKeys[idx]) \in Commands
      /\ Cmd("MEMORY_USAGE", arrayOfKeys[idx]) \in Commands
  BY <1>1, <1>2, <1>3, RecordTypes
<1>5. QED
  BY <1>1, <1>2, <1>4, Tuples, Zenon

\* Where SendSize stands: at a key of the batch, with the commands its type calls for.
LEMMA SendSizeFacts ==
    ASSUME TypeInv, SendSize
    PROVE  /\ pc \in Batch /\ idx \in 1 .. NKeys /\ arrayOfKeys[idx] \in Keys
           /\ SizeCmds(keyType, arrayOfKeys[idx]) \in Seq(Commands)
           /\ SizeCmds(keyType, arrayOfKeys[idx]) = SizesOf(idx)
<1>1. pc \in Batch /\ idx <= NKeys
  BY DEF SendSize, Batch, Receiving
<1>2. idx \in 1 .. NKeys /\ arrayOfKeys[idx] \in Keys
  BY <1>1, BatchFacts
<1>3. QED
  BY <1>1, <1>2, SizeCmdsFacts DEF SizesOf, keyType

\* The exporter keeps the types (keys.go).
LEMMA TypeExporter ==
    ASSUME TypeInv, Exporter
    PROVE  TypeInv'
<1>1. /\ UNCHANGED <<store, selected, acl, replies, alive, changes, allKeys>>
      /\ DbsOf(allKeys)' = DbsOf(allKeys)
      /\ Commands' = Commands /\ ReplySet' = ReplySet /\ MetricSet' = MetricSet
  BY ExporterFacts
<1>2. CASE GroupKey
  <2>1. Head(todo) \in DbsOf(allKeys) \X Keys /\ todo' \in Seq(DbsOf(allKeys) \X Keys)
    BY <1>2, HeadTailProperties DEF GroupKey, TypeInv
  <2>2. Head(todo)[1] \in DbsOf(allKeys) /\ Head(todo)[2] \in Keys
    BY <2>1
  <2>3. keysByDb' \in [DbsOf(allKeys) -> Seq(Keys)]
    BY <1>2, <2>2 DEF GroupKey, TypeInv
  <2>4. /\ UNCHANGED <<sent, broken, received, pc, dbsLeft, db, idx, keyTypes, metrics, doResult>>
        /\ pc \notin Batch /\ pc \notin Receiving /\ pc # "recvSelect"
    BY <1>2 DEF GroupKey, Batch, Sending, Receiving
  <2>5. QED
    BY <1>1, <2>1, <2>3, <2>4 DEF TypeInv
<1>3. CASE GroupDone \/ SizesReceived \/ LoopDone
  BY <1>1, <1>3 DEF GroupDone, SizesReceived, LoopDone, TypeInv, Batch, Sending, Receiving
<1>4. CASE SendSelect
  <2>1. PICK d \in dbsLeft :
              /\ db' = d
              /\ dbsLeft' = dbsLeft \ {d}
              /\ \/ Send(<<Cmd("SELECT", d)>>) /\ idx' = 1 /\ pc' = "sendTypes"
                 \/ WriteFails /\ UNCHANGED <<idx, pc>>
    BY <1>4 DEF SendSelect
  <2>2. d \in DbsOf(allKeys)
    BY DEF TypeInv
  <2>3. <<Cmd("SELECT", d)>> \in Seq(Commands)
    BY <2>2, SelectType
  <2>4. sent' \in Seq(Commands) /\ broken' \in BOOLEAN /\ Len(sent') >= Len(sent)
    <3>1. Send(<<Cmd("SELECT", d)>>) \/ WriteFails
      BY <2>1
    <3>2. QED
      BY <2>3, <3>1, WriteTypes
  <2>5. /\ UNCHANGED <<received, todo, keysByDb, keyTypes, metrics, doResult>> /\ pc = "loop"
    BY <1>4 DEF SendSelect
  <2>6. keysByDb[d] \in Seq(Keys) /\ NKeys' = Len(keysByDb[d])
    BY <2>1, <2>2, <2>5 DEF TypeInv, NKeys, arrayOfKeys
  <2>7. idx' \in Nat /\ (pc' \in Batch => pc' = "sendTypes" /\ idx' \in 1 .. NKeys' + 1)
    BY <2>1, <2>5, <2>6 DEF TypeInv, Batch, Sending, Receiving
  <2>8. pc' \in {"loop", "sendTypes"}
    BY <2>1, <2>5
  <2>9. QED
    BY <1>1, <2>1, <2>2, <2>4, <2>5, <2>7, <2>8 DEF TypeInv, Batch, Sending, Receiving
<1>5. CASE SendType
  <2>1. pc \in Batch
    BY <1>5, SendTypeFacts
  <2>2. idx \in 1 .. NKeys /\ arrayOfKeys[idx] \in Keys
    BY <1>5, SendTypeFacts
  <2>3. <<Cmd("TYPE", arrayOfKeys[idx]), Cmd("MEMORY_USAGE", arrayOfKeys[idx])>> \in Seq(Commands)
    BY <1>5, SendTypeFacts
  <2>4. sent' \in Seq(Commands) /\ broken' \in BOOLEAN /\ Len(sent') >= Len(sent)
    <3>1. Send(<<Cmd("TYPE", arrayOfKeys[idx]), Cmd("MEMORY_USAGE", arrayOfKeys[idx])>>) \/ WriteFails
      BY <1>5 DEF SendType
    <3>2. QED
      BY <2>3, <3>1, WriteTypes
  <2>5. /\ UNCHANGED <<received, todo, keysByDb, dbsLeft, db, keyTypes, metrics, doResult>>
        /\ NKeys' = NKeys /\ idx' \in 1 .. NKeys + 1 /\ pc' \in {"sendTypes", "done"}
    <3>1. /\ UNCHANGED <<received, todo, keysByDb, dbsLeft, db, keyTypes, metrics, doResult>>
          /\ idx' \in {idx, idx + 1} /\ pc' \in {"sendTypes", "done"}
      BY <1>5 DEF SendType
    <3>2. NKeys' = NKeys
      BY <3>1 DEF NKeys, arrayOfKeys
    <3>3. QED
      BY <2>1, <2>2, <3>1, <3>2, BatchFacts
  <2>6. QED
    BY <1>1, <2>1, <2>4, <2>5, BatchFacts DEF TypeInv, Batch, Sending, Receiving
<1>6. CASE FlushTypes
  <2>1. pc \in Batch
    BY <1>6 DEF FlushTypes, Batch, Sending
  <2>2. sent' = sent /\ broken' \in BOOLEAN
    BY <1>6 DEF FlushTypes, Flush, WriteFails, TypeInv
  <2>3. /\ UNCHANGED <<received, todo, keysByDb, dbsLeft, db, idx, keyTypes, metrics, doResult>>
        /\ NKeys' = NKeys /\ idx = NKeys + 1 /\ pc' \in {"recvSelect", "done"}
    BY <1>6, <2>1, BatchFacts DEF FlushTypes, NKeys, arrayOfKeys
  <2>4. QED
    BY <1>1, <2>1, <2>2, <2>3, BatchFacts DEF TypeInv, Batch, Sending, Receiving
<1>7. CASE ReceiveSelect
  <2>1. pc \in Batch
    BY <1>7 DEF ReceiveSelect, Batch, Sending
  <2>2. received' \in 0 .. Len(replies)
    BY <1>7, TakenRange DEF ReceiveSelect
  <2>3. /\ UNCHANGED <<sent, broken, todo, keysByDb, dbsLeft, db, metrics, doResult>>
        /\ NKeys' = NKeys
    BY <1>7 DEF ReceiveSelect, NKeys, arrayOfKeys
  <2>4. \/ pc' = "recvTypes" /\ idx' = 1 /\ keyTypes' = [i \in 1 .. NKeys |-> NoReply]
        \/ pc' = "loop" /\ UNCHANGED <<idx, keyTypes>>
    BY <1>7 DEF ReceiveSelect
  <2>5. keyTypes' \in [1 .. NKeys -> ReplySet] \/ pc' = "loop"
    BY <2>4, ReceiveFacts
  <2>6. db' \in DbsOf(allKeys) /\ idx' \in Nat /\ idx' \in 1 .. NKeys + 1
    BY <2>1, <2>3, <2>4, BatchFacts
  <2>7. /\ pc' \in {"loop"} \cup Batch /\ pc' # "recvSelect"
        /\ pc' \in Receiving => keyTypes' \in [1 .. NKeys -> ReplySet]
    BY <2>4, <2>5 DEF Batch, Receiving, Sending
  <2>8. QED
    BY <1>1, <2>2, <2>3, <2>6, <2>7 DEF TypeInv
<1>8. CASE ReceiveType
  <2>1. pc \in Batch /\ pc \in Receiving
    BY <1>8 DEF ReceiveType, Batch, Receiving
  <2>2. received' \in 0 .. Len(replies)
    <3>1. received' = Taken(1) \/ received' = Taken(2)
      BY <1>8, ReceiveTypeCases
    <3>2. Taken(1) \in received .. Len(replies) /\ Taken(2) \in received .. Len(replies)
      BY ReceiveFacts
    <3>3. QED
      BY <3>1, <3>2 DEF TypeInv
  <2>3. /\ UNCHANGED <<sent, broken, pc, todo, keysByDb, dbsLeft, db, doResult>>
        /\ NKeys' = NKeys /\ pc # "recvSelect"
    BY <1>8 DEF ReceiveType, NKeys, arrayOfKeys
  <2>4. idx' \in 1 .. NKeys + 1
    BY <1>8, <2>1, ReceiveTypeCases, BatchFacts
  <2>5. keyTypes' \in [1 .. NKeys -> ReplySet]
    BY <1>8, <2>1, ReceiveTypeCases, ReceiveFacts DEF TypeInv
  <2>6. metrics' \in Seq(MetricSet)
    <3>1. "key_memory_usage_bytes" \in MetricNames
      BY DEF MetricNames
    <3>2. Metric("key_memory_usage_bytes", arrayOfKeys[idx], Pending(2)) \in MetricSet
      BY <1>8, <2>1, <3>1, ReceiveTypeCases, RecordTypes
    <3>3. QED
      <4> DEFINE m == Metric("key_memory_usage_bytes", arrayOfKeys[idx], Pending(2))
      <4>1. metrics' = metrics \/ metrics' = Append(metrics, m)
        BY <1>8, ReceiveTypeCases
      <4>2. m \in MetricSet
        BY <3>2
      <4> HIDE DEF m
      <4>3. metrics \in Seq(MetricSet)
        BY DEF TypeInv
      <4>4. QED
        BY <4>1, <4>2, <4>3
  <2>7. idx' \in Nat /\ db \in DbsOf(allKeys)
    BY <2>1, <2>4, BatchFacts
  <2>8. QED
    BY <1>1, <2>2, <2>3, <2>4, <2>5, <2>6, <2>7 DEF TypeInv
<1>9. CASE TypesReceived
  <2>1. pc \in Batch /\ pc \in Receiving
    BY <1>9 DEF TypesReceived, Batch, Receiving
  <2>2. /\ UNCHANGED <<sent, broken, received, todo, keysByDb, dbsLeft, db, keyTypes, metrics, doResult>>
        /\ NKeys' = NKeys /\ idx' = 1 /\ pc' = "sendSizes"
    BY <1>9 DEF TypesReceived, NKeys, arrayOfKeys
  <2>3. QED
    BY <1>1, <2>1, <2>2, BatchFacts DEF TypeInv, Batch, Sending, Receiving
<1>10. CASE SendSize
  <2>1. pc \in Batch /\ pc \in Receiving
    BY <1>10 DEF SendSize, Batch, Receiving
  <2>2. idx \in 1 .. NKeys
    BY <1>10, SendSizeFacts
  <2>3. SizeCmds(keyType, arrayOfKeys[idx]) \in Seq(Commands)
    BY <1>10, SendSizeFacts
  <2>4. sent' \in Seq(Commands) /\ broken' \in BOOLEAN /\ Len(sent') >= Len(sent)
    <3>1. Send(SizeCmds(keyType, arrayOfKeys[idx])) \/ WriteFails
      BY <1>10 DEF SendSize
    <3>2. QED
      BY <2>3, <3>1, WriteTypes
  <2>5. /\ UNCHANGED <<received, todo, keysByDb, dbsLeft, db, keyTypes, metrics, doResult>>
        /\ NKeys' = NKeys /\ idx' \in 1 .. NKeys + 1 /\ pc' \in {"sendSizes", "loop"}
    BY <1>10, <2>1, <2>2, BatchFacts DEF SendSize, NKeys, arrayOfKeys
  <2>6. QED
    BY <1>1, <2>1, <2>4, <2>5, BatchFacts DEF TypeInv, Batch, Sending, Receiving
<1>11. CASE FlushSizes
  <2>1. pc \in Batch /\ pc \in Receiving
    BY <1>11 DEF FlushSizes, Batch, Receiving
  <2>2. sent' = sent /\ broken' \in BOOLEAN
    BY <1>11 DEF FlushSizes, Flush, WriteFails, TypeInv
  <2>3. /\ UNCHANGED <<received, todo, keysByDb, dbsLeft, db, keyTypes, metrics, doResult>>
        /\ NKeys' = NKeys /\ idx' \in 1 .. NKeys + 1 /\ pc' \in {"recvSizes", "loop"}
    BY <1>11, <2>1, BatchFacts DEF FlushSizes, NKeys, arrayOfKeys
  <2>4. QED
    BY <1>1, <2>1, <2>2, <2>3, BatchFacts DEF TypeInv, Batch, Sending, Receiving
<1>12. CASE ReceiveSize
  <2>1. pc \in Batch /\ pc \in Receiving
    BY <1>12 DEF ReceiveSize, Batch, Receiving
  <2>2. received' \in 0 .. Len(replies)
    <3>1. received' = received \/ received' = Taken(1) \/ received' = Taken(3)
      BY <1>12, ReceiveSizeCases
    <3>2. Taken(1) \in received .. Len(replies) /\ Taken(3) \in received .. Len(replies)
      BY ReceiveFacts
    <3>3. QED
      BY <3>1, <3>2 DEF TypeInv
  <2>3. /\ UNCHANGED <<sent, broken, pc, todo, keysByDb, dbsLeft, db, keyTypes, doResult>>
        /\ NKeys' = NKeys /\ pc # "recvSelect"
    BY <1>12 DEF ReceiveSize, NKeys, arrayOfKeys
  <2>4. idx' \in 1 .. NKeys + 1
    BY <1>12, <2>1, ReceiveSizeCases, BatchFacts
  <2>5. metrics' \in Seq(MetricSet)
    <3>1. \A name \in {"key_size", "key_value", "key_value_as_string"}, k \in Keys, r \in ReplySet :
              Metric(name, k, r) \in MetricSet
      BY <2>1, RecordTypes DEF MetricNames
    <3>2. Pending(1) \in ReplySet /\ Pending(2) \in ReplySet /\ Pending(3) \in ReplySet
      BY ReceiveFacts
    <3>3. \A a, b \in MetricSet : /\ Append(metrics, a) \in Seq(MetricSet)
                                  /\ Append(Append(metrics, a), b) \in Seq(MetricSet)
      BY DEF TypeInv
    <3>4. QED
      <4>1. \/ metrics' = metrics
            \/ \E a \in MetricSet : metrics' = Append(metrics, a)
            \/ \E a, b \in MetricSet : metrics' = Append(Append(metrics, a), b)
        BY <1>12, <3>1, <3>2, ReceiveSizeCases
      <4>2. QED
        BY <3>3, <4>1 DEF TypeInv
  <2>6. QED
    BY <1>1, <2>1, <2>2, <2>3, <2>4, <2>5, BatchFacts DEF TypeInv
<1>13. CASE NextDo
  <2>1. \A d \in Dbs : <<Cmd("SELECT", d)>> \in Seq(Commands)
    BY SelectType
  <2>2. sent' \in Seq(Commands) /\ broken' \in BOOLEAN /\ Len(sent') >= Len(sent)
    <3>1. WriteFails \/ \E d \in Dbs : Send(<<Cmd("SELECT", d)>>)
      BY <1>13 DEF NextDo
    <3>2. <<>> \in Seq(Commands)
      OBVIOUS
    <3>3. QED
      BY <2>1, <3>1, <3>2, WriteTypes
  <2>3. /\ UNCHANGED <<received, todo, keysByDb, dbsLeft, db, idx, keyTypes, metrics>>
        /\ pc' \in {"do", "end"} /\ doResult' \in {doResult, "error"}
    BY <1>13 DEF NextDo
  <2>4. /\ pc' \in {"group", "loop", "done", "do", "end"} \cup Batch
        /\ pc' \notin Batch /\ pc' \notin Receiving /\ pc' # "recvSelect"
    BY <2>3 DEF Batch, Sending, Receiving
  <2>5. QED
    BY <1>1, <2>2, <2>3, <2>4 DEF TypeInv
<1>14. CASE DoReturns
  <2>1. Outstanding \in Nat
    BY DEF Outstanding, TypeInv
  <2>2. received' \in 0 .. Len(replies)
    BY <1>14, <2>1, TakenRange DEF DoReturns
  <2>3. /\ UNCHANGED <<sent, broken, todo, keysByDb, dbsLeft, db, idx, keyTypes, metrics>>
        /\ pc' = "end" /\ doResult' \in {"ok", "error"}
    BY <1>14 DEF DoReturns
  <2>4. /\ pc' \in {"group", "loop", "done", "do", "end"} \cup Batch
        /\ pc' \notin Batch /\ pc' \notin Receiving /\ pc' # "recvSelect"
    BY <2>3 DEF Batch, Sending, Receiving
  <2>5. QED
    BY <1>1, <2>2, <2>3, <2>4 DEF TypeInv
<1>15. QED
  BY <1>2, <1>3, <1>4, <1>5, <1>6, <1>7, <1>8, <1>9, <1>10, <1>11, <1>12, <1>13, <1>14 DEF Exporter
-----------------------------------------------------------------------------
(***************************************************************************)
(* The logs.                                                               *)
(***************************************************************************)
\* The exporter writes at the end of the log of commands.
LEMMA SentGrows ==
    ASSUME TypeInv, Exporter
    PROVE  Len(sent') >= Len(sent) /\ \A p \in 1 .. Len(sent) : sent'[p] = sent[p]
<1> DEFINE Grows == Len(sent') >= Len(sent) /\ \A p \in 1 .. Len(sent) : sent'[p] = sent[p]
<1>1. ASSUME NEW cmds \in Seq(Commands), Send(cmds) PROVE Grows
  BY <1>1, SendFacts DEF TypeInv
<1>2. ASSUME sent' = sent PROVE Grows
  BY <1>2 DEF TypeInv
<1>3. ASSUME WriteFails \/ Flush PROVE Grows
  BY <1>2, <1>3 DEF WriteFails, Flush
<1> HIDE DEF Grows
<1>4. CASE SendSelect
  <2>1. PICK d \in dbsLeft : Send(<<Cmd("SELECT", d)>>) \/ WriteFails
    BY <1>4 DEF SendSelect
  <2>2. Cmd("SELECT", d) \in Commands
    BY SelectType DEF TypeInv
  <2>3. <<Cmd("SELECT", d)>> \in Seq(Commands)
    BY <2>2
  <2>4. QED
    BY <1>1, <1>3, <2>1, <2>3 DEF Grows
<1>5. CASE SendType
  <2> DEFINE cmds == <<Cmd("TYPE", arrayOfKeys[idx]), Cmd("MEMORY_USAGE", arrayOfKeys[idx])>>
  <2>1. Send(cmds) \/ WriteFails
    BY <1>5 DEF SendType
  <2>2. cmds \in Seq(Commands)
    BY <1>5, SendTypeFacts
  <2> HIDE DEF cmds
  <2>3. QED
    BY <1>1, <1>3, <2>1, <2>2 DEF Grows
<1>6. CASE SendSize
  <2>1. Send(SizeCmds(keyType, arrayOfKeys[idx])) \/ WriteFails
    BY <1>6 DEF SendSize
  <2>2. SizeCmds(keyType, arrayOfKeys[idx]) \in Seq(Commands)
    BY <1>6, SendSizeFacts
  <2>3. QED
    BY <1>1, <1>3, <2>1, <2>2 DEF Grows
<1>7. CASE NextDo
  <2>1. WriteFails \/ \E d \in Dbs : Send(<<Cmd("SELECT", d)>>)
    BY <1>7 DEF NextDo
  <2>2. \A d \in Dbs : <<Cmd("SELECT", d)>> \in Seq(Commands)
    BY SelectType
  <2>3. QED
    BY <1>1, <1>3, <2>1, <2>2 DEF Grows
<1>8. CASE FlushTypes \/ FlushSizes
  BY <1>3, <1>8 DEF FlushTypes, FlushSizes, Grows
<1>9. CASE \/ GroupKey \/ GroupDone \/ ReceiveSelect \/ ReceiveType \/ TypesReceived
           \/ ReceiveSize \/ SizesReceived \/ LoopDone \/ DoReturns
  <2>1. sent' = sent
    BY <1>9 DEF GroupKey, GroupDone, ReceiveSelect, ReceiveType, TypesReceived, ReceiveSize,
                SizesReceived, LoopDone, DoReturns
  <2>2. QED
    BY <1>2, <2>1 DEF Grows
<1>10. QED
  BY <1>4, <1>5, <1>6, <1>7, <1>8, <1>9 DEF Exporter

\* Replies are handed out in their order, and never taken back.
LEMMA ReceivedGrows ==
    ASSUME TypeInv, Exporter
    PROVE  received' \in received .. Len(replies)
<1>1. \A n \in Nat : Taken(n) \in received .. Len(replies)
  BY ReceiveFacts
<1>2. Outstanding \in Nat /\ received \in received .. Len(replies)
  BY DEF Outstanding, TypeInv
<1>3. CASE ReceiveSelect
  BY <1>1, <1>3 DEF ReceiveSelect
<1>4. CASE ReceiveType
  BY <1>1, <1>4, ReceiveTypeCases
<1>5. CASE ReceiveSize
  BY <1>1, <1>2, <1>5, ReceiveSizeCases
<1>6. CASE DoReturns
  BY <1>1, <1>2, <1>6 DEF DoReturns
<1>7. CASE \/ GroupKey \/ GroupDone \/ SendSelect \/ SendType \/ FlushTypes \/ TypesReceived
           \/ SendSize \/ FlushSizes \/ SizesReceived \/ LoopDone \/ NextDo
  <2>1. received' = received
    BY <1>7 DEF GroupKey, GroupDone, SendSelect, SendType, FlushTypes, TypesReceived, SendSize,
                FlushSizes, SizesReceived, LoopDone, NextDo
  <2>2. QED
    BY <1>2, <2>1
<1>8. QED
  BY <1>3, <1>4, <1>5, <1>6, <1>7 DEF Exporter

\* The environment touches no reply that was handed out.
LEMMA EnvironmentFacts ==
    ASSUME TypeInv, Environment
    PROVE  /\ UNCHANGED exporterVars /\ UNCHANGED <<acl, sent, received, broken>>
           /\ \A p \in 1 .. received : replies'[p] = replies[p]
           /\ received <= Len(replies')
           /\ alive' => alive
<1>1. CASE ServerExec
  <2> DEFINE c == sent[Len(replies) + 1]
  <2>1. c \in Commands
    BY <1>1 DEF ServerExec, TypeInv
  <2>2. ExecReply(c) \in ReplySet
    BY <2>1, ReplyFacts
  <2>3. replies' = Append(replies, ExecReply(c)) /\ UNCHANGED <<acl, sent, received, broken, alive>>
    BY <1>1 DEF ServerExec
  <2> HIDE DEF c
  <2>4. /\ \A p \in 1 .. received : replies'[p] = replies[p]
        /\ received <= Len(replies')
    BY <2>2, <2>3 DEF TypeInv
  <2>5. QED
    BY <2>3, <2>4 DEF Environment
<1>2. CASE OtherClient
  BY <1>2 DEF OtherClient, Environment, TypeInv
<1>3. CASE ConnLost
  <2>1. PICK n \in received .. Len(replies) : replies' = SubSeq(replies, 1, n)
    BY <1>3 DEF ConnLost
  <2>2. /\ \A p \in 1 .. received : replies'[p] = replies[p]
        /\ received <= Len(replies')
    BY <2>1 DEF TypeInv
  <2>3. QED
    BY <1>3, <2>2 DEF ConnLost, Environment
<1>4. QED
  BY <1>1, <1>2, <1>3 DEF Environment

\* A state that is not sound stays so.
LEMMA SoundBefore ==
    ASSUME TypeInv, Exporter \/ Environment
    PROVE  /\ Rejected => Rejected'
           /\ broken => broken'
           /\ Stalled => Stalled'
           /\ Sound' => Sound
<1>1. CASE Exporter
  <2>1. replies' = replies /\ alive' = alive /\ received' \in received .. Len(replies)
    BY <1>1, ReceivedGrows, ExporterFacts
  <2>2. Rejected => Rejected'
    BY <2>1 DEF Rejected, TypeInv
  <2>3. Stalled => Stalled'
    BY <2>1 DEF Stalled, TypeInv
  <2>4. broken => broken'
    BY <1>1 DEF Exporter, GroupKey, GroupDone, SendSelect, SendType, FlushTypes, ReceiveSelect,
                ReceiveType, TypesReceived, SendSize, FlushSizes, ReceiveSize, SizesReceived,
                LoopDone, NextDo, DoReturns, Send, Flush, WriteFails
  <2>5. QED
    BY <2>2, <2>3, <2>4 DEF Sound
<1>2. CASE Environment
  <2>1. /\ UNCHANGED <<sent, received, broken>>
        /\ \A p \in 1 .. received : replies'[p] = replies[p]
    BY <1>2, EnvironmentFacts
  <2>2. Rejected => Rejected'
    BY <2>1 DEF Rejected, TypeInv
  <2>3. Stalled => Stalled'
    <3>1. SUFFICES ASSUME Stalled PROVE replies' = replies /\ alive' = alive
      BY <2>1 DEF Stalled
    <3>2. QED
      BY <1>2, <3>1 DEF Environment, ServerExec, OtherClient, ConnLost, Stalled
  <2>4. QED
    BY <2>1, <2>2, <2>3 DEF Sound
<1>3. QED
  BY <1>1, <1>2

\* Replies match the commands, whoever takes a step.
LEMMA MatchedInit == Init => Matched
BY DEF Init, ConnInit, Matched

\* The server answers in the order of the commands: no step breaks that.
LEMMA MatchedStep ==
    ASSUME TypeInv, Matched, Exporter \/ Environment
    PROVE  Matched'
<1> DEFINE Matches(r, c) ==
               /\ r.cmd = c.cmd /\ r.arg = c.arg
               /\ r.cmd \in {"SELECT", "TYPE"} => r.kind \in {"status", "error"}
<1>1. Len(replies) \in Nat /\ Len(sent) \in Nat /\ Len(replies) <= Len(sent) /\ received \in Nat
  BY DEF TypeInv
<1>2. \A p \in 1 .. Len(replies) : Matches(replies[p], sent[p])
  BY DEF Matched
<1>3. CASE Exporter
  <2>1. replies' = replies /\ alive' = alive
    BY <1>3, ExporterFacts
  <2>2. \A p \in 1 .. Len(replies) : Matches(replies[p], sent'[p])
    BY <1>1, <1>2, <1>3, SentGrows
  <2>3. broken' => ~alive /\ pc' \in {"loop", "done", "end"}
    BY <1>3 DEF Exporter, GroupKey, GroupDone, SendSelect, SendType, FlushTypes, ReceiveSelect,
                ReceiveType, TypesReceived, SendSize, FlushSizes, ReceiveSize, SizesReceived,
                LoopDone, NextDo, DoReturns, Send, Flush, WriteFails, Matched
  <2>4. QED
    BY <2>1, <2>2, <2>3 DEF Matched
<1>4. CASE Environment
  <2>1. /\ sent' = sent /\ broken' = broken /\ pc' = pc /\ (alive' => alive)
    BY <1>4, EnvironmentFacts DEF exporterVars
  <2>2. \A p \in 1 .. Len(replies') : Matches(replies'[p], sent[p])
    <3>1. CASE ServerExec
      <4> DEFINE c == sent[Len(replies) + 1]
      <4>1. c \in Commands
        BY <3>1 DEF ServerExec, TypeInv
      <4>2. ExecReply(c) \in ReplySet /\ Matches(ExecReply(c), c)
        BY <4>1, ReplyFacts
      <4>3. replies' = Append(replies, ExecReply(c)) /\ replies \in Seq(ReplySet)
        BY <3>1 DEF ServerExec, TypeInv
      <4> HIDE DEF Matches
      <4>4. \A p \in 1 .. Len(replies) : replies'[p] = replies[p]
        BY <4>2, <4>3
      <4>5. replies'[Len(replies) + 1] = ExecReply(c) /\ Len(replies') = Len(replies) + 1
        BY <4>2, <4>3
      <4>6. QED
        BY <1>1, <1>2, <4>2, <4>4, <4>5
    <3>2. CASE OtherClient
      BY <1>2, <3>2 DEF OtherClient
    <3>3. CASE ConnLost
      <4>1. PICK n \in received .. Len(replies) : replies' = SubSeq(replies, 1, n)
        BY <3>3 DEF ConnLost
      <4>2. Len(replies') = n /\ \A p \in 1 .. n : replies'[p] = replies[p]
        BY <4>1 DEF TypeInv
      <4> HIDE DEF Matches
      <4>3. QED
        BY <1>1, <1>2, <4>2
    <3>4. QED
      BY <1>4, <3>1, <3>2, <3>3 DEF Environment
  <2>3. QED
    BY <2>1, <2>2 DEF Matched
<1>5. QED
  BY <1>3, <1>4
-----------------------------------------------------------------------------
(***************************************************************************)
(* The order of what is outstanding.                                       *)
(***************************************************************************)
\* A Receive that does not fail takes the replies in their order; one that does leaves nothing
\* to be received.
LEMMA Receivable ==
    ASSUME TypeInv, NEW n \in Nat \ {0}, Ready(n)
    PROVE  \/ /\ Available(n) /\ received + n <= Len(replies)
              /\ Taken(n) = received + n
              /\ \A m \in 1 .. n : Pending(m) = replies[received + m]
           \/ ~alive /\ Taken(n) = Len(replies)
BY DEF TypeInv, Ready, Available, Taken, Pending

\* As long as the state is sound, Receive has a reply to hand out.
LEMMA ReceivableOne ==
    ASSUME TypeInv, ~Stalled, Ready(1)
    PROVE  /\ received + 1 <= Len(replies)
           /\ Taken(1) = received + 1 /\ Pending(1) = replies[received + 1]
<1>1. Available(1)
  BY DEF TypeInv, Ready, Available, Stalled
<1>2. QED
  BY <1>1 DEF TypeInv, Available, Taken, Pending

\* A refused SELECT or TYPE is noticed when its reply is handed out.
LEMMA Refused ==
    ASSUME TypeInv, Matched, ~Stalled, Ready(1),
           sent[received + 1].cmd \in {"SELECT", "TYPE"}
    PROVE  /\ replies[received + 1].cmd = sent[received + 1].cmd
           /\ replies[received + 1].arg = sent[received + 1].arg
           /\ StringOk(Pending(1)) => Pending(1).kind = "status"
           /\ (~StringOk(Pending(1)) /\ received' = Taken(1) /\ replies' = replies) => Rejected'
<1>1. /\ received + 1 <= Len(replies) /\ received + 1 \in 1 .. Len(replies)
      /\ Taken(1) = received + 1 /\ Pending(1) = replies[received + 1]
  BY ReceivableOne DEF TypeInv
<1>2. /\ replies[received + 1].cmd = sent[received + 1].cmd
      /\ replies[received + 1].arg = sent[received + 1].arg
      /\ replies[received + 1].kind \in {"status", "error"}
  BY <1>1 DEF Matched
<1>3. ASSUME ~StringOk(Pending(1)), received' = received + 1, replies' = replies
      PROVE  Rejected'
  <2>1. replies'[received + 1].kind = "error" /\ replies'[received + 1].cmd \in {"SELECT", "TYPE"}
    BY <1>1, <1>2, <1>3 DEF StringOk
  <2>2. received + 1 \in 1 .. received'
    BY <1>3 DEF TypeInv
  <2>3. QED
    BY <2>1, <2>2 DEF Rejected
<1>4. StringOk(Pending(1)) => Pending(1).kind = "status"
  BY <1>1, <1>2 DEF StringOk
<1>5. QED
  BY <1>1, <1>2, <1>3, <1>4

\* What is outstanding stays in order while the environment acts.
LEMMA AlignedEnvironment ==
    ASSUME TypeInv, Matched, Sound, Aligned, InDb, Environment
    PROVE  Aligned' /\ InDb'
<1>1. /\ UNCHANGED <<sent, received, pc, db, idx, keysByDb, keyTypes>>
      /\ NKeys' = NKeys /\ arrayOfKeys' = arrayOfKeys
  BY EnvironmentFacts DEF exporterVars, NKeys, arrayOfKeys
<1>2. Aligned'
  BY <1>1 DEF Aligned, TypesAt, Laid, SizesOf, Offsets
<1>3. /\ Len(replies) \in Nat /\ Len(sent) \in Nat /\ received \in 0 .. Len(replies)
      /\ Len(replies) <= Len(sent) /\ replies \in Seq(ReplySet)
  BY DEF TypeInv
<1>4. CASE ServerExec
  <2> DEFINE c == sent[Len(replies) + 1]
  <2> DEFINE r == ExecReply(c)
  <2>1. c \in Commands
    BY <1>4 DEF ServerExec, TypeInv
  <2>2. r \in ReplySet /\ r.db = selected
    BY <2>1, ReplyFacts
  <2>3. /\ replies' = Append(replies, r) /\ alive /\ Len(replies) < Len(sent) /\ alive' = alive
        /\ selected' = IF c.cmd = "SELECT" /\ r.kind # "error" THEN c.arg ELSE selected
    BY <1>4 DEF ServerExec
  <2>4. /\ \A q \in 1 .. Len(replies) : replies'[q] = replies[q]
        /\ replies'[Len(replies) + 1] = r /\ Len(replies') = Len(replies) + 1
    <3> HIDE DEF r
    <3>1. QED
      BY <1>3, <2>2, <2>3
  <2> HIDE DEF r
  <2>5. CASE pc \in Sending /\ Len(replies) = received
    <3>1. c = Cmd("SELECT", db)
      BY <2>5 DEF Aligned
    <3>2. c.cmd = "SELECT" /\ c.arg = db
      BY <3>1 DEF Cmd
    <3>3. pc \notin Receiving
      BY <2>5 DEF Sending, Receiving
    <3> HIDE DEF c
    <3>4. r.kind # "error" => selected' = db
      BY <2>3, <3>2
    <3>5. QED
      BY <1>1, <1>2, <1>3, <2>4, <2>5, <3>3, <3>4 DEF InDb
  <2>6. CASE pc \in Sending /\ Len(replies) # received
    <3>1. c.cmd # "SELECT"
      BY <1>3, <2>3, <2>6 DEF InDb
    <3>2. selected' = selected
      BY <2>3, <3>1
    <3>3. pc \notin Receiving
      BY <2>6 DEF Sending, Receiving
    <3>4. replies'[received + 1] = replies[received + 1] /\ Len(replies) > received
      BY <1>3, <2>4, <2>6
    <3>5. ASSUME replies[received + 1].kind # "error"
          PROVE  selected = db /\ \A q \in received + 2 .. Len(replies') : replies'[q].db = db
      <4>1. selected = db /\ \A q \in received + 2 .. Len(replies) : replies[q].db = db
        BY <2>3, <2>6, <3>4, <3>5 DEF InDb
      <4>2. QED
        BY <1>3, <2>2, <2>4, <4>1
    <3>6. QED
      BY <1>1, <1>2, <2>6, <3>2, <3>3, <3>4, <3>5 DEF InDb
  <2>7. CASE pc \in Receiving
    <3>1. c.cmd # "SELECT"
      BY <1>3, <2>3, <2>7 DEF InDb
    <3>2. selected' = selected /\ selected = db
      BY <2>3, <2>7, <3>1 DEF InDb
    <3>3. pc \notin Sending
      BY <2>7 DEF Sending, Receiving
    <3>4. \A q \in received + 1 .. Len(replies') : replies'[q].db = db
      BY <1>3, <2>2, <2>4, <2>7, <3>2 DEF InDb
    <3>5. QED
      BY <1>1, <1>2, <2>7, <3>2, <3>3, <3>4 DEF InDb
  <2>8. CASE pc \notin Sending /\ pc \notin Receiving
    BY <1>1, <1>2, <2>8 DEF InDb
  <2>9. QED
    BY <2>5, <2>6, <2>7, <2>8
<1>5. CASE OtherClient
  BY <1>1, <1>2, <1>5 DEF OtherClient, InDb
<1>6. CASE ConnLost
  <2>1. PICK n \in received .. Len(replies) : replies' = SubSeq(replies, 1, n)
    BY <1>6 DEF ConnLost
  <2>2. Len(replies') = n /\ \A p \in 1 .. n : replies'[p] = replies[p]
    BY <1>3, <2>1
  <2>3. ~alive'
    BY <1>6 DEF ConnLost
  <2>4. \A q \in 1 .. Len(replies') : q \in 1 .. Len(replies) /\ replies'[q] = replies[q]
    BY <1>3, <2>2
  <2>5. QED
    BY <1>1, <1>2, <1>3, <2>2, <2>3, <2>4 DEF InDb
<1>7. QED
  BY <1>4, <1>5, <1>6 DEF Environment

\* The first batch is written in the order of the keys.
LEMMA AlignedFirstBatch ==
    ASSUME TypeInv, Aligned, InDb, Exporter, ~broken',
           SendSelect \/ SendType \/ FlushTypes
    PROVE  Aligned' /\ InDb'
<1>1. /\ Len(replies) \in Nat /\ Len(sent) \in Nat /\ received \in 0 .. Len(replies)
      /\ Len(replies) <= Len(sent) /\ replies \in Seq(ReplySet)
  BY DEF TypeInv
<1>2. UNCHANGED <<replies, alive, selected>>
  BY ExporterFacts
<1>3. ~WriteFails
  BY DEF WriteFails
<1>4. CASE SendSelect
  <2>1. PICK d \in dbsLeft : db' = d /\ Send(<<Cmd("SELECT", d)>>) /\ idx' = 1 /\ pc' = "sendTypes"
    BY <1>3, <1>4 DEF SendSelect
  <2>2. Cmd("SELECT", d) \in Commands
    BY SelectType DEF TypeInv
  <2>4. Len(sent') = Len(sent) + 1 /\ sent'[Len(sent) + 1] = Cmd("SELECT", d)
    BY <2>1, <2>2, SendOne
  <2>5. received' = received /\ received = Len(sent)
    BY <1>4 DEF SendSelect, Aligned
  <2>6. Aligned'
    BY <1>1, <2>1, <2>4, <2>5 DEF Aligned, Sending
  <2>7. InDb'
    BY <1>1, <1>2, <2>1, <2>4, <2>5 DEF InDb, Sending, Receiving
  <2>8. QED
    BY <2>6, <2>7
<1>5. CASE SendType
  <2> DEFINE a == Cmd("TYPE", arrayOfKeys[idx])
  <2> DEFINE b == Cmd("MEMORY_USAGE", arrayOfKeys[idx])
  <2>1. Send(<<a, b>>) /\ idx' = idx + 1 /\ pc' = "sendTypes" /\ pc = "sendTypes"
        /\ UNCHANGED <<received, keysByDb, db>>
    BY <1>3, <1>5 DEF SendType
  <2>2. idx \in 1 .. NKeys /\ a \in Commands /\ b \in Commands
    BY <1>5, SendTypeFacts
  <2>3. a.cmd # "SELECT" /\ b.cmd # "SELECT"
    BY DEF Cmd
  <2>4. arrayOfKeys' = arrayOfKeys
    BY <2>1 DEF arrayOfKeys
  <2> HIDE DEF a, b
  <2>6. /\ Len(sent') = Len(sent) + 2
        /\ sent'[Len(sent) + 1] = a /\ sent'[Len(sent) + 2] = b
        /\ \A p \in 1 .. Len(sent) : sent'[p] = sent[p]
    BY <2>1, <2>2, SendTwo
  <2>7. /\ Len(sent) = received + 2 * idx - 1
        /\ sent[received + 1] = Cmd("SELECT", db)
        /\ \A i \in 1 .. idx - 1 : TypesAt(received + 2 * i - 1, i)
    BY <2>1 DEF Aligned, Sending
  <2>8. \A i \in 1 .. idx : TypesAt(received + 2 * i - 1, i)'
    <3> TAKE i \in 1 .. idx
    <3>1. CASE i = idx
      BY <1>1, <2>1, <2>2, <2>4, <2>6, <2>7, <3>1 DEF TypesAt, a, b
    <3>2. CASE i # idx
      <4>1. TypesAt(received + 2 * i - 1, i)
        BY <2>2, <2>7, <3>2
      <4>2. received + 2 * i \in 1 .. Len(sent) /\ received + 2 * i + 1 \in 1 .. Len(sent)
        BY <1>1, <2>2, <2>7, <3>2
      <4>3. received + 2 * i - 1 + 1 = received + 2 * i /\ received + 2 * i - 1 + 2 = received + 2 * i + 1
        BY <1>1, <2>2
      <4>4. QED
        BY <2>1, <2>4, <2>6, <4>1, <4>2, <4>3 DEF TypesAt
    <3>3. QED
      BY <3>1, <3>2
  <2>9. Len(sent') = received + 2 * (idx + 1) - 1 /\ sent'[received + 1] = Cmd("SELECT", db)
    BY <1>1, <2>2, <2>6, <2>7
  <2>10. Aligned'
    <3>1. idx' - 1 = idx
      BY <2>1, <2>2
    <3>2. \A i \in 1 .. idx' - 1 : TypesAt(received + 2 * i - 1, i)'
      BY <2>8, <3>1
    <3>3. QED
      BY <2>1, <2>9, <3>2 DEF Aligned, Sending
  <2>11. \A q \in received + 2 .. Len(sent') : sent'[q].cmd # "SELECT"
    BY <1>1, <2>1, <2>3, <2>6 DEF InDb, Sending
  <2>12. InDb'
    BY <1>2, <2>1, <2>11 DEF InDb, Sending, Receiving
  <2>13. QED
    BY <2>10, <2>12
<1>6. CASE FlushTypes
  <2>1. /\ pc' = "recvSelect" /\ pc = "sendTypes" /\ UNCHANGED <<sent, received, db, keysByDb, idx>>
        /\ arrayOfKeys' = arrayOfKeys
    BY <1>3, <1>6 DEF FlushTypes, Flush, arrayOfKeys
  <2>2. Aligned'
    BY <2>1 DEF Aligned, Sending, TypesAt
  <2>3. InDb'
    BY <1>2, <2>1 DEF InDb, Sending, Receiving
  <2>4. QED
    BY <2>2, <2>3
<1>7. QED
  BY <1>4, <1>5, <1>6

\* The first batch is received in that order.
LEMMA AlignedFirstReplies ==
    ASSUME TypeInv, Matched, Sound, Aligned, InDb, Exporter, Sound',
           ReceiveSelect \/ ReceiveType \/ TypesReceived
    PROVE  Aligned' /\ InDb'
<1>1. /\ Len(replies) \in Nat /\ Len(sent) \in Nat /\ received \in 0 .. Len(replies)
      /\ Len(replies) <= Len(sent) /\ replies \in Seq(ReplySet)
  BY DEF TypeInv
<1>2. UNCHANGED <<replies, alive, selected>>
  BY ExporterFacts
<1>3. CASE ReceiveSelect
  <2>1. /\ pc = "recvSelect" /\ pc \in Batch /\ Ready(1) /\ received' = Taken(1)
        /\ UNCHANGED <<sent, keysByDb, db>>
    BY <1>3 DEF ReceiveSelect, Batch, Sending
  <2>2. NKeys \in Nat /\ idx = NKeys + 1 /\ arrayOfKeys' = arrayOfKeys /\ NKeys' = NKeys
    BY <2>1, BatchFacts DEF TypeInv, arrayOfKeys, NKeys
  <2>3. received + 1 <= Len(replies) /\ received' = received + 1 /\ Pending(1) = replies[received + 1]
    BY <2>1, ReceivableOne DEF Sound
  <2>4. /\ Len(sent) = received + 2 * idx - 1
        /\ sent[received + 1] = Cmd("SELECT", db)
        /\ \A i \in 1 .. idx - 1 : TypesAt(received + 2 * i - 1, i)
    BY <2>1 DEF Aligned, Sending
  <2>5. sent[received + 1].cmd = "SELECT"
    BY <2>4 DEF Cmd
  <2>6. StringOk(Pending(1)) /\ Pending(1).kind = "status"
    BY <1>2, <2>1, <2>5, Refused DEF Sound
  <2>7. pc' = "recvTypes" /\ idx' = 1
    BY <1>3, <2>6 DEF ReceiveSelect
  <2>8. \A i \in 1 .. NKeys : TypesAt(received + 2 * (i - idx), i)'
    <3> TAKE i \in 1 .. NKeys
    <3>1. TypesAt(received + 2 * i - 1, i)
      BY <2>2, <2>4
    <3>2. received' + 2 * (i - idx') = received + 2 * i - 1
      BY <1>1, <2>2, <2>3, <2>7
    <3>3. sent' = sent /\ arrayOfKeys' = arrayOfKeys
      BY <2>1, <2>2
    <3>4. QED
      BY <3>1, <3>2, <3>3, Zenon DEF TypesAt
  <2>9. Aligned'
    <3>1. Len(sent') = received' + 2 * (NKeys' + 1 - idx')
      <4>1. Len(sent) = (received + 1) + 2 * (NKeys + 1 - 1)
        BY <1>1, <2>2, <2>4
      <4>2. sent' = sent /\ received' = received + 1 /\ NKeys' = NKeys /\ idx' = 1
        BY <2>1, <2>2, <2>3, <2>7
      <4>3. QED
        BY <4>1, <4>2, Zenon
    <3>2. QED
      BY <2>2, <2>7, <2>8, <3>1 DEF Aligned, Sending
  <2>10. InDb'
    <3>1. /\ \A q \in received + 2 .. Len(sent) : sent[q].cmd # "SELECT"
          /\ \A q \in received + 2 .. Len(replies) : replies[q].db = db
          /\ alive => selected = db
      BY <1>1, <2>1, <2>3, <2>6 DEF InDb, Sending
    <3>2. received' + 1 = received + 2
      BY <1>1, <2>3
    <3>3. QED
      BY <1>2, <2>1, <2>7, <3>1, <3>2 DEF InDb, Sending, Receiving
  <2>11. QED
    BY <2>9, <2>10
<1>4. CASE ReceiveType
  <2>1. /\ pc = "recvTypes" /\ pc' = pc /\ UNCHANGED <<sent, keysByDb, db>>
        /\ arrayOfKeys' = arrayOfKeys /\ NKeys' = NKeys
    BY <1>4 DEF ReceiveType, arrayOfKeys, NKeys
  <2>2. idx \in 1 .. NKeys /\ NKeys \in Nat /\ idx' = idx + 1
    BY <1>4, <2>1, ReceiveTypeCases, BatchFacts
  <2>3. /\ Len(sent) = received + 2 * (NKeys + 1 - idx)
        /\ \A i \in idx .. NKeys : TypesAt(received + 2 * (i - idx), i)
    BY <2>1 DEF Aligned
  <2>4. sent[received + 1].cmd = "TYPE"
    <3>1. TypesAt(received + 2 * (idx - idx), idx)
      BY <2>2, <2>3
    <3>2. received + 2 * (idx - idx) = received
      BY <1>1, <2>2
    <3>3. TypesAt(received, idx)
      BY <3>1, <3>2, Zenon
    <3>4. sent[received + 1] = Cmd("TYPE", arrayOfKeys[idx])
      BY <3>3 DEF TypesAt
    <3>5. QED
      BY <3>4 DEF Cmd
  <2>5. Ready(1)
    <3>1. Ready(1) \/ Ready(2)
      BY <1>4, ReceiveTypeCases
    <3>2. QED
      BY <1>1, <3>1 DEF Ready, Available
  <2>6. StringOk(Pending(1))
    <3>1. ~StringOk(Pending(1)) => received' = Taken(1)
      BY <1>4, ReceiveTypeCases
    <3>2. QED
      BY <1>2, <2>4, <2>5, <3>1, Refused DEF Sound
  <2>7. received' = received + 2 /\ received + 2 <= Len(replies)
    <3>1. Ready(2) /\ received' = Taken(2)
      BY <1>4, <2>6, ReceiveTypeCases
    <3>2. ~(~alive' /\ received' = Len(replies'))
      BY DEF Sound, Stalled
    <3>3. \/ Taken(2) = received + 2 /\ received + 2 <= Len(replies)
          \/ ~alive /\ Taken(2) = Len(replies)
      BY <3>1, Receivable
    <3>4. QED
      BY <1>2, <3>1, <3>2, <3>3
  <2>8. \A i \in idx' .. NKeys : TypesAt(received + 2 * (i - idx), i)'
    <3> TAKE i \in idx' .. NKeys
    <3>1. TypesAt(received + 2 * (i - idx), i) /\ i \in Int
      BY <2>2, <2>3
    <3>2. received' + 2 * (i - idx') = received + 2 * (i - idx)
      BY <1>1, <2>2, <2>7, <3>1
    <3>3. QED
      BY <2>1, <3>1, <3>2 DEF TypesAt
  <2>9. Aligned'
    <3>1. Len(sent') = received' + 2 * (NKeys' + 1 - idx')
      BY <1>1, <2>1, <2>2, <2>3, <2>7
    <3>2. QED
      BY <2>1, <2>8, <3>1 DEF Aligned, Sending
  <2>10. InDb'
    <3>1. /\ \A q \in received + 1 .. Len(sent) : sent[q].cmd # "SELECT"
          /\ \A q \in received + 1 .. Len(replies) : replies[q].db = db
          /\ alive => selected = db
      BY <2>1 DEF InDb, Receiving
    <3>2. /\ \A q \in received' + 1 .. Len(sent) : q \in received + 1 .. Len(sent)
          /\ \A q \in received' + 1 .. Len(replies) : q \in received + 1 .. Len(replies)
      BY <1>1, <2>7
    <3>3. QED
      BY <1>2, <2>1, <3>1, <3>2 DEF InDb, Sending, Receiving
  <2>11. QED
    BY <2>9, <2>10
<1>5. CASE TypesReceived
  <2>1. /\ pc = "recvTypes" /\ pc \in Batch /\ pc' = "sendSizes" /\ idx' = 1 /\ idx > NKeys
        /\ UNCHANGED <<sent, received, keysByDb, db, keyTypes>>
        /\ arrayOfKeys' = arrayOfKeys /\ NKeys' = NKeys
    BY <1>5 DEF TypesReceived, arrayOfKeys, NKeys, Batch, Receiving
  <2>2. NKeys \in Nat /\ idx = NKeys + 1
    BY <2>1, BatchFacts
  <2>3. received = Len(sent)
    BY <1>1, <2>1, <2>2 DEF Aligned
  <2>4. Aligned'
    <3> DEFINE off == [i \in 1 .. NKeys + 1 |-> received]
    <3>1. off \in Offsets'
      BY <1>1, <2>1, <2>3 DEF Offsets
    <3>2. off[1] = received /\ received = Len(sent)
      BY <2>2, <2>3
    <3>3. \A i \in 1 .. idx' - 1 : Laid(off, i)'
      BY <2>1
    <3>4. QED
      BY <2>1, <3>1, <3>2, <3>3 DEF Aligned, Sending
  <2>5. InDb'
    BY <1>2, <2>1 DEF InDb, Sending, Receiving
  <2>6. QED
    BY <2>4, <2>5
<1>6. QED
  BY <1>3, <1>4, <1>5

\* The second batch is written in the order of the keys, as their types demand.
LEMMA AlignedSecondBatch ==
    ASSUME TypeInv, Aligned, InDb, Exporter, ~broken', SendSize \/ FlushSizes
    PROVE  Aligned' /\ InDb'
<1>1. /\ Len(replies) \in Nat /\ Len(sent) \in Nat /\ received \in 0 .. Len(replies)
      /\ Len(replies) <= Len(sent)
  BY DEF TypeInv
<1>2. UNCHANGED <<replies, alive, selected>>
  BY ExporterFacts
<1>3. ~WriteFails
  BY DEF WriteFails
<1>4. /\ pc = "sendSizes" /\ pc \in Batch /\ UNCHANGED <<received, keysByDb, db, keyTypes>>
      /\ arrayOfKeys' = arrayOfKeys /\ NKeys' = NKeys
  BY DEF SendSize, FlushSizes, arrayOfKeys, NKeys, Batch, Receiving
<1>5. NKeys \in Nat /\ idx \in 1 .. NKeys + 1 /\ \A i \in 1 .. NKeys : arrayOfKeys[i] \in Keys
  BY <1>4, BatchFacts
<1>6. \A i \in 1 .. NKeys : Len(SizesOf(i)) \in Nat
  <2> TAKE i \in 1 .. NKeys
  <2>1. SizeCmds(keyTypes[i].str, arrayOfKeys[i]) \in Seq(Commands)
    BY <1>5, SizeCmdsFacts
  <2>2. Len(SizeCmds(keyTypes[i].str, arrayOfKeys[i])) \in Nat
    BY <2>1
  <2>3. QED
    BY <2>2 DEF SizesOf
<1>7. PICK off \in Offsets : /\ off[1] = received /\ off[idx] = Len(sent)
                             /\ \A i \in 1 .. idx - 1 : Laid(off, i)
  BY <1>4 DEF Aligned
<1>8. off \in [1 .. NKeys + 1 -> 0 .. Len(sent)]
  BY DEF Offsets
<1>9. CASE SendSize
  <2> DEFINE cmds == SizesOf(idx)
  <2>1. Send(cmds) /\ idx' = idx + 1 /\ pc' = "sendSizes"
    BY <1>3, <1>4, <1>9, SendSizeFacts DEF SendSize
  <2>2. cmds \in Seq(Commands) /\ idx \in 1 .. NKeys
    BY <1>9, SendSizeFacts
  <2>3. \A n \in 1 .. Len(cmds) : cmds[n].cmd # "SELECT"
    BY <1>5, <2>2, SizeCmdsFacts DEF SizesOf
  <2>4. cmds = SizesOf(idx)
    OBVIOUS
  <2> HIDE DEF cmds
  <2>5. /\ Len(sent') = Len(sent) + Len(cmds) /\ Len(cmds) \in Nat
        /\ \A p \in 1 .. Len(sent) : sent'[p] = sent[p]
        /\ \A p \in 1 .. Len(cmds) : sent'[Len(sent) + p] = cmds[p]
    BY <2>1, <2>2, SendFacts
  <2>6. PICK new \in [1 .. NKeys + 1 -> 0 .. Len(sent')] :
            new[idx + 1] = Len(sent') /\ \A i \in 1 .. idx : new[i] = off[i]
    <3>1. Len(sent') \in Nat /\ Len(sent) <= Len(sent')
      BY <1>1, <2>5
    <3> DEFINE new == [off EXCEPT ![idx + 1] = Len(sent')]
    <3>2. new \in [1 .. NKeys + 1 -> 0 .. Len(sent')]
      BY <1>1, <1>5, <1>8, <2>2, <3>1
    <3>3. new[idx + 1] = Len(sent') /\ \A i \in 1 .. idx : new[i] = off[i]
      BY <1>5, <1>8, <2>2
    <3> HIDE DEF new
    <3>4. QED
      BY <3>2, <3>3
  <2>7. new[idx + 1] = Len(sent') /\ \A i \in 1 .. idx : new[i] = off[i]
    BY <2>6
  <2>8. ASSUME NEW i \in 1 .. idx PROVE Laid(new, i)'
    <3>1. Len(SizesOf(i)) \in Nat
      BY <1>6, <2>2
    <3>2. SizesOf(i)' = SizesOf(i)
      BY <1>4 DEF SizesOf
    <3>3. CASE i = idx
      <4>1. SizesOf(i)' = cmds
        BY <2>4, <3>2, <3>3
      <4>2. new[i] = Len(sent) /\ new[i + 1] = Len(sent')
        BY <1>7, <2>2, <2>7, <3>3
      <4>3. new[i + 1] = new[i] + Len(cmds) /\ \A n \in 1 .. Len(cmds) : sent'[new[i] + n] = cmds[n]
        BY <2>5, <4>2
      <4>4. QED
        BY <4>1, <4>3 DEF Laid
    <3>4. CASE i # idx
      <4>1. i \in 1 .. idx - 1 /\ i + 1 \in 1 .. idx
        BY <2>2, <3>4
      <4>2. Laid(off, i)
        BY <1>7, <4>1
      <4>3. new[i] = off[i] /\ new[i + 1] = off[i + 1] /\ off[i] \in 0 .. Len(sent)
            /\ off[i + 1] \in 0 .. Len(sent)
        <5>1. i \in 1 .. NKeys + 1 /\ i + 1 \in 1 .. NKeys + 1
          BY <1>5, <2>2, <4>1
        <5>2. QED
          BY <1>8, <2>7, <4>1, <5>1
      <4>4. \A n \in 1 .. Len(SizesOf(i)) : off[i] + n \in 1 .. Len(sent)
        <5>1. off[i + 1] = off[i] + Len(SizesOf(i))
          BY <4>2 DEF Laid
        <5>2. QED
          BY <1>1, <3>1, <4>3, <5>1
      <4>5. \A n \in 1 .. Len(SizesOf(i)) : sent'[off[i] + n] = SizesOf(i)[n]
        BY <2>5, <4>2, <4>4 DEF Laid
      <4>6. QED
        BY <3>2, <4>2, <4>3, <4>5 DEF Laid
    <3>5. QED
      BY <3>3, <3>4
  <2>9. Aligned'
    <3>1. new \in Offsets'
      BY <1>4, <2>6 DEF Offsets
    <3>2. new[1] = received' /\ new[idx'] = Len(sent')
      BY <1>4, <1>7, <2>1, <2>2, <2>7
    <3>3. \A i \in 1 .. idx' - 1 : Laid(new, i)'
      BY <2>1, <2>2, <2>8
    <3>4. QED
      BY <2>1, <3>1, <3>2, <3>3 DEF Aligned, Sending
  <2>10. \A q \in received + 1 .. Len(sent') : sent'[q].cmd # "SELECT"
    <3> TAKE q \in received + 1 .. Len(sent')
    <3>1. CASE q <= Len(sent)
      BY <1>1, <1>4, <2>5, <3>1 DEF InDb, Receiving
    <3>2. CASE q > Len(sent)
      <4>1. q - Len(sent) \in 1 .. Len(cmds) /\ q = Len(sent) + (q - Len(sent))
        BY <1>1, <2>5, <3>2
      <4>2. QED
        BY <2>3, <2>5, <4>1
    <3>3. QED
      BY <1>1, <3>1, <3>2
  <2>11. InDb'
    BY <1>2, <1>4, <2>1, <2>10 DEF InDb, Sending, Receiving
  <2>12. QED
    BY <2>9, <2>11
<1>10. CASE FlushSizes
  <2>1. pc' = "recvSizes" /\ idx' = 1 /\ sent' = sent /\ idx > NKeys
    BY <1>3, <1>10 DEF FlushSizes, Flush
  <2>2. idx = NKeys + 1
    BY <1>5, <2>1
  <2>3. \A i \in 1 .. NKeys : Laid(off, i)'
    <3> TAKE i \in 1 .. NKeys
    <3>1. Laid(off, i)
      BY <1>5, <1>7, <2>2
    <3>2. QED
      BY <1>4, <2>1, <3>1 DEF Laid, SizesOf
  <2>4. Aligned'
    <3>1. off \in Offsets'
      BY <1>4, <1>8, <2>1 DEF Offsets
    <3>2. off[idx'] = received' /\ off[NKeys' + 1] = Len(sent')
      BY <1>4, <1>7, <2>1, <2>2
    <3>3. \A i \in idx' .. NKeys' : Laid(off, i)'
      BY <1>4, <2>1, <2>3
    <3>4. QED
      BY <2>1, <3>1, <3>2, <3>3 DEF Aligned, Sending
  <2>5. InDb'
    BY <1>2, <1>4, <2>1 DEF InDb, Sending, Receiving
  <2>6. QED
    BY <2>4, <2>5
<1>11. QED
  BY <1>9, <1>10

\* The size replies that are outstanding for the key at hand, and how many are taken.
LEMMA SizeReplies ==
    ASSUME TypeInv, ReceiveSize, NEW off \in Offsets, off[idx] = received, Laid(off, idx)
    PROVE  LET k == arrayOfKeys[idx]
               t == keyTypes[idx].str
               n == Len(SizesOf(idx))
           IN  /\ n \in Nat /\ off[idx + 1] = received + n
               /\ n = 0 => received' = received
               /\ n > 0 => Ready(n) /\ received' = Taken(n)
               /\ t = "string" => /\ n = 3
                                  /\ sent[received + 1] = Cmd("PFCOUNT", k)
                                  /\ sent[received + 2] = Cmd("STRLEN", k)
                                  /\ sent[received + 3] = Cmd("GET", k)
               /\ t \in Collections => n = 1 /\ sent[received + 1] = Cmd(SizeCmd[t], k)
<1> DEFINE k == arrayOfKeys[idx]
<1> DEFINE t == keyTypes[idx].str
<1> DEFINE n == Len(SizesOf(idx))
<1>1. k \in Keys /\ SizesOf(idx) = SizeCmds(t, k)
  BY ReceiveSizeCases DEF SizesOf
<1>2. SizeCmds(t, k) \in Seq(Commands)
  BY <1>1, SizeCmdsFacts
<1>3. n \in Nat
  BY <1>1, <1>2
<1>4. off[idx + 1] = received + n /\ \A m \in 1 .. n : sent[received + m] = SizesOf(idx)[m]
  BY DEF Laid
<1>5. \/ t = "none" /\ received' = received
      \/ t = "string" /\ Ready(3) /\ received' = Taken(3)
      \/ t \in Collections /\ Ready(1) /\ received' = Taken(1)
      \/ t \notin Collections \cup {"string"} /\ received' = received
  BY ReceiveSizeCases
<1>6. "none" \notin Collections \cup {"string"} /\ "string" \notin Collections
  BY DEF Collections
<1> HIDE DEF k, t
<1>7. CASE t = "string"
  <2>1. SizesOf(idx) = <<Cmd("PFCOUNT", k), Cmd("STRLEN", k), Cmd("GET", k)>>
    BY <1>1, <1>7, SizeCmdsCases
  <2>2. n = 3
    BY <2>1
  <2>3. /\ SizesOf(idx)[1] = Cmd("PFCOUNT", k) /\ SizesOf(idx)[2] = Cmd("STRLEN", k)
        /\ SizesOf(idx)[3] = Cmd("GET", k)
    BY <2>1
  <2>4. 1 \in 1 .. n /\ 2 \in 1 .. n /\ 3 \in 1 .. n
    BY <2>2
  <2> HIDE DEF n
  <2>5. /\ sent[received + 1] = Cmd("PFCOUNT", k) /\ sent[received + 2] = Cmd("STRLEN", k)
        /\ sent[received + 3] = Cmd("GET", k)
    BY <1>4, <2>3, <2>4
  <2>6. Ready(n) /\ received' = Taken(n)
    BY <1>5, <1>6, <1>7, <2>2
  <2>7. QED
    BY <1>3, <1>4, <1>6, <1>7, <2>2, <2>5, <2>6 DEF k, t, n
<1>8. CASE t \in Collections
  <2>1. SizesOf(idx) = <<Cmd(SizeCmd[t], k)>>
    BY <1>1, <1>8, SizeCmdsCases
  <2>2. n = 1
    BY <2>1
  <2>3. SizesOf(idx)[1] = Cmd(SizeCmd[t], k)
    BY <2>1
  <2>4. 1 \in 1 .. n
    BY <2>2
  <2> HIDE DEF n
  <2>5. sent[received + 1] = Cmd(SizeCmd[t], k)
    BY <1>4, <2>3, <2>4
  <2>6. Ready(n) /\ received' = Taken(n)
    BY <1>5, <1>6, <1>8, <2>2
  <2>7. QED
    BY <1>3, <1>4, <1>6, <1>8, <2>2, <2>5, <2>6 DEF k, t, n
<1>9. CASE t \notin Collections \cup {"string"}
  <2>1. SizesOf(idx) = <<>>
    BY <1>1, <1>9, SizeCmdsCases
  <2>2. n = 0
    BY <2>1
  <2>3. received' = received
    BY <1>5, <1>6, <1>9
  <2> HIDE DEF n
  <2>4. QED
    BY <1>3, <1>4, <1>9, <2>2, <2>3 DEF k, t, n
<1>10. QED
  BY <1>7, <1>8, <1>9

\* The second batch is received in that order.
LEMMA AlignedSecondReplies ==
    ASSUME TypeInv, Aligned, InDb, Exporter, Sound', ReceiveSize \/ SizesReceived
    PROVE  Aligned' /\ InDb'
<1>1. /\ Len(replies) \in Nat /\ Len(sent) \in Nat /\ received \in 0 .. Len(replies)
      /\ Len(replies) <= Len(sent)
  BY DEF TypeInv
<1>2. UNCHANGED <<replies, alive, selected>>
  BY ExporterFacts
<1>3. /\ pc = "recvSizes" /\ pc \in Batch /\ UNCHANGED <<sent, keysByDb, db, keyTypes>>
      /\ arrayOfKeys' = arrayOfKeys /\ NKeys' = NKeys
  BY DEF ReceiveSize, SizesReceived, arrayOfKeys, NKeys, Batch, Receiving
<1>4. NKeys \in Nat /\ idx \in 1 .. NKeys + 1
  BY <1>3, BatchFacts
<1>5. PICK off \in Offsets : /\ off[idx] = received /\ off[NKeys + 1] = Len(sent)
                             /\ \A i \in idx .. NKeys : Laid(off, i)
  BY <1>3 DEF Aligned
<1>6. off \in [1 .. NKeys + 1 -> 0 .. Len(sent)]
  BY DEF Offsets
<1>7. CASE ReceiveSize
  <2>1. idx \in 1 .. NKeys /\ idx' = idx + 1 /\ pc' = pc
    BY <1>7, ReceiveSizeCases DEF ReceiveSize
  <2>2. Laid(off, idx)
    BY <1>4, <1>5, <2>1
  <2> DEFINE n == Len(SizesOf(idx))
  <2>3. /\ n \in Nat /\ off[idx + 1] = received + n
        /\ n = 0 => received' = received
        /\ n > 0 => Ready(n) /\ received' = Taken(n)
    BY <1>5, <1>7, <2>2, SizeReplies
  <2> HIDE DEF n
  <2>4. received' = received + n
    <3>1. CASE n = 0
      BY <1>1, <2>3, <3>1
    <3>2. CASE n > 0
      <4>1. ~(~alive' /\ received' = Len(replies'))
        BY DEF Sound, Stalled
      <4>2. \/ Taken(n) = received + n
            \/ ~alive /\ Taken(n) = Len(replies)
        BY <2>3, <3>2, Receivable
      <4>3. QED
        BY <1>2, <2>3, <3>2, <4>1, <4>2
    <3>3. QED
      BY <2>3, <3>1, <3>2
  <2>5. \A i \in idx' .. NKeys' : Laid(off, i)'
    <3> TAKE i \in idx' .. NKeys'
    <3>1. Laid(off, i)
      BY <1>3, <1>4, <1>5, <2>1
    <3>2. QED
      BY <1>3, <3>1 DEF Laid, SizesOf
  <2>6. Aligned'
    <3>1. off \in Offsets'
      BY <1>3, <1>6 DEF Offsets
    <3>2. off[idx'] = received' /\ off[NKeys' + 1] = Len(sent')
      BY <1>3, <1>5, <2>1, <2>3, <2>4
    <3>3. pc' = "recvSizes"
      BY <1>3, <2>1
    <3>4. QED
      BY <2>5, <3>1, <3>2, <3>3 DEF Aligned, Sending
  <2>7. InDb'
    <3>1. /\ \A q \in received + 1 .. Len(sent) : sent[q].cmd # "SELECT"
          /\ \A q \in received + 1 .. Len(replies) : replies[q].db = db
          /\ alive => selected = db
      BY <1>3 DEF InDb, Receiving
    <3>2. /\ \A q \in received' + 1 .. Len(sent) : q \in received + 1 .. Len(sent)
          /\ \A q \in received' + 1 .. Len(replies) : q \in received + 1 .. Len(replies)
      BY <1>1, <2>3, <2>4
    <3>3. QED
      BY <1>2, <1>3, <2>1, <3>1, <3>2 DEF InDb, Sending, Receiving
  <2>8. QED
    BY <2>6, <2>7
<1>8. CASE SizesReceived
  <2>1. pc' = "loop" /\ received' = received /\ idx > NKeys
    BY <1>8 DEF SizesReceived
  <2>2. idx = NKeys + 1
    BY <1>4, <2>1
  <2>3. received' = Len(sent')
    BY <1>3, <1>5, <2>1, <2>2
  <2>4. QED
    BY <2>1, <2>3 DEF Aligned, InDb, Sending, Receiving
<1>9. QED
  BY <1>7, <1>8

\* Every step keeps what is outstanding in order, until the state is not sound any more.
LEMMA AlignedStep ==
    ASSUME TypeInv, Matched, Sound => Aligned /\ InDb, Exporter \/ Environment
    PROVE  Sound' => Aligned' /\ InDb'
<1> SUFFICES ASSUME Sound' PROVE Aligned' /\ InDb'
  OBVIOUS
<1>1. Sound /\ Aligned /\ InDb /\ ~broken'
  BY SoundBefore DEF Sound
<1>2. CASE Environment
  BY <1>1, <1>2, AlignedEnvironment
<1>3. CASE Exporter /\ (SendSelect \/ SendType \/ FlushTypes)
  BY <1>1, <1>3, AlignedFirstBatch
<1>4. CASE Exporter /\ (ReceiveSelect \/ ReceiveType \/ TypesReceived)
  BY <1>1, <1>4, AlignedFirstReplies
<1>5. CASE Exporter /\ (SendSize \/ FlushSizes)
  BY <1>1, <1>5, AlignedSecondBatch
<1>6. CASE Exporter /\ (ReceiveSize \/ SizesReceived)
  BY <1>1, <1>6, AlignedSecondReplies
<1>7. CASE GroupKey \/ GroupDone \/ LoopDone
  <2>1. /\ pc \in {"group", "loop"} /\ pc' \in {"group", "loop", "done"}
        /\ sent' = sent /\ received' = received
    BY <1>7 DEF GroupKey, GroupDone, LoopDone
  <2>2. QED
    BY <1>1, <2>1 DEF Aligned, InDb, Sending, Receiving
<1>8. CASE NextDo
  <2>1. pc = "done" /\ received' = received /\ received = Len(sent)
    BY <1>1, <1>8 DEF NextDo, Aligned
  <2>2. PICK d \in Dbs : Send(<<Cmd("SELECT", d)>>) /\ pc' = "do"
    BY <1>1, <1>8 DEF NextDo, WriteFails
  <2>3. Cmd("SELECT", d) \in Commands /\ Cmd("SELECT", d).cmd = "SELECT"
    BY SelectType DEF Cmd
  <2>4. Len(sent') = Len(sent) + 1 /\ sent'[Len(sent) + 1] = Cmd("SELECT", d)
    BY <2>2, <2>3, SendOne
  <2>5. received' + 1 = Len(sent') /\ sent'[Len(sent')].cmd = "SELECT"
    BY <2>1, <2>3, <2>4
  <2>6. QED
    BY <2>2, <2>5 DEF Aligned, InDb, Sending, Receiving
<1>9. CASE DoReturns
  <2>1. pc' = "end"
    BY <1>9 DEF DoReturns
  <2>2. QED
    BY <2>1 DEF Aligned, InDb, Sending, Receiving
<1>10. QED
  BY <1>2, <1>3, <1>4, <1>5, <1>6, <1>7, <1>8, <1>9 DEF Exporter
-----------------------------------------------------------------------------
(***************************************************************************)
(* What is exported.                                                       *)
(***************************************************************************)
\* The value of metric m is an answer to the right question about its key, in its database.
Backs(m) ==
    /\ \E p \in 1 .. Len(replies) : replies[p] = m.from
    /\ m.from.arg = m.key /\ m.from.db = m.db
    /\ m.from.cmd \in ValueCmds(m.name)
    /\ m.from.kind # "error"

\* The commands that give a metric its value.
LEMMA ValueCmdsFacts ==
    /\ "MEMORY_USAGE" \in ValueCmds("key_memory_usage_bytes")
    /\ {"TYPE", "PFCOUNT", "STRLEN"} \subseteq ValueCmds("key_size")
    /\ \A t \in Collections : SizeCmd[t] \in ValueCmds("key_size")
    /\ "GET" \in ValueCmds("key_value") /\ "GET" \in ValueCmds("key_value_as_string")
    /\ \A name \in MetricNames : "SELECT" \notin ValueCmds(name)
<1>1. "MEMORY_USAGE" \in ValueCmds("key_memory_usage_bytes")
      /\ "SELECT" \notin ValueCmds("key_memory_usage_bytes")
  BY DEF ValueCmds
<1>2. ValueCmds("key_size") = {"TYPE", "PFCOUNT", "STRLEN"} \cup {SizeCmd[t] : t \in Collections}
  BY DEF ValueCmds
<1>3. "SELECT" \notin ValueCmds("key_size")
  BY <1>2, SizeCmdsCases
<1>4. ValueCmds("key_value") = {"GET"} /\ ValueCmds("key_value_as_string") = {"GET"}
  BY DEF ValueCmds
<1>5. \A t \in Collections : SizeCmd[t] \in ValueCmds("key_size")
  BY <1>2
<1>6. {"TYPE", "PFCOUNT", "STRLEN"} \subseteq ValueCmds("key_size")
  BY <1>2
<1>7. "SELECT" \notin ValueCmds("key_value") /\ "SELECT" \notin ValueCmds("key_value_as_string")
  BY <1>4
<1>8. \A name \in MetricNames : "SELECT" \notin ValueCmds(name)
  BY <1>1, <1>3, <1>7 DEF MetricNames
<1>9. QED
  BY <1>1, <1>4, <1>5, <1>6, <1>8

\* The parts of a command.
LEMMA CmdFields ==
    ASSUME NEW x, NEW c, NEW a, x = Cmd(c, a)
    PROVE  x.cmd = c /\ x.arg = a
BY DEF Cmd

\* A reply that was handed out with a value is the reply of its position.
LEMMA Usable ==
    ASSUME TypeInv, Matched, NEW n \in Nat \ {0}, Int64Ok(Pending(n)) \/ StringOk(Pending(n))
    PROVE  /\ ~Stalled /\ received + n \in 1 .. Len(replies)
           /\ Pending(n) = replies[received + n]
           /\ Pending(n).cmd = sent[received + n].cmd /\ Pending(n).arg = sent[received + n].arg
           /\ Pending(n).kind # "error"
<1>1. ~(Int64Ok(NoReply) \/ StringOk(NoReply))
  BY DEF NoReply, Int64Ok, StringOk
<1>2. Available(n) /\ Pending(n) = replies[received + n]
  BY <1>1 DEF Pending
<1>3. received + n \in 1 .. Len(replies) /\ ~Stalled
  BY <1>2 DEF Available, TypeInv, Stalled
<1>4. Pending(n).kind # "error"
  BY DEF Int64Ok, StringOk
<1>5. QED
  BY <1>2, <1>3, <1>4 DEF Matched

\* A metric that is made from the right reply is right.
LEMMA MadeFrom ==
    ASSUME NEW name, NEW k, NEW r, NEW p \in 1 .. Len(replies), r = replies[p],
           r.arg = k, r.db = db, r.cmd \in ValueCmds(name), r.kind # "error"
    PROVE  Backs(Metric(name, k, r))
BY DEF Backs, Metric

\* The replies to TYPE and MEMORY USAGE reach the key they are about.
LEMMA TypeBacked ==
    ASSUME TypeInv, Matched, Sound => Aligned /\ InDb, ~Rejected, ReceiveType
    PROVE  /\ StringOk(Pending(1)) =>
                 /\ received + 1 \in 1 .. received' /\ Pending(1) = replies[received + 1]
                 /\ Pending(1).cmd = "TYPE" /\ Pending(1).kind = "status"
                 /\ Pending(1).arg = arrayOfKeys[idx] /\ Pending(1).db = db
           /\ StringOk(Pending(1)) /\ Int64Ok(Pending(2)) =>
                 Backs(Metric("key_memory_usage_bytes", arrayOfKeys[idx], Pending(2)))
<1> SUFFICES ASSUME StringOk(Pending(1))
             PROVE  /\ received + 1 \in 1 .. received' /\ Pending(1) = replies[received + 1]
                    /\ Pending(1).cmd = "TYPE" /\ Pending(1).kind = "status"
                    /\ Pending(1).arg = arrayOfKeys[idx] /\ Pending(1).db = db
                    /\ Int64Ok(Pending(2)) =>
                          Backs(Metric("key_memory_usage_bytes", arrayOfKeys[idx], Pending(2)))
  OBVIOUS
<1>1. /\ ~Stalled /\ received + 1 \in 1 .. Len(replies) /\ Pending(1) = replies[received + 1]
      /\ Pending(1).cmd = sent[received + 1].cmd /\ Pending(1).arg = sent[received + 1].arg
  BY Usable
<1>2. pc = "recvTypes" /\ idx \in 1 .. NKeys /\ Ready(2) /\ received' = Taken(2)
  BY ReceiveTypeCases DEF ReceiveType
<1>3. Aligned /\ InDb
  BY <1>1, <1>2 DEF Sound, Matched
<1>4. received \in Nat /\ Len(replies) \in Nat
  BY DEF TypeInv
<1>5. TypesAt(received, idx)
  <2>1. TypesAt(received + 2 * (idx - idx), idx)
    BY <1>2, <1>3 DEF Aligned
  <2>2. received + 2 * (idx - idx) = received
    BY <1>2, <1>4
  <2>3. QED
    BY <2>1, <2>2, Zenon
<1>6. /\ sent[received + 1] = Cmd("TYPE", arrayOfKeys[idx])
      /\ sent[received + 2] = Cmd("MEMORY_USAGE", arrayOfKeys[idx])
  BY <1>5 DEF TypesAt
<1>7. Pending(1).cmd = "TYPE" /\ Pending(1).arg = arrayOfKeys[idx]
  <2>1. sent[received + 1].cmd = "TYPE" /\ sent[received + 1].arg = arrayOfKeys[idx]
    BY <1>6, CmdFields
  <2>2. QED
    BY <1>1, <2>1
<1>8. \A q \in received + 1 .. Len(replies) : replies[q].db = db
  BY <1>2, <1>3 DEF InDb, Receiving
<1>9. Pending(1).db = db
  BY <1>1, <1>4, <1>8
<1>10. received + 1 \in 1 .. received'
  <2>1. Taken(2) = received + 2 \/ Taken(2) = Len(replies)
    BY DEF Taken
  <2>2. QED
    BY <1>1, <1>2, <1>4, <2>1
<1>11. Pending(1).kind = "status"
  BY <1>1, <1>7 DEF Matched, StringOk
<1>12. ASSUME Int64Ok(Pending(2))
       PROVE  Backs(Metric("key_memory_usage_bytes", arrayOfKeys[idx], Pending(2)))
  <2>1. /\ received + 2 \in 1 .. Len(replies) /\ Pending(2) = replies[received + 2]
        /\ Pending(2).cmd = sent[received + 2].cmd /\ Pending(2).arg = sent[received + 2].arg
        /\ Pending(2).kind # "error"
    BY <1>12, Usable
  <2>2. Pending(2).cmd = "MEMORY_USAGE" /\ Pending(2).arg = arrayOfKeys[idx]
    <3>1. sent[received + 2].cmd = "MEMORY_USAGE" /\ sent[received + 2].arg = arrayOfKeys[idx]
      BY <1>6, CmdFields
    <3>2. QED
      BY <2>1, <3>1
  <2>3. Pending(2).db = db
    BY <1>4, <1>8, <2>1
  <2>4. QED
    BY <2>1, <2>2, <2>3, ValueCmdsFacts, MadeFrom
<1>13. QED
  BY <1>1, <1>7, <1>9, <1>10, <1>11, <1>12

\* The replies about a size or a value reach the key they are about.
LEMMA SizeBacked ==
    ASSUME TypeInv, Matched, Sound => Aligned /\ InDb, Known, ~Rejected, ReceiveSize
    PROVE  LET k == arrayOfKeys[idx]
               t == keyTypes[idx]
           IN  /\ t.str = "none" => Backs(Metric("key_size", k, t))
               /\ t.str = "string" =>
                     /\ \A n \in {1, 2} : Int64Ok(Pending(n)) => Backs(Metric("key_size", k, Pending(n)))
                     /\ StringOk(Pending(3)) =>
                           \A name \in {"key_value", "key_value_as_string"} :
                               Backs(Metric(name, k, Pending(3)))
               /\ t.str \in Collections /\ Int64Ok(Pending(1)) => Backs(Metric("key_size", k, Pending(1)))
<1> DEFINE k == arrayOfKeys[idx]
<1> DEFINE t == keyTypes[idx]
<1>1. received \in 0 .. Len(replies) /\ Len(replies) \in Nat
  BY DEF TypeInv
<1>2. pc = "recvSizes" /\ idx \in 1 .. NKeys
  BY ReceiveSizeCases DEF ReceiveSize
<1>3. ASSUME t.str = "none" PROVE Backs(Metric("key_size", k, t))
  <2>1. KnownType(idx)
    BY <1>2 DEF Known, Receiving
  <2>2. t # NoReply
    <3>1. NoReply.str = ""
      BY DEF NoReply
    <3>2. QED
      BY <1>3, <3>1
  <2>3. PICK p \in 1 .. received : replies[p] = t
    BY <2>1, <2>2 DEF KnownType
  <2>4. t.cmd = "TYPE" /\ t.kind = "status" /\ t.arg = k /\ t.db = db
    BY <2>1, <2>2 DEF KnownType
  <2>5. p \in 1 .. Len(replies)
    BY <1>1
  <2> HIDE DEF k, t
  <2>6. QED
    BY <2>3, <2>4, <2>5, ValueCmdsFacts, MadeFrom
<1>4. ASSUME NEW n \in Nat \ {0}, Int64Ok(Pending(n)) \/ StringOk(Pending(n))
      PROVE  /\ received + n \in 1 .. Len(replies) /\ Pending(n) = replies[received + n]
             /\ Pending(n).kind # "error" /\ Pending(n).db = db
             /\ Pending(n).cmd = sent[received + n].cmd /\ Pending(n).arg = sent[received + n].arg
             /\ t.str = "string" => /\ sent[received + 1] = Cmd("PFCOUNT", k)
                                    /\ sent[received + 2] = Cmd("STRLEN", k)
                                    /\ sent[received + 3] = Cmd("GET", k)
             /\ t.str \in Collections => sent[received + 1] = Cmd(SizeCmd[t.str], k)
  <2>1. /\ ~Stalled /\ received + n \in 1 .. Len(replies) /\ Pending(n) = replies[received + n]
        /\ Pending(n).cmd = sent[received + n].cmd /\ Pending(n).arg = sent[received + n].arg
        /\ Pending(n).kind # "error"
    BY <1>4, Usable
  <2>2. Aligned /\ InDb
    BY <1>2, <2>1 DEF Sound, Matched
  <2>3. PICK off \in Offsets : off[idx] = received /\ \A i \in idx .. NKeys : Laid(off, i)
    BY <1>2, <2>2 DEF Aligned
  <2>4. Laid(off, idx)
    BY <1>2, <2>3
  <2>5. Pending(n).db = db
    BY <1>1, <1>2, <2>1, <2>2 DEF InDb, Receiving
  <2>6. QED
    BY <2>1, <2>3, <2>4, <2>5, SizeReplies
<1> HIDE DEF k, t
<1>5. ASSUME NEW n \in Nat \ {0}, Int64Ok(Pending(n)) \/ StringOk(Pending(n)),
             NEW c, sent[received + n] = Cmd(c, k), NEW name, c \in ValueCmds(name)
      PROVE  Backs(Metric(name, k, Pending(n)))
  <2>1. Pending(n).cmd = c /\ Pending(n).arg = k
    BY <1>4, <1>5 DEF Cmd
  <2>2. QED
    BY <1>4, <1>5, <2>1, MadeFrom
<1>6. ASSUME t.str = "string", NEW n \in {1, 2}, Int64Ok(Pending(n))
      PROVE  Backs(Metric("key_size", k, Pending(n)))
  <2>1. sent[received + 1] = Cmd("PFCOUNT", k) /\ sent[received + 2] = Cmd("STRLEN", k)
    BY <1>4, <1>6
  <2>2. "PFCOUNT" \in ValueCmds("key_size") /\ "STRLEN" \in ValueCmds("key_size")
    BY ValueCmdsFacts
  <2>3. CASE n = 1
    BY <1>5, <1>6, <2>1, <2>2, <2>3
  <2>4. CASE n = 2
    BY <1>5, <1>6, <2>1, <2>2, <2>4
  <2>5. QED
    BY <2>3, <2>4
<1>7. ASSUME t.str = "string", StringOk(Pending(3)), NEW name \in {"key_value", "key_value_as_string"}
      PROVE  Backs(Metric(name, k, Pending(3)))
  <2>1. "GET" \in ValueCmds(name)
    BY <1>7, ValueCmdsFacts
  <2>2. sent[received + 3] = Cmd("GET", k)
    BY <1>4, <1>7
  <2>3. QED
    BY <1>5, <1>7, <2>1, <2>2
<1>8. ASSUME t.str \in Collections, Int64Ok(Pending(1)) PROVE Backs(Metric("key_size", k, Pending(1)))
  <2>1. sent[received + 1] = Cmd(SizeCmd[t.str], k)
    BY <1>4, <1>8
  <2>2. SizeCmd[t.str] \in ValueCmds("key_size")
    BY <1>8, ValueCmdsFacts
  <2>3. QED
    BY <1>5, <1>8, <2>1, <2>2
<1>9. QED
  BY <1>3, <1>6, <1>7, <1>8 DEF k, t

\* A key type that is kept is the type of its key, whatever happens next.
LEMMA KnownStep ==
    ASSUME TypeInv, Matched, Sound => Aligned /\ InDb, Rejected \/ Known, Exporter \/ Environment
    PROVE  Rejected' \/ Known'
<1> SUFFICES ASSUME ~Rejected' PROVE Known'
  OBVIOUS
<1>1. Known /\ ~Rejected
  BY SoundBefore
<1>2. received \in Nat /\ received' \in Nat /\ received <= received'
      /\ \A p \in 1 .. received : replies'[p] = replies[p]
  <2>1. CASE Exporter
    BY <2>1, ReceivedGrows, ExporterFacts DEF TypeInv
  <2>2. CASE Environment
    BY <2>2, EnvironmentFacts DEF TypeInv
  <2>3. QED
    BY <2>1, <2>2
<1>3. ASSUME pc' \in Receiving, UNCHANGED <<keysByDb, db>>, pc \in Receiving,
             NEW i \in 1 .. NKeys, keyTypes'[i] = keyTypes[i]
      PROVE  KnownType(i)'
  <2>1. KnownType(i)
    BY <1>1, <1>3 DEF Known
  <2>2. arrayOfKeys' = arrayOfKeys
    BY <1>3 DEF arrayOfKeys
  <2>3. ASSUME NEW p \in 1 .. received, replies[p] = keyTypes[i]
        PROVE  p \in 1 .. received' /\ replies'[p] = keyTypes'[i]
    BY <1>2, <1>3, <2>3
  <2>4. QED
    BY <1>3, <2>1, <2>2, <2>3 DEF KnownType
<1>4. ASSUME UNCHANGED <<keysByDb, db>> PROVE NKeys' = NKeys /\ arrayOfKeys' = arrayOfKeys
  BY <1>4 DEF NKeys, arrayOfKeys
<1>5. CASE Environment \/ TypesReceived \/ SendSize \/ FlushSizes \/ ReceiveSize
  <2>1. /\ UNCHANGED <<keysByDb, db, keyTypes>>
        /\ pc' \in Receiving => pc \in Receiving
    <3>1. CASE Environment
      BY <3>1, EnvironmentFacts DEF exporterVars
    <3>2. CASE TypesReceived \/ SendSize \/ FlushSizes \/ ReceiveSize
      BY <3>2 DEF TypesReceived, SendSize, FlushSizes, ReceiveSize, Receiving
    <3>3. QED
      BY <1>5, <3>1, <3>2
  <2>2. QED
    BY <1>3, <1>4, <2>1 DEF Known
<1>6. CASE ReceiveSelect
  <2>1. /\ UNCHANGED <<keysByDb, db>>
        /\ pc' = "loop" \/ keyTypes' = [i \in 1 .. NKeys |-> NoReply]
    BY <1>6 DEF ReceiveSelect
  <2>2. NKeys' = NKeys
    BY <1>4, <2>1
  <2>3. CASE pc' = "loop"
    BY <2>3 DEF Known, Receiving
  <2>4. CASE keyTypes' = [i \in 1 .. NKeys |-> NoReply]
    <3>1. \A i \in 1 .. NKeys : keyTypes'[i] = NoReply
      BY <2>4
    <3>2. QED
      BY <2>2, <3>1 DEF Known, KnownType
  <2>5. QED
    BY <2>1, <2>3, <2>4
<1>7. CASE ReceiveType /\ Exporter
  <2>1. /\ UNCHANGED <<keysByDb, db, pc>> /\ pc = "recvTypes"
        /\ idx \in 1 .. NKeys
        /\ keyTypes' = [keyTypes EXCEPT ![idx] = IF StringOk(Pending(1)) THEN Pending(1) ELSE NoReply]
    BY <1>7, ReceiveTypeCases DEF ReceiveType
  <2>2. keyTypes \in [1 .. NKeys -> ReplySet] /\ pc \in Receiving
    BY <2>1 DEF TypeInv, Receiving
  <2>3. /\ keyTypes'[idx] = (IF StringOk(Pending(1)) THEN Pending(1) ELSE NoReply)
        /\ \A i \in 1 .. NKeys : i # idx => keyTypes'[i] = keyTypes[i]
    BY <2>1, <2>2
  <2>4. ASSUME NEW i \in 1 .. NKeys, i = idx PROVE KnownType(i)'
    <3>1. CASE ~StringOk(Pending(1))
      BY <2>3, <2>4, <3>1 DEF KnownType
    <3>2. CASE StringOk(Pending(1))
      <4>1. /\ received + 1 \in 1 .. received' /\ Pending(1) = replies[received + 1]
            /\ Pending(1).cmd = "TYPE" /\ Pending(1).kind = "status"
            /\ Pending(1).arg = arrayOfKeys[i] /\ Pending(1).db = db
        BY <1>1, <1>7, <2>4, <3>2, TypeBacked
      <4>2. keyTypes'[i] = Pending(1) /\ replies' = replies
        BY <1>7, <2>3, <2>4, <3>2, ExporterFacts
      <4>3. arrayOfKeys' = arrayOfKeys /\ db' = db
        BY <1>4, <2>1
      <4> HIDE DEF Pending
      <4>4. QED
        BY <4>1, <4>2, <4>3 DEF KnownType
    <3>3. QED
      BY <3>1, <3>2
  <2>5. QED
    BY <1>3, <1>4, <2>1, <2>2, <2>3, <2>4 DEF Known
<1>8. CASE \/ GroupKey \/ GroupDone \/ SendSelect \/ SendType \/ FlushTypes
           \/ SizesReceived \/ LoopDone \/ NextDo \/ DoReturns
  <2>1. pc' \notin Receiving
    BY <1>8 DEF GroupKey, GroupDone, SendSelect, SendType, FlushTypes, SizesReceived, LoopDone,
                NextDo, DoReturns, Receiving
  <2>2. QED
    BY <2>1 DEF Known
<1>9. QED
  BY <1>5, <1>6, <1>7, <1>8 DEF Exporter

\* A sequence that one or two elements are appended to keeps what it had.
LEMMA Appended ==
    ASSUME NEW S, NEW s \in Seq(S), NEW a \in S, NEW b \in S, NEW t,
           t = Append(s, a) \/ t = Append(Append(s, a), b)
    PROVE  /\ t \in Seq(S) /\ Len(t) \in Nat /\ Len(t) > Len(s)
           /\ \A i \in 1 .. Len(s) : t[i] = s[i]
           /\ \A i \in Len(s) + 1 .. Len(t) : t[i] = a \/ t[i] = b
<1>1. /\ Append(s, a) \in Seq(S) /\ Len(Append(s, a)) = Len(s) + 1 /\ Len(s) \in Nat
      /\ \A i \in 1 .. Len(s) : Append(s, a)[i] = s[i]
      /\ Append(s, a)[Len(s) + 1] = a
  OBVIOUS
<1>2. CASE t = Append(s, a)
  BY <1>1, <1>2
<1>3. CASE t = Append(Append(s, a), b)
  <2>1. PICK u \in Seq(S) : u = Append(s, a)
    BY <1>1
  <2>2. /\ t \in Seq(S) /\ Len(t) = Len(u) + 1 /\ Len(u) \in Nat
        /\ \A i \in 1 .. Len(u) : t[i] = u[i]
        /\ t[Len(u) + 1] = b
    BY <1>3, <2>1
  <2>3. QED
    BY <1>1, <2>1, <2>2
<1>4. QED
  BY <1>2, <1>3

\* Metrics are sent one after the other, while replies are received.
LEMMA ExportCases ==
    ASSUME TypeInv, Exporter
    PROVE  \/ metrics' = metrics
           \/ /\ ReceiveType \/ ReceiveSize
              /\ metrics' \in Seq(MetricSet) /\ Len(metrics') \in Nat /\ Len(metrics') > Len(metrics)
              /\ \A i \in 1 .. Len(metrics) : metrics'[i] = metrics[i]
<1>1. ASSUME NEW a \in MetricSet, NEW b \in MetricSet,
             metrics' = Append(metrics, a) \/ metrics' = Append(Append(metrics, a), b)
      PROVE  /\ metrics' \in Seq(MetricSet) /\ Len(metrics') \in Nat /\ Len(metrics') > Len(metrics)
             /\ \A i \in 1 .. Len(metrics) : metrics'[i] = metrics[i]
  <2>1. metrics \in Seq(MetricSet)
    BY DEF TypeInv
  <2>2. QED
    BY <1>1, <2>1, Appended
<1>2. CASE ReceiveType
  <2>1. CASE metrics' = metrics
    BY <2>1
  <2>2. CASE metrics' = Append(metrics, Metric("key_memory_usage_bytes", arrayOfKeys[idx], Pending(2)))
    <3>1. Metric("key_memory_usage_bytes", arrayOfKeys[idx], Pending(2)) \in MetricSet
      BY <1>2, ReceiveTypeCases, RecordTypes DEF MetricNames
    <3>2. QED
      BY <1>1, <1>2, <2>2, <3>1
  <2>3. QED
    BY <1>2, <2>1, <2>2, ReceiveTypeCases
<1>3. CASE ReceiveSize
  <2> DEFINE k == arrayOfKeys[idx]
  <2>1. \A name \in {"key_size", "key_value", "key_value_as_string"}, r \in ReplySet :
           Metric(name, k, r) \in MetricSet
    BY <1>3, ReceiveSizeCases, RecordTypes DEF MetricNames
  <2>2. keyTypes[idx] \in ReplySet /\ \A n \in {1, 2, 3} : Pending(n) \in ReplySet
    BY <1>3, ReceiveSizeCases, ReceiveFacts
  <2>3. \/ metrics' = metrics
        \/ metrics' = Append(metrics, Metric("key_size", k, keyTypes[idx]))
        \/ \E n \in {1, 2} : metrics' = Append(metrics, Metric("key_size", k, Pending(n)))
        \/ \E name \in {"key_value", "key_value_as_string"} :
              metrics' = Append(Append(metrics, Metric(name, k, Pending(3))),
                                Metric("key_size", k, Pending(2)))
    BY <1>3, ReceiveSizeCases
  <2> HIDE DEF k
  <2>4. QED
    BY <1>1, <1>3, <2>1, <2>2, <2>3
<1>4. CASE ~ReceiveType /\ ~ReceiveSize
  BY <1>4 DEF Exporter, GroupKey, GroupDone, SendSelect, SendType, FlushTypes, ReceiveSelect,
              TypesReceived, SendSize, FlushSizes, SizesReceived, LoopDone, NextDo, DoReturns
<1>5. QED
  BY <1>2, <1>3, <1>4

\* Until the server refuses a command, every value that is sent is an answer to the right
\* question about the labelled key, in the labelled database.
LEMMA ExportsBacked ==
    ASSUME TypeInv, Matched, Sound => Aligned /\ InDb, Known, ~Rejected, Exporter,
           ReceiveType \/ ReceiveSize
    PROVE  \A i \in Len(metrics) + 1 .. Len(metrics') : Backs(metrics'[i])
<1>1. ASSUME NEW a \in MetricSet, NEW b \in MetricSet, Backs(a), Backs(b),
             metrics' = Append(metrics, a) \/ metrics' = Append(Append(metrics, a), b)
      PROVE  \A i \in Len(metrics) + 1 .. Len(metrics') : Backs(metrics'[i])
  <2>1. metrics \in Seq(MetricSet)
    BY DEF TypeInv
  <2>2. \A i \in Len(metrics) + 1 .. Len(metrics') : metrics'[i] = a \/ metrics'[i] = b
    BY <1>1, <2>1, Appended
  <2>3. QED
    BY <1>1, <2>2
<1>2. metrics' = metrics => \A i \in Len(metrics) + 1 .. Len(metrics') : Backs(metrics'[i])
  BY DEF TypeInv
<1>3. CASE ReceiveType
  <2> DEFINE a == Metric("key_memory_usage_bytes", arrayOfKeys[idx], Pending(2))
  <2>1. a \in MetricSet
    BY <1>3, ReceiveTypeCases, RecordTypes DEF MetricNames
  <2>2. \/ metrics' = metrics
        \/ Backs(a) /\ metrics' = Append(metrics, a)
    BY <1>3, ReceiveTypeCases, TypeBacked
  <2> HIDE DEF a
  <2>3. QED
    BY <1>1, <1>2, <2>1, <2>2
<1>4. CASE ReceiveSize
  <2> DEFINE k == arrayOfKeys[idx]
  <2>1. \A name \in {"key_size", "key_value", "key_value_as_string"}, r \in ReplySet :
           Metric(name, k, r) \in MetricSet
    BY <1>4, ReceiveSizeCases, RecordTypes DEF MetricNames
  <2>2. keyTypes[idx] \in ReplySet /\ \A n \in {1, 2, 3} : Pending(n) \in ReplySet
    BY <1>4, ReceiveSizeCases, ReceiveFacts
  <2>3. \/ metrics' = metrics
        \/ \E r \in ReplySet : /\ Backs(Metric("key_size", k, r))
                               /\ metrics' = Append(metrics, Metric("key_size", k, r))
        \/ \E name \in {"key_value", "key_value_as_string"} :
              /\ Backs(Metric(name, k, Pending(3))) /\ Backs(Metric("key_size", k, Pending(2)))
              /\ metrics' = Append(Append(metrics, Metric(name, k, Pending(3))),
                                   Metric("key_size", k, Pending(2)))
    <3> DEFINE t == keyTypes[idx]
    <3>1. /\ t.str = "none" => Backs(Metric("key_size", k, t))
          /\ t.str = "string" =>
                /\ \A n \in {1, 2} : Int64Ok(Pending(n)) => Backs(Metric("key_size", k, Pending(n)))
                /\ StringOk(Pending(3)) =>
                      \A name \in {"key_value", "key_value_as_string"} :
                          Backs(Metric(name, k, Pending(3)))
          /\ t.str \in Collections /\ Int64Ok(Pending(1)) => Backs(Metric("key_size", k, Pending(1)))
      BY <1>4, SizeBacked
    <3>2. \/ metrics' = metrics
          \/ t.str = "none" /\ metrics' = Append(metrics, Metric("key_size", k, t))
          \/ /\ t.str = "string"
             /\ \E n \in {1, 2} : /\ Int64Ok(Pending(n))
                                  /\ metrics' = Append(metrics, Metric("key_size", k, Pending(n)))
          \/ /\ t.str = "string" /\ StringOk(Pending(3)) /\ Int64Ok(Pending(2))
             /\ \E name \in {"key_value", "key_value_as_string"} :
                   metrics' = Append(Append(metrics, Metric(name, k, Pending(3))),
                                     Metric("key_size", k, Pending(2)))
          \/ /\ t.str \in Collections /\ Int64Ok(Pending(1))
             /\ metrics' = Append(metrics, Metric("key_size", k, Pending(1)))
      BY <1>4, ReceiveSizeCases
    <3> HIDE DEF k, t
    <3>3. QED
      BY <2>2, <3>1, <3>2 DEF t
  <2> HIDE DEF k
  <2>4. QED
    BY <1>1, <1>2, <2>1, <2>2, <2>3
<1>5. QED
  BY <1>3, <1>4

\* No step exports a value under another key, unless the server refuses a command.
LEMMA AttributedStep ==
    ASSUME TypeInv, Matched, Sound => Aligned /\ InDb, Rejected \/ Known,
           AttributedUnlessRejected, Exporter \/ Environment
    PROVE  AttributedUnlessRejected'
<1> SUFFICES ASSUME ~Rejected' PROVE Attributed'
  BY DEF AttributedUnlessRejected
<1>1. ~Rejected /\ Known /\ Attributed
  BY SoundBefore DEF AttributedUnlessRejected
<1>2. metrics \in Seq(MetricSet)
  BY DEF TypeInv
<1>3. CASE metrics' = metrics
  BY <1>1, <1>3 DEF Attributed
<1>4. CASE Exporter /\ metrics' # metrics
  <2>1. /\ ReceiveType \/ ReceiveSize
        /\ metrics' \in Seq(MetricSet) /\ Len(metrics') \in Nat
        /\ \A i \in 1 .. Len(metrics) : metrics'[i] = metrics[i]
    BY <1>4, ExportCases
  <2>2. \A i \in Len(metrics) + 1 .. Len(metrics') : Backs(metrics'[i])
    BY <1>1, <1>4, <2>1, ExportsBacked
  <2>3. DOMAIN metrics' = 1 .. Len(metrics') /\ DOMAIN metrics = 1 .. Len(metrics)
    BY <1>2, <2>1
  <2>4. \A i \in DOMAIN metrics' : i \in DOMAIN metrics \/ i \in Len(metrics) + 1 .. Len(metrics')
    BY <1>2, <2>1, <2>3
  <2>5. QED
    BY <1>1, <2>1, <2>2, <2>3, <2>4 DEF Attributed, Backs
<1>5. QED
  BY <1>3, <1>4, EnvironmentFacts DEF exporterVars
-----------------------------------------------------------------------------
(***************************************************************************)
(* The theorems.                                                           *)
(***************************************************************************)
LEMMA Initially == Init => IInv
<1> SUFFICES ASSUME Init PROVE IInv
  OBVIOUS
<1>1. TypeInv /\ Matched
  BY TypeInit, MatchedInit
<1>2. Aligned /\ InDb /\ Known
  BY DEF Init, ConnInit, Aligned, InDb, Known, Sending, Receiving
<1>3. AttributedUnlessRejected
  <2>1. DOMAIN metrics = {}
    BY DEF Init
  <2>2. QED
    BY <2>1 DEF AttributedUnlessRejected, Attributed
<1>4. QED
  BY <1>1, <1>2, <1>3 DEF IInv

\* What changes nothing keeps the invariant.
LEMMA Stutter == ASSUME IInv, UNCHANGED vars PROVE IInv'
<1> USE DEF vars, connVars, exporterVars
<1>1. NKeys' = NKeys /\ arrayOfKeys' = arrayOfKeys
  BY DEF NKeys, arrayOfKeys
<1>2. TypeInv'
  <2>1. TypeInv /\ allKeys' = allKeys
    BY DEF IInv
  <2>2. QED
    BY <1>1, <2>1, SameSets DEF TypeInv
<1>3. Matched'
  BY DEF IInv, Matched
<1>4. Rejected' = Rejected /\ Stalled' = Stalled /\ Sound' = Sound
  BY DEF Rejected, Stalled, Sound
<1>5. (Sound => Aligned /\ InDb)'
  <2>1. Aligned' = Aligned
    <3>1. Offsets' = Offsets
      BY <1>1 DEF Offsets
    <3>2. \A p, i : TypesAt(p, i)' = TypesAt(p, i)
      BY <1>1 DEF TypesAt
    <3>3. \A off, i : Laid(off, i)' = Laid(off, i)
      BY <1>1 DEF Laid, SizesOf
    <3>4. QED
      BY <1>1, <3>1, <3>2, <3>3 DEF Aligned
  <2>2. InDb' = InDb
    BY DEF InDb
  <2>3. QED
    BY <1>4, <2>1, <2>2 DEF IInv
<1>6. (Rejected \/ Known)'
  <2>1. Known' = Known
    BY <1>1 DEF Known, KnownType
  <2>2. QED
    BY <1>4, <2>1 DEF IInv
<1>7. AttributedUnlessRejected'
  BY <1>4 DEF IInv, AttributedUnlessRejected, Attributed
<1>8. QED
  BY <1>2, <1>3, <1>5, <1>6, <1>7 DEF IInv

\* Every step keeps the invariant.
LEMMA Inductive == IInv /\ [Next]_vars => IInv'
<1> SUFFICES ASSUME IInv, [Next]_vars PROVE IInv'
  OBVIOUS
<1>1. CASE UNCHANGED vars
  BY <1>1, Stutter
<1>2. CASE Exporter \/ Environment
  <2>1. TypeInv /\ Matched /\ (Sound => Aligned /\ InDb) /\ (Rejected \/ Known)
        /\ AttributedUnlessRejected
    BY DEF IInv
  <2>2. TypeInv'
    BY <1>2, <2>1, TypeExporter, TypeEnvironment
  <2>3. Matched' /\ (Sound' => Aligned' /\ InDb')
    BY <1>2, <2>1, MatchedStep, AlignedStep
  <2>4. (Rejected' \/ Known') /\ AttributedUnlessRejected'
    BY <1>2, <2>1, KnownStep, AttributedStep
  <2>5. QED
    BY <2>2, <2>3, <2>4 DEF IInv
<1>3. QED
  BY <1>1, <1>2 DEF Next, Terminated

\* The inductive invariant holds throughout.
THEOREM Invariant == Spec => []IInv
<1>1. IInv /\ [Next]_vars => IInv'
  BY Inductive
<1>2. QED
  BY <1>1, Initially, PTL DEF Spec

\* No reply is handed out twice or before its command was sent, and the variables have their
\* types (KeyPipeline!TypeOK).
THEOREM TypeCorrect == Spec => []TypeOK
<1>1. IInv => TypeOK
  <2> SUFFICES ASSUME IInv PROVE TypeOK
    OBVIOUS
  <2>1. TypeInv
    BY DEF IInv
  <2>2. \A i \in DOMAIN metrics : metrics[i].name \in MetricNames
    <3>1. metrics \in Seq(MetricSet)
      BY <2>1 DEF TypeInv
    <3>2. \A m \in MetricSet : m.name \in MetricNames
      BY DEF MetricSet
    <3>3. QED
      BY <3>1, <3>2
  <2>3. QED
    BY <2>1, <2>2 DEF TypeInv, TypeOK, Batch, Sending, Receiving
<1>2. QED
  BY <1>1, Invariant, PTL

\* Whatever other clients write and wherever the connection is lost, every exported value is
\* the server's answer to the right question about the labelled key, in the labelled database,
\* unless a SELECT or a TYPE command was refused: matching replies to keys by their order alone
\* (extractCheckKeyMetricsPipelined, getKeyInfoPipelined) is right for every list of keys.
THEOREM RepliesAttributed == Spec => []AttributedUnlessRejected
<1>1. IInv => AttributedUnlessRejected
  BY DEF IInv
<1>2. QED
  BY <1>1, Invariant, PTL

\* The pipelined path leaves no reply behind, unless a SELECT or a TYPE command was refused.
THEOREM Drained == Spec => []DrainedUnlessRejected
<1>1. IInv => DrainedUnlessRejected
  <2> SUFFICES ASSUME IInv, pc = "done", alive, ~Rejected PROVE Outstanding = 0
    BY DEF DrainedUnlessRejected
  <2>1. Sound
    BY DEF IInv, Matched, Sound, Stalled
  <2>2. received = Len(sent) /\ received \in Nat
    BY <2>1 DEF IInv, Aligned, TypeInv
  <2>3. QED
    BY <2>2 DEF Outstanding
<1>2. QED
  BY <1>1, Invariant, PTL

\* A Do on the connection reports an error that is its own: with no refused command among the
\* replies, it fails only on a lost connection.
LEMMA NextDoStep ==
    ASSUME IInv, NextDoUnlessRejected, [Next]_vars
    PROVE  NextDoUnlessRejected'
<1> SUFFICES ASSUME doResult' = "error", alive' PROVE Rejected'
  BY DEF NextDoUnlessRejected
<1>1. CASE UNCHANGED vars
  BY <1>1 DEF vars, connVars, exporterVars, NextDoUnlessRejected, Rejected
<1>2. ASSUME Exporter \/ Environment, doResult = "error", alive PROVE Rejected'
  BY <1>2, SoundBefore DEF NextDoUnlessRejected, IInv
<1>3. CASE Environment
  BY <1>2, <1>3, EnvironmentFacts DEF exporterVars, IInv
<1>4. CASE Exporter /\ DoReturns
  <2>1. SUFFICES ASSUME ~Rejected PROVE Rejected'
    BY <1>4, SoundBefore DEF IInv
  <2>2. alive /\ replies' = replies
    BY <1>4, ExporterFacts
  <2>3. pc = "do" /\ Ready(Outstanding) /\ received' = Taken(Outstanding)
        /\ \E n \in 1 .. Outstanding : Pending(n).kind = "error"
    BY <1>4 DEF DoReturns
  <2>4. Sound /\ TypeInv /\ Matched
    BY <2>1, <2>2 DEF IInv, Matched, Sound, Stalled
  <2>5. received + 1 = Len(sent) /\ sent[Len(sent)].cmd = "SELECT" /\ received \in Nat
    BY <2>3, <2>4 DEF IInv, Aligned, TypeInv
  <2>6. Outstanding = 1
    BY <2>5 DEF Outstanding
  <2>7. Pending(1).kind = "error" /\ Ready(1) /\ received' = Taken(1)
    BY <2>3, <2>6
  <2>8. QED
    BY <2>2, <2>4, <2>5, <2>7, Refused DEF Sound, StringOk
<1>5. CASE Exporter /\ ~DoReturns
  <2>1. doResult' = doResult \/ ~alive
    BY <1>5 DEF Exporter, GroupKey, GroupDone, SendSelect, SendType, FlushTypes, ReceiveSelect,
                ReceiveType, TypesReceived, SendSize, FlushSizes, ReceiveSize, SizesReceived,
                LoopDone, NextDo, WriteFails
  <2>2. QED
    BY <1>2, <1>5, <2>1, ExporterFacts
<1>6. QED
  BY <1>1, <1>3, <1>4, <1>5 DEF Next, Terminated

\* The Do that follows the pipelined path fails only when its own command is refused, when one
\* was refused before, or when the connection is lost.
THEOREM NextDoClean == Spec => []NextDoUnlessRejected
<1>1. Init => NextDoUnlessRejected
  BY DEF Init, NextDoUnlessRejected
<1>2. IInv /\ NextDoUnlessRejected /\ [Next]_vars => NextDoUnlessRejected'
  BY NextDoStep
<1>3. QED
  BY <1>1, <1>2, Invariant, PTL DEF Spec
-----------------------------------------------------------------------------
(***************************************************************************)
(* No time series twice.  This does not rest on the order of the replies:  *)
(* it holds when commands are refused, too.                                *)
(***************************************************************************)
LEMMA OnceInit == Init => Grouped /\ Once
<1> SUFFICES ASSUME Init PROVE Grouped /\ Once
  OBVIOUS
<1>1. TypeInv /\ todo = allKeys /\ pc = "group" /\ metrics = <<>>
      /\ keysByDb = [d \in DbsOf(allKeys) |-> <<>>]
  BY TypeInit DEF Init
<1>2. Len(allKeys) \in Nat
  BY <1>1 DEF TypeInv
<1>3. \A d \in DbsOf(allKeys) : Len(keysByDb[d]) = 0
  BY <1>1
<1>4. PICK h \in Positions : h = [d \in DbsOf(allKeys) |-> [i \in 1 .. Len(allKeys) |-> 0]]
  <2> DEFINE z == [i \in 1 .. Len(allKeys) |-> 0]
  <2>1. z \in [1 .. Len(allKeys) -> 0 .. Len(allKeys)]
    BY <1>2
  <2> HIDE DEF z
  <2>2. [d \in DbsOf(allKeys) |-> z] \in Positions
    BY <2>1 DEF Positions
  <2>3. QED
    BY <2>2 DEF z
<1>5. GroupedBy(h)
  BY <1>1, <1>2, <1>3 DEF GroupedBy
<1>6. Grouped
  BY <1>1, <1>2, <1>4, <1>5 DEF Grouped
<1>7. Len(metrics) = 0 /\ [i \in 1 .. Len(metrics) |-> 0] \in [1 .. Len(metrics) -> Nat]
  BY <1>1
<1>8. \A at : SentFor(at)
  BY <1>7 DEF SentFor
<1>9. Once
  BY <1>1, <1>7, <1>8 DEF Once, Batch, Sending, Receiving
<1>10. QED
  BY <1>6, <1>9

\* Grouping: the key at the head of the list goes to the end of its database's keys.
LEMMA GroupedKey ==
    ASSUME TypeInv, Grouped, GroupKey, Exporter
    PROVE  Grouped'
<1> DEFINE d == Head(todo)[1]
           n == Len(keysByDb[d]) + 1
           p == Len(allKeys) - Len(todo) + 1
<1>1. /\ todo \in Seq(DbsOf(allKeys) \X Keys) /\ todo # <<>> /\ todo' = Tail(todo)
      /\ keysByDb' = [keysByDb EXCEPT ![d] = Append(@, Head(todo)[2])]
      /\ keysByDb \in [DbsOf(allKeys) -> Seq(Keys)] /\ Len(allKeys) \in Nat
  BY DEF GroupKey, TypeInv
<1>2. /\ Head(todo) \in DbsOf(allKeys) \X Keys /\ Head(todo) = todo[1]
      /\ Len(todo) \in Nat /\ Len(todo) > 0 /\ Len(todo') = Len(todo) - 1
      /\ \A i \in 1 .. Len(todo) - 1 : todo'[i] = todo[i + 1]
  BY <1>1
<1>3. d \in DbsOf(allKeys) /\ Head(todo)[2] \in Keys /\ Head(todo) = <<d, Head(todo)[2]>>
  BY <1>2
<1>4. allKeys' = allKeys /\ DbsOf(allKeys)' = DbsOf(allKeys)
  BY ExporterFacts
<1>5. Len(todo) <= Len(allKeys) /\ p \in 1 .. Len(allKeys) /\ allKeys[p] = Head(todo)
  <2>1. Len(todo) <= Len(allKeys) /\ todo[1] = allKeys[Len(allKeys) - Len(todo) + 1]
    BY <1>2 DEF Grouped
  <2>2. QED
    BY <1>1, <1>2, <2>1
<1>6. PICK h \in Positions : GroupedBy(h)
  BY DEF Grouped
<1>7. /\ keysByDb'[d] = Append(keysByDb[d], Head(todo)[2])
      /\ \A e \in DbsOf(allKeys) : e # d => keysByDb'[e] = keysByDb[e]
  BY <1>1, <1>3
<1>8. /\ keysByDb[d] \in Seq(Keys) /\ Len(keysByDb[d]) \in Nat
      /\ Len(keysByDb'[d]) = n /\ keysByDb'[d][n] = Head(todo)[2]
      /\ \A i \in 1 .. Len(keysByDb[d]) : keysByDb'[d][i] = keysByDb[d][i]
  BY <1>1, <1>3, <1>7
<1>9. n \in 1 .. Len(allKeys) /\ n <= Len(allKeys) - Len(todo')
  BY <1>1, <1>2, <1>3, <1>5, <1>6, <1>8 DEF GroupedBy
<1>10. PICK g \in Positions : /\ g[d][n] = p
                              /\ \A i \in 1 .. Len(allKeys) : i # n => g[d][i] = h[d][i]
                              /\ \A e \in DbsOf(allKeys) : e # d => g[e] = h[e]
  <2> DEFINE f == [h[d] EXCEPT ![n] = p]
             g == [h EXCEPT ![d] = f]
  <2>1. h[d] \in [1 .. Len(allKeys) -> 0 .. Len(allKeys)] /\ p \in 0 .. Len(allKeys)
    BY <1>3, <1>5, <1>6 DEF Positions
  <2> HIDE DEF n, p, d
  <2>2. /\ f \in [1 .. Len(allKeys) -> 0 .. Len(allKeys)]
        /\ f[n] = p /\ \A i \in 1 .. Len(allKeys) : i # n => f[i] = h[d][i]
    BY <1>9, <2>1
  <2> HIDE DEF f
  <2>3. /\ g \in Positions /\ g[d] = f
        /\ \A e \in DbsOf(allKeys) : e # d => g[e] = h[e]
    BY <1>3, <1>6, <2>2 DEF Positions
  <2>4. QED
    BY <2>2, <2>3
<1>11. GroupedBy(g)'
  <2>1. SUFFICES ASSUME NEW e \in DbsOf(allKeys)
                 PROVE  /\ Len(keysByDb'[e]) <= Len(allKeys) - Len(todo')
                        /\ \A i \in 1 .. Len(keysByDb'[e]) :
                              /\ g[e][i] \in 1 .. Len(allKeys) - Len(todo')
                              /\ allKeys[g[e][i]] = <<e, keysByDb'[e][i]>>
                        /\ \A i, j \in 1 .. Len(keysByDb'[e]) : g[e][i] = g[e][j] => i = j
    BY <1>4 DEF GroupedBy
  <2>2. /\ Len(keysByDb[e]) <= Len(allKeys) - Len(todo)
        /\ \A i \in 1 .. Len(keysByDb[e]) :
              /\ h[e][i] \in 1 .. Len(allKeys) - Len(todo)
              /\ allKeys[h[e][i]] = <<e, keysByDb[e][i]>>
        /\ \A i, j \in 1 .. Len(keysByDb[e]) : h[e][i] = h[e][j] => i = j
    BY <1>6 DEF GroupedBy
  <2>3. CASE e # d
    <3>1. keysByDb'[e] = keysByDb[e] /\ g[e] = h[e]
      BY <1>7, <1>10, <2>3
    <3>2. /\ Len(allKeys) - Len(todo) <= Len(allKeys) - Len(todo')
          /\ \A x \in 1 .. Len(allKeys) - Len(todo) : x \in 1 .. Len(allKeys) - Len(todo')
      BY <1>1, <1>2
    <3>3. Len(keysByDb[e]) <= Len(allKeys) - Len(todo')
      <4>1. Len(keysByDb[e]) \in Nat
        BY <1>1
      <4>2. QED
        BY <1>1, <1>2, <2>2, <3>2, <4>1
    <3> HIDE DEF d, n, p
    <3>4. QED
      BY <2>2, <3>1, <3>2, <3>3
  <2>4. CASE e = d
    <3>1. Len(keysByDb[d]) \in Nat /\ n = Len(keysByDb[d]) + 1 /\ n <= Len(allKeys)
      BY <1>8, <1>9
    <3>2. \A i \in 1 .. n : i = n \/ (i \in 1 .. Len(keysByDb[d]) /\ i \in 1 .. Len(allKeys) /\ i # n)
      BY <1>8, <1>9
    <3>3. \A i \in 1 .. Len(keysByDb[d]) : /\ g[d][i] = h[d][i]
                                            /\ g[d][i] \in 1 .. Len(allKeys) - Len(todo)
                                            /\ g[d][i] # p
                                            /\ allKeys[g[d][i]] = <<d, keysByDb[d][i]>>
      <4> TAKE i \in 1 .. Len(keysByDb[d])
      <4>1. i \in 1 .. Len(allKeys) /\ i # n
        BY <1>1, <3>1
      <4>2. g[d][i] = h[d][i]
        BY <1>10, <4>1
      <4>3. h[d][i] \in 1 .. Len(allKeys) - Len(todo) /\ allKeys[h[d][i]] = <<d, keysByDb[d][i]>>
        BY <2>2, <2>4
      <4>4. h[d][i] # p
        BY <1>1, <1>2, <4>3
      <4>5. QED
        BY <4>2, <4>3, <4>4
    <3>4. p \in 1 .. Len(allKeys) - Len(todo')
      BY <1>1, <1>2, <1>5
    <3>5. \A i \in 1 .. n : /\ g[d][i] \in 1 .. Len(allKeys) - Len(todo')
                            /\ allKeys[g[d][i]] = <<d, keysByDb'[d][i]>>
      <4> TAKE i \in 1 .. n
      <4>1. CASE i = n
        BY <1>3, <1>5, <1>8, <1>10, <3>4, <4>1
      <4>2. CASE i \in 1 .. Len(keysByDb[d])
        <5>1. g[d][i] \in 1 .. Len(allKeys) - Len(todo) /\ allKeys[g[d][i]] = <<d, keysByDb[d][i]>>
          BY <3>3, <4>2
        <5>2. keysByDb'[d][i] = keysByDb[d][i]
          BY <1>8, <4>2
        <5>3. g[d][i] \in 1 .. Len(allKeys) - Len(todo')
          BY <1>1, <1>2, <5>1
        <5>4. QED
          BY <5>1, <5>2, <5>3
      <4>3. QED
        BY <3>2, <4>1, <4>2
    <3> HIDE DEF n, p, d
    <3>6. \A i, j \in 1 .. n : g[d][i] = g[d][j] => i = j
      BY <1>10, <2>2, <2>4, <3>2, <3>3
    <3>7. QED
      BY <1>8, <1>9, <2>4, <3>5, <3>6
  <2>5. QED
    BY <2>3, <2>4
<1>12. Positions' = Positions
  BY <1>4 DEF Positions
<1>13. \A i \in 1 .. Len(todo') : todo'[i] = allKeys[Len(allKeys) - Len(todo') + i]
  <2> TAKE i \in 1 .. Len(todo')
  <2>1. i + 1 \in 1 .. Len(todo) /\ todo'[i] = todo[i + 1]
    BY <1>2
  <2>2. todo[i + 1] = allKeys[Len(allKeys) - Len(todo) + (i + 1)]
    BY <2>1 DEF Grouped
  <2>3. Len(allKeys) - Len(todo) + (i + 1) = Len(allKeys) - Len(todo') + i
    BY <1>1, <1>2
  <2>4. QED
    BY <2>1, <2>2, <2>3
<1>14. QED
  BY <1>1, <1>2, <1>4, <1>5, <1>10, <1>11, <1>12, <1>13 DEF Grouped

\* Nothing else changes the grouped keys.
LEMMA GroupedStep ==
    ASSUME TypeInv, Grouped, [Next]_vars
    PROVE  Grouped'
<1>1. ASSUME UNCHANGED <<allKeys, todo, keysByDb>> PROVE Grouped'
  <2>1. Positions' = Positions /\ \A h : GroupedBy(h)' = GroupedBy(h)
    BY <1>1 DEF Positions, GroupedBy, DbsOf
  <2>2. QED
    BY <1>1, <2>1 DEF Grouped
<1>2. CASE Exporter /\ GroupKey
  BY <1>2, GroupedKey
<1>3. CASE Exporter /\ ~GroupKey
  BY <1>1, <1>3 DEF Exporter, GroupDone, SendSelect, SendType, FlushTypes, ReceiveSelect,
                    ReceiveType, TypesReceived, SendSize, FlushSizes, ReceiveSize,
                    SizesReceived, LoopDone, NextDo, DoReturns
<1>4. CASE Environment \/ UNCHANGED vars
  BY <1>1, <1>4 DEF Environment, exporterVars, vars
<1>5. QED
  BY <1>2, <1>3, <1>4 DEF Next, Terminated

\* The metrics that are sent at once have the key that is looked at, and different names.
LEMMA NewMetrics ==
    ASSUME TypeInv, Exporter, ReceiveType \/ ReceiveSize
    PROVE  /\ \A i \in Len(metrics) + 1 .. Len(metrics') :
                 /\ metrics'[i].db = db /\ metrics'[i].key = arrayOfKeys[idx]
                 /\ pc = "recvTypes" <=> metrics'[i].name = "key_memory_usage_bytes"
           /\ \A i, j \in Len(metrics) + 1 .. Len(metrics') :
                 metrics'[i].name = metrics'[j].name => i = j
<1> DEFINE k == arrayOfKeys[idx]
           New(m) == /\ m.db = db /\ m.key = k
                     /\ pc = "recvTypes" <=> m.name = "key_memory_usage_bytes"
<1>1. metrics \in Seq(MetricSet) /\ Len(metrics) \in Nat
  BY DEF TypeInv
<1>2. ASSUME metrics' = metrics PROVE Len(metrics) + 1 .. Len(metrics') = {}
  BY <1>1, <1>2
<1>3. ASSUME NEW a \in MetricSet, metrics' = Append(metrics, a)
      PROVE  \A i \in Len(metrics) + 1 .. Len(metrics') : i = Len(metrics) + 1 /\ metrics'[i] = a
  BY <1>1, <1>3
<1>4. ASSUME NEW a \in MetricSet, NEW b \in MetricSet, metrics' = Append(Append(metrics, a), b)
      PROVE  \A i \in Len(metrics) + 1 .. Len(metrics') :
                \/ i = Len(metrics) + 1 /\ metrics'[i] = a
                \/ i = Len(metrics) + 2 /\ metrics'[i] = b
  <2>1. PICK u \in Seq(MetricSet) : u = Append(metrics, a)
    BY <1>1, AppendProperties
  <2>2. /\ Len(u) = Len(metrics) + 1 /\ u[Len(metrics) + 1] = a
    BY <1>1, <2>1
  <2>3. /\ Len(metrics') = Len(u) + 1 /\ metrics'[Len(u) + 1] = b
        /\ \A i \in 1 .. Len(u) : metrics'[i] = u[i]
    BY <1>4, <2>1
  <2>4. QED
    BY <1>1, <2>2, <2>3
<1>5. ASSUME NEW name, NEW r
      PROVE  /\ Metric(name, k, r).name = name
             /\ Metric(name, k, r).db = db /\ Metric(name, k, r).key = k
  BY DEF Metric
<1>6. CASE ReceiveType
  <2> DEFINE a == Metric("key_memory_usage_bytes", k, Pending(2))
  <2>1. a \in MetricSet /\ pc = "recvTypes"
    BY <1>6, ReceiveTypeCases, RecordTypes DEF MetricNames, ReceiveType
  <2>2. metrics' = metrics \/ metrics' = Append(metrics, a)
    BY <1>6, ReceiveTypeCases
  <2>3. New(a)
    BY <1>5, <2>1
  <2> HIDE DEF a
  <2>4. \A i \in Len(metrics) + 1 .. Len(metrics') : i = Len(metrics) + 1 /\ metrics'[i] = a
    BY <1>2, <1>3, <2>1, <2>2
  <2>5. QED
    BY <2>3, <2>4
<1>7. CASE ReceiveSize
  <2>1. \A name \in {"key_size", "key_value", "key_value_as_string"}, r \in ReplySet :
           Metric(name, k, r) \in MetricSet
    BY <1>7, ReceiveSizeCases, RecordTypes DEF MetricNames
  <2>2. keyTypes[idx] \in ReplySet /\ \A n \in {1, 2, 3} : Pending(n) \in ReplySet
    BY <1>7, ReceiveSizeCases, ReceiveFacts
  <2>3. pc = "recvSizes"
    BY <1>7 DEF ReceiveSize
  <2>4. \A name \in {"key_size", "key_value", "key_value_as_string"}, r \in ReplySet :
           New(Metric(name, k, r)) /\ Metric(name, k, r).name = name
    BY <1>5, <2>3
  <2>5. \/ metrics' = metrics
        \/ \E r \in ReplySet : metrics' = Append(metrics, Metric("key_size", k, r))
        \/ \E name \in {"key_value", "key_value_as_string"} :
              metrics' = Append(Append(metrics, Metric(name, k, Pending(3))),
                                Metric("key_size", k, Pending(2)))
    <3>1. \/ metrics' = metrics
          \/ metrics' = Append(metrics, Metric("key_size", k, keyTypes[idx]))
          \/ \E n \in {1, 2} : metrics' = Append(metrics, Metric("key_size", k, Pending(n)))
          \/ \E name \in {"key_value", "key_value_as_string"} :
                metrics' = Append(Append(metrics, Metric(name, k, Pending(3))),
                                  Metric("key_size", k, Pending(2)))
      BY <1>7, ReceiveSizeCases
    <3> HIDE DEF k
    <3>2. QED
      BY <2>2, <3>1
  <2> HIDE DEF k
  <2>6. CASE metrics' = metrics
    BY <1>2, <2>6
  <2>7. ASSUME NEW r \in ReplySet, metrics' = Append(metrics, Metric("key_size", k, r))
        PROVE  /\ \A i \in Len(metrics) + 1 .. Len(metrics') : New(metrics'[i])
               /\ \A i, j \in Len(metrics) + 1 .. Len(metrics') :
                     metrics'[i].name = metrics'[j].name => i = j
    <3> DEFINE a == Metric("key_size", k, r)
    <3>1. a \in MetricSet /\ New(a) /\ metrics' = Append(metrics, a)
      BY <2>1, <2>4, <2>7
    <3> HIDE DEF a, New
    <3>2. \A i \in Len(metrics) + 1 .. Len(metrics') : i = Len(metrics) + 1 /\ metrics'[i] = a
      BY <1>3, <3>1
    <3>3. QED
      BY <3>1, <3>2
  <2>8. ASSUME NEW name \in {"key_value", "key_value_as_string"},
               metrics' = Append(Append(metrics, Metric(name, k, Pending(3))),
                                 Metric("key_size", k, Pending(2)))
        PROVE  /\ \A i \in Len(metrics) + 1 .. Len(metrics') : New(metrics'[i])
               /\ \A i, j \in Len(metrics) + 1 .. Len(metrics') :
                     metrics'[i].name = metrics'[j].name => i = j
    <3> DEFINE a == Metric(name, k, Pending(3))
               b == Metric("key_size", k, Pending(2))
    <3>1. a \in MetricSet /\ New(a) /\ a.name = name
      BY <2>1, <2>2, <2>4
    <3>2. b \in MetricSet /\ New(b) /\ b.name = "key_size"
      BY <2>1, <2>2, <2>4
    <3>3. metrics' = Append(Append(metrics, a), b)
      BY <2>8
    <3> HIDE DEF a, b, New
    <3>4. \A i \in Len(metrics) + 1 .. Len(metrics') :
             \/ i = Len(metrics) + 1 /\ metrics'[i] = a
             \/ i = Len(metrics) + 2 /\ metrics'[i] = b
      BY <1>4, <3>1, <3>2, <3>3
    <3>5. a.name # b.name
      BY <3>1, <3>2
    <3>6. QED
      BY <3>1, <3>2, <3>4, <3>5
  <2>9. QED
    BY <2>5, <2>6, <2>7, <2>8 DEF k
<1>8. QED
  BY <1>6, <1>7

\* Sending the metrics of the key that is looked at.
LEMMA OnceGrows ==
    ASSUME TypeInv, TypeInv', Once, Exporter, ReceiveType \/ ReceiveSize
    PROVE  Once'
<1>1. /\ pc \in {"recvTypes", "recvSizes"} /\ pc \in Batch /\ idx \in 1 .. NKeys /\ idx' = idx + 1
      /\ UNCHANGED <<pc, keysByDb, dbsLeft, db, allKeys>>
  <2>1. allKeys' = allKeys
    BY ExporterFacts
  <2>2. CASE ReceiveType
    BY <2>1, <2>2, ReceiveTypeCases DEF ReceiveType
  <2>3. CASE ReceiveSize
    BY <2>1, <2>3, ReceiveSizeCases DEF ReceiveSize
  <2>4. QED
    BY <2>2, <2>3
<1>2. DbsOf(allKeys)' = DbsOf(allKeys) /\ db \in DbsOf(allKeys) /\ db \notin dbsLeft
  BY <1>1, BatchFacts, SameSets DEF Once
<1>3. /\ metrics' \in Seq(MetricSet) /\ Len(metrics') \in Nat /\ Len(metrics') >= Len(metrics)
      /\ \A i \in 1 .. Len(metrics) : metrics'[i] = metrics[i]
      /\ metrics \in Seq(MetricSet) /\ Len(metrics) \in Nat
  <2>1. metrics \in Seq(MetricSet) /\ Len(metrics) \in Nat
    BY DEF TypeInv
  <2>2. CASE metrics' = metrics
    BY <2>1, <2>2
  <2>3. CASE metrics' # metrics
    BY <2>1, <2>3, ExportCases
  <2>4. QED
    BY <2>2, <2>3
<1>4. /\ \A i \in Len(metrics) + 1 .. Len(metrics') :
            /\ metrics'[i].db = db /\ metrics'[i].key = arrayOfKeys[idx]
            /\ pc = "recvTypes" <=> metrics'[i].name = "key_memory_usage_bytes"
      /\ \A i, j \in Len(metrics) + 1 .. Len(metrics') :
            metrics'[i].name = metrics'[j].name => i = j
  BY NewMetrics
<1>5. PICK at \in [1 .. Len(metrics) -> Nat] : SentFor(at)
  BY DEF Once
<1>6. PICK to \in [1 .. Len(metrics') -> Nat] :
          /\ \A i \in 1 .. Len(metrics) : to[i] = at[i]
          /\ \A i \in Len(metrics) + 1 .. Len(metrics') : to[i] = idx
  <2> DEFINE to == [i \in 1 .. Len(metrics') |-> IF i \in 1 .. Len(metrics) THEN at[i] ELSE idx]
  <2>1. \A i \in 1 .. Len(metrics) : at[i] \in Nat
    BY <1>5
  <2>2. idx \in Nat
    BY DEF TypeInv
  <2>3. to \in [1 .. Len(metrics') -> Nat]
    BY <2>1, <2>2
  <2>4. \A i \in 1 .. Len(metrics') :
           /\ i \in 1 .. Len(metrics) => to[i] = at[i]
           /\ i \notin 1 .. Len(metrics) => to[i] = idx
    OBVIOUS
  <2> HIDE DEF to
  <2>5. /\ \A i \in 1 .. Len(metrics) : i \in 1 .. Len(metrics')
        /\ \A i \in Len(metrics) + 1 .. Len(metrics') :
              i \in 1 .. Len(metrics') /\ i \notin 1 .. Len(metrics)
    BY <1>3
  <2>6. QED
    BY <2>3, <2>4, <2>5
<1>7. \A i \in 1 .. Len(metrics') : i \in 1 .. Len(metrics) \/ i \in Len(metrics) + 1 .. Len(metrics')
  BY <1>3
<1>8. \A i \in 1 .. Len(metrics) :
         /\ metrics[i].db \in DbsOf(allKeys) \ dbsLeft
         /\ at[i] \in 1 .. Len(keysByDb[metrics[i].db])
         /\ metrics[i].key = keysByDb[metrics[i].db][at[i]]
         /\ metrics[i].db = db => MaySend(metrics[i], at[i])
  BY <1>5 DEF SentFor
<1>9. \A i, j \in 1 .. Len(metrics) :
         /\ metrics[i].name = metrics[j].name /\ metrics[i].db = metrics[j].db /\ at[i] = at[j]
         => i = j
  BY <1>5 DEF SentFor
<1>10. ASSUME NEW i \in 1 .. Len(metrics), metrics[i].db = db
       PROVE  /\ MaySend(metrics[i], at[i])'
              /\ pc = "recvTypes" => metrics[i].name = "key_memory_usage_bytes" /\ at[i] # idx
              /\ (pc = "recvSizes" /\ metrics[i].name # "key_memory_usage_bytes") => at[i] # idx
  <2>1. at[i] \in Nat /\ MaySend(metrics[i], at[i])
    BY <1>5, <1>8, <1>10
  <2>2. idx \in Nat
    BY DEF TypeInv
  <2>3. PICK m, n : m = metrics[i] /\ n = at[i]
    OBVIOUS
  <2>4. /\ pc = "recvTypes" => m.name = "key_memory_usage_bytes" /\ n < idx
        /\ pc = "recvSizes" => (m.name # "key_memory_usage_bytes" => n < idx)
    BY <2>1, <2>3 DEF MaySend
  <2>5. MaySend(m, n)'
    BY <1>1, <2>1, <2>2, <2>3, <2>4 DEF MaySend, Sending
  <2>6. metrics'[i] = metrics[i]
    BY <1>3
  <2>7. QED
    BY <2>1, <2>2, <2>3, <2>4, <2>5, <2>6
<1>11. ASSUME NEW i \in Len(metrics) + 1 .. Len(metrics')
       PROVE  \A n : n = idx => MaySend(metrics[i], n)'
  <2> SUFFICES ASSUME NEW n, n = idx PROVE MaySend(metrics[i], n)'
    OBVIOUS
  <2>1. idx \in Nat
    BY DEF TypeInv
  <2>2. QED
    BY <1>1, <1>4, <2>1 DEF MaySend, Sending
<1>12. SentFor(to)'
  <2>1. ASSUME NEW i \in 1 .. Len(metrics')
        PROVE  /\ metrics'[i].db \in DbsOf(allKeys) \ dbsLeft
               /\ to[i] \in 1 .. Len(keysByDb[metrics'[i].db])
               /\ metrics'[i].key = keysByDb[metrics'[i].db][to[i]]
               /\ metrics'[i].db = db => MaySend(metrics[i], to[i])'
    <3>1. CASE i \in 1 .. Len(metrics)
      BY <1>3, <1>6, <1>8, <1>10, <3>1
    <3>2. CASE i \in Len(metrics) + 1 .. Len(metrics')
      <4>1. to[i] = idx /\ metrics'[i].db = db /\ metrics'[i].key = keysByDb[db][idx]
        BY <1>4, <1>6, <3>2 DEF arrayOfKeys
      <4>2. idx \in 1 .. Len(keysByDb[db])
        BY <1>1 DEF NKeys, arrayOfKeys
      <4>3. MaySend(metrics[i], to[i])'
        BY <1>11, <3>2, <4>1
      <4>4. QED
        BY <1>2, <4>1, <4>2, <4>3
    <3>3. QED
      BY <1>7, <3>1, <3>2
  <2>2. ASSUME NEW i \in 1 .. Len(metrics), NEW j \in Len(metrics) + 1 .. Len(metrics'),
               metrics'[i].name = metrics'[j].name, metrics'[i].db = metrics'[j].db
        PROVE  to[i] # to[j]
    <3>1. metrics[i].db = db /\ to[j] = idx /\ to[i] = at[i] /\ metrics'[i] = metrics[i]
      BY <1>3, <1>4, <1>6, <2>2
    <3>2. pc = "recvTypes" <=> metrics[i].name = "key_memory_usage_bytes"
      BY <1>4, <2>2, <3>1
    <3>3. QED
      BY <1>1, <1>10, <3>1, <3>2
  <2>3. ASSUME NEW i \in 1 .. Len(metrics'), NEW j \in 1 .. Len(metrics'),
               metrics'[i].name = metrics'[j].name, metrics'[i].db = metrics'[j].db, to[i] = to[j]
        PROVE  i = j
    <3>1. CASE i \in 1 .. Len(metrics) /\ j \in 1 .. Len(metrics)
      BY <1>3, <1>6, <1>9, <2>3, <3>1
    <3>2. CASE i \in Len(metrics) + 1 .. Len(metrics') /\ j \in Len(metrics) + 1 .. Len(metrics')
      BY <1>4, <2>3, <3>2
    <3>3. QED
      BY <1>7, <2>2, <2>3, <3>1, <3>2
  <2>4. QED
    BY <1>1, <1>2, <2>1, <2>3 DEF SentFor
<1>13. pc' # "group" /\ (pc' \in Batch => db' \notin dbsLeft')
  BY <1>1, <1>2
<1>14. QED
  BY <1>6, <1>12, <1>13 DEF Once

\* Every step that sends no metric.
LEMMA OnceKept ==
    ASSUME TypeInv, Once, metrics' = metrics, allKeys' = allKeys,
           keysByDb' = keysByDb \/ metrics = <<>>,
           dbsLeft' \subseteq dbsLeft \/ metrics = <<>>,
           \A i \in 1 .. Len(metrics) : \A n \in Nat :
               metrics[i].db \notin dbsLeft /\ metrics[i].db = db'
                   /\ (metrics[i].db = db => MaySend(metrics[i], n))
                   => MaySend(metrics[i], n)',
           pc' = "group" => pc = "group",
           pc' \in Batch => db' \notin dbsLeft'
    PROVE  Once'
<1>1. DbsOf(allKeys)' = DbsOf(allKeys)
  BY SameSets
<1>2. PICK at \in [1 .. Len(metrics) -> Nat] : SentFor(at)
  BY DEF Once
<1>3. CASE metrics = <<>>
  <2>1. Len(metrics) = 0
    BY <1>3
  <2>2. SentFor(at)'
    BY <2>1 DEF SentFor
  <2>3. QED
    BY <1>2, <1>3, <2>2 DEF Once
<1>4. CASE metrics # <<>>
  <2>1. keysByDb' = keysByDb /\ dbsLeft' \subseteq dbsLeft
    BY <1>4
  <2>2. \A i \in 1 .. Len(metrics) :
           metrics[i].db \notin dbsLeft /\ (metrics[i].db = db => MaySend(metrics[i], at[i])) /\ at[i] \in Nat
    BY <1>2 DEF SentFor
  <2>3. \A i \in 1 .. Len(metrics) : metrics[i].db = db' => MaySend(metrics[i], at[i])'
    BY <2>2
  <2>4. SentFor(at)'
    BY <1>1, <1>2, <2>1, <2>3 DEF SentFor
  <2>5. QED
    BY <1>2, <2>4, <1>4 DEF Once
<1>5. QED
  BY <1>3, <1>4

\* No step registers a series a second time.
LEMMA OnceStep ==
    ASSUME TypeInv, TypeInv', Once, [Next]_vars
    PROVE  Once'
<1> USE DEF Batch, Sending, Receiving
<1>1. metrics \in Seq(MetricSet) /\ (pc = "group" => metrics = <<>>) /\ (pc \in Batch => db \notin dbsLeft)
  BY DEF TypeInv, Once
<1>2. CASE Environment \/ UNCHANGED vars
  <2>1. UNCHANGED <<pc, allKeys, keysByDb, dbsLeft, db, idx, metrics>>
    BY <1>2 DEF Environment, exporterVars, vars
  <2>2. QED
    BY <1>1, <2>1, OnceKept DEF MaySend
<1>3. CASE Exporter /\ (ReceiveType \/ ReceiveSize)
  BY <1>3, OnceGrows
<1>4. CASE Exporter /\ (GroupKey \/ GroupDone)
  <2>1. /\ metrics = <<>> /\ metrics' = metrics /\ allKeys' = allKeys
        /\ pc = "group" /\ pc' \in {"group", "loop"}
    BY <1>1, <1>4, ExporterFacts DEF GroupKey, GroupDone
  <2>2. Len(metrics) = 0
    BY <2>1
  <2>3. QED
    BY <2>1, <2>2, OnceKept
<1>5. CASE Exporter /\ SendSelect
  <2>1. PICK d \in dbsLeft : /\ db' = d /\ dbsLeft' = dbsLeft \ {d} /\ pc' \in {"loop", "sendTypes"}
                             /\ UNCHANGED <<allKeys, keysByDb, metrics>> /\ pc = "loop"
    BY <1>5, ExporterFacts DEF SendSelect
  <2>2. QED
    BY <2>1, OnceKept
<1>6. CASE Exporter /\ \/ SendType \/ FlushTypes \/ ReceiveSelect \/ TypesReceived \/ SendSize
                       \/ FlushSizes \/ SizesReceived \/ LoopDone \/ NextDo \/ DoReturns
  <2>1. UNCHANGED <<allKeys, keysByDb, dbsLeft, db, metrics>>
    BY <1>6, ExporterFacts DEF SendType, FlushTypes, ReceiveSelect, TypesReceived, SendSize,
                               FlushSizes, SizesReceived, LoopDone, NextDo, DoReturns
  <2>2. /\ pc' # "group" /\ (pc' \in Batch => pc \in Batch)
        /\ pc' \in Sending => pc \in Sending
        /\ pc' = "recvTypes" => pc \in Sending
        /\ pc' = "sendSizes" => pc \in {"recvTypes", "sendSizes"}
        /\ pc' = "recvSizes" => pc = "sendSizes"
    BY <1>6 DEF SendType, FlushTypes, ReceiveSelect, TypesReceived, SendSize,
                FlushSizes, SizesReceived, LoopDone, NextDo, DoReturns
  <2>3. ASSUME NEW i \in 1 .. Len(metrics), NEW n \in Nat, MaySend(metrics[i], n)
        PROVE  MaySend(metrics[i], n)'
    BY <2>1, <2>2, <2>3 DEF MaySend
  <2>4. QED
    BY <1>1, <2>1, <2>2, <2>3, OnceKept
<1>7. QED
  BY <1>2, <1>3, <1>4, <1>5, <1>6 DEF Next, Terminated, Exporter

\* Metrics of one series stem from different positions of the list, all with the series' key.
LEMMA SeriesBound ==
    ASSUME TypeInv, Grouped, Once
    PROVE  NoDuplicates
<1>1. /\ metrics \in Seq(MetricSet) /\ DOMAIN metrics = 1 .. Len(metrics) /\ Len(metrics) \in Nat
      /\ DOMAIN allKeys = 1 .. Len(allKeys) /\ Len(allKeys) \in Nat /\ Len(todo) \in Nat
  BY DEF TypeInv
<1>2. PICK h \in Positions : GroupedBy(h)
  BY DEF Grouped
<1>3. PICK at \in [1 .. Len(metrics) -> Nat] : SentFor(at)
  BY DEF Once
<1> SUFFICES ASSUME NEW i \in 1 .. Len(metrics)
             PROVE  Cardinality({j \in DOMAIN metrics : /\ metrics[j].name = metrics[i].name
                                                        /\ metrics[j].db = metrics[i].db
                                                        /\ metrics[j].key = metrics[i].key})
                        <= Occurrences(metrics[i].db, metrics[i].key)
  BY <1>1 DEF NoDuplicates
<1> DEFINE d == metrics[i].db
           k == metrics[i].key
           S == {j \in DOMAIN metrics : /\ metrics[j].name = metrics[i].name
                                        /\ metrics[j].db = metrics[i].db
                                        /\ metrics[j].key = metrics[i].key}
           T == {j \in DOMAIN allKeys : allKeys[j] = <<d, k>>}
           f == [j \in S |-> h[d][at[j]]]
<1>4. IsFiniteSet(T)
  <2>1. IsFiniteSet(1 .. Len(allKeys))
    BY <1>1, FS_Interval
  <2>2. T \in SUBSET (1 .. Len(allKeys))
    BY <1>1
  <2>3. QED
    BY <2>1, <2>2, FS_Subset
<1>5. ASSUME NEW j \in S
      PROVE  /\ d \in DbsOf(allKeys) /\ at[j] \in 1 .. Len(keysByDb[d])
             /\ j \in 1 .. Len(metrics) /\ keysByDb[d][at[j]] = k
  BY <1>1, <1>3 DEF SentFor
<1>6. ASSUME NEW j \in S PROVE h[d][at[j]] \in T
  <2>1. /\ h[d][at[j]] \in 1 .. Len(allKeys) - Len(todo)
        /\ allKeys[h[d][at[j]]] = <<d, keysByDb[d][at[j]]>>
    BY <1>2, <1>5 DEF GroupedBy
  <2>2. h[d][at[j]] \in DOMAIN allKeys
    BY <1>1, <2>1
  <2>3. QED
    BY <1>5, <2>1, <2>2
<1>7. ASSUME NEW j \in S, NEW l \in S, h[d][at[j]] = h[d][at[l]] PROVE j = l
  <2>1. at[j] = at[l]
    BY <1>2, <1>5, <1>7 DEF GroupedBy
  <2>2. j \in 1 .. Len(metrics) /\ l \in 1 .. Len(metrics)
        /\ metrics[j].name = metrics[l].name /\ metrics[j].db = metrics[l].db
    BY <1>1
  <2>3. QED
    BY <1>3, <2>1, <2>2 DEF SentFor
<1> HIDE DEF S, T, d
<1>8. f \in Injection(S, T)
  BY <1>6, <1>7, Zenon DEF Injection, IsInjective
<1>9. Cardinality(S) <= Cardinality(T)
  BY <1>4, <1>8, FS_Injection
<1>10. QED
  BY <1>9 DEF Occurrences, S, T, d

\* No time series is exported twice for a key that was asked for once, whatever the server
\* refuses and wherever the connection is lost: the registry never sees a duplicate from the
\* keys that are checked.
THEOREM NoSeriesTwice == Spec => []NoDuplicates
<1>1. IInv /\ IInv' /\ Grouped /\ Once /\ [Next]_vars => Grouped' /\ Once'
  BY GroupedStep, OnceStep DEF IInv
<1>2. IInv /\ Grouped /\ Once => NoDuplicates
  BY SeriesBound DEF IInv
<1>3. QED
  BY <1>1, <1>2, OnceInit, Invariant, PTL DEF Spec
-----------------------------------------------------------------------------
(***************************************************************************)
(* The refinement.                                                         *)
(***************************************************************************)
\* No metric is sent in the step that hands out the first refused command.
LEMMA NoNewRefusal ==
    ASSUME IInv, ~Rejected, Exporter, ReceiveType \/ ReceiveSize, metrics' # metrics
    PROVE  ~Rejected'
<1>1. TypeInv /\ Matched /\ (Sound => Aligned /\ InDb) /\ Known /\ replies' = replies
  BY ExporterFacts DEF IInv
<1>2. /\ received \in Nat /\ received' \in Nat /\ received' <= Len(replies) /\ Len(replies) \in Nat
      /\ received <= received' /\ received <= Len(replies)
  BY <1>1, ReceivedGrows DEF TypeInv
<1>3. SUFFICES ASSUME NEW p \in received + 1 .. received',
                      replies[p].cmd \in {"SELECT", "TYPE"}, replies[p].kind = "error"
               PROVE  FALSE
  BY <1>1, <1>2 DEF Rejected
<1>4. CASE ReceiveType
  <2>1. StringOk(Pending(1)) /\ Int64Ok(Pending(2)) /\ received' = Taken(2)
    BY <1>1, <1>4, ReceiveTypeCases
  <2>2. /\ received + 1 \in 1 .. Len(replies) /\ Pending(1) = replies[received + 1]
        /\ Pending(1).kind # "error"
    BY <1>1, <2>1, Usable
  <2>3. /\ received + 2 \in 1 .. Len(replies) /\ Pending(2) = replies[received + 2]
        /\ Pending(2).kind # "error"
    BY <1>1, <2>1, Usable
  <2>4. received' = received + 2
    BY <1>2, <2>1, <2>3 DEF Taken, Available
  <2>5. p = received + 1 \/ p = received + 2
    BY <1>2, <1>3, <2>4
  <2>6. QED
    BY <1>3, <2>2, <2>3, <2>5
<1>5. CASE ReceiveSize
  <2> DEFINE t == keyTypes[idx]
             k == arrayOfKeys[idx]
  <2>1. \/ t.str = "none" /\ received' = received
        \/ t.str = "string" /\ received' = Taken(3) /\ Ready(3)
        \/ t.str \in Collections /\ received' = Taken(1) /\ Ready(1)
    BY <1>1, <1>5, ReceiveSizeCases
  <2>2. pc = "recvSizes" /\ idx \in 1 .. NKeys
    BY <1>1, <1>5, ReceiveSizeCases DEF ReceiveSize
  <2>3. received' # received
    BY <1>2, <1>3
  <2>4. ~Stalled
    BY <1>2, <2>3 DEF Stalled
  <2>5. Aligned
    BY <1>1, <2>2, <2>4 DEF Sound, Matched
  <2>6. PICK off \in Offsets : off[idx] = received /\ \A i \in idx .. NKeys : Laid(off, i)
    BY <2>2, <2>5 DEF Aligned
  <2>7. Laid(off, idx)
    BY <2>2, <2>6
  <2>8. /\ t.str = "string" => /\ sent[received + 1] = Cmd("PFCOUNT", k)
                               /\ sent[received + 2] = Cmd("STRLEN", k)
                               /\ sent[received + 3] = Cmd("GET", k)
        /\ t.str \in Collections => sent[received + 1] = Cmd(SizeCmd[t.str], k)
    BY <1>1, <1>5, <2>6, <2>7, SizeReplies
  <2>9. replies[p].cmd = sent[p].cmd
    BY <1>1, <1>2, <1>3 DEF Matched
  <2>10. \A c : Cmd(c, k).cmd = c
    BY DEF Cmd
  <2> HIDE DEF t, k
  <2>11. CASE t.str = "string"
    <3>1. received' <= received + 3
      BY <1>2, <2>1, <2>11 DEF Taken, Available, Collections
    <3>2. p = received + 1 \/ p = received + 2 \/ p = received + 3
      BY <1>2, <1>3, <3>1
    <3>3. QED
      BY <1>3, <2>8, <2>9, <2>10, <2>11, <3>2
  <2>12. CASE t.str \in Collections
    <3>1. received' <= received + 1
      BY <1>2, <2>1, <2>12 DEF Taken, Available, Collections
    <3>2. p = received + 1
      BY <1>2, <1>3, <3>1
    <3>3. SizeCmd[t.str] \notin {"SELECT", "TYPE"}
      BY <2>12, SizeCmdsCases
    <3>4. QED
      BY <1>3, <2>8, <2>9, <2>10, <2>12, <3>2, <3>3
  <2>13. QED
    BY <2>1, <2>3, <2>11, <2>12
<1>6. QED
  BY <1>4, <1>5

\* A question is answered with the truth of the moment, or with an error.
LEMMA ExecTruth ==
    ASSUME TypeInv, NEW c \in Commands, c.cmd # "SELECT"
    PROVE  LET r == ExecReply(c)
           IN  /\ r.db \in Dbs /\ r.arg \in Keys
               /\ \/ r.kind = "error"
                  \/ /\ r.kind = Answer(r.cmd, store[r.db][r.arg]).kind
                     /\ r.str = Answer(r.cmd, store[r.db][r.arg]).str
<1>1. c.arg \in Keys /\ selected \in Dbs
  BY DEF Commands, TypeInv
<1>2. ASSUME NEW a
      PROVE  /\ Reply(c, selected, a).cmd = c.cmd /\ Reply(c, selected, a).arg = c.arg
             /\ Reply(c, selected, a).db = selected
             /\ Reply(c, selected, a).kind = a.kind /\ Reply(c, selected, a).str = a.str
  BY DEF Reply
<1>3. Rejection.kind = "error"
  BY DEF Rejection
<1>4. CASE <<c.cmd, c.arg>> \in acl
  BY <1>1, <1>2, <1>3, <1>4 DEF ExecReply
<1>5. CASE <<c.cmd, c.arg>> \notin acl
  BY <1>1, <1>2, <1>5 DEF ExecReply
<1>6. QED
  BY <1>4, <1>5

\* A gathering that begins is a beginning of KeyGather.
LEMMA RefinesInit == Init => Gather!Init
<1> SUFFICES ASSUME Init PROVE Gather!Init
  OBVIOUS
<1>1. store \in [Dbs -> [Keys -> Values]]
  BY StoresAssumption DEF Init, ConnInit
<1>2. allKeys \in Seq(STRING \X Keys)
  BY InputsAssumption DEF Init
<1>3. KeyAnswers = {}
  <2>1. DOMAIN replies = {}
    BY DEF Init, ConnInit
  <2>2. QED
    BY <2>1 DEF KeyAnswers
<1>4. ~Rejected
  BY DEF Init, ConnInit, Rejected
<1>5. pc \notin {"done", "do", "end"} /\ metrics = <<>>
  BY DEF Init
<1>6. QED
  BY <1>1, <1>2, <1>3, <1>4, <1>5 DEF Gather!Init

\* The environment's steps: a question is answered, another client writes, answers are lost.
LEMMA RefinesEnvironment ==
    ASSUME IInv, Environment
    PROVE  Gather!Next \/ UNCHANGED Gather!vars
<1>1. TypeInv /\ replies \in Seq(ReplySet) /\ Len(replies) \in Nat /\ received \in 0 .. Len(replies)
  BY DEF IInv, TypeInv
<1>2. /\ UNCHANGED <<allKeys, metrics, pc, received>>
      /\ \A p \in 1 .. received : replies'[p] = replies[p]
  BY <1>1, EnvironmentFacts DEF exporterVars
<1>3. Rejected' = Rejected
  BY <1>2 DEF Rejected
<1>4. CASE ServerExec
  <2> DEFINE c == sent[Len(replies) + 1]
             r == ExecReply(c)
  <2>1. c \in Commands /\ replies' = Append(replies, r) /\ store' = store
    BY <1>1, <1>4 DEF ServerExec, TypeInv
  <2>2. r \in ReplySet /\ r.cmd = c.cmd
    BY <1>1, <2>1, ReplyFacts
  <2>3. /\ c.cmd # "SELECT" => r.db \in Dbs /\ r.arg \in Keys /\ Gather!Truth(r)
    BY <1>1, <2>1, ExecTruth DEF Gather!Truth
  <2> HIDE DEF c, r
  <2>4. /\ DOMAIN replies' = 1 .. Len(replies) + 1 /\ DOMAIN replies = 1 .. Len(replies)
        /\ replies'[Len(replies) + 1] = r
        /\ \A p \in 1 .. Len(replies) : replies'[p] = replies[p]
    BY <1>1, <2>1, <2>2
  <2>5. KeyAnswers \subseteq KeyAnswers'
    BY <1>1, <2>4 DEF KeyAnswers
  <2>6. \A a \in KeyAnswers' \ KeyAnswers : a = r /\ r.cmd # "SELECT"
    BY <1>1, <2>4 DEF KeyAnswers
  <2>7. Gather!Ask
    BY <1>2, <1>3, <2>1, <2>2, <2>3, <2>5, <2>6 DEF Gather!Ask
  <2>8. QED
    BY <2>7 DEF Gather!Next
<1>5. CASE OtherClient
  <2>1. KeyAnswers' = KeyAnswers
    BY <1>5 DEF OtherClient, KeyAnswers
  <2>2. Gather!Write
    BY <1>2, <1>3, <1>5, <2>1 DEF OtherClient, Gather!Write
  <2>3. QED
    BY <2>2 DEF Gather!Next
<1>6. CASE ConnLost
  <2>1. PICK n \in received .. Len(replies) : replies' = SubSeq(replies, 1, n)
    BY <1>6 DEF ConnLost
  <2>2. /\ DOMAIN replies' = 1 .. n /\ DOMAIN replies = 1 .. Len(replies) /\ n \in 0 .. Len(replies)
        /\ \A p \in 1 .. n : replies'[p] = replies[p] /\ p \in 1 .. Len(replies)
    BY <1>1, <2>1
  <2>3. KeyAnswers' \subseteq KeyAnswers
    BY <2>2 DEF KeyAnswers
  <2>4. Gather!Forget
    BY <1>2, <1>3, <1>6, <2>3 DEF ConnLost, Gather!Forget
  <2>5. QED
    BY <2>4 DEF Gather!Next
<1>7. QED
  BY <1>4, <1>5, <1>6 DEF Environment

\* Sending metrics is an Export, whose promise is what IInv and NoDuplicates say.
LEMMA RefinesExport ==
    ASSUME IInv, NoDuplicates', Exporter, metrics' # metrics
    PROVE  Gather!Export
<1>1. /\ TypeInv /\ Matched /\ (Sound => Aligned /\ InDb) /\ (Rejected \/ Known)
      /\ UNCHANGED <<store, allKeys, replies>>
  BY ExporterFacts DEF IInv
<1>2. /\ ReceiveType \/ ReceiveSize
      /\ metrics' \in Seq(MetricSet) /\ Len(metrics') \in Nat /\ Len(metrics') > Len(metrics)
      /\ \A i \in 1 .. Len(metrics) : metrics'[i] = metrics[i]
      /\ metrics \in Seq(MetricSet) /\ Len(metrics) \in Nat
  BY <1>1, ExportCases DEF TypeInv
<1>3. pc \notin {"done", "do", "end"} /\ pc' \notin {"done", "do", "end"}
  BY <1>2 DEF ReceiveType, ReceiveSize
<1>4. KeyAnswers' = KeyAnswers
  BY <1>1 DEF KeyAnswers
<1>5. Rejected' = Rejected
  <2>1. Rejected => Rejected'
    BY <1>1, SoundBefore
  <2>2. ~Rejected => ~Rejected'
    BY <1>2, NoNewRefusal
  <2>3. QED
    BY <2>1, <2>2 DEF Rejected
<1>6. SubSeq(metrics', 1, Len(metrics)) = metrics
  BY <1>2
<1>7. ASSUME NEW i \in Len(metrics) + 1 .. Len(metrics')
      PROVE  Rejected \/ Gather!Backed(metrics'[i])
  <2> SUFFICES ASSUME ~Rejected PROVE Gather!Backed(metrics'[i])
    OBVIOUS
  <2>1. Backs(metrics'[i])
    BY <1>1, <1>2, <1>7, ExportsBacked
  <2>2. metrics'[i] \in MetricSet
    BY <1>2, <1>7
  <2>3. metrics'[i].name \in MetricNames
    BY <2>2 DEF MetricSet
  <2>4. metrics'[i].from \in KeyAnswers
    <3>1. PICK p \in 1 .. Len(replies) : replies[p] = metrics'[i].from
      BY <2>1 DEF Backs
    <3>2. replies[p].cmd # "SELECT"
      BY <2>1, <2>3, <3>1, ValueCmdsFacts DEF Backs
    <3>3. p \in DOMAIN replies
      BY <1>1 DEF TypeInv
    <3>4. QED
      BY <3>1, <3>2, <3>3 DEF KeyAnswers
  <2>5. QED
    BY <2>1, <2>4 DEF Backs, Gather!Backed
<1>8. ASSUME NEW i \in Len(metrics) + 1 .. Len(metrics')
      PROVE  Cardinality({j \in DOMAIN metrics' : /\ metrics'[j].name = metrics'[i].name
                                                  /\ metrics'[j].db = metrics'[i].db
                                                  /\ metrics'[j].key = metrics'[i].key})
             <= Cardinality({j \in DOMAIN allKeys : allKeys[j] = <<metrics'[i].db, metrics'[i].key>>})
  <2>1. i \in DOMAIN metrics'
    BY <1>2
  <2>2. QED
    BY <1>1, <2>1 DEF NoDuplicates, Occurrences
<1>9. \A S : Gather!Cardinality(S) = Cardinality(S)
  BY DEF Gather!Cardinality, Cardinality
<1>10. \A i \in Len(metrics) + 1 .. Len(metrics') :
          /\ Rejected \/ Gather!Backed(metrics'[i])
          /\ Gather!Cardinality({j \in DOMAIN metrics' : /\ metrics'[j].name = metrics'[i].name
                                                        /\ metrics'[j].db = metrics'[i].db
                                                        /\ metrics'[j].key = metrics'[i].key})
             <= Gather!Cardinality({j \in DOMAIN allKeys :
                                       allKeys[j] = <<metrics'[i].db, metrics'[i].key>>})
  BY <1>7, <1>8, <1>9
<1>11. UNCHANGED <<store, allKeys, KeyAnswers, Rejected, pc \in {"done", "do", "end"}>>
  BY <1>1, <1>3, <1>4, <1>5
<1>12. ~(pc \in {"done", "do", "end"}) /\ Len(metrics') > Len(metrics)
  BY <1>2, <1>3
<1>13. QED
  BY <1>6, <1>10, <1>11, <1>12, Zenon DEF Gather!Export, Gather!Times

\* The exporter's other steps notice a refusal, finish, or cannot be seen.
LEMMA RefinesExporter ==
    ASSUME IInv, NoDuplicates', Exporter
    PROVE  Gather!Next \/ UNCHANGED Gather!vars
<1>1. TypeInv /\ UNCHANGED <<store, allKeys, replies>>
  BY ExporterFacts DEF IInv
<1>2. KeyAnswers' = KeyAnswers
  BY <1>1 DEF KeyAnswers
<1>3. CASE metrics' # metrics
  BY <1>3, RefinesExport DEF Gather!Next
<1>4. CASE metrics' = metrics /\ received' = received
  <2>1. Rejected' = Rejected
    BY <1>1, <1>4 DEF Rejected
  <2>2. (pc \in {"done", "do", "end"}) => (pc' \in {"done", "do", "end"})
    BY DEF Exporter, GroupKey, GroupDone, SendSelect, SendType, FlushTypes, ReceiveSelect,
           ReceiveType, TypesReceived, SendSize, FlushSizes, ReceiveSize, SizesReceived,
           LoopDone, NextDo, DoReturns
  <2>3. CASE pc' \in {"done", "do", "end"}
    <3>1. Gather!Finish
      BY <1>1, <1>2, <1>4, <2>1, <2>3 DEF Gather!Finish
    <3>2. QED
      BY <3>1 DEF Gather!Next
  <2>4. CASE pc' \notin {"done", "do", "end"}
    BY <1>1, <1>2, <1>4, <2>1, <2>2, <2>4 DEF Gather!vars
  <2>5. QED
    BY <2>3, <2>4
<1>5. CASE metrics' = metrics /\ received' # received
  <2>1. (pc \in {"done", "do", "end"}) = (pc' \in {"done", "do", "end"})
    BY <1>5 DEF Exporter, GroupKey, GroupDone, SendSelect, SendType, FlushTypes, ReceiveSelect,
           ReceiveType, TypesReceived, SendSize, FlushSizes, ReceiveSize, SizesReceived,
           LoopDone, NextDo, DoReturns
  <2>2. Rejected => Rejected'
    BY <1>1, SoundBefore
  <2>3. CASE Rejected'
    <3>1. Gather!Refuse
      BY <1>1, <1>2, <1>5, <2>1, <2>3 DEF Gather!Refuse
    <3>2. QED
      BY <3>1 DEF Gather!Next
  <2>4. CASE ~Rejected'
    <3>1. Rejected' = Rejected
      BY <2>2, <2>4 DEF Rejected
    <3>2. QED
      BY <1>1, <1>2, <1>5, <2>1, <3>1 DEF Gather!vars
  <2>5. QED
    BY <2>3, <2>4
<1>6. QED
  BY <1>3, <1>4, <1>5

\* The pipelined check implements KeyGather: each of its steps is a question answered, a write
\* by another client, answers lost, a refusal noticed, an export that keeps the promise, or the
\* end, and nothing else can be seen of it.
THEOREM Refinement == Spec => Implements
<1>1. Init => Gather!Init
  BY RefinesInit
<1>2. IInv /\ NoDuplicates' /\ [Next]_vars => [Gather!Next]_Gather!vars
  <2> SUFFICES ASSUME IInv, NoDuplicates', [Next]_vars
               PROVE  Gather!Next \/ UNCHANGED Gather!vars
    OBVIOUS
  <2>1. CASE UNCHANGED vars
    <3>1. KeyAnswers' = KeyAnswers /\ Rejected' = Rejected
      BY <2>1 DEF vars, connVars, KeyAnswers, Rejected
    <3>2. QED
      BY <2>1, <3>1 DEF vars, connVars, exporterVars, Gather!vars
  <2>2. QED
    BY <2>1, RefinesExporter, RefinesEnvironment DEF Next, Terminated
<1>3. QED
  BY <1>1, <1>2, Invariant, NoSeriesTwice, PTL DEF Spec, Implements, Gather!Spec
-----------------------------------------------------------------------------
(***************************************************************************)
(* Both paths agree.  On a store nobody writes to, a reply of the pipeline *)
(* says what the direct path would be told (Truthful), no type is missing  *)
(* (TypesKept), every key of the list is grouped and every group visited   *)
(* (Complete), and at any moment the metrics sent about a key are those    *)
(* parts of the direct path's that have been read (Told).                  *)
(***************************************************************************)
\* While nothing is lost, written by others or refused.
Quiet == alive /\ changes = 0 /\ ~Rejected

\* Reply r says what the direct path would be told.
SaysDo(r) == LET a == Do(r.cmd, r.db, r.arg) IN r.kind = a.kind /\ r.str = a.str

Truthful ==
    changes = 0 => \A p \in 1 .. Len(replies) : replies[p].cmd # "SELECT" => SaysDo(replies[p])

\* Every type that has been received is kept.
TypesKept ==
    Quiet =>
        /\ pc = "recvTypes" => \A i \in 1 .. idx - 1 : keyTypes[i] # NoReply
        /\ pc \in {"sendSizes", "recvSizes"} => \A i \in 1 .. NKeys : keyTypes[i] # NoReply

\* No key of the list is left out of the groups, and no group out of the loop.
Complete ==
    /\ \A j \in 1 .. Len(allKeys) :
          \/ \E i \in 1 .. Len(todo) : todo[i] = allKeys[j]
          \/ \E i \in 1 .. Len(keysByDb[allKeys[j][1]]) :
                keysByDb[allKeys[j][1]][i] = allKeys[j][2]
    /\ pc # "group" => todo = <<>>
    /\ alive /\ pc \in {"done", "do", "end"} => dbsLeft = {}

\* The first n keys of database d.
FirstKeys(d, n) == {keysByDb[d][i] : i \in 1 .. n}

\* The keys of database d whose memory usage, and whose size and value, were looked at.
Ahead(d) == pc = "group" \/ d \in dbsLeft

MemoryRead(d) ==
    IF Ahead(d) \/ (d = db /\ pc \in Sending) THEN {}
    ELSE FirstKeys(d, IF d = db /\ pc = "recvTypes" THEN idx - 1 ELSE Len(keysByDb[d]))

SizesRead(d) ==
    IF Ahead(d) \/ (d = db /\ pc \in Sending \cup {"recvTypes", "sendSizes"}) THEN {}
    ELSE FirstKeys(d, IF d = db /\ pc = "recvSizes" THEN idx - 1 ELSE Len(keysByDb[d]))

\* The two parts of what the direct path exports for a key.
MemoryPart(d, k) ==
    IF StringOk(Do("TYPE", d, k)) /\ Int64Ok(Do("MEMORY_USAGE", d, k))
    THEN {<<"key_memory_usage_bytes", "MEMORY_USAGE">>} ELSE {}

SizePart(d, k) ==
    IF StringOk(Do("TYPE", d, k)) THEN getKeyInfo(Do("TYPE", d, k).str, d, k) ELSE {}

Share(d, k) ==
    (IF k \in MemoryRead(d) THEN MemoryPart(d, k) ELSE {}) \cup
    (IF k \in SizesRead(d) THEN SizePart(d, k) ELSE {})

\* The names of the metrics s has about a key, with the commands their values are from.
PairsOf(s, d, k) ==
    {<<s[i].name, s[i].from.cmd>> : i \in {j \in DOMAIN s : s[j].db = d /\ s[j].key = k}}

\* Reply r answers command c about key k of the database at hand as Do would.
Tells(r, c, k) ==
    /\ r.cmd = c
    /\ r.kind = Do(c, db, k).kind /\ r.str = Do(c, db, k).str

Told == Quiet => \A d \in DbsOf(allKeys), k \in Keys : PairsOf(metrics, d, k) = Share(d, k)

\* What the direct path would be told depends on the contents and the permissions only.
LEMMA SameDo ==
    ASSUME UNCHANGED <<store, acl>>
    PROVE  /\ \A c, d, k : Do(c, d, k)' = Do(c, d, k)
           /\ \A r : SaysDo(r)' = SaysDo(r)
           /\ \A d, k : /\ MemoryPart(d, k)' = MemoryPart(d, k)
                        /\ SizePart(d, k)' = SizePart(d, k)
BY DEF Do, SaysDo, MemoryPart, SizePart, getKeyInfo, getStringInfoNotPipelined

\* The server answers a pipelined command as it would answer Do.
LEMMA ExecSaysDo ==
    ASSUME TypeInv, NEW c \in Commands, c.cmd # "SELECT"
    PROVE  SaysDo(ExecReply(c))
<1>1. ASSUME NEW a
      PROVE  /\ Reply(c, selected, a).cmd = c.cmd /\ Reply(c, selected, a).arg = c.arg
             /\ Reply(c, selected, a).db = selected
             /\ Reply(c, selected, a).kind = a.kind /\ Reply(c, selected, a).str = a.str
  BY DEF Reply
<1>2. ExecReply(c) = Reply(c, selected, Do(c.cmd, selected, c.arg))
  BY DEF ExecReply, Do
<1>3. QED
  BY <1>1, <1>2 DEF SaysDo

\* On a store nobody writes to, every reply is the one the direct path would get.
LEMMA TruthfulStep ==
    ASSUME TypeInv, Truthful, Exporter \/ Environment
    PROVE  Truthful'
<1> SUFFICES ASSUME changes' = 0, NEW p \in 1 .. Len(replies'), NEW r, r = replies'[p],
                    r.cmd # "SELECT"
             PROVE  SaysDo(r)'
  BY DEF Truthful, SaysDo
<1>1. replies \in Seq(ReplySet) /\ Len(replies) \in Nat /\ changes \in Nat /\ received \in Nat
  BY DEF TypeInv
<1>2. changes = 0 /\ UNCHANGED <<store, acl>>
  <2>1. ~OtherClient
    BY <1>1 DEF OtherClient
  <2>2. QED
    BY <2>1 DEF Exporter, Environment, ServerExec, ConnLost
<1>3. SUFFICES SaysDo(r)
  BY <1>2, SameDo
<1>4. \A q \in 1 .. Len(replies) : replies[q].cmd # "SELECT" => SaysDo(replies[q])
  BY <1>2 DEF Truthful
<1>5. CASE replies' = replies
  BY <1>4, <1>5
<1>6. CASE ServerExec
  <2> DEFINE c == sent[Len(replies) + 1]
  <2>1. c \in Commands /\ replies' = Append(replies, ExecReply(c))
    BY <1>6 DEF ServerExec, TypeInv
  <2>2. ExecReply(c) \in ReplySet /\ ExecReply(c).cmd = c.cmd
    BY <2>1, ReplyFacts
  <2>3. c.cmd # "SELECT" => SaysDo(ExecReply(c))
    BY <2>1, ExecSaysDo
  <2> HIDE DEF c
  <2>4. /\ \A q \in 1 .. Len(replies) : replies'[q] = replies[q]
        /\ replies'[Len(replies) + 1] = ExecReply(c) /\ Len(replies') = Len(replies) + 1
    BY <1>1, <2>1, <2>2
  <2>5. p \in 1 .. Len(replies) \/ p = Len(replies) + 1
    BY <1>1, <2>4
  <2>6. QED
    BY <1>4, <2>2, <2>3, <2>4, <2>5
<1>7. CASE ConnLost
  <2>1. PICK n \in received .. Len(replies) : replies' = SubSeq(replies, 1, n)
    BY <1>7 DEF ConnLost
  <2>2. Len(replies') = n /\ \A q \in 1 .. n : replies'[q] = replies[q]
    BY <1>1, <2>1
  <2>3. p \in 1 .. Len(replies)
    BY <1>1, <2>2
  <2>4. QED
    BY <1>4, <2>2, <2>3
<1>8. CASE OtherClient
  BY <1>5, <1>8 DEF OtherClient
<1>9. QED
  BY <1>5, <1>6, <1>7, <1>8 DEF Exporter, Environment

\* The grouping leaves no key out, and the loop no database.
LEMMA CompleteStep ==
    ASSUME TypeInv, Complete, Exporter \/ Environment
    PROVE  Complete'
<1>1. /\ allKeys' = allKeys /\ (alive' => alive) /\ changes \in Nat
      /\ todo \in Seq(DbsOf(allKeys) \X Keys) /\ keysByDb \in [DbsOf(allKeys) -> Seq(Keys)]
  BY EnvironmentFacts, ExporterFacts DEF TypeInv, exporterVars
<1>2. ASSUME NEW j \in 1 .. Len(allKeys), allKeys[j][1] \in DbsOf(allKeys)
      PROVE  \/ \E i \in 1 .. Len(todo') : todo'[i] = allKeys[j]
             \/ \E i \in 1 .. Len(keysByDb'[allKeys[j][1]]) :
                   keysByDb'[allKeys[j][1]][i] = allKeys[j][2]
  <2> DEFINE d == allKeys[j][1]
             k == allKeys[j][2]
  <2>1. \/ \E i \in 1 .. Len(todo) : todo[i] = allKeys[j]
        \/ \E i \in 1 .. Len(keysByDb[d]) : keysByDb[d][i] = k
    BY DEF Complete
  <2>2. CASE UNCHANGED <<todo, keysByDb>>
    BY <2>1, <2>2
  <2>3. CASE GroupKey
    <3> DEFINE e == Head(todo)[1]
               x == Head(todo)[2]
    <3>1. /\ todo # <<>> /\ todo' = Tail(todo)
          /\ keysByDb' = [keysByDb EXCEPT ![e] = Append(@, x)]
      BY <2>3 DEF GroupKey
    <3>2. /\ Len(todo) \in Nat \ {0} /\ Len(todo') = Len(todo) - 1 /\ Head(todo) = todo[1]
          /\ \A i \in 1 .. Len(todo') : todo'[i] = todo[i + 1]
      BY <1>1, <3>1
    <3>3. e \in DbsOf(allKeys) /\ x \in Keys
      BY <1>1, <3>2
    <3> HIDE DEF e, x
    <3>4. /\ keysByDb'[e] = Append(keysByDb[e], x)
          /\ \A f \in DbsOf(allKeys) : f # e => keysByDb'[f] = keysByDb[f]
      BY <1>1, <3>1, <3>3
    <3>5. /\ keysByDb[e] \in Seq(Keys) /\ Len(keysByDb[e]) \in Nat
          /\ Len(keysByDb'[e]) = Len(keysByDb[e]) + 1
          /\ keysByDb'[e][Len(keysByDb[e]) + 1] = x
          /\ \A i \in 1 .. Len(keysByDb[e]) : keysByDb'[e][i] = keysByDb[e][i]
      BY <1>1, <3>3, <3>4
    <3>6. ASSUME NEW i \in 1 .. Len(keysByDb[d]), keysByDb[d][i] = k
          PROVE  \E n \in 1 .. Len(keysByDb'[d]) : keysByDb'[d][n] = k
      <4>1. CASE d = e
        <5>1. i \in 1 .. Len(keysByDb'[d]) /\ keysByDb'[d][i] = k
          BY <3>5, <3>6, <4>1
        <5>2. QED
          BY <5>1
      <4>2. CASE d # e
        BY <1>2, <3>4, <3>6, <4>2
      <4>3. QED
        BY <4>1, <4>2
    <3>7. ASSUME NEW i \in 1 .. Len(todo), todo[i] = allKeys[j]
          PROVE  \/ \E n \in 1 .. Len(todo') : todo'[n] = allKeys[j]
                 \/ \E n \in 1 .. Len(keysByDb'[d]) : keysByDb'[d][n] = k
      <4>1. CASE i = 1
        <5>1. d = e /\ k = x
          BY <3>2, <3>7, <4>1 DEF e, x
        <5>2. Len(keysByDb[e]) + 1 \in 1 .. Len(keysByDb'[e])
          BY <3>5
        <5> HIDE DEF d, k
        <5>3. QED
          BY <3>5, <5>1, <5>2
      <4>2. CASE i # 1
        <5>1. i - 1 \in 1 .. Len(todo') /\ todo'[i - 1] = allKeys[j]
          BY <3>2, <3>7, <4>2
        <5>2. QED
          BY <5>1
      <4>3. QED
        BY <4>1, <4>2
    <3>8. QED
      BY <2>1, <3>6, <3>7
  <2>4. QED
    BY <2>2, <2>3 DEF Exporter, Environment, exporterVars, GroupDone, SendSelect, SendType,
                      FlushTypes, ReceiveSelect, ReceiveType, TypesReceived, SendSize, FlushSizes,
                      ReceiveSize, SizesReceived, LoopDone, NextDo, DoReturns
<1>3. \A j \in 1 .. Len(allKeys) : allKeys[j][1] \in DbsOf(allKeys)
  BY DEF TypeInv, DbsOf
<1>4. pc' # "group" => todo' = <<>>
  BY DEF Complete, Exporter, Environment, exporterVars, GroupKey, GroupDone, SendSelect,
         SendType, FlushTypes, ReceiveSelect, ReceiveType, TypesReceived, SendSize, FlushSizes,
         ReceiveSize, SizesReceived, LoopDone, NextDo, DoReturns
<1>5. ASSUME alive', pc' \in {"done", "do", "end"} PROVE dbsLeft' = {}
  BY <1>1, <1>5 DEF Complete, Exporter, Environment, exporterVars, GroupKey, GroupDone, SendSelect,
         SendType, FlushTypes, ReceiveSelect, ReceiveType, TypesReceived, SendSize, FlushSizes,
         ReceiveSize, SizesReceived, LoopDone, NextDo, DoReturns, WriteFails
<1>6. QED
  BY <1>1, <1>2, <1>3, <1>4, <1>5 DEF Complete

\* What is quiet was so before, and nothing the answers depend on has changed.
LEMMA QuietBefore ==
    ASSUME IInv, Exporter \/ Environment, Quiet'
    PROVE  /\ Quiet /\ Sound /\ Aligned /\ InDb /\ Known
           /\ UNCHANGED <<store, acl>>
           /\ ~broken /\ ~WriteFails
<1>1. TypeInv /\ Matched /\ (Sound => Aligned /\ InDb) /\ (Rejected \/ Known)
  BY DEF IInv
<1>2. alive /\ ~Rejected /\ changes \in Nat /\ alive' /\ changes' = 0
  <2>1. alive' /\ changes' = 0 /\ ~Rejected'
    BY DEF Quiet
  <2>2. ~Rejected
    BY <1>1, <2>1, SoundBefore
  <2>3. alive
    BY <1>1, <2>1, EnvironmentFacts, ExporterFacts
  <2>4. changes \in Nat
    BY <1>1 DEF TypeInv
  <2>5. QED
    BY <2>1, <2>2, <2>3, <2>4
<1>3. changes = 0 /\ UNCHANGED <<store, acl>>
  <2>1. ~OtherClient
    BY <1>2 DEF OtherClient
  <2>2. QED
    BY <1>2, <2>1 DEF Exporter, Environment, ServerExec, ConnLost
<1>4. ~broken /\ ~WriteFails /\ Sound
  BY <1>1, <1>2 DEF Matched, WriteFails, Sound, Stalled
<1>5. QED
  BY <1>1, <1>2, <1>3, <1>4 DEF Quiet

\* A reply that tells what Do would is usable when that one is.
LEMMA TellsOk ==
    ASSUME NEW r, NEW c, NEW k, Tells(r, c, k)
    PROVE  /\ StringOk(r) <=> StringOk(Do(c, db, k))
           /\ Int64Ok(r) <=> Int64Ok(Do(c, db, k))
BY DEF Tells, StringOk, Int64Ok

\* A reply at its place tells what Do would.
LEMMA TellsAt ==
    ASSUME IInv, Truthful, Quiet, pc \in Receiving, InDb, NEW c, NEW k, c # "SELECT",
           NEW n \in Nat \ {0}, received + n <= Len(replies), sent[received + n] = Cmd(c, k)
    PROVE  /\ Tells(replies[received + n], c, k)
           /\ replies[received + n].arg = k
<1>1. /\ received \in Nat /\ Len(replies) \in Nat /\ Matched
      /\ received + n \in 1 .. Len(replies) /\ received + n \in received + 1 .. Len(replies)
  BY DEF IInv, TypeInv
<1> DEFINE r == replies[received + n]
<1>2. r.cmd = c /\ r.arg = k
  <2>1. r.cmd = sent[received + n].cmd /\ r.arg = sent[received + n].arg
    BY <1>1 DEF Matched
  <2>2. QED
    BY <2>1, CmdFields
<1>3. r.db = db
  BY <1>1 DEF InDb
<1>4. SaysDo(r)
  BY <1>1, <1>2 DEF Truthful, Quiet
<1> HIDE DEF r
<1>5. Tells(r, c, k)
  BY <1>2, <1>3, <1>4 DEF Tells, SaysDo
<1>6. QED
  BY <1>2, <1>5 DEF r

\* Receiving a type and a memory usage: neither Receive fails, and the replies tell what Do would.
LEMMA TypeTells ==
    ASSUME IInv, Truthful, Quiet', Exporter, ReceiveType
    PROVE  LET k == arrayOfKeys[idx]
           IN  /\ StringOk(Pending(1)) /\ Tells(Pending(1), "TYPE", k)
               /\ Tells(Pending(2), "MEMORY_USAGE", k)
<1> DEFINE k == arrayOfKeys[idx]
<1>1. TypeInv /\ Matched /\ Quiet /\ Sound /\ Aligned /\ InDb /\ replies' = replies
  BY QuietBefore, ExporterFacts DEF IInv
<1>2. /\ pc = "recvTypes" /\ pc \in Receiving /\ idx \in 1 .. NKeys
      /\ received \in Nat /\ Len(replies) \in Nat /\ alive /\ ~Stalled
  BY <1>1, ReceiveTypeCases DEF ReceiveType, Receiving, TypeInv, Quiet, Sound
<1>3. TypesAt(received, idx)
  <2>1. TypesAt(received + 2 * (idx - idx), idx)
    BY <1>1, <1>2 DEF Aligned
  <2>2. received + 2 * (idx - idx) = received
    BY <1>2
  <2>3. QED
    BY <2>1, <2>2, Zenon
<1>4. sent[received + 1] = Cmd("TYPE", k) /\ sent[received + 2] = Cmd("MEMORY_USAGE", k)
  BY <1>3 DEF TypesAt
<1>5. sent[received + 1].cmd \in {"SELECT", "TYPE"}
  BY <1>4, CmdFields
<1>6. StringOk(Pending(1)) /\ Ready(2)
  <2>1. CASE ~StringOk(Pending(1)) /\ Ready(1) /\ received' = Taken(1)
    <3>1. Rejected'
      BY <1>1, <1>2, <1>5, <2>1, Refused
    <3>2. QED
      BY <3>1 DEF Quiet
  <2>2. QED
    BY <1>1, <2>1, ReceiveTypeCases
<1>7. /\ received + 1 <= Len(replies) /\ received + 2 <= Len(replies)
      /\ Pending(1) = replies[received + 1] /\ Pending(2) = replies[received + 2]
  BY <1>2, <1>6 DEF Ready, Available, Pending
<1> HIDE DEF k
<1>8. Tells(replies[received + 1], "TYPE", k)
  BY <1>1, <1>2, <1>4, <1>7, TellsAt
<1>9. Tells(replies[received + 2], "MEMORY_USAGE", k)
  BY <1>1, <1>2, <1>4, <1>7, TellsAt
<1>10. QED
  BY <1>6, <1>7, <1>8, <1>9 DEF k

\* Receiving a size or a value: the same.
LEMMA SizeTells ==
    ASSUME IInv, Truthful, TypesKept, Quiet', Exporter, ReceiveSize
    PROVE  LET k == arrayOfKeys[idx]
               t == keyTypes[idx]
           IN  /\ StringOk(t) /\ Tells(t, "TYPE", k)
               /\ t.str = "string" => /\ Tells(Pending(1), "PFCOUNT", k)
                                      /\ Tells(Pending(2), "STRLEN", k)
                                      /\ Tells(Pending(3), "GET", k)
               /\ t.str \in Collections => Tells(Pending(1), SizeCmd[t.str], k)
<1> DEFINE k == arrayOfKeys[idx]
           t == keyTypes[idx]
<1>1. TypeInv /\ Matched /\ Quiet /\ Sound /\ Aligned /\ InDb /\ Known
  BY QuietBefore DEF IInv
<1>2. /\ pc = "recvSizes" /\ pc \in Receiving /\ idx \in 1 .. NKeys
      /\ received \in 0 .. Len(replies) /\ Len(replies) \in Nat /\ alive
  BY <1>1, ReceiveSizeCases DEF ReceiveSize, Receiving, TypeInv, Quiet
<1>3. StringOk(t) /\ Tells(t, "TYPE", k)
  <2>1. KnownType(idx) /\ t # NoReply
    BY <1>1, <1>2 DEF Known, TypesKept
  <2>2. PICK p \in 1 .. received : replies[p] = t
    BY <2>1 DEF KnownType
  <2>3. t.cmd = "TYPE" /\ t.kind = "status" /\ t.arg = k /\ t.db = db
    BY <2>1 DEF KnownType
  <2>4. p \in 1 .. Len(replies)
    BY <1>2
  <2> HIDE DEF k, t
  <2>5. SaysDo(t)
    BY <1>1, <2>2, <2>3, <2>4 DEF Truthful, Quiet
  <2>6. QED
    BY <2>3, <2>5 DEF SaysDo, Tells, StringOk
<1>4. PICK off \in Offsets : off[idx] = received /\ \A i \in idx .. NKeys : Laid(off, i)
  BY <1>1, <1>2 DEF Aligned
<1>5. Laid(off, idx)
  BY <1>2, <1>4
<1>6. /\ t.str = "string" => /\ sent[received + 1] = Cmd("PFCOUNT", k)
                             /\ sent[received + 2] = Cmd("STRLEN", k)
                             /\ sent[received + 3] = Cmd("GET", k)
      /\ t.str \in Collections => sent[received + 1] = Cmd(SizeCmd[t.str], k)
  BY <1>1, <1>4, <1>5, SizeReplies
<1>7. /\ t.str = "string" => Ready(3)
      /\ t.str \in Collections => Ready(1)
  BY DEF ReceiveSize, keyType, Collections
<1> HIDE DEF k, t
<1>8. ASSUME t.str = "string"
      PROVE  /\ Tells(Pending(1), "PFCOUNT", k) /\ Tells(Pending(2), "STRLEN", k)
             /\ Tells(Pending(3), "GET", k)
  <2>1. \A n \in 1 .. 3 : received + n <= Len(replies) /\ Pending(n) = replies[received + n]
    BY <1>2, <1>7, <1>8 DEF Ready, Available, Pending
  <2>2. received + 1 <= Len(replies) /\ received + 2 <= Len(replies) /\ received + 3 <= Len(replies)
    BY <2>1
  <2>3. Tells(replies[received + 1], "PFCOUNT", k)
    BY <1>1, <1>2, <1>6, <1>8, <2>2, TellsAt
  <2>4. Tells(replies[received + 2], "STRLEN", k)
    BY <1>1, <1>2, <1>6, <1>8, <2>2, TellsAt
  <2>5. Tells(replies[received + 3], "GET", k)
    BY <1>1, <1>2, <1>6, <1>8, <2>2, TellsAt
  <2>6. QED
    BY <2>1, <2>3, <2>4, <2>5
<1>9. ASSUME t.str \in Collections PROVE Tells(Pending(1), SizeCmd[t.str], k)
  <2>1. received + 1 <= Len(replies) /\ Pending(1) = replies[received + 1]
    BY <1>2, <1>7, <1>9 DEF Ready, Available, Pending
  <2>2. SizeCmd[t.str] # "SELECT"
    BY <1>9, SizeCmdsCases
  <2>3. Tells(replies[received + 1], SizeCmd[t.str], k)
    BY <1>1, <1>2, <1>6, <1>9, <2>1, <2>2, TellsAt
  <2>4. QED
    BY <2>1, <2>3
<1>10. QED
  BY <1>3, <1>8, <1>9 DEF k, t

\* While all is quiet no type is missing.
LEMMA TypesKeptStep ==
    ASSUME IInv, Truthful, TypesKept, Exporter \/ Environment
    PROVE  TypesKept'
<1> SUFFICES ASSUME Quiet'
             PROVE  /\ pc' = "recvTypes" => \A i \in 1 .. idx' - 1 : keyTypes'[i] # NoReply
                    /\ pc' \in {"sendSizes", "recvSizes"} =>
                          \A i \in 1 .. NKeys' : keyTypes'[i] # NoReply
  BY DEF TypesKept
<1>1. TypeInv /\ Quiet /\ ~WriteFails
  BY QuietBefore DEF IInv
<1>2. /\ pc = "recvTypes" => \A i \in 1 .. idx - 1 : keyTypes[i] # NoReply
      /\ pc \in {"sendSizes", "recvSizes"} => \A i \in 1 .. NKeys : keyTypes[i] # NoReply
  BY <1>1 DEF TypesKept
<1>3. ASSUME UNCHANGED <<keysByDb, db>> PROVE NKeys' = NKeys
  BY <1>3 DEF NKeys, arrayOfKeys
<1>4. CASE Environment
  BY <1>2, <1>3, <1>4 DEF Environment, exporterVars
<1>5. CASE SendSize \/ FlushSizes \/ ReceiveSize
  <2>1. UNCHANGED <<keysByDb, db, keyTypes>> /\ pc \in {"sendSizes", "recvSizes"} /\ pc' # "recvTypes"
    BY <1>5 DEF SendSize, FlushSizes, ReceiveSize
  <2>2. QED
    BY <1>2, <1>3, <2>1
<1>6. CASE TypesReceived
  <2>1. /\ UNCHANGED <<keysByDb, db, keyTypes>> /\ pc = "recvTypes" /\ pc' = "sendSizes"
        /\ idx > NKeys /\ idx \in Nat /\ NKeys \in Nat
    BY <1>1, <1>6, BatchFacts DEF TypesReceived, TypeInv, Batch, Receiving
  <2>2. QED
    BY <1>2, <1>3, <2>1
<1>7. CASE ReceiveSelect
  <2>1. pc' = "loop" \/ (pc' = "recvTypes" /\ idx' = 1)
    BY <1>7 DEF ReceiveSelect
  <2>2. QED
    BY <2>1
<1>8. CASE ReceiveType /\ Exporter
  <2>1. /\ pc = "recvTypes" /\ pc' = pc /\ idx \in 1 .. NKeys /\ idx' = idx + 1
        /\ keyTypes' = [keyTypes EXCEPT ![idx] = IF StringOk(Pending(1)) THEN Pending(1) ELSE NoReply]
        /\ keyTypes \in [1 .. NKeys -> ReplySet] /\ NKeys \in Nat
    BY <1>1, <1>8, ReceiveTypeCases, BatchFacts DEF ReceiveType, TypeInv, Receiving
  <2>2. StringOk(Pending(1)) /\ ~StringOk(NoReply)
    BY <1>8, TypeTells DEF StringOk, NoReply
  <2>3. keyTypes'[idx] # NoReply /\ \A i \in 1 .. idx - 1 : keyTypes'[i] = keyTypes[i]
    BY <2>1, <2>2
  <2>4. \A i \in 1 .. idx' - 1 : i = idx \/ i \in 1 .. idx - 1
    BY <2>1
  <2>5. QED
    BY <1>2, <2>1, <2>3, <2>4
<1>9. CASE \/ GroupKey \/ GroupDone \/ SendSelect \/ SendType \/ FlushTypes
           \/ SizesReceived \/ LoopDone \/ NextDo \/ DoReturns
  <2>1. pc' \notin {"recvTypes", "sendSizes", "recvSizes"}
    BY <1>9 DEF GroupKey, GroupDone, SendSelect, SendType, FlushTypes, SizesReceived, LoopDone,
                NextDo, DoReturns
  <2>2. QED
    BY <2>1
<1>10. QED
  BY <1>4, <1>5, <1>6, <1>7, <1>8, <1>9 DEF Exporter

\* A metric adds its own pair.
LEMMA PairsAppend ==
    ASSUME NEW s \in Seq(MetricSet), NEW a \in MetricSet, NEW d, NEW k
    PROVE  PairsOf(Append(s, a), d, k)
             = PairsOf(s, d, k) \cup
               (IF a.db = d /\ a.key = k THEN {<<a.name, a.from.cmd>>} ELSE {})
<1> DEFINE t == Append(s, a)
           Pair(m) == <<m.name, m.from.cmd>>
<1>1. /\ Len(s) \in Nat /\ DOMAIN s = 1 .. Len(s) /\ DOMAIN t = 1 .. Len(s) + 1
      /\ \A i \in 1 .. Len(s) : t[i] = s[i]
      /\ t[Len(s) + 1] = a
  OBVIOUS
<1> HIDE DEF t, Pair
<1>2. \A i \in DOMAIN t : i \in DOMAIN s \/ i = Len(s) + 1
  BY <1>1
<1>3. \A i \in DOMAIN s : i \in DOMAIN t /\ t[i] = s[i]
  BY <1>1
<1>4. Len(s) + 1 \in DOMAIN t /\ t[Len(s) + 1] = a
  BY <1>1
<1>5. ASSUME NEW u
      PROVE  {Pair(u[i]) : i \in {j \in DOMAIN u : u[j].db = d /\ u[j].key = k}} = PairsOf(u, d, k)
  BY DEF PairsOf, Pair
<1> DEFINE P(u) == {Pair(u[i]) : i \in {j \in DOMAIN u : u[j].db = d /\ u[j].key = k}}
<1>6. P(t) = P(s) \cup (IF a.db = d /\ a.key = k THEN {Pair(a)} ELSE {})
  <2>1. ASSUME NEW q \in P(t)
        PROVE  q \in P(s) \cup (IF a.db = d /\ a.key = k THEN {Pair(a)} ELSE {})
    BY <1>2, <1>3, <1>4, <2>1
  <2>2. P(s) \subseteq P(t)
    BY <1>3
  <2>3. a.db = d /\ a.key = k => Pair(a) \in P(t)
    BY <1>4
  <2> HIDE DEF P
  <2>4. QED
    BY <2>1, <2>2, <2>3
<1>7. QED
  BY <1>5, <1>6 DEF t, Pair

\* The sizes and values the direct path exports for a key that has a type.
LEMMA SizePartCases ==
    ASSUME NEW k, NEW t, StringOk(t), Tells(t, "TYPE", k)
    PROVE  /\ t.str = "none" => SizePart(db, k) = {<<"key_size", "TYPE">>}
           /\ t.str = "string" => SizePart(db, k) = getStringInfoNotPipelined(db, k)
           /\ t.str \in Collections =>
                 SizePart(db, k) = IF Int64Ok(Do(SizeCmd[t.str], db, k))
                                   THEN {<<"key_size", SizeCmd[t.str]>>} ELSE {}
           /\ t.str \notin Collections \cup {"none", "string"} => SizePart(db, k) = {}
<1>1. SizePart(db, k) = getKeyInfo(t.str, db, k)
  <2>1. StringOk(Do("TYPE", db, k))
    BY TellsOk
  <2>2. QED
    BY <2>1 DEF SizePart, Tells
<1>2. /\ "none" \notin Collections /\ "string" \notin Collections
  BY DEF Collections
<1>3. ASSUME t.str = "none" PROVE SizePart(db, k) = {<<"key_size", "TYPE">>}
  BY <1>1, <1>2, <1>3 DEF getKeyInfo
<1>4. ASSUME t.str = "string" PROVE SizePart(db, k) = getStringInfoNotPipelined(db, k)
  BY <1>1, <1>2, <1>4 DEF getKeyInfo
<1>5. ASSUME t.str \in Collections
      PROVE  SizePart(db, k) = IF Int64Ok(Do(SizeCmd[t.str], db, k))
                               THEN {<<"key_size", SizeCmd[t.str]>>} ELSE {}
  BY <1>1, <1>2, <1>5 DEF getKeyInfo
<1>6. ASSUME t.str \notin Collections \cup {"none", "string"} PROVE SizePart(db, k) = {}
  BY <1>1, <1>6 DEF getKeyInfo
<1>7. QED
  BY <1>3, <1>4, <1>5, <1>6

\* Step adds the pairs N to those of key k of the database at hand.
Adds(k, N) ==
    \A d \in DbsOf(allKeys), x \in Keys :
        PairsOf(metrics', d, x)
            = PairsOf(metrics, d, x) \cup (IF d = db /\ x = k THEN N ELSE {})

\* No metric, one or two.
LEMMA AddsCases ==
    ASSUME TypeInv, NEW k \in Keys, pc \in Batch
    PROVE  /\ metrics' = metrics => Adds(k, {})
           /\ \A n \in MetricNames, r \in ReplySet :
                 metrics' = Append(metrics, Metric(n, k, r)) => Adds(k, {<<n, r.cmd>>})
           /\ \A n, o \in MetricNames, r, q \in ReplySet :
                 metrics' = Append(Append(metrics, Metric(n, k, r)), Metric(o, k, q))
                     => Adds(k, {<<n, r.cmd>>, <<o, q.cmd>>})
<1>1. metrics \in Seq(MetricSet)
  BY DEF TypeInv
<1>2. ASSUME NEW n \in MetricNames, NEW r \in ReplySet
      PROVE  /\ Metric(n, k, r) \in MetricSet
             /\ Metric(n, k, r).db = db /\ Metric(n, k, r).key = k
             /\ Metric(n, k, r).name = n /\ Metric(n, k, r).from.cmd = r.cmd
  BY RecordTypes DEF Metric
<1>3. ASSUME NEW s \in Seq(MetricSet), NEW n \in MetricNames, NEW r \in ReplySet, NEW d, NEW x
      PROVE  PairsOf(Append(s, Metric(n, k, r)), d, x)
               = PairsOf(s, d, x) \cup (IF d = db /\ x = k THEN {<<n, r.cmd>>} ELSE {})
  <2> DEFINE a == Metric(n, k, r)
  <2>1. a \in MetricSet /\ a.db = db /\ a.key = k /\ a.name = n /\ a.from.cmd = r.cmd
    BY <1>2
  <2> HIDE DEF a
  <2>2. PairsOf(Append(s, a), d, x)
          = PairsOf(s, d, x) \cup (IF a.db = d /\ a.key = x THEN {<<a.name, a.from.cmd>>} ELSE {})
    BY <2>1, PairsAppend
  <2>3. QED
    BY <2>1, <2>2 DEF a
<1>4. metrics' = metrics => Adds(k, {})
  BY DEF Adds
<1>5. ASSUME NEW n \in MetricNames, NEW r \in ReplySet, metrics' = Append(metrics, Metric(n, k, r))
      PROVE  Adds(k, {<<n, r.cmd>>})
  BY <1>1, <1>3, <1>5 DEF Adds
<1>6. ASSUME NEW n \in MetricNames, NEW o \in MetricNames, NEW r \in ReplySet, NEW q \in ReplySet,
             metrics' = Append(Append(metrics, Metric(n, k, r)), Metric(o, k, q))
      PROVE  Adds(k, {<<n, r.cmd>>, <<o, q.cmd>>})
  <2> DEFINE s == Append(metrics, Metric(n, k, r))
  <2>1. s \in Seq(MetricSet)
    BY <1>1, <1>2, AppendProperties
  <2>2. \A d, x : PairsOf(s, d, x)
                    = PairsOf(metrics, d, x) \cup (IF d = db /\ x = k THEN {<<n, r.cmd>>} ELSE {})
    BY <1>1, <1>3
  <2> HIDE DEF s
  <2>3. \A d, x : PairsOf(Append(s, Metric(o, k, q)), d, x)
                    = PairsOf(s, d, x) \cup (IF d = db /\ x = k THEN {<<o, q.cmd>>} ELSE {})
    BY <1>3, <2>1
  <2>4. metrics' = Append(s, Metric(o, k, q))
    BY <1>6 DEF s
  <2>5. QED
    BY <2>2, <2>3, <2>4 DEF Adds
<1>7. QED
  BY <1>4, <1>5, <1>6

\* The memory usage of a key is exported as the direct path does it.
LEMMA TypeAdds ==
    ASSUME IInv, Truthful, Quiet', Exporter, ReceiveType
    PROVE  Adds(arrayOfKeys[idx], MemoryPart(db, arrayOfKeys[idx]))
<1> DEFINE k == arrayOfKeys[idx]
           m == Pending(2)
<1>1. /\ StringOk(Pending(1)) /\ Tells(Pending(1), "TYPE", k) /\ Tells(m, "MEMORY_USAGE", k)
  BY TypeTells
<1>2. TypeInv /\ pc \in Batch /\ k \in Keys /\ m \in ReplySet
  BY ReceiveTypeCases DEF IInv
<1>3. metrics' = IF Int64Ok(m) THEN Append(metrics, Metric("key_memory_usage_bytes", k, m))
                 ELSE metrics
  BY <1>1 DEF ReceiveType
<1>4. StringOk(Do("TYPE", db, k)) /\ m.cmd = "MEMORY_USAGE"
      /\ (Int64Ok(m) <=> Int64Ok(Do("MEMORY_USAGE", db, k)))
  <2>1. StringOk(Do("TYPE", db, k))
    BY <1>1, TellsOk
  <2>2. Int64Ok(m) <=> Int64Ok(Do("MEMORY_USAGE", db, k))
    BY <1>1, TellsOk
  <2>3. QED
    BY <1>1, <2>1, <2>2 DEF Tells
<1>5. "key_memory_usage_bytes" \in MetricNames
  BY DEF MetricNames
<1> HIDE DEF k, m
<1>6. CASE Int64Ok(m)
  <2>1. MemoryPart(db, k) = {<<"key_memory_usage_bytes", m.cmd>>}
    BY <1>4, <1>6 DEF MemoryPart
  <2>2. Adds(k, {<<"key_memory_usage_bytes", m.cmd>>})
    BY <1>2, <1>3, <1>5, <1>6, AddsCases
  <2>3. QED
    BY <2>1, <2>2 DEF k
<1>7. CASE ~Int64Ok(m)
  <2>1. MemoryPart(db, k) = {} /\ Adds(k, {})
    BY <1>2, <1>3, <1>4, <1>7, AddsCases DEF MemoryPart
  <2>2. QED
    BY <2>1 DEF k
<1>8. QED
  BY <1>6, <1>7

\* So are its size and its value.
LEMMA SizeAdds ==
    ASSUME IInv, Truthful, TypesKept, Quiet', Exporter, ReceiveSize
    PROVE  Adds(arrayOfKeys[idx], SizePart(db, arrayOfKeys[idx]))
<1> DEFINE k == arrayOfKeys[idx]
           t == keyTypes[idx]
           h == Pending(1)
           s == Pending(2)
           g == Pending(3)
<1>1. /\ StringOk(t) /\ Tells(t, "TYPE", k)
      /\ t.str = "string" => Tells(h, "PFCOUNT", k) /\ Tells(s, "STRLEN", k) /\ Tells(g, "GET", k)
      /\ t.str \in Collections => Tells(h, SizeCmd[t.str], k)
  BY SizeTells
<1>2. /\ TypeInv /\ pc \in Batch /\ k \in Keys /\ t \in ReplySet /\ metrics \in Seq(MetricSet)
      /\ h \in ReplySet /\ s \in ReplySet /\ g \in ReplySet
  <2>1. TypeInv
    BY DEF IInv
  <2>2. pc \in Batch /\ k \in Keys /\ t \in ReplySet
    BY <2>1, ReceiveSizeCases
  <2>3. h \in ReplySet /\ s \in ReplySet /\ g \in ReplySet
    BY <2>1, ReceiveFacts
  <2>4. metrics \in Seq(MetricSet)
    BY <2>1 DEF TypeInv
  <2>5. QED
    BY <2>1, <2>2, <2>3, <2>4
<1>3. {"key_size", "key_value", "key_value_as_string"} \subseteq MetricNames
  BY DEF MetricNames
<1>4. \/ t.str = "none" /\ metrics' = Append(metrics, Metric("key_size", k, t))
      \/ t.str = "string" /\ metrics' = metrics \o StringMetrics(k, h, s, g)
      \/ /\ t.str \in Collections
         /\ metrics' = IF Int64Ok(h) THEN Append(metrics, Metric("key_size", k, h)) ELSE metrics
      \/ t.str \notin Collections \cup {"none", "string"} /\ metrics' = metrics
  BY DEF ReceiveSize, keyType
<1>5. /\ t.str = "none" => SizePart(db, k) = {<<"key_size", "TYPE">>}
      /\ t.str = "string" => SizePart(db, k) = getStringInfoNotPipelined(db, k)
      /\ t.str \in Collections =>
            SizePart(db, k) = IF Int64Ok(Do(SizeCmd[t.str], db, k))
                              THEN {<<"key_size", SizeCmd[t.str]>>} ELSE {}
      /\ t.str \notin Collections \cup {"none", "string"} => SizePart(db, k) = {}
  BY <1>1, SizePartCases
<1> SUFFICES Adds(k, SizePart(db, k))
  BY DEF k
<1>6. \A n \in {"key_size", "key_value", "key_value_as_string"}, r \in ReplySet :
         Metric(n, k, r) \in MetricSet
  BY <1>2, <1>3, RecordTypes
<1> HIDE DEF k, t, h, s, g
<1>7. CASE t.str = "none" /\ metrics' = Append(metrics, Metric("key_size", k, t))
  <2>1. t.cmd = "TYPE" /\ Adds(k, {<<"key_size", t.cmd>>})
    BY <1>1, <1>2, <1>3, <1>7, AddsCases DEF Tells
  <2>2. QED
    BY <1>5, <1>7, <2>1
<1>8. CASE t.str = "string" /\ metrics' = metrics \o StringMetrics(k, h, s, g)
  <2>1. /\ h.cmd = "PFCOUNT" /\ s.cmd = "STRLEN" /\ g.cmd = "GET"
        /\ g.str = Do("GET", db, k).str
    BY <1>1, <1>8 DEF Tells
  <2>2. /\ Int64Ok(h) <=> Int64Ok(Do("PFCOUNT", db, k))
        /\ Int64Ok(s) <=> Int64Ok(Do("STRLEN", db, k))
        /\ StringOk(g) <=> StringOk(Do("GET", db, k))
    BY <1>1, <1>8, TellsOk
  <2> DEFINE Valued == ~DisableExportingKeyValues /\ StringOk(g) /\ g.str # "empty"
             name == IF g.str = "number" THEN "key_value" ELSE "key_value_as_string"
  <2>3. SizePart(db, k) = IF Int64Ok(h) THEN {<<"key_size", "PFCOUNT">>}
                          ELSE IF Int64Ok(s)
                          THEN {<<"key_size", "STRLEN">>} \cup
                               (IF Valued THEN {<<name, "GET">>} ELSE {})
                          ELSE {}
    BY <1>5, <1>8, <2>1, <2>2 DEF getStringInfoNotPipelined
  <2>4. ValueMetric(k, g) = IF Valued THEN <<Metric(name, k, g)>> ELSE <<>>
    BY DEF ValueMetric
  <2>5. name \in {"key_value", "key_value_as_string"}
    OBVIOUS
  <2> HIDE DEF Valued, name
  <2>6. CASE Int64Ok(h)
    <3>1. metrics' = Append(metrics, Metric("key_size", k, h))
      <4>1. StringMetrics(k, h, s, g) = <<Metric("key_size", k, h)>>
        BY <2>6 DEF StringMetrics
      <4>2. Metric("key_size", k, h) \in MetricSet
        BY <1>2, <1>6
      <4>3. QED
        BY <1>2, <1>8, <4>1, <4>2, Grow
    <3>2. Adds(k, {<<"key_size", h.cmd>>})
      BY <1>2, <1>3, <3>1, AddsCases
    <3>3. QED
      BY <2>1, <2>3, <2>6, <3>2
  <2>7. CASE ~Int64Ok(h) /\ Int64Ok(s) /\ Valued
    <3>1. metrics' = Append(Append(metrics, Metric(name, k, g)), Metric("key_size", k, s))
      <4>1. StringMetrics(k, h, s, g) = Append(<<Metric(name, k, g)>>, Metric("key_size", k, s))
        BY <2>4, <2>7 DEF StringMetrics
      <4>2. Metric("key_size", k, s) \in MetricSet /\ Metric(name, k, g) \in MetricSet
        BY <1>2, <1>6, <2>5
      <4>3. QED
        BY <1>2, <1>8, <4>1, <4>2, Grow
    <3>2. Adds(k, {<<name, g.cmd>>, <<"key_size", s.cmd>>})
      BY <1>2, <1>3, <2>5, <3>1, AddsCases
    <3>3. SizePart(db, k) = {<<name, g.cmd>>, <<"key_size", s.cmd>>}
      BY <2>1, <2>3, <2>7
    <3>4. QED
      BY <3>2, <3>3
  <2>8. CASE ~Int64Ok(h) /\ Int64Ok(s) /\ ~Valued
    <3>1. metrics' = Append(metrics, Metric("key_size", k, s))
      <4>1. StringMetrics(k, h, s, g) = Append(<<>>, Metric("key_size", k, s))
        BY <2>4, <2>8 DEF StringMetrics
      <4>2. Metric("key_size", k, s) \in MetricSet
        BY <1>2, <1>6
      <4>3. Append(<<>>, Metric("key_size", k, s)) = <<Metric("key_size", k, s)>>
        BY <4>2
      <4>4. QED
        BY <1>2, <1>8, <4>1, <4>2, <4>3, Grow
    <3>2. Adds(k, {<<"key_size", s.cmd>>})
      BY <1>2, <1>3, <3>1, AddsCases
    <3>3. SizePart(db, k) = {<<"key_size", s.cmd>>}
      BY <2>1, <2>3, <2>8
    <3>4. QED
      BY <3>2, <3>3
  <2>9. CASE ~Int64Ok(h) /\ ~Int64Ok(s)
    <3>1. StringMetrics(k, h, s, g) = <<>> /\ SizePart(db, k) = {}
      BY <2>3, <2>9 DEF StringMetrics
    <3>2. metrics' = metrics
      BY <1>2, <1>8, <3>1, ConcatEmptySeq
    <3>3. QED
      BY <1>2, <3>1, <3>2, AddsCases
  <2>10. QED
    BY <2>6, <2>7, <2>8, <2>9
<1>9. CASE /\ t.str \in Collections
           /\ metrics' = IF Int64Ok(h) THEN Append(metrics, Metric("key_size", k, h)) ELSE metrics
  <2>1. h.cmd = SizeCmd[t.str]
    BY <1>1, <1>9 DEF Tells
  <2>2. Int64Ok(h) <=> Int64Ok(Do(SizeCmd[t.str], db, k))
    BY <1>1, <1>9, TellsOk
  <2>3. SizePart(db, k) = IF Int64Ok(h) THEN {<<"key_size", h.cmd>>} ELSE {}
    BY <1>5, <1>9, <2>1, <2>2
  <2>4. CASE Int64Ok(h)
    BY <1>2, <1>3, <1>9, <2>3, <2>4, AddsCases
  <2>5. CASE ~Int64Ok(h)
    BY <1>2, <1>9, <2>3, <2>5, AddsCases
  <2>6. QED
    BY <2>4, <2>5
<1>10. CASE t.str \notin Collections \cup {"none", "string"} /\ metrics' = metrics
  BY <1>2, <1>5, <1>10, AddsCases
<1>11. QED
  BY <1>4, <1>7, <1>8, <1>9, <1>10

\* One key more.
LEMMA FirstKeysFacts ==
    ASSUME NEW d
    PROVE  /\ FirstKeys(d, 0) = {}
           /\ \A n \in Nat \ {0} : FirstKeys(d, n) = FirstKeys(d, n - 1) \cup {keysByDb[d][n]}
<1>1. 1 .. 0 = {}
  OBVIOUS
<1>2. ASSUME NEW n \in Nat \ {0} PROVE 1 .. n = (1 .. n - 1) \cup {n}
  OBVIOUS
<1>3. ASSUME NEW n \in Nat \ {0}
      PROVE  FirstKeys(d, n) = FirstKeys(d, n - 1) \cup {keysByDb[d][n]}
  <2> DEFINE I == 1 .. n
             J == 1 .. n - 1
  <2>1. I = J \cup {n}
    BY <1>2
  <2> HIDE DEF I, J
  <2>2. {keysByDb[d][i] : i \in I} = {keysByDb[d][i] : i \in J} \cup {keysByDb[d][n]}
    BY <2>1
  <2>3. QED
    BY <2>2 DEF FirstKeys, I, J
<1>4. QED
  BY <1>1, <1>3 DEF FirstKeys

\* Which keys a step reads: one memory usage, one size and value, or none.
LEMMA ReadStep ==
    ASSUME IInv, Once, Quiet', Exporter \/ Environment
    PROVE  \A d \in DbsOf(allKeys) :
              /\ MemoryRead(d)' = MemoryRead(d) \cup
                                  (IF ReceiveType /\ d = db THEN {arrayOfKeys[idx]} ELSE {})
              /\ SizesRead(d)' = SizesRead(d) \cup
                                 (IF ReceiveSize /\ d = db THEN {arrayOfKeys[idx]} ELSE {})
<1> USE DEF Ahead
<1>1. /\ TypeInv /\ Matched /\ Quiet /\ Aligned /\ ~Stalled /\ ~WriteFails
      /\ pc \in Batch => db \notin dbsLeft
  BY QuietBefore DEF IInv, Once, Sound
<1> TAKE d \in DbsOf(allKeys)
<1> DEFINE k == arrayOfKeys[idx]
<1>2. /\ FirstKeys(d, 0) = {}
      /\ \A n \in Nat \ {0} : FirstKeys(d, n) = FirstKeys(d, n - 1) \cup {keysByDb[d][n]}
      /\ keysByDb' = keysByDb => \A n : FirstKeys(d, n)' = FirstKeys(d, n)
  BY FirstKeysFacts DEF FirstKeys
<1>3. ASSUME ReceiveType \/ ReceiveSize
      PROVE  /\ pc = IF ReceiveType THEN "recvTypes" ELSE "recvSizes"
             /\ idx \in Nat \ {0} /\ idx' = idx + 1 /\ db \notin dbsLeft
             /\ UNCHANGED <<pc, keysByDb, db, dbsLeft>>
  <2>1. /\ pc \in {"recvTypes", "recvSizes"} /\ pc \in Batch
        /\ pc = IF ReceiveType THEN "recvTypes" ELSE "recvSizes"
        /\ idx' = idx + 1 /\ UNCHANGED <<pc, keysByDb, db, dbsLeft>>
    BY <1>3 DEF ReceiveType, ReceiveSize, Batch, Receiving
  <2>2. idx \in 1 .. NKeys + 1 /\ NKeys \in Nat
    BY <1>1, <2>1, BatchFacts
  <2>3. QED
    BY <1>1, <2>1, <2>2
<1>4. ASSUME ReceiveType
      PROVE  /\ ~ReceiveSize
             /\ MemoryRead(d)' = MemoryRead(d) \cup (IF d = db THEN {k} ELSE {})
             /\ SizesRead(d)' = SizesRead(d)
  <2>1. /\ pc = "recvTypes" /\ idx \in Nat \ {0} /\ idx' = idx + 1 /\ db \notin dbsLeft
        /\ UNCHANGED <<pc, keysByDb, db, dbsLeft>> /\ ~ReceiveSize /\ idx' - 1 = idx
    BY <1>3, <1>4 DEF ReceiveSize
  <2>2. SizesRead(d)' = SizesRead(d)
    BY <1>2, <2>1 DEF SizesRead
  <2>3. CASE d = db
    <3>1. MemoryRead(d) = FirstKeys(d, idx - 1) /\ MemoryRead(d)' = FirstKeys(d, idx)
      BY <1>2, <2>1, <2>3 DEF MemoryRead, Sending
    <3>2. QED
      BY <1>2, <2>1, <2>2, <2>3, <3>1 DEF arrayOfKeys
  <2>4. CASE d # db
    BY <1>2, <2>1, <2>2, <2>4 DEF MemoryRead
  <2>5. QED
    BY <2>3, <2>4
<1>5. ASSUME ReceiveSize
      PROVE  /\ ~ReceiveType
             /\ SizesRead(d)' = SizesRead(d) \cup (IF d = db THEN {k} ELSE {})
             /\ MemoryRead(d)' = MemoryRead(d)
  <2>1. ~ReceiveType
    BY <1>5 DEF ReceiveType, ReceiveSize
  <2>2. /\ pc = "recvSizes" /\ idx \in Nat \ {0} /\ idx' = idx + 1 /\ db \notin dbsLeft
        /\ UNCHANGED <<pc, keysByDb, db, dbsLeft>> /\ idx' - 1 = idx
    BY <1>3, <1>5, <2>1
  <2>3. MemoryRead(d)' = MemoryRead(d)
    BY <1>2, <2>2 DEF MemoryRead
  <2>4. CASE d = db
    <3>1. SizesRead(d) = FirstKeys(d, idx - 1) /\ SizesRead(d)' = FirstKeys(d, idx)
      BY <1>2, <2>2, <2>4 DEF SizesRead, Sending
    <3>2. QED
      BY <1>2, <2>1, <2>2, <2>3, <2>4, <3>1 DEF arrayOfKeys
  <2>5. CASE d # db
    BY <1>2, <2>1, <2>2, <2>3, <2>5 DEF SizesRead
  <2>6. QED
    BY <2>4, <2>5
<1>6. ASSUME ~ReceiveType, ~ReceiveSize
      PROVE  MemoryRead(d)' = MemoryRead(d) /\ SizesRead(d)' = SizesRead(d)
  <2> USE DEF Sending
  <2>1. CASE Environment
    <3>1. UNCHANGED <<pc, keysByDb, db, dbsLeft, idx>>
      BY <2>1 DEF Environment, exporterVars
    <3>2. QED
      BY <1>2, <3>1 DEF MemoryRead, SizesRead
  <2>2. CASE GroupKey
    BY <2>2 DEF GroupKey, MemoryRead, SizesRead
  <2>3. CASE GroupDone /\ Exporter
    <3>1. pc = "group" /\ dbsLeft' = DbsOf(allKeys)
      BY <2>3 DEF GroupDone
    <3>2. QED
      BY <3>1 DEF MemoryRead, SizesRead
  <2>4. CASE SendSelect
    <3>1. PICK e \in dbsLeft : /\ db' = e /\ dbsLeft' = dbsLeft \ {e} /\ pc' = "sendTypes"
                               /\ UNCHANGED keysByDb /\ pc = "loop"
      BY <1>1, <2>4 DEF SendSelect
    <3>2. CASE d = e
      BY <3>1, <3>2 DEF MemoryRead, SizesRead
    <3>3. CASE d # e
      BY <1>2, <3>1, <3>3 DEF MemoryRead, SizesRead
    <3>4. QED
      BY <3>2, <3>3
  <2>5. CASE SendType \/ FlushTypes
    <3>1. pc \in Sending /\ pc' \in Sending /\ UNCHANGED <<keysByDb, db, dbsLeft>>
      BY <1>1, <2>5 DEF SendType, FlushTypes
    <3>2. QED
      BY <1>2, <3>1 DEF MemoryRead, SizesRead
  <2>6. CASE ReceiveSelect /\ Exporter
    <3>1. /\ pc = "recvSelect" /\ Ready(1) /\ received' = Taken(1)
          /\ UNCHANGED <<keysByDb, db, dbsLeft>>
      BY <2>6 DEF ReceiveSelect
    <3>2. sent[received + 1].cmd = "SELECT"
      BY <1>1, <3>1, CmdFields DEF Aligned
    <3>3. StringOk(Pending(1))
      <4>1. replies' = replies /\ ~Rejected'
        BY <2>6, ExporterFacts DEF Quiet, IInv
      <4>2. sent[received + 1].cmd \in {"SELECT", "TYPE"}
        BY <3>2
      <4>3. QED
        BY <1>1, <3>1, <4>1, <4>2, Refused
    <3>4. pc' = "recvTypes" /\ idx' - 1 = 0
      BY <2>6, <3>3 DEF ReceiveSelect
    <3>5. QED
      BY <1>2, <3>1, <3>4 DEF MemoryRead, SizesRead
  <2>7. CASE TypesReceived \/ SizesReceived
    <3>1. /\ pc = IF TypesReceived THEN "recvTypes" ELSE "recvSizes"
          /\ pc' = IF TypesReceived THEN "sendSizes" ELSE "loop"
          /\ pc \in Batch /\ idx > NKeys /\ UNCHANGED <<keysByDb, db, dbsLeft>>
      BY <2>7 DEF TypesReceived, SizesReceived, Batch, Receiving
    <3>2. idx - 1 = NKeys /\ NKeys = Len(keysByDb[db])
      BY <1>1, <3>1, BatchFacts DEF NKeys, arrayOfKeys
    <3>3. QED
      BY <1>2, <3>1, <3>2 DEF MemoryRead, SizesRead
  <2>8. CASE SendSize \/ FlushSizes
    <3>1. /\ pc = "sendSizes"
          /\ pc' = "sendSizes" \/ (pc' = "recvSizes" /\ idx' - 1 = 0)
          /\ UNCHANGED <<keysByDb, db, dbsLeft>>
      BY <1>1, <2>8 DEF SendSize, FlushSizes
    <3>2. QED
      BY <1>2, <3>1 DEF MemoryRead, SizesRead
  <2>9. CASE LoopDone \/ NextDo \/ DoReturns
    <3>1. /\ pc \in {"loop", "done", "do"} /\ pc' \in {"done", "do", "end"}
          /\ UNCHANGED <<keysByDb, db, dbsLeft>>
      BY <2>9 DEF LoopDone, NextDo, DoReturns
    <3>2. QED
      BY <1>2, <3>1 DEF MemoryRead, SizesRead
  <2>10. QED
    BY <1>6, <2>1, <2>2, <2>3, <2>4, <2>5, <2>6, <2>7, <2>8, <2>9 DEF Exporter
<1>7. QED
  BY <1>4, <1>5, <1>6

\* Every step keeps the exported pairs those of the keys read so far.
LEMMA ToldStep ==
    ASSUME IInv, Once, Truthful, TypesKept, Told, Exporter \/ Environment
    PROVE  Told'
<1> SUFFICES ASSUME Quiet', NEW d \in DbsOf(allKeys), NEW x \in Keys
             PROVE  PairsOf(metrics', d, x) = Share(d, x)'
  <2>1. DbsOf(allKeys)' = DbsOf(allKeys)
    BY EnvironmentFacts, ExporterFacts, SameSets DEF exporterVars, IInv
  <2>2. \A e, y : PairsOf(metrics, e, y)' = PairsOf(metrics', e, y)
    BY DEF PairsOf
  <2>3. QED
    BY <2>1, <2>2 DEF Told
<1> DEFINE k == arrayOfKeys[idx]
           M == MemoryPart(d, x)
           S == SizePart(d, x)
<1>1. Quiet /\ UNCHANGED <<store, acl>>
  BY QuietBefore
<1>2. PairsOf(metrics, d, x) = (IF x \in MemoryRead(d) THEN M ELSE {}) \cup
                               (IF x \in SizesRead(d) THEN S ELSE {})
  BY <1>1 DEF Told, Share
<1>3. Share(d, x)' = (IF x \in MemoryRead(d)' THEN M ELSE {}) \cup
                     (IF x \in SizesRead(d)' THEN S ELSE {})
  BY <1>1, SameDo DEF Share
<1>4. /\ MemoryRead(d)' = MemoryRead(d) \cup (IF ReceiveType /\ d = db THEN {k} ELSE {})
      /\ SizesRead(d)' = SizesRead(d) \cup (IF ReceiveSize /\ d = db THEN {k} ELSE {})
  BY ReadStep
<1>5. CASE Exporter /\ ReceiveType
  <2>1. PairsOf(metrics', d, x) = PairsOf(metrics, d, x) \cup
                                  (IF d = db /\ x = k THEN MemoryPart(db, k) ELSE {})
    BY <1>5, TypeAdds DEF Adds
  <2>2. ~ReceiveSize
    BY <1>5 DEF ReceiveType, ReceiveSize
  <2> HIDE DEF k
  <2>3. CASE d = db /\ x = k
    BY <1>2, <1>3, <1>4, <1>5, <2>1, <2>2, <2>3
  <2>4. CASE ~(d = db /\ x = k)
    BY <1>2, <1>3, <1>4, <1>5, <2>1, <2>2, <2>4
  <2>5. QED
    BY <2>3, <2>4
<1>6. CASE Exporter /\ ReceiveSize
  <2>1. PairsOf(metrics', d, x) = PairsOf(metrics, d, x) \cup
                                  (IF d = db /\ x = k THEN SizePart(db, k) ELSE {})
    BY <1>6, SizeAdds DEF Adds
  <2>2. ~ReceiveType
    BY <1>6 DEF ReceiveType, ReceiveSize
  <2> HIDE DEF k
  <2>3. CASE d = db /\ x = k
    BY <1>2, <1>3, <1>4, <1>6, <2>1, <2>2, <2>3
  <2>4. CASE ~(d = db /\ x = k)
    BY <1>2, <1>3, <1>4, <1>6, <2>1, <2>2, <2>4
  <2>5. QED
    BY <2>3, <2>4
<1>7. CASE ~ReceiveType /\ ~ReceiveSize
  <2>1. metrics' = metrics
    BY <1>7, ExportCases, EnvironmentFacts DEF IInv, exporterVars
  <2>2. QED
    BY <1>2, <1>3, <1>4, <1>7, <2>1
<1>8. CASE Environment
  <2>1. ~ReceiveType /\ ~ReceiveSize
    <3>1. idx' = idx /\ idx \in Nat
      BY <1>8 DEF Environment, exporterVars, IInv, TypeInv
    <3>2. QED
      BY <3>1 DEF ReceiveType, ReceiveSize
  <2>2. QED
    BY <1>7, <2>1
<1>9. QED
  BY <1>5, <1>6, <1>7, <1>8

\* What changes nothing keeps it.
LEMMA ToldStutter ==
    ASSUME Truthful, TypesKept, Complete, Told, UNCHANGED vars
    PROVE  Truthful' /\ TypesKept' /\ Complete' /\ Told'
<1> USE DEF vars, connVars, exporterVars
<1>1. Rejected' = Rejected /\ Quiet' = Quiet /\ NKeys' = NKeys
  BY DEF Rejected, Quiet, NKeys, arrayOfKeys
<1>2. Truthful'
  BY DEF Truthful, SaysDo, Do
<1>3. TypesKept'
  BY <1>1 DEF TypesKept
<1>4. Complete'
  BY DEF Complete
<1>5. Told'
  <2>1. \A d, k : Share(d, k)' = Share(d, k)
    <3>1. \A d : MemoryRead(d)' = MemoryRead(d) /\ SizesRead(d)' = SizesRead(d)
      BY DEF MemoryRead, SizesRead, Ahead, FirstKeys
    <3>2. \A d, k : MemoryPart(d, k)' = MemoryPart(d, k) /\ SizePart(d, k)' = SizePart(d, k)
      BY SameDo
    <3>3. QED
      BY <3>1, <3>2 DEF Share
  <2>2. \A d, k : PairsOf(metrics, d, k)' = PairsOf(metrics, d, k)
    BY DEF PairsOf
  <2>3. DbsOf(allKeys)' = DbsOf(allKeys)
    BY DEF DbsOf
  <2>4. QED
    BY <1>1, <2>1, <2>2, <2>3 DEF Told
<1>6. QED
  BY <1>2, <1>3, <1>4, <1>5

\* At the end every key of the list has been read, and no other.
LEMMA Agrees ==
    ASSUME IInv, Grouped, Complete, Told
    PROVE  AgreesWithDirect
<1> SUFFICES ASSUME pc = "done", Quiet, NEW d \in DbsOf(allKeys), NEW k \in Keys
             PROVE  PairsOf(metrics, d, k)
                      = IF Occurrences(d, k) > 0 THEN DirectMetrics(d, k) ELSE {}
  BY DEF AgreesWithDirect, Quiet, PairsOf
<1>1. TypeInv /\ todo = <<>> /\ dbsLeft = {} /\ Len(allKeys) \in Nat /\ DOMAIN allKeys = 1 .. Len(allKeys)
  BY DEF IInv, TypeInv, Complete, Quiet
<1> DEFINE K == FirstKeys(d, Len(keysByDb[d]))
<1>2. MemoryRead(d) = K /\ SizesRead(d) = K
  BY <1>1 DEF MemoryRead, SizesRead, Ahead, Sending
<1>3. DirectMetrics(d, k) = MemoryPart(d, k) \cup SizePart(d, k)
  BY DEF DirectMetrics, MemoryPart, SizePart
<1>4. k \in K <=> \E j \in DOMAIN allKeys : allKeys[j] = <<d, k>>
  <2>1. ASSUME NEW j \in DOMAIN allKeys, allKeys[j] = <<d, k>> PROVE k \in K
    <3>1. ~\E i \in 1 .. Len(todo) : todo[i] = allKeys[j]
      BY <1>1
    <3>2. allKeys[j][1] = d /\ allKeys[j][2] = k
      BY <2>1
    <3>3. \E i \in 1 .. Len(keysByDb[d]) : keysByDb[d][i] = k
      BY <1>1, <3>1, <3>2 DEF Complete
    <3>4. QED
      BY <3>3 DEF FirstKeys
  <2>2. ASSUME k \in K PROVE \E j \in DOMAIN allKeys : allKeys[j] = <<d, k>>
    <3>1. PICK i \in 1 .. Len(keysByDb[d]) : keysByDb[d][i] = k
      BY <2>2 DEF FirstKeys
    <3>2. PICK h \in Positions : GroupedBy(h)
      BY DEF Grouped
    <3>3. h[d][i] \in 1 .. Len(allKeys) - Len(todo) /\ allKeys[h[d][i]] = <<d, keysByDb[d][i]>>
      BY <3>2 DEF GroupedBy
    <3>4. Len(todo) = 0
      BY <1>1
    <3>5. h[d][i] \in DOMAIN allKeys /\ allKeys[h[d][i]] = <<d, k>>
      BY <1>1, <3>1, <3>3, <3>4
    <3>6. QED
      BY <3>5
  <2>3. QED
    BY <2>1, <2>2
<1>5. Occurrences(d, k) > 0 <=> \E j \in DOMAIN allKeys : allKeys[j] = <<d, k>>
  <2> DEFINE T == {j \in DOMAIN allKeys : allKeys[j] = <<d, k>>}
  <2>1. IsFiniteSet(T)
    <3>1. IsFiniteSet(1 .. Len(allKeys)) /\ T \in SUBSET (1 .. Len(allKeys))
      BY <1>1, FS_Interval
    <3>2. QED
      BY <3>1, FS_Subset
  <2>2. (T = {} <=> \A j \in DOMAIN allKeys : allKeys[j] # <<d, k>>) /\ Occurrences(d, k) = Cardinality(T)
    BY DEF Occurrences
  <2> HIDE DEF T
  <2>3. Cardinality(T) \in Nat /\ (Cardinality(T) = 0 <=> T = {})
    BY <2>1, FS_CardinalityType, FS_EmptySet
  <2>4. QED
    BY <2>2, <2>3
<1> HIDE DEF K
<1>6. PairsOf(metrics, d, k) = IF k \in K THEN MemoryPart(d, k) \cup SizePart(d, k) ELSE {}
  BY <1>2 DEF Told, Share
<1>7. QED
  BY <1>3, <1>4, <1>5, <1>6

\* On a store nobody writes to, over a connection that lasts, the pipelined check exports the
\* same metrics from the same commands as the one without a pipeline
\* (extractCheckKeyMetricsNotPipelined), for every list of keys and every server that refuses
\* no SELECT and no TYPE.
THEOREM BothPathsAgree == Spec => []AgreesWithDirect
<1> DEFINE A == Truthful /\ TypesKept /\ Complete /\ Told
<1>1. Init => A
  <2> SUFFICES ASSUME Init PROVE A
    OBVIOUS
  <2>1. /\ TypeInv /\ pc = "group" /\ todo = allKeys /\ metrics = <<>> /\ replies = <<>>
        /\ Len(allKeys) \in Nat
    BY TypeInit DEF Init, ConnInit, TypeInv
  <2>2. Truthful /\ TypesKept
    BY <2>1 DEF Truthful, TypesKept
  <2>3. Complete
    BY <2>1 DEF Complete
  <2>4. Told
    <3>1. \A d, k : Share(d, k) = {}
      BY <2>1 DEF Share, MemoryRead, SizesRead, Ahead
    <3>2. DOMAIN metrics = {}
      BY <2>1
    <3>3. \A d, k : PairsOf(metrics, d, k) = {}
      BY <3>2 DEF PairsOf
    <3>4. QED
      BY <3>1, <3>3 DEF Told
  <2>5. QED
    BY <2>2, <2>3, <2>4
<1>2. IInv /\ Once /\ A /\ [Next]_vars => A'
  <2> SUFFICES ASSUME IInv, Once, A, [Next]_vars PROVE A'
    OBVIOUS
  <2>1. CASE UNCHANGED vars
    BY <2>1, ToldStutter
  <2>2. CASE Exporter \/ Environment
    <3>1. TypeInv
      BY DEF IInv
    <3>2. QED
      BY <2>2, <3>1, TruthfulStep, CompleteStep, TypesKeptStep, ToldStep
  <2>3. QED
    BY <2>1, <2>2 DEF Next, Terminated
<1>3. IInv /\ IInv' /\ Grouped /\ Once /\ [Next]_vars => Grouped' /\ Once'
  BY GroupedStep, OnceStep DEF IInv
<1>4. IInv /\ Grouped /\ A => AgreesWithDirect
  BY Agrees
<1> HIDE DEF A
<1>5. QED
  BY <1>1, <1>2, <1>3, <1>4, OnceInit, Invariant, PTL DEF Spec

=============================================================================
