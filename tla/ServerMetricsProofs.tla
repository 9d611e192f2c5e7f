------------------------ MODULE ServerMetricsProofs -------------------------
(***************************************************************************)
(* What a scrape of CONFIG, CLUSTER INFO, INFO, LATENCY, CLIENT LIST,      *)
(* Tile38 SERVER and INFO MODULES exports is exact, for any servers, any   *)
(* options and any number of scrapes.  Four invariants carry the proof:    *)
(*                                                                         *)
(*  - Base says which answer the scrape is reading and how much of it is   *)
(*    left, and what the walk over INFO (info.go 69-160) remembers: the    *)
(*    fields, the commands and the databases of the lines it has seen, and *)
(*    the address of the master whose block it is in (InfoTextProofs).     *)
(*  - Exact says that the accounted series (databases, replication,        *)
(*    commands, instance and clients) are those made of the lines read so  *)
(*    far, no more and no fewer.                                           *)
(*  - Described says that the descriptions that vary with the server have  *)
(*    the labels of one of the servers met so far (metrics.go 84-137).     *)
(*  - Once says that no series is there twice, and that each of those that *)
(*    are not accounted for comes from a line already read.                *)
(*                                                                         *)
(* Each is kept by every action: a step sends the metrics of the line it   *)
(* reads (Sends), and these are compared with what was there before.       *)
(***************************************************************************)
EXTENDS InfoTextProofs

(***************************************************************************)
(* Where the scrape is: what is left of the answer it reads.               *)
(***************************************************************************)
Gone(t, T) == Len(T) - Len(t)
Suffix(t, T) ==
    /\ IsSeq(t) /\ IsSeq(T) /\ Len(t) <= Len(T)
    /\ \A i \in 1 .. Len(t) : t[i] = T[Gone(t, T) + i]

\* The whole answer and nothing of it are what may be left of an answer.
LEMMA SuffixFacts ==
    ASSUME NEW T, IsSeq(T)
    PROVE  /\ Suffix(T, T) /\ Gone(T, T) = 0 /\ Suffix(<<>>, T) /\ Gone(<<>>, T) = Len(T) /\ Len(T) \in Nat
<1>1. Len(T) \in Nat /\ IsSeq(<<>>) /\ Len(<<>>) = 0
  BY SeqFacts, ShortSeqs
<1>2. \A i \in 1 .. Len(T) : T[i] = T[0 + i]
  BY <1>1
<1>3. Gone(T, T) = 0
  BY <1>1 DEF Gone
<1> DEFINE e == <<>>
<1>4. IsSeq(e) /\ Len(e) = 0
  BY <1>1
<1> HIDE DEF e
<1>5. Suffix(e, T) /\ Gone(e, T) = Len(T)
  BY <1>1, <1>4 DEF Suffix, Gone
<1>6. QED
  BY <1>1, <1>2, <1>3, <1>5 DEF Suffix, e

\* One line less is left.
LEMMA SuffixStep ==
    ASSUME NEW t, NEW T, Suffix(t, T), t # <<>>
    PROVE  /\ Gone(t, T) \in Nat /\ Gone(t, T) < Len(T) /\ Head(t) = T[Gone(t, T) + 1]
           /\ Suffix(Tail(t), T) /\ Gone(Tail(t), T) = Gone(t, T) + 1
           /\ Head(t) \in ToSet(T)
<1> DEFINE u == Tail(t)
           n == Len(t)
           m == Len(T)
           k == Len(u)
           h == Head(t)
<1>1. IsSeq(t) /\ IsSeq(T) /\ n <= m /\ \A i \in 1 .. n : t[i] = T[(m - n) + i]
  BY DEF Suffix, Gone
<1>2. n \in Nat /\ m \in Nat /\ n > 0 /\ k = n - 1 /\ IsSeq(u) /\ h = t[1]
      /\ \A i \in 1 .. n - 1 : u[i] = t[i + 1]
  BY <1>1, HeadTailFacts, SeqFacts
<1>3. DOMAIN T = 1 .. m /\ \A i \in 1 .. m : T[i] \in ToSet(T)
  BY <1>1, SeqFacts
<1> HIDE DEF u, n, m, k, h
<1>4. h = T[(m - n) + 1] /\ (m - n) + 1 \in 1 .. m
  BY <1>1, <1>2
<1>5. \A i \in 1 .. k : u[i] = T[(m - k) + i]
  <2>1. SUFFICES ASSUME NEW i \in 1 .. k
                 PROVE  u[i] = T[(m - k) + i]
    OBVIOUS
  <2>2. i + 1 \in 1 .. n /\ i \in 1 .. n - 1 /\ (m - n) + (i + 1) = (m - k) + i
    BY <1>2
  <2>3. QED
    BY <1>1, <1>2, <2>2
<1>6. m - n \in Nat /\ m - n < m /\ m - k = (m - n) + 1 /\ k <= m
  BY <1>1, <1>2
<1>7. Suffix(u, T)
  BY <1>1, <1>2, <1>5, <1>6 DEF Suffix, Gone, m, k
<1>8. QED
  BY <1>3, <1>4, <1>6, <1>7 DEF Gone, m, n, k, u, h

\* The answers of the sections, nothing where the exporter does not ask or the server refuses.
HistogramOf(s, op) ==
    If(op.latency /\ "LATENCY" \notin s.denied /\ s.kind \in Since70, HistogramAnswer(s))
ClientsOf(s, op) == If(op.clients /\ "CLIENT" \notin s.denied, ClientText(s))
TilesOf(s, op) == If(op.tile38 /\ "SERVER" \notin s.denied, TileAnswer)
ModulesOf(s, op) == If(op.modules /\ "MODULES" \notin s.denied, ModulesText)

\* The answers are sequences.
LEMMA TextFacts ==
    ASSUME NEW s \in Facts, NEW op
    PROVE  /\ IsSeq(ConfigText) /\ IsSeq(ClusterText) /\ IsSeq(HistogramOf(s, op)) /\ IsSeq(ClientsOf(s, op))
           /\ IsSeq(TilesOf(s, op)) /\ IsSeq(ModulesOf(s, op))
           /\ IsSeq(HistogramAnswer(s)) /\ Len(HistogramAnswer(s)) = Len(s.cmds)
           /\ IsSeq(ClientText(s)) /\ Len(ClientText(s)) = Len(s.clients)
<1>1. IsSeq(<<>>)
  BY ShortSeqs
<1>2. IsSeq(ConfigText)
  BY ConfigTextFacts, ShortSeqs
<1>3. IsSeq(ClusterText)
  BY ShortSeqs, ConcatFacts DEF ClusterText, Line
<1>4. IsSeq(TileAnswer) /\ IsSeq(ModulesText)
  BY ShortSeqs DEF TileAnswer, ModulesText
<1>5. Len(s.cmds) \in Nat /\ Len(s.clients) \in Nat
  BY FactSeqs, SeqFacts
<1>6. IsSeq(HistogramAnswer(s)) /\ Len(HistogramAnswer(s)) = Len(s.cmds)
  <2>1. DOMAIN HistogramAnswer(s) = 1 .. Len(s.cmds)
        /\ HistogramAnswer(s) = [i \in 1 .. Len(s.cmds) |-> HistogramAnswer(s)[i]]
    BY DEF HistogramAnswer, Each
  <2>2. QED
    BY <1>5, <2>1, TableFacts
<1>7. IsSeq(ClientText(s)) /\ Len(ClientText(s)) = Len(s.clients)
  <2>1. DOMAIN ClientText(s) = 1 .. Len(s.clients)
        /\ ClientText(s) = [i \in 1 .. Len(s.clients) |-> ClientText(s)[i]]
    BY DEF ClientText, Each
  <2>2. QED
    BY <1>5, <2>1, TableFacts
<1>8. QED
  BY <1>1, <1>2, <1>3, <1>4, <1>6, <1>7 DEF HistogramOf, ClientsOf, TilesOf, ModulesOf, If

\* The types of the facts.
LEMMA FactTypes ==
    ASSUME NEW s \in Facts
    PROVE  /\ \A o \in DOMAIN s.dbs : s.dbs[o].db \in 0 .. Databases - 1 /\ s.dbs[o].ttl \in Nat /\ s.dbs[o].other \in Nat
           /\ \A o \in DOMAIN s.replicas : s.replicas[o].lag \in Nat
           /\ \A o \in DOMAIN s.cmds : s.cmds[o].calls \in Nat \ {0} /\ s.cmds[o].usec \in Nat
           /\ \A o \in DOMAIN s.masters : s.masters[o].up \in BOOLEAN
           /\ \A o \in DOMAIN s.clients : s.clients[o].equals \in BOOLEAN /\ s.clients[o].age \in Nat
           /\ s.kind \in Kinds /\ s.sentinel \in BOOLEAN /\ s.cluster \in BOOLEAN
<1> DEFINE A == [db : 0 .. Databases - 1, keys : Nat, expires : Nat, ttl : Nat, other : Nat]
           B == [ip : STRING, port : STRING, state : STRING, offset : Int, lag : Nat]
           C == [cmd : STRING, calls : Nat \ {0}, usec : Nat, rejected : Nat]
           D == [host : STRING, port : STRING, up : BOOLEAN, io : Int, offset : Int]
           E == [id : STRING, name : STRING, host : STRING, port : Nat, age : Nat, equals : BOOLEAN]
<1>1. s.dbs \in Seq(A) /\ s.replicas \in Seq(B) /\ s.cmds \in Seq(C) /\ s.masters \in Seq(D)
      /\ s.clients \in Seq(E) /\ s.kind \in Kinds /\ s.sentinel \in BOOLEAN /\ s.cluster \in BOOLEAN
  BY DEF Facts
<1>2. \A r \in A : r.db \in 0 .. Databases - 1 /\ r.ttl \in Nat /\ r.other \in Nat
  OBVIOUS
<1>3. \A r \in B : r.lag \in Nat
  OBVIOUS
<1>4. \A r \in C : r.calls \in Nat \ {0} /\ r.usec \in Nat
  OBVIOUS
<1>5. \A r \in D : r.up \in BOOLEAN
  OBVIOUS
<1>6. \A r \in E : r.equals \in BOOLEAN /\ r.age \in Nat
  OBVIOUS
<1> HIDE DEF A, B, C, D, E
<1>7. \A o \in DOMAIN s.dbs : s.dbs[o] \in A
  BY <1>1
<1>8. \A o \in DOMAIN s.replicas : s.replicas[o] \in B
  BY <1>1
<1>9. \A o \in DOMAIN s.cmds : s.cmds[o] \in C
  BY <1>1
<1>10. \A o \in DOMAIN s.masters : s.masters[o] \in D
  BY <1>1
<1>11. \A o \in DOMAIN s.clients : s.clients[o] \in E
  BY <1>1
<1>12. QED
  BY <1>1, <1>2, <1>3, <1>4, <1>5, <1>6, <1>7, <1>8, <1>9, <1>10, <1>11

\* The image of a finite set is finite.
LEMMA ImageFinite ==
    ASSUME NEW D, IsFiniteSet(D), NEW g, NEW R, DOMAIN g = D, g = [d \in D |-> g[d]], R = {g[d] : d \in D}
    PROVE  IsFiniteSet(R)
<1>1. g \in [D -> R] /\ \A x \in R : \E d \in D : g[d] = x
  OBVIOUS
<1>2. g \in Surjection(D, R)
  BY <1>1 DEF Surjection
<1>3. QED
  BY <1>2, FS_Surjection

\* What the walk has collected stays within its bounds.
LEMMA WalkTypes ==
    ASSUME NEW s \in Facts, NEW n, NEW p, WalkOk(s, n, p)
    PROVE  /\ DOMAIN p.kv \subseteq InfoFields
           /\ p.handled \subseteq {Itoa(d) : d \in 0 .. Databases - 1}
           /\ IsFiniteSet(DOMAIN p.lat)
<1>1. DOMAIN p.kv \subseteq InfoFields
  BY BaseLabelSet DEF InfoFields, KvKeys, KvOk, WalkOk
<1>2. p.handled \subseteq {Itoa(d) : d \in 0 .. Databases - 1}
  <2>2. \A o \in DOMAIN s.dbs : s.dbs[o].db \in 0 .. Databases - 1
    BY FactTypes
  <2>3. \A x \in p.handled : \E o \in DOMAIN s.dbs : x = Itoa(s.dbs[o].db)
    BY DEF HandledOk, WalkOk
  <2>4. QED
    BY <2>2, <2>3
<1>3. IsFiniteSet(DOMAIN p.lat)
  <2> DEFINE N == 1 .. Len(s.cmds)
             g == [o \in N |-> s.cmds[o].cmd]
             R == {g[o] : o \in N}
  <2>1. DOMAIN s.cmds = N /\ Len(s.cmds) \in Nat
    BY FactSeqs, SeqFacts
  <2>2. IsFiniteSet(N)
    <3>1. \A k \in Nat : IsFiniteSet(1 .. k)
      BY FS_Interval
    <3>2. QED
      BY <2>1, <3>1
  <2>3. DOMAIN g = N /\ g = [o \in N |-> g[o]]
    OBVIOUS
  <2>4. \A c \in DOMAIN p.lat : c \in R
    BY <2>1 DEF LatOk, WalkOk
  <2> HIDE DEF N, g
  <2>5. IsFiniteSet(R)
    BY <2>2, <2>3, ImageFinite
  <2> HIDE DEF R
  <2>6. QED
    BY <2>4, <2>5, FS_Subset
<1>4. QED
  BY <1>1, <1>2, <1>3

(***************************************************************************)
(* The invariant that says where the scrape is and what it knows.          *)
(***************************************************************************)
KnownDbs(s) ==
    IF s.cluster /\ "CLUSTER" \notin s.denied THEN 1
    ELSE IF "CONFIG" \notin s.denied THEN Databases
    ELSE IF s.cluster THEN 0 ELSE DefaultDbs

ConfigOk(s, t, d) ==
    IF "CONFIG" \in s.denied THEN t = <<>> /\ d = 0
    ELSE Suffix(t, ConfigText) /\ d = IF Gone(t, ConfigText) = 0 THEN 0 ELSE Databases

After == {"latest", "histogram", "clients", "tile38", "modules", "end"}

\* What is left to read in each section, and what is known there.
BaseAt(s, op, sec, t, p, d) ==
    /\ sec \in {"config", "cluster", "info"} \cup After
    /\ sec = "config" => ConfigOk(s, t, d) /\ p = NewParse
    /\ sec # "config" => d = KnownDbs(s)
    /\ sec = "cluster" => Suffix(t, ClusterText) /\ p = NewParse
    /\ sec = "info" => Suffix(t, InfoText(s)) /\ WalkOk(s, Gone(t, InfoText(s)), p)
    /\ sec \in After => WalkOk(s, Len(InfoText(s)), p)
    /\ sec = "histogram" => Suffix(t, HistogramOf(s, op))
    /\ sec = "clients" => Suffix(t, ClientsOf(s, op))
    /\ sec = "tile38" => Suffix(t, TilesOf(s, op))
    /\ sec = "modules" => Suffix(t, ModulesOf(s, op))

\* Where the scrape is and what it knows.
Base ==
    /\ sv \in Servers /\ opts \in Options /\ scrapes \in 1 .. MaxScrapes /\ IsExp(exp)
    /\ BaseAt(sv, opts, section, todo, parse, dbCount)

\* What is assumed of every server.
LEMMA ServerFacts ==
    ASSUME NEW s \in Servers
    PROVE  /\ s \in Facts /\ Consistent(s) /\ KnownDbs(s) \in 0 .. Databases \cup {DefaultDbs}
           /\ KnownDbs(s) \in Nat
<1>1. s \in Facts /\ Consistent(s) /\ DefaultDbs \in 1 .. 16
  BY ServerMetricsAssumption
<1>2. Databases \in 1 .. 16
  BY DatabasesAssumption
<1>3. QED
  BY <1>1, <1>2 DEF KnownDbs

\* Only the first line of CONFIG GET is about the number of databases.
LEMMA ConfigLines ==
    /\ Len(ConfigText) = 4
    /\ \A f \in ToSet(ConfigText) : f.k = "databases" <=> f = DatabasesLine
    /\ ConfigText[1] = DatabasesLine /\ Atoi(DatabasesLine.v) = Databases
    /\ \A i \in 2 .. 4 : ConfigText[i].k # "databases"
<1>1. Len(ConfigText) = 4 /\ ConfigText[1] = DatabasesLine /\ ConfigText[2] = MaxmemoryLine
      /\ ConfigText[3] = PassLine /\ ConfigText[4] = LimitLine
      /\ ToSet(ConfigText) = {DatabasesLine, MaxmemoryLine, PassLine, LimitLine}
  BY ConfigTextFacts, ShortSeqs
<1>2. DatabasesLine.k = "databases" /\ MaxmemoryLine.k = "maxmemory" /\ PassLine.k = "requirepass"
      /\ LimitLine.k = "client-output-buffer-limit"
  BY DEF DatabasesLine, MaxmemoryLine, PassLine, LimitLine, Field
<1>3. Atoi(DatabasesLine.v) = Databases
  BY DEF DatabasesLine, Field, Atoi, Num
<1>4. \A i \in 2 .. 4 : i = 2 \/ i = 3 \/ i = 4
  OBVIOUS
<1>5. QED
  BY <1>1, <1>2, <1>3, <1>4

\* The invariant at the beginning of a scrape.
LEMMA BaseBegins ==
    ASSUME NEW s \in Servers, NEW op
    PROVE  BaseAt(s, op, "config", If("CONFIG" \notin s.denied, ConfigText), NewParse, 0)
<1>1. IsSeq(ConfigText)
  BY ConfigTextFacts, ShortSeqs
<1>2. Suffix(ConfigText, ConfigText) /\ Gone(ConfigText, ConfigText) = 0
  BY <1>1, SuffixFacts
<1>3. QED
  BY <1>2 DEF BaseAt, ConfigOk, If, After

\* The invariant at the beginning.
LEMMA BaseInit == Init => Base
<1>1. SUFFICES ASSUME Init
               PROVE  Base
  OBVIOUS
<1>2. BaseAt(sv, opts, section, todo, parse, dbCount)
  BY <1>1, BaseBegins DEF Init
<1>3. IsExp(NewExporter)
  <2>1. IsSeq(<<>>)
    BY ShortSeqs
  <2>2. NewExporter.descs = KnownDescs /\ NewExporter.out = <<>> /\ NewExporter.panic = FALSE
    BY DEF NewExporter
  <2>3. NewExporter = [descs |-> NewExporter.descs, out |-> NewExporter.out, panic |-> FALSE]
    BY DEF NewExporter
  <2>4. QED
    BY <2>1, <2>2, <2>3 DEF IsExp
<1>4. QED
  BY <1>1, <1>2, <1>3, ServerMetricsAssumption DEF Init, Base

\* A setting keeps the invariant, and what it sends.
LEMMA BaseConfig ==
    ASSUME Base, extractConfigMetrics
    PROVE  /\ Base' /\ "CONFIG" \notin sv.denied /\ Head(todo) \in ToSet(ConfigText)
           /\ Sends(exp, exp', ConfigMetrics(Head(todo)))
           /\ UNCHANGED <<section, parse, sv, opts, scrapes, past>>
<1>1. section = "config" /\ todo # <<>> /\ todo' = Tail(todo) /\ section' = section /\ parse' = parse
      /\ sv' = sv /\ opts' = opts /\ scrapes' = scrapes /\ past' = past
      /\ dbCount' = IF Head(todo).k = "databases" THEN Atoi(Head(todo).v) ELSE dbCount
  BY DEF extractConfigMetrics, Same
<1>2. ConfigOk(sv, todo, dbCount) /\ parse = NewParse /\ IsExp(exp)
  BY <1>1 DEF Base, BaseAt
<1>3. "CONFIG" \notin sv.denied /\ Suffix(todo, ConfigText)
      /\ dbCount = IF Gone(todo, ConfigText) = 0 THEN 0 ELSE Databases
  BY <1>1, <1>2 DEF ConfigOk
<1> DEFINE n == Gone(todo, ConfigText)
<1>4. /\ n \in Nat /\ n < Len(ConfigText) /\ Head(todo) = ConfigText[n + 1]
      /\ Suffix(Tail(todo), ConfigText) /\ Gone(Tail(todo), ConfigText) = n + 1
      /\ Head(todo) \in ToSet(ConfigText)
  BY <1>1, <1>3, SuffixStep
<1>5. Sends(exp, exp', ConfigMetrics(Head(todo)))
  BY <1>2, <1>4, ConfigSends
<1> HIDE DEF n
<1>6. dbCount' = Databases
  <2>1. CASE n = 0
    <3>1. Head(todo) = DatabasesLine
      BY <1>4, <2>1, ConfigLines
    <3>2. QED
      BY <1>1, <1>4, <3>1, ConfigLines
  <2>2. CASE n # 0
    <3>1. n + 1 \in 2 .. 4
      BY <1>4, <2>2, ConfigLines
    <3>2. Head(todo).k # "databases"
      BY <1>4, <3>1, ConfigLines
    <3>3. QED
      BY <1>1, <1>3, <2>2, <3>2 DEF n
  <2>3. QED
    BY <2>1, <2>2
<1>7. ConfigOk(sv, Tail(todo), Databases)
  <2>1. n + 1 # 0
    BY <1>4
  <2>2. QED
    BY <1>3, <1>4, <2>1 DEF ConfigOk
<1>8. BaseAt(sv, opts, "config", Tail(todo), NewParse, Databases)
  BY <1>7 DEF BaseAt, After
<1>9. IsExp(exp')
  BY <1>5 DEF Sends
<1>10. Base'
  BY <1>1, <1>2, <1>6, <1>8, <1>9 DEF Base
<1>11. QED
  BY <1>1, <1>3, <1>4, <1>5, <1>10

\* The fetch of INFO or of the cluster's state keeps the invariant.
LEMMA BaseFetchInfo ==
    ASSUME Base, FetchInfo
    PROVE  Base' /\ UNCHANGED <<exp, sv, opts, scrapes, past>> /\ section = "config"
           /\ parse' = parse /\ parse = NewParse
           /\ section' \in {"cluster", "info"} /\ (section' = "info" => todo' = InfoText(sv))
           /\ (section' = "cluster" => todo' = ClusterText)
<1> DEFINE state == sv.cluster /\ "CLUSTER" \notin sv.denied
<1>1. section = "config" /\ todo = <<>> /\ parse' = parse /\ exp' = exp
      /\ sv' = sv /\ opts' = opts /\ scrapes' = scrapes /\ past' = past
      /\ section' = (IF state THEN "cluster" ELSE "info")
      /\ todo' = (IF state THEN ClusterText ELSE InfoText(sv))
      /\ dbCount' = CASE state -> 1
                      [] ~sv.cluster /\ dbCount = 0 -> DefaultDbs
                      [] OTHER -> dbCount
  BY DEF FetchInfo, Same
<1>2. sv \in Servers /\ sv \in Facts /\ ConfigOk(sv, todo, dbCount) /\ parse = NewParse /\ IsExp(exp)
  BY <1>1, ServerFacts DEF Base, BaseAt
<1>3. dbCount = IF "CONFIG" \in sv.denied THEN 0 ELSE Databases
  <2>1. IsSeq(ConfigText)
    BY ConfigTextFacts, ShortSeqs
  <2>2. Gone(<<>>, ConfigText) = 4
    BY <2>1, SuffixFacts, ConfigLines
  <2>3. QED
    BY <1>1, <1>2, <2>2 DEF ConfigOk
<1>4. dbCount' = KnownDbs(sv)
  <2>1. Databases # 0
    BY DatabasesAssumption
  <2>2. CASE state
    BY <1>1, <2>2 DEF KnownDbs
  <2>3. CASE ~state /\ "CONFIG" \notin sv.denied
    <3>1. dbCount = Databases /\ dbCount # 0
      BY <1>3, <2>1, <2>3
    <3>2. dbCount' = dbCount
      BY <1>1, <2>3, <3>1
    <3>3. KnownDbs(sv) = Databases
      BY <2>3 DEF KnownDbs
    <3>4. QED
      BY <3>1, <3>2, <3>3
  <2>4. CASE ~state /\ "CONFIG" \in sv.denied /\ sv.cluster
    <3>1. dbCount = 0
      BY <1>3, <2>4
    <3>2. dbCount' = dbCount
      BY <1>1, <2>4, <3>1
    <3>3. KnownDbs(sv) = 0
      BY <2>4 DEF KnownDbs
    <3>4. QED
      BY <3>1, <3>2, <3>3
  <2>5. CASE ~state /\ "CONFIG" \in sv.denied /\ ~sv.cluster
    <3>1. dbCount = 0
      BY <1>3, <2>5
    <3>2. dbCount' = DefaultDbs
      BY <1>1, <2>5, <3>1
    <3>3. KnownDbs(sv) = DefaultDbs
      BY <2>5 DEF KnownDbs
    <3>4. QED
      BY <3>2, <3>3
  <2>6. QED
    BY <2>2, <2>3, <2>4, <2>5
<1>5. IsSeq(ClusterText) /\ IsSeq(InfoText(sv)) /\ WalkOk(sv, 0, NewParse)
  BY <1>2, TextFacts, MarksFacts, WalkBegins
<1>6. Suffix(ClusterText, ClusterText) /\ Suffix(InfoText(sv), InfoText(sv))
      /\ Gone(InfoText(sv), InfoText(sv)) = 0
  BY <1>5, SuffixFacts
<1>7. BaseAt(sv, opts, section', todo', parse', dbCount')
  <2>1. CASE state
    BY <1>1, <1>2, <1>4, <1>6, <2>1 DEF BaseAt, After
  <2>2. CASE ~state
    BY <1>1, <1>2, <1>4, <1>5, <1>6, <2>2 DEF BaseAt, After
  <2>3. QED
    BY <2>1, <2>2
<1>8. QED
  BY <1>1, <1>2, <1>7 DEF Base

\* A field of the cluster's state keeps the invariant, and what it sends.
LEMMA BaseCluster ==
    ASSUME Base, extractClusterInfoMetrics
    PROVE  /\ Base' /\ UNCHANGED <<sv, opts, scrapes, past, parse>> /\ section = "cluster"
           /\ \/ exp' = exp /\ section' = "info" /\ todo' = InfoText(sv)
              \/ /\ Sends(exp, exp', FieldMetrics(Head(todo))) /\ section' = "cluster"
                 /\ todo # <<>> /\ todo' = Tail(todo)
<1>1. section = "cluster" /\ parse' = parse /\ dbCount' = dbCount
      /\ sv' = sv /\ opts' = opts /\ scrapes' = scrapes /\ past' = past
      /\ IF todo = <<>>
         THEN section' = "info" /\ todo' = InfoText(sv) /\ exp' = exp
         ELSE exp' = registerField(exp, Head(todo)) /\ todo' = Tail(todo) /\ section' = section
  BY DEF extractClusterInfoMetrics, Same
<1>2. sv \in Facts /\ Suffix(todo, ClusterText) /\ parse = NewParse /\ IsExp(exp) /\ dbCount = KnownDbs(sv)
  BY <1>1, ServerFacts DEF Base, BaseAt
<1>3. CASE todo = <<>>
  <2>1. IsSeq(InfoText(sv)) /\ WalkOk(sv, 0, NewParse)
    BY <1>2, MarksFacts, WalkBegins
  <2>2. Suffix(InfoText(sv), InfoText(sv)) /\ Gone(InfoText(sv), InfoText(sv)) = 0
    BY <2>1, SuffixFacts
  <2>3. BaseAt(sv, opts, "info", InfoText(sv), NewParse, KnownDbs(sv))
    BY <2>1, <2>2 DEF BaseAt, After
  <2>4. QED
    BY <1>1, <1>2, <1>3, <2>3 DEF Base
<1>4. CASE todo # <<>>
  <2>1. Suffix(Tail(todo), ClusterText)
    BY <1>2, <1>4, SuffixStep
  <2>2. Sends(exp, exp', FieldMetrics(Head(todo)))
    BY <1>1, <1>2, <1>4, FieldFacts
  <2>3. IsExp(exp')
    BY <2>2 DEF Sends
  <2>4. BaseAt(sv, opts, "cluster", Tail(todo), NewParse, KnownDbs(sv))
    BY <2>1 DEF BaseAt, After
  <2>5. QED
    BY <1>1, <1>2, <1>4, <2>2, <2>3, <2>4 DEF Base
<1>5. QED
  BY <1>3, <1>4

\* A line of INFO keeps the invariant, and what it sends.
LEMMA BaseInfoLine ==
    ASSUME Base, InfoLine, Same
    PROVE  LET n == Gone(todo, InfoText(sv))
               f == Head(todo)
           IN  /\ Base' /\ UNCHANGED <<section, dbCount, sv, opts, scrapes, past>> /\ section = "info"
               /\ Sends(exp, exp', LineMetrics(parse, f))
               /\ n \in Nat /\ n < Len(InfoText(sv)) /\ f = InfoText(sv)[n + 1]
               /\ WalkOk(sv, n, parse) /\ Steps(sv, Done(sv, n), Done(sv, n + 1), f, Marks(sv)[n + 1], parse)
               /\ WalkOk(sv, n + 1, parse') /\ parse' = Walked(parse, f)
               /\ Gone(todo', InfoText(sv)) = n + 1
<1> DEFINE T == InfoText(sv)
           n == Gone(todo, T)
           f == Head(todo)
<1>0. section = "info" /\ sv' = sv /\ opts' = opts /\ scrapes' = scrapes /\ past' = past
  BY DEF InfoLine, HeaderLine, ReplicationLine, ServerLine, CommandstatsLine, LatencystatsLine, ErrorstatsLine,
         KeyspaceLine, SentinelLine, OtherLine, InClass, AtLine, Same
<1>1. sv \in Facts /\ Consistent(sv) /\ IsExp(exp) /\ dbCount = KnownDbs(sv) /\ Suffix(todo, T) /\ WalkOk(sv, n, parse)
  BY <1>0, ServerFacts DEF Base, BaseAt
<1>2. IsParse(parse)
  BY <1>1 DEF WalkOk
<1>3. parse' = Walked(parse, f) /\ todo # <<>> /\ todo' = Tail(todo) /\ section' = section /\ dbCount' = dbCount
  BY <1>2, WalkedIs
<1>4. n \in Nat /\ n < Len(T) /\ f = T[n + 1] /\ Suffix(Tail(todo), T) /\ Gone(Tail(todo), T) = n + 1
  BY <1>1, <1>3, SuffixStep
<1>5. Sends(exp, exp', LineMetrics(parse, f))
  BY <1>1, LineSends
<1> HIDE DEF n, f
<1>6. WalkOk(sv, n + 1, Walked(parse, T[n + 1])) /\ Steps(sv, Done(sv, n), Done(sv, n + 1), T[n + 1], Marks(sv)[n + 1], parse)
  BY <1>1, <1>4, WalkStep
<1>7. WalkOk(sv, n + 1, parse') /\ Steps(sv, Done(sv, n), Done(sv, n + 1), f, Marks(sv)[n + 1], parse)
  BY <1>3, <1>4, <1>6
<1>8. IsExp(exp')
  BY <1>5 DEF Sends
<1> HIDE DEF T
<1>9. BaseAt(sv, opts, "info", Tail(todo), parse', KnownDbs(sv))
  BY <1>4, <1>7 DEF BaseAt, After, T
<1>10. Base'
  BY <1>0, <1>1, <1>3, <1>8, <1>9 DEF Base
<1>11. QED
  BY <1>0, <1>1, <1>3, <1>4, <1>5, <1>7, <1>10 DEF T, n, f

\* The end of INFO keeps the invariant, and what it sends.
LEMMA BaseInfoDone ==
    ASSUME Base, InfoDone(opts.emptyDbs), Same
    PROVE  /\ Base' /\ UNCHANGED <<todo, parse, dbCount, sv, opts, scrapes, past>> /\ section = "info" /\ section' = "latest"
           /\ Sends(exp, exp', DoneMetrics(opts.emptyDbs))
           /\ "instance_info" \notin DOMAIN exp.descs => exp'.descs["instance_info"] = instanceLabels(parse.kv)
           /\ todo = <<>> /\ Gone(todo, InfoText(sv)) = Len(InfoText(sv)) /\ WalkOk(sv, Len(InfoText(sv)), parse)
<1>0. section = "info" /\ section' = "latest" /\ todo = <<>> /\ todo' = todo /\ parse' = parse /\ dbCount' = dbCount
      /\ sv' = sv /\ opts' = opts /\ scrapes' = scrapes /\ past' = past
  BY DEF InfoDone, Same
<1>1. sv \in Servers /\ sv \in Facts /\ IsExp(exp) /\ dbCount = KnownDbs(sv) /\ WalkOk(sv, Gone(todo, InfoText(sv)), parse)
  BY <1>0, ServerFacts DEF Base, BaseAt
<1>2. IsSeq(InfoText(sv))
  BY <1>1, MarksFacts
<1>3. Gone(<<>>, InfoText(sv)) = Len(InfoText(sv))
  BY <1>2, SuffixFacts
<1>4. WalkOk(sv, Len(InfoText(sv)), parse)
  BY <1>0, <1>1, <1>3
<1>5. IsFiniteSet(DOMAIN parse.lat) /\ dbCount \in Nat
  BY <1>1, <1>4, WalkTypes, ServerFacts
<1>6. /\ Sends(exp, exp', DoneMetrics(opts.emptyDbs))
      /\ "instance_info" \notin DOMAIN exp.descs => exp'.descs["instance_info"] = instanceLabels(parse.kv)
  BY <1>1, <1>5, DoneSends
<1>7. IsExp(exp')
  BY <1>6 DEF Sends
<1>8. BaseAt(sv, opts, "latest", todo, parse, KnownDbs(sv))
  BY <1>4 DEF BaseAt, After
<1>9. Base'
  BY <1>0, <1>1, <1>7, <1>8 DEF Base
<1>10. QED
  BY <1>0, <1>3, <1>4, <1>6, <1>9

\* A section after INFO: the state stays in place but for what the section reads.
Later(sec, t) ==
    /\ section \in After /\ sec \in After
    /\ section' = sec /\ todo' = t /\ UNCHANGED <<parse, dbCount, sv, opts, scrapes, past>>
    /\ IsExp(exp')
    /\ sec = "histogram" => Suffix(t, HistogramOf(sv, opts))
    /\ sec = "clients" => Suffix(t, ClientsOf(sv, opts))
    /\ sec = "tile38" => Suffix(t, TilesOf(sv, opts))
    /\ sec = "modules" => Suffix(t, ModulesOf(sv, opts))

\* Steps after INFO that leave what INFO said alone keep the invariant.
LEMMA BaseLater ==
    ASSUME Base, NEW sec, NEW t, Later(sec, t)
    PROVE  Base'
<1>1. BaseAt(sv, opts, sec, t, parse, dbCount)
  BY DEF Base, BaseAt, Later, After
<1>2. QED
  BY <1>1 DEF Base, Later

\* LATENCY LATEST keeps the invariant, and what it sends.
LEMMA BaseLatest ==
    ASSUME Base, extractLatencyLatestMetrics
    PROVE  /\ Base' /\ UNCHANGED <<parse, dbCount, sv, opts, scrapes, past>> /\ section = "latest" /\ section' = "histogram"
           /\ Sends(exp, exp', SpikeSet) /\ todo' = HistogramOf(sv, opts)
<1>1. section = "latest" /\ section' = "histogram" /\ parse' = parse /\ dbCount' = dbCount
      /\ sv' = sv /\ opts' = opts /\ scrapes' = scrapes /\ past' = past
      /\ todo' = If((opts.latency /\ "LATENCY" \notin sv.denied) /\ sv.kind \in Since70, HistogramAnswer(sv))
  BY DEF extractLatencyLatestMetrics, Same
<1>2. sv \in Facts /\ IsExp(exp)
  BY ServerFacts DEF Base
<1>3. todo' = HistogramOf(sv, opts)
  BY <1>1 DEF HistogramOf, If
<1>4. IsSeq(HistogramOf(sv, opts))
  BY <1>2, TextFacts
<1>5. Suffix(HistogramOf(sv, opts), HistogramOf(sv, opts))
  BY <1>4, SuffixFacts
<1>6. Sends(exp, exp', SpikeSet)
  BY <1>2, LatestSends
<1>7. IsExp(exp')
  BY <1>6 DEF Sends
<1>8. Later("histogram", HistogramOf(sv, opts))
  BY <1>1, <1>3, <1>5, <1>7 DEF Later, After
<1>9. Base'
  BY <1>8, BaseLater
<1>10. QED
  BY <1>1, <1>3, <1>6, <1>9

\* Only the last entry of a histogram may not be scanned.
LEMMA HistogramLines ==
    ASSUME NEW s \in Facts, NEW i \in 1 .. Len(s.cmds)
    PROVE  LET h == HistogramAnswer(s)[i]
           IN  /\ h.cmd = s.cmds[i].cmd /\ h.calls = s.cmds[i].calls
               /\ h.scans <=> ~(s.kind = "later" /\ i = Len(s.cmds))
BY DEF HistogramAnswer, Each

\* An entry of LATENCY HISTOGRAM keeps the invariant, and what it sends.
LEMMA BaseHistogram ==
    ASSUME Base, extractLatencyHistogramMetrics
    PROVE  LET T == HistogramAnswer(sv)
               n == Gone(todo, T)
           IN  /\ Base' /\ UNCHANGED <<section, parse, dbCount, sv, opts, scrapes, past>> /\ section = "histogram"
               /\ opts.latency /\ "LATENCY" \notin sv.denied /\ sv.kind \in Since70
               /\ HistogramOf(sv, opts) = T
               /\ n \in Nat /\ n < Len(sv.cmds) /\ Head(todo) = T[n + 1] /\ Gone(todo', T) = n + 1
               /\ Sends(exp, exp', HistogramSet(Head(todo)))
<1> DEFINE T == HistogramAnswer(sv)
           n == Gone(todo, T)
           h == Head(todo)
<1>0. section = "histogram" /\ todo # <<>> /\ section' = section /\ parse' = parse /\ dbCount' = dbCount
      /\ sv' = sv /\ opts' = opts /\ scrapes' = scrapes /\ past' = past
      /\ todo' = (IF h.scans THEN Tail(todo) ELSE <<>>)
  BY DEF extractLatencyHistogramMetrics, Same
<1>1. sv \in Facts /\ IsExp(exp) /\ Suffix(todo, HistogramOf(sv, opts))
  BY <1>0, ServerFacts DEF Base, BaseAt
<1>2. opts.latency /\ "LATENCY" \notin sv.denied /\ sv.kind \in Since70
  <2>1. SUFFICES ASSUME ~(opts.latency /\ "LATENCY" \notin sv.denied /\ sv.kind \in Since70)
                 PROVE  FALSE
    OBVIOUS
  <2>2. HistogramOf(sv, opts) = <<>>
    BY <2>1 DEF HistogramOf, If
  <2>3. Len(<<>>) = 0
    BY ShortSeqs
  <2>4. Gone(todo, <<>>) \in Nat /\ Gone(todo, <<>>) < Len(<<>>)
    BY <1>0, <1>1, <2>2, SuffixStep
  <2>5. QED
    BY <2>3, <2>4
<1>3. HistogramOf(sv, opts) = T
  BY <1>2 DEF HistogramOf, If
<1>4. Len(T) = Len(sv.cmds) /\ IsSeq(T) /\ Len(T) \in Nat
  BY <1>1, TextFacts, SeqFacts
<1>5. n \in Nat /\ n < Len(T) /\ h = T[n + 1] /\ Suffix(Tail(todo), T) /\ Gone(Tail(todo), T) = n + 1
  BY <1>0, <1>1, <1>3, SuffixStep
<1>6. Suffix(<<>>, T) /\ Gone(<<>>, T) = Len(T)
  BY <1>4, SuffixFacts
<1>7. Sends(exp, exp', HistogramSet(h))
  BY <1>1, HistogramSends
<1> HIDE DEF n, h
<1>8. n + 1 \in 1 .. Len(sv.cmds)
  BY <1>4, <1>5
<1>9. h.scans <=> ~(sv.kind = "later" /\ n + 1 = Len(sv.cmds))
  BY <1>1, <1>5, <1>8, HistogramLines
<1> HIDE DEF T
<1>10. Suffix(todo', T) /\ Gone(todo', T) = n + 1
  <2>1. CASE h.scans
    BY <1>0, <1>5, <2>1
  <2>2. CASE ~h.scans
    BY <1>0, <1>4, <1>6, <1>9, <2>2
  <2>3. QED
    BY <2>1, <2>2
<1>11. IsExp(exp')
  BY <1>7 DEF Sends
<1>12. Later("histogram", todo')
  BY <1>0, <1>3, <1>10, <1>11 DEF Later, After
<1>13. Base'
  BY <1>12, BaseLater
<1>14. QED
  BY <1>0, <1>2, <1>3, <1>4, <1>5, <1>7, <1>10, <1>13 DEF T, n, h

\* The fetch of CLIENT LIST keeps the invariant.
LEMMA BaseFetchClients ==
    ASSUME Base, FetchClients
    PROVE  /\ Base' /\ UNCHANGED <<exp, parse, dbCount, sv, opts, scrapes, past>> /\ section = "histogram"
           /\ section' = "clients" /\ todo = <<>> /\ todo' = ClientsOf(sv, opts)
<1>1. section = "histogram" /\ section' = "clients" /\ parse' = parse /\ dbCount' = dbCount /\ exp' = exp
      /\ sv' = sv /\ opts' = opts /\ scrapes' = scrapes /\ past' = past /\ todo = <<>>
      /\ todo' = ClientsOf(sv, opts)
  BY DEF FetchClients, Same, ClientsOf
<1>2. sv \in Facts /\ IsExp(exp)
  BY ServerFacts DEF Base
<1>3. IsSeq(ClientsOf(sv, opts))
  BY <1>2, TextFacts
<1>4. Suffix(ClientsOf(sv, opts), ClientsOf(sv, opts))
  BY <1>3, SuffixFacts
<1>5. Later("clients", ClientsOf(sv, opts))
  BY <1>1, <1>2, <1>4 DEF Later, After
<1>6. Base'
  BY <1>5, BaseLater
<1>7. QED
  BY <1>1, <1>6

\* A client keeps the invariant, and what it sends.
LEMMA BaseClient ==
    ASSUME Base, parseConnectedClientMetrics
    PROVE  LET T == ClientText(sv)
               n == Gone(todo, T)
               v == Head(todo).v
           IN  /\ Base' /\ UNCHANGED <<section, parse, dbCount, sv, opts, scrapes, past>> /\ section = "clients"
               /\ opts.clients /\ "CLIENT" \notin sv.denied /\ ClientsOf(sv, opts) = T
               /\ n \in Nat /\ n < Len(sv.clients) /\ Head(todo) = T[n + 1] /\ Gone(todo', T) = n + 1
               /\ Sends(exp, exp', ClientSet(v))
               /\ "connected_client_info" \in DOMAIN exp'.descs \ DOMAIN exp.descs
                     => exp'.descs["connected_client_info"] = clientLabels(v)
<1> DEFINE T == ClientText(sv)
           n == Gone(todo, T)
           h == Head(todo)
<1>0. section = "clients" /\ todo # <<>> /\ section' = section /\ parse' = parse /\ dbCount' = dbCount
      /\ sv' = sv /\ opts' = opts /\ scrapes' = scrapes /\ past' = past /\ todo' = Tail(todo)
  BY DEF parseConnectedClientMetrics, Same
<1>1. sv \in Facts /\ IsExp(exp) /\ Suffix(todo, ClientsOf(sv, opts))
  BY <1>0, ServerFacts DEF Base, BaseAt
<1>2. opts.clients /\ "CLIENT" \notin sv.denied
  <2>1. SUFFICES ASSUME ~(opts.clients /\ "CLIENT" \notin sv.denied)
                 PROVE  FALSE
    OBVIOUS
  <2>2. ClientsOf(sv, opts) = <<>>
    BY <2>1 DEF ClientsOf, If
  <2>3. Len(<<>>) = 0
    BY ShortSeqs
  <2>4. Gone(todo, <<>>) \in Nat /\ Gone(todo, <<>>) < Len(<<>>)
    BY <1>0, <1>1, <2>2, SuffixStep
  <2>5. QED
    BY <2>3, <2>4
<1>3. ClientsOf(sv, opts) = T
  BY <1>2 DEF ClientsOf, If
<1>4. Len(T) = Len(sv.clients) /\ IsSeq(T) /\ Len(T) \in Nat
  BY <1>1, TextFacts, SeqFacts
<1>5. n \in Nat /\ n < Len(T) /\ h = T[n + 1] /\ Suffix(Tail(todo), T) /\ Gone(Tail(todo), T) = n + 1
  BY <1>0, <1>1, <1>3, SuffixStep
<1>7. /\ Sends(exp, exp', ClientSet(h.v))
      /\ "connected_client_info" \in DOMAIN exp'.descs \ DOMAIN exp.descs
            => exp'.descs["connected_client_info"] = clientLabels(h.v)
  BY <1>1, ClientSends
<1> HIDE DEF n, h
<1> HIDE DEF T
<1>11. IsExp(exp')
  BY <1>7 DEF Sends
<1>12. Later("clients", todo')
  BY <1>0, <1>3, <1>5, <1>11 DEF Later, After
<1>13. Base'
  BY <1>12, BaseLater
<1>14. QED
  BY <1>0, <1>2, <1>3, <1>4, <1>5, <1>7, <1>13 DEF T, n, h

\* The fetch of SERVER EXT keeps the invariant.
LEMMA BaseFetchTile38 ==
    ASSUME Base, FetchTile38
    PROVE  /\ Base' /\ UNCHANGED <<exp, parse, dbCount, sv, opts, scrapes, past>> /\ section = "clients"
           /\ section' = "tile38" /\ todo = <<>> /\ todo' = TilesOf(sv, opts)
<1>1. section = "clients" /\ section' = "tile38" /\ parse' = parse /\ dbCount' = dbCount /\ exp' = exp
      /\ sv' = sv /\ opts' = opts /\ scrapes' = scrapes /\ past' = past /\ todo = <<>>
      /\ todo' = TilesOf(sv, opts)
  BY DEF FetchTile38, Same, TilesOf
<1>2. sv \in Facts /\ IsExp(exp)
  BY ServerFacts DEF Base
<1>3. IsSeq(TilesOf(sv, opts))
  BY <1>2, TextFacts
<1>4. Suffix(TilesOf(sv, opts), TilesOf(sv, opts))
  BY <1>3, SuffixFacts
<1>5. Later("tile38", TilesOf(sv, opts))
  BY <1>1, <1>2, <1>4 DEF Later, After
<1>6. Base'
  BY <1>5, BaseLater
<1>7. QED
  BY <1>1, <1>6

\* A field of SERVER EXT keeps the invariant, and what it sends.
LEMMA BaseTile38 ==
    ASSUME Base, extractTile38Metrics
    PROVE  LET T == TilesOf(sv, opts)
               n == Gone(todo, T)
           IN  /\ Base' /\ UNCHANGED <<section, parse, dbCount, sv, opts, scrapes, past>> /\ section = "tile38"
               /\ n \in Nat /\ n < Len(T) /\ Head(todo) = T[n + 1] /\ Gone(todo', T) = n + 1
               /\ Sends(exp, exp', FieldMetrics(tile38Field(Head(todo))))
<1> DEFINE T == TilesOf(sv, opts)
           n == Gone(todo, T)
           h == Head(todo)
<1>0. section = "tile38" /\ todo # <<>> /\ section' = section /\ parse' = parse /\ dbCount' = dbCount
      /\ sv' = sv /\ opts' = opts /\ scrapes' = scrapes /\ past' = past /\ todo' = Tail(todo)
      /\ exp' = registerField(exp, tile38Field(h))
  BY DEF extractTile38Metrics, Same
<1>1. IsExp(exp) /\ Suffix(todo, T)
  BY <1>0 DEF Base, BaseAt
<1>5. n \in Nat /\ n < Len(T) /\ h = T[n + 1] /\ Suffix(Tail(todo), T) /\ Gone(Tail(todo), T) = n + 1
  BY <1>0, <1>1, SuffixStep
<1>7. Sends(exp, exp', FieldMetrics(tile38Field(h)))
  BY <1>0, <1>1, FieldFacts
<1>11. IsExp(exp')
  BY <1>7 DEF Sends
<1>12. Later("tile38", todo')
  BY <1>0, <1>5, <1>11 DEF Later, After
<1>13. Base'
  BY <1>12, BaseLater
<1> HIDE DEF n, h, T
<1>14. QED
  BY <1>0, <1>5, <1>7, <1>13 DEF T, n, h

\* The fetch of INFO MODULES keeps the invariant.
LEMMA BaseFetchModules ==
    ASSUME Base, FetchModules
    PROVE  /\ Base' /\ UNCHANGED <<exp, parse, dbCount, sv, opts, scrapes, past>> /\ section = "tile38"
           /\ section' = "modules" /\ todo = <<>> /\ todo' = ModulesOf(sv, opts)
<1>1. section = "tile38" /\ section' = "modules" /\ parse' = parse /\ dbCount' = dbCount /\ exp' = exp
      /\ sv' = sv /\ opts' = opts /\ scrapes' = scrapes /\ past' = past /\ todo = <<>>
      /\ todo' = ModulesOf(sv, opts)
  BY DEF FetchModules, Same, ModulesOf
<1>2. sv \in Facts /\ IsExp(exp)
  BY ServerFacts DEF Base
<1>3. IsSeq(ModulesOf(sv, opts))
  BY <1>2, TextFacts
<1>4. Suffix(ModulesOf(sv, opts), ModulesOf(sv, opts))
  BY <1>3, SuffixFacts
<1>5. Later("modules", ModulesOf(sv, opts))
  BY <1>1, <1>2, <1>4 DEF Later, After
<1>6. Base'
  BY <1>5, BaseLater
<1>7. QED
  BY <1>1, <1>6

\* A line of INFO MODULES keeps the invariant, and what it sends.
LEMMA BaseModules ==
    ASSUME Base, extractModulesMetrics
    PROVE  LET T == ModulesOf(sv, opts)
               n == Gone(todo, T)
           IN  /\ Base' /\ UNCHANGED <<section, parse, dbCount, sv, opts, scrapes, past>> /\ section = "modules"
               /\ n \in Nat /\ n < Len(T) /\ Head(todo) = T[n + 1] /\ Gone(todo', T) = n + 1
               /\ Sends(exp, exp', ModuleSet(Head(todo)))
<1> DEFINE T == ModulesOf(sv, opts)
           n == Gone(todo, T)
           h == Head(todo)
<1>0. section = "modules" /\ todo # <<>> /\ section' = section /\ parse' = parse /\ dbCount' = dbCount
      /\ sv' = sv /\ opts' = opts /\ scrapes' = scrapes /\ past' = past /\ todo' = Tail(todo)
  BY DEF extractModulesMetrics, Same
<1>1. IsExp(exp) /\ Suffix(todo, T)
  BY <1>0 DEF Base, BaseAt
<1>5. n \in Nat /\ n < Len(T) /\ h = T[n + 1] /\ Suffix(Tail(todo), T) /\ Gone(Tail(todo), T) = n + 1
  BY <1>0, <1>1, SuffixStep
<1>7. Sends(exp, exp', ModuleSet(h))
  BY <1>1, ModuleSends
<1>11. IsExp(exp')
  BY <1>7 DEF Sends
<1>12. Later("modules", todo')
  BY <1>0, <1>5, <1>11 DEF Later, After
<1>13. Base'
  BY <1>12, BaseLater
<1> HIDE DEF n, h, T
<1>14. QED
  BY <1>0, <1>5, <1>7, <1>13 DEF T, n, h

\* The end of a scrape keeps the invariant.
LEMMA BaseEndScrape ==
    ASSUME Base, EndScrape
    PROVE  /\ Base' /\ UNCHANGED <<todo, exp, parse, dbCount, sv, opts, scrapes, past>> /\ section = "modules"
           /\ section' = "end" /\ todo = <<>>
<1>1. section = "modules" /\ section' = "end" /\ parse' = parse /\ dbCount' = dbCount /\ exp' = exp
      /\ sv' = sv /\ opts' = opts /\ scrapes' = scrapes /\ past' = past /\ todo = <<>> /\ todo' = todo
  BY DEF EndScrape, Same
<1>2. IsExp(exp)
  BY DEF Base
<1>5. Later("end", todo)
  BY <1>1, <1>2 DEF Later, After
<1>6. Base'
  BY <1>5, BaseLater
<1>7. QED
  BY <1>1, <1>6

\* A record with one field replaced.
LEMMA Replaced ==
    ASSUME NEW d, NEW o, NEW q, NEW x
    PROVE  [[descs |-> d, out |-> o, panic |-> q] EXCEPT !.out = x] = [descs |-> d, out |-> x, panic |-> q]
OBVIOUS

\* An exporter whose series are forgotten.
LEMMA Emptied ==
    ASSUME NEW e, NEW d, NEW o, e = [descs |-> d, out |-> o, panic |-> FALSE]
    PROVE  [e EXCEPT !.out = <<>>] = [descs |-> d, out |-> <<>>, panic |-> FALSE]
<1> DEFINE x == <<>>
           q == FALSE
<1>1. e = [descs |-> d, out |-> o, panic |-> q]
  OBVIOUS
<1> HIDE DEF x, q
<1>2. [e EXCEPT !.out = x] = [[descs |-> d, out |-> o, panic |-> q] EXCEPT !.out = x]
  BY <1>1
<1>3. [e EXCEPT !.out = x] = [descs |-> d, out |-> x, panic |-> q]
  BY <1>2, Replaced
<1>4. QED
  BY <1>3 DEF x, q

\* The next scrape keeps the invariant and the descriptions.
LEMMA BaseNextScrape ==
    ASSUME Base, NextScrape
    PROVE  /\ Base' /\ section = "end" /\ section' = "config" /\ parse' = NewParse
           /\ exp'.out = <<>> /\ exp'.descs = exp.descs /\ past' = past \cup {sv} /\ opts' = opts
<1>1. section = "end" /\ section' = "config" /\ parse' = NewParse /\ dbCount' = 0 /\ exp' = [exp EXCEPT !.out = <<>>]
      /\ sv' \in Servers /\ opts' = opts /\ scrapes' = scrapes + 1 /\ past' = past \cup {sv}
      /\ todo' = If("CONFIG" \notin sv'.denied, ConfigText) /\ scrapes < MaxScrapes
  BY DEF NextScrape
<1>2. IsExp(exp)
  BY DEF Base
<1>3. exp = [descs |-> exp.descs, out |-> exp.out, panic |-> FALSE]
  BY <1>2 DEF IsExp
<1>4. exp' = [descs |-> exp.descs, out |-> <<>>, panic |-> FALSE]
  BY <1>1, <1>3, Emptied
<1>5. exp'.out = <<>> /\ exp'.descs = exp.descs /\ exp'.panic = FALSE
  BY <1>4
<1>6. IsExp(exp')
  BY <1>2, <1>4, <1>5, ShortSeqs DEF IsExp
<1>7. BaseAt(sv', opts', section', todo', parse', dbCount')
  BY <1>1, BaseBegins
<1>8. scrapes' \in 1 .. MaxScrapes
  BY <1>1, ServerMetricsAssumption DEF Base
<1>9. Base'
  BY <1>1, <1>6, <1>7, <1>8 DEF Base
<1>10. QED
  BY <1>1, <1>5, <1>9

\* A stuttering step keeps the invariant.
LEMMA BaseSame ==
    ASSUME Base, UNCHANGED vars
    PROVE  Base'
BY DEF Base, vars, infoVars

\* Every step keeps the invariant.
LEMMA BaseStep == Base /\ [Next]_vars => Base'
<1>1. SUFFICES ASSUME Base, [Next]_vars
               PROVE  Base'
  OBVIOUS
<1>2. CASE Info
  BY <1>1, <1>2, BaseInfoLine, BaseInfoDone DEF Info
<1>3. CASE Terminated \/ UNCHANGED vars
  BY <1>1, <1>3, BaseSame DEF Terminated
<1>4. CASE extractConfigMetrics
  BY <1>1, <1>4, BaseConfig
<1>5. CASE FetchInfo
  BY <1>1, <1>5, BaseFetchInfo
<1>6. CASE extractClusterInfoMetrics
  BY <1>1, <1>6, BaseCluster
<1>7. CASE extractLatencyLatestMetrics
  BY <1>1, <1>7, BaseLatest
<1>8. CASE extractLatencyHistogramMetrics
  BY <1>1, <1>8, BaseHistogram
<1>9. CASE FetchClients
  BY <1>1, <1>9, BaseFetchClients
<1>10. CASE parseConnectedClientMetrics
  BY <1>1, <1>10, BaseClient
<1>11. CASE FetchTile38
  BY <1>1, <1>11, BaseFetchTile38
<1>12. CASE extractTile38Metrics
  BY <1>1, <1>12, BaseTile38
<1>13. CASE FetchModules
  BY <1>1, <1>13, BaseFetchModules
<1>14. CASE extractModulesMetrics
  BY <1>1, <1>14, BaseModules
<1>15. CASE EndScrape
  BY <1>1, <1>15, BaseEndScrape
<1>16. CASE NextScrape
  BY <1>1, <1>16, BaseNextScrape
<1>17. QED
  BY <1>1, <1>2, <1>3, <1>4, <1>5, <1>6, <1>7, <1>8, <1>9, <1>10, <1>11, <1>12, <1>13, <1>14, <1>15, <1>16 DEF Next

\* Base is an invariant.
LEMMA BaseAlways == Spec => []Base
<1>1. Init => Base
  BY BaseInit
<1>2. Base /\ [Next]_vars => Base'
  BY BaseStep
<1>3. QED
  BY <1>1, <1>2, PTL DEF Spec

\* The variables of a scrape have their types, whatever the server says, and no registration meets
\* a name without a description: registerConstMetric and its relatives never panic in the sections
\* modelled here (metrics.go 84-137).
THEOREM TypeCorrect == Spec => []TypeOK
<1>1. Base => TypeOK
  <2>1. SUFFICES ASSUME Base
                 PROVE  TypeOK
    OBVIOUS
  <2>2. sv \in Servers /\ sv \in Facts /\ opts \in Options /\ scrapes \in 1 .. MaxScrapes
    BY <2>1, ServerFacts DEF Base
  <2>3. \E n : WalkOk(sv, n, parse)
    BY <2>1, <2>2, WalkBegins DEF Base, BaseAt
  <2>4. DOMAIN parse.kv \subseteq InfoFields /\ parse.handled \subseteq {Itoa(d) : d \in 0 .. Databases - 1}
    BY <2>2, <2>3, WalkTypes
  <2>5. dbCount \in 0 .. Databases \cup {DefaultDbs}
    <3>1. CASE section = "config"
      <4>1. dbCount = 0 \/ dbCount = Databases
        BY <2>1, <3>1 DEF Base, BaseAt, ConfigOk
      <4>2. QED
        BY <4>1, DatabasesAssumption
    <3>2. CASE section # "config"
      BY <2>1, <2>2, <3>2, ServerFacts DEF Base, BaseAt
    <3>3. QED
      BY <3>1, <3>2
  <2>6. DOMAIN KnownDescs \subseteq DOMAIN exp.descs /\ ~exp.panic
    <3>1. IsExp(exp)
      BY <2>1 DEF Base
    <3>2. DOMAIN KnownDescs \subseteq DOMAIN exp.descs
      BY <3>1 DEF IsExp
    <3>3. exp.panic = FALSE
      <4>1. exp = [descs |-> exp.descs, out |-> exp.out, panic |-> FALSE]
        BY <3>1 DEF IsExp
      <4>2. [descs |-> exp.descs, out |-> exp.out, panic |-> FALSE].panic = FALSE
        OBVIOUS
      <4>3. QED
        BY <4>1, <4>2, Zenon
    <3>4. QED
      BY <3>2, <3>3
  <2>7. section \in {"config", "cluster", "info", "latest", "histogram", "clients", "tile38", "modules", "end"}
    BY <2>1 DEF Base, BaseAt, After
  <2>8. QED
    BY <2>2, <2>4, <2>5, <2>6, <2>7 DEF TypeOK
<1>2. QED
  BY <1>1, BaseAlways, PTL

(***************************************************************************)
(* The series that are accounted for one by one, and what each line of     *)
(* INFO adds to them.                                                      *)
(***************************************************************************)
Watched == DbMetrics \cup CmdMetrics \cup MasterMetrics \cup ReplicaMetrics
           \cup {"slave_info", "instance_info", "connected_client_info"}

DbSet(s, d) ==
    {Metric("db_keys", Whole(d.keys), <<Itoa(d.db)>>), Metric("db_keys_expiring", Whole(d.expires), <<Itoa(d.db)>>)}
    \cup (IF s.kind \in Since74 \cup {"keydb"} THEN {Metric("db_keys_cached", Whole(d.other), <<Itoa(d.db)>>)} ELSE {})
    \cup (IF s.kind \in Since28 THEN {Metric("db_avg_ttl_seconds", Milli(d.ttl), <<Itoa(d.db)>>)} ELSE {})
CmdSet(s, c) ==
    {Metric("commands_total", Whole(c.calls), <<c.cmd>>),
     Metric("commands_duration_seconds_total", Micro(c.usec), <<c.cmd>>)}
    \cup (IF s.kind \in Since62
          THEN {Metric("commands_rejected_calls_total", Whole(c.rejected), <<c.cmd>>),
                Metric("commands_failed_calls_total", Whole(1), <<c.cmd>>)}
          ELSE {})
MasterSet(m, k) ==
    LET who == <<m.host, m.port>>
    IN  IF k = "master_link_status" THEN {Metric("master_link_up", Whole(IF m.up THEN 1 ELSE 0), who)}
        ELSE IF k = "master_last_io_seconds_ago" THEN {Metric(k, Whole(m.io), who)}
        ELSE IF k = "master_sync_in_progress" THEN {Metric(k, Whole(IF m.up THEN 0 ELSE 1), who)}
        ELSE IF k = "slave_repl_offset" THEN {Metric(k, Whole(m.offset), who)}
        ELSE {}

LineW(s, k, o) ==
    IF k = "db" THEN (IF s.kind = "later" THEN {} ELSE DbSet(s, s.dbs[o]))
    ELSE IF k = "cmdstat_" THEN (IF s.cmds[o].cmd \in s.brief THEN {} ELSE CmdSet(s, s.cmds[o]))
    ELSE IF k = "slave" THEN ReplicaSet(s, s.replicas[o])
    ELSE IF k \in MasterKeys THEN MasterSet(s.masters[o], k)
    ELSE {}

\* The fields that go by their names are none of the accounted series.
LEMMA FieldsUnwatched ==
    /\ \A n \in FieldNames : n \notin Watched
    /\ \A f : \A m \in FieldMetrics(f) : m.name \notin Watched
<1>1. \A n \in FieldNames : n \notin Watched
  BY DEF FieldNames, Watched, DbMetrics, CmdMetrics, MasterMetrics, ReplicaMetrics
<1>2. \A f : \A m \in FieldMetrics(f) : m.name \in FieldNames
  <2>1. SUFFICES ASSUME NEW f, NEW m \in FieldMetrics(f)
                 PROVE  m.name \in FieldNames
    OBVIOUS
  <2>2. includeMetric(f) /\ m = Metric(FieldName(f), FieldValue(f), <<>>)
    BY <2>1 DEF FieldMetrics
  <2>3. QED
    BY <2>2, FieldNameFacts, MetricFacts
<1>3. QED
  BY <1>1, <1>2

\* A database's line gives that database's series (info.go 131-145).
LEMMA DbLine ==
    ASSUME NEW s \in Facts, NEW o, NEW f, LineOk(s, f, o), f.k = "db", NEW p, p.cls = "Keyspace", NEW m
    PROVE  m \in LineMetrics(p, f) /\ m.name \in Watched <=> m \in LineW(s, "db", o)
<1> DEFINE d == s.dbs[o]
<1>1. o \in DOMAIN s.dbs /\ f = KeyspaceField(s, d)
  BY DEF LineOk
<1>2. f.i = Itoa(d.db) /\ f.v = KeyspaceParts(s, d)
  BY <1>1, LineNamesOf
<1>3. d.ttl \in Nat /\ d.other \in Nat /\ s.kind \in Kinds
  BY <1>1, FactTypes
<1> DEFINE b == parseDBKeyspaceString(f)
<1> HIDE DEF d
<1>4. /\ b <=> s.kind # "later"
      /\ f.v[1].x = d.keys /\ f.v[2].x = d.expires
      /\ Len(f.v) > 2 <=> s.kind \in Since28
      /\ s.kind \in Since28 => f.v[3].x = d.ttl
      /\ s.kind # "later" => (Len(f.v) > 3 <=> s.kind \in Since74 \cup {"keydb"})
      /\ s.kind # "later" /\ s.kind \in Since74 \cup {"keydb"} => f.v[4].x = d.other
  BY ONLY <1>2, <1>3, f.k = "db", KeyspaceLineFacts, Zenon
<1>5. LineMetrics(p, f) = IF b THEN ToSet(keyspaceMetrics(f)) ELSE FieldMetrics(f)
  BY DEF LineMetrics
<1> HIDE DEF b
<1>6. CASE s.kind = "later"
  <2>1. LineW(s, "db", o) = {}
    BY <1>6 DEF LineW
  <2>2. QED
    BY <1>4, <1>5, <1>6, <2>1, FieldsUnwatched
<1>7. CASE s.kind # "later"
  <2> DEFINE v == f.v
             cached == Len(v) > 3 /\ v[4].x > -1
             ttl == Len(v) > 2 /\ v[3].x > -1
  <2>1. ToSet(keyspaceMetrics(f)) =
            {Metric("db_keys", Whole(v[1].x), <<f.i>>), Metric("db_keys_expiring", Whole(v[2].x), <<f.i>>)}
            \cup (IF cached THEN {Metric("db_keys_cached", Whole(v[4].x), <<f.i>>)} ELSE {})
            \cup (IF ttl THEN {Metric("db_avg_ttl_seconds", Milli(v[3].x), <<f.i>>)} ELSE {})
    BY KeyspaceMetricsFacts
  <2>2. cached <=> s.kind \in Since74 \cup {"keydb"}
    BY <1>3, <1>4, <1>7
  <2>3. ttl <=> s.kind \in Since28
    BY <1>3, <1>4
  <2> HIDE DEF cached, ttl
  <2>4. ToSet(keyspaceMetrics(f)) = DbSet(s, d)
    BY <1>2, <1>4, <1>7, <2>1, <2>2, <2>3 DEF DbSet
  <2>5. LineW(s, "db", o) = DbSet(s, d)
    BY <1>7 DEF LineW, d
  <2>6. \A x \in DbSet(s, d) : x.name \in DbMetrics
    <3>1. \A n, v1, w : Metric(n, v1, w).name = n
      BY MetricFacts
    <3>2. QED
      BY <3>1 DEF DbSet, DbMetrics
  <2>7. QED
    BY <1>4, <1>5, <1>7, <2>4, <2>5, <2>6 DEF Watched
<1>8. QED
  BY <1>6, <1>7

\* A command's line gives that command's series.
LEMMA CmdLine ==
    ASSUME NEW s \in Facts, NEW o, NEW f, LineOk(s, f, o), f.k = "cmdstat_", NEW p, p.cls = "Commandstats", NEW m
    PROVE  m \in LineMetrics(p, f) /\ m.name \in Watched <=> m \in LineW(s, "cmdstat_", o)
<1> DEFINE c == s.cmds[o]
<1>1. o \in DOMAIN s.cmds /\ f = CommandField(s, c)
  BY DEF LineOk
<1>2. f.i = c.cmd /\ f.v = CommandParts(s, c)
  BY <1>1, LineNamesOf
<1> HIDE DEF c
<1>4. /\ StatsParse(f) <=> c.cmd \notin s.brief
      /\ c.cmd \notin s.brief => (Len(f.v) >= 5 <=> s.kind \in Since62)
      /\ f.v[1].x = c.calls /\ f.v[2].x = c.usec
      /\ c.cmd \notin s.brief /\ s.kind \in Since62 => f.v[4].x = c.rejected /\ f.v[5].x = 1
  BY ONLY <1>2, f.k = "cmdstat_", StatsLineFacts, Zenon
<1>5. LineMetrics(p, f) = ToSet(commandMetrics(f))
  BY DEF LineMetrics
<1>6. CASE c.cmd \in s.brief
  <2>1. LineW(s, "cmdstat_", o) = {}
    BY <1>6 DEF LineW, c
  <2>2. ToSet(commandMetrics(f)) = {}
    BY <1>4, <1>6, CommandMetricsFacts
  <2>3. QED
    BY <1>5, <2>1, <2>2
<1>7. CASE c.cmd \notin s.brief
  <2>1. ToSet(commandMetrics(f)) =
            {Metric("commands_total", Whole(f.v[1].x), <<f.i>>),
             Metric("commands_duration_seconds_total", Micro(f.v[2].x), <<f.i>>)}
            \cup (IF Len(f.v) >= 5
                  THEN {Metric("commands_rejected_calls_total", Whole(f.v[4].x), <<f.i>>),
                        Metric("commands_failed_calls_total", Whole(f.v[5].x), <<f.i>>)}
                  ELSE {})
    BY <1>4, <1>7, CommandMetricsFacts
  <2>4. ToSet(commandMetrics(f)) = CmdSet(s, c)
    BY <1>2, <1>4, <1>7, <2>1 DEF CmdSet
  <2>5. LineW(s, "cmdstat_", o) = CmdSet(s, c)
    BY <1>7 DEF LineW, c
  <2>6. \A x \in CmdSet(s, c) : x.name \in CmdMetrics
    <3>1. \A n, v1, w : Metric(n, v1, w).name = n
      BY MetricFacts
    <3>2. QED
      BY <3>1 DEF CmdSet, CmdMetrics
  <2>7. QED
    BY <1>5, <2>4, <2>5, <2>6 DEF Watched
<1>8. QED
  BY <1>6, <1>7

\* A replica's line gives that replica's series.
LEMMA SlaveLine ==
    ASSUME NEW s \in Facts, NEW o, NEW f, LineOk(s, f, o), f.k = "slave", NEW p, p.cls = "Replication", NEW m
    PROVE  m \in LineMetrics(p, f) /\ m.name \in Watched <=> m \in LineW(s, "slave", o)
<1> DEFINE r == s.replicas[o]
           ms == replicationMetrics(Seen(p, f), f)
<1>1. o \in DOMAIN s.replicas /\ f = ReplicaField(s, r, Itoa(o - 1))
  BY DEF LineOk
<1>2. f.v = ReplicaParts(s, r) /\ r.lag \in Nat
  BY <1>1, LineNamesOf, FactTypes
<1>3. parseConnectedSlaveString(f) /\ ToSet(replicaMetrics(f.v)) = ReplicaSet(s, r)
  BY <1>2, ReplicaLineFacts
<1>4. ms = replicaMetrics(f.v)
  BY <1>3, ReplicationMetricsFacts DEF MasterKeys
<1>5. replicaMetrics(f.v) # <<>>
  BY ReplicaMetricsFacts
<1>6. LineMetrics(p, f) = IF ms # <<>> THEN ToSet(ms) ELSE FieldMetrics(f)
  BY DEF LineMetrics
<1> HIDE DEF ms
<1>7. LineMetrics(p, f) = ReplicaSet(s, r)
  BY <1>3, <1>4, <1>5, <1>6
<1>8. LineW(s, "slave", o) = ReplicaSet(s, r)
  BY DEF LineW
<1>9. \A x \in ReplicaSet(s, r) : x.name \in ReplicaMetrics
  <2>1. \A n, v1, w : Metric(n, v1, w).name = n
    BY MetricFacts
  <2>2. QED
    BY <2>1 DEF ReplicaSet, ReplicaMetrics
<1>10. QED
  BY <1>7, <1>8, <1>9 DEF Watched

\* A master's line gives that master's series, under its address.
LEMMA MasterLine ==
    ASSUME NEW s \in Facts, NEW o, NEW f, LineOk(s, f, o), f.k \in MasterKeys, NEW p, p.cls = "Replication",
           Addr(s, f, o, Seen(p, f)), NEW m
    PROVE  m \in LineMetrics(p, f) /\ m.name \in Watched <=> m \in LineW(s, f.k, o)
<1> DEFINE q == Seen(p, f)
           ms == replicationMetrics(q, f)
           a == s.masters[o]
           who == <<a.host, a.port>>
<1>1. f.k \in MasterBlock \ {"master_host"}
  BY DEF MasterKeys, MasterBlock
<1>2. q.host = a.host /\ q.port = a.port
  BY <1>1 DEF Addr
<1>3. /\ f.k = "master_link_status" => f.v[1].s = IF a.up THEN "up" ELSE "down"
      /\ f.k = "master_last_io_seconds_ago" => Atoi(f.v) = a.io
      /\ f.k = "master_sync_in_progress" => Atoi(f.v) = IF a.up THEN 0 ELSE 1
      /\ f.k = "slave_repl_offset" => Atoi(f.v) = a.offset
  BY <1>1, MasterLineFacts
<1>4. /\ f.k = "master_link_status" =>
            ms # <<>> /\ ToSet(ms) = {Metric("master_link_up", Whole(IF f.v[1].s = "up" THEN 1 ELSE 0), <<q.host, q.port>>)}
      /\ f.k \in MasterKeys \ {"master_link_status"} =>
            ms # <<>> /\ ToSet(ms) = {Metric(f.k, Whole(Atoi(f.v)), <<q.host, q.port>>)}
  BY ReplicationMetricsFacts
<1>5. LineMetrics(p, f) = IF ms # <<>> THEN ToSet(ms) ELSE FieldMetrics(f)
  BY <1>1 DEF LineMetrics, MasterBlock
<1> HIDE DEF ms, q
<1>6. LineMetrics(p, f) = MasterSet(a, f.k)
  <2>1. CASE f.k = "master_link_status"
    <3>1. (IF f.v[1].s = "up" THEN 1 ELSE 0) = (IF a.up THEN 1 ELSE 0)
      BY <1>3, <2>1
    <3>2. LineMetrics(p, f) = {Metric("master_link_up", Whole(IF a.up THEN 1 ELSE 0), who)}
      BY <1>2, <1>4, <1>5, <2>1, <3>1
    <3>3. QED
      BY <2>1, <3>2 DEF MasterSet
  <2>2. CASE f.k = "master_last_io_seconds_ago"
    BY <1>2, <1>3, <1>4, <1>5, <2>2 DEF MasterSet, MasterKeys
  <2>3. CASE f.k = "master_sync_in_progress"
    BY <1>2, <1>3, <1>4, <1>5, <2>3 DEF MasterSet, MasterKeys
  <2>4. CASE f.k = "slave_repl_offset"
    BY <1>2, <1>3, <1>4, <1>5, <2>4 DEF MasterSet, MasterKeys
  <2>5. QED
    BY <2>1, <2>2, <2>3, <2>4 DEF MasterKeys
<1>7. LineW(s, f.k, o) = MasterSet(a, f.k)
  BY DEF LineW, MasterKeys
<1>8. \A x \in MasterSet(a, f.k) : x.name \in MasterMetrics
  <2>1. \A n, v1, w : Metric(n, v1, w).name = n
    BY MetricFacts
  <2>2. QED
    BY <2>1 DEF MasterSet, MasterMetrics
<1>9. QED
  BY <1>6, <1>7, <1>8 DEF Watched

\* The accounted part of what a line of INFO registers is what the facts say.
LEMMA LineWatched ==
    ASSUME NEW s \in Facts, NEW o, NEW f, LineOk(s, f, o), f.k # "#", NEW p, p.cls = Home(f.k),
           Addr(s, f, o, Seen(p, f)), NEW m
    PROVE  m \in LineMetrics(p, f) /\ m.name \in Watched <=> m \in LineW(s, f.k, o)
<1>1. CASE f.k = "db"
  BY <1>1, DbLine, HomeFacts
<1>2. CASE f.k = "cmdstat_"
  BY <1>2, CmdLine, HomeFacts
<1>3. CASE f.k = "slave"
  BY <1>3, SlaveLine, HomeFacts
<1>4. CASE f.k \in MasterKeys
  <2>1. f.k \in MasterBlock
    BY <1>4 DEF MasterKeys, MasterBlock
  <2>2. p.cls = "Replication"
    BY <2>1, HomeFacts
  <2>3. QED
    BY <1>4, <2>2, MasterLine
<1>5. CASE f.k \notin MasterKeys \cup {"db", "cmdstat_", "slave"}
  <2>1. LineW(s, f.k, o) = {}
    BY <1>5 DEF LineW
  <2>2. ~(m \in LineMetrics(p, f) /\ m.name \in Watched)
    <3>1. SUFFICES ASSUME m \in LineMetrics(p, f), m.name \in Watched
                   PROVE  FALSE
      OBVIOUS
    <3>2. m.name \notin DbMetrics
      BY <1>5, <3>1, LineNames, HomeFacts
    <3>3. m.name \notin CmdMetrics
      BY <1>5, <3>1, LineNames, HomeFacts
    <3>4. m.name \notin MasterMetrics \cup ReplicaMetrics
      <4>1. ~parseConnectedSlaveString(f)
        BY <1>5 DEF parseConnectedSlaveString
      <4>2. replicationMetrics(Seen(p, f), f) = <<>>
        BY <1>5, <4>1, ReplicationMetricsFacts
      <4>3. ToSet(replicationMetrics(Seen(p, f), f)) = {}
        BY <4>2, ShortSeqs
      <4>4. QED
        BY <3>1, <4>3, LineNames
    <3>5. m.name \in {"slave_info", "instance_info", "connected_client_info"}
      BY <3>1, <3>2, <3>3, <3>4 DEF Watched
    <3>6. m.name \in DbMetrics \cup CmdMetrics \cup MasterMetrics \cup ReplicaMetrics \cup SentinelMetrics
                         \cup FieldNames
                         \cup {"sentinel_master_status", "sentinel_masters", "sentinel_tilt", "errors_total",
                               "start_time_seconds", "hz", "configured_hz"}
      BY <3>1, LineNames
    <3>7. QED
      BY <3>5, <3>6 DEF DbMetrics, CmdMetrics, MasterMetrics, ReplicaMetrics, SentinelMetrics, FieldNames
  <2>3. QED
    BY <2>1, <2>2
<1>6. QED
  BY <1>1, <1>2, <1>3, <1>4, <1>5

(***************************************************************************)
(* The accounted series of an exporter are the ones made of the metrics W. *)
(***************************************************************************)
Exactly(e, W) ==
    /\ \A m \in W : m.name \in Watched /\ IsSeq(m.values) /\ Known(e, m.name)
    /\ \A x : x \in ToSet(e.out) /\ x.name \in Watched <=> Made(e, W, x)

\* V is W and the accounted part of N.
Grows(W, N, V) == \A m : m \in V <=> m \in W \/ (m \in N /\ m.name \in Watched)

\* A series does not change while the descriptions stay.
LEMMA MadeKept ==
    ASSUME NEW e, NEW f, Keeps(e, f), NEW W, \A m \in W : Known(e, m.name), NEW x
    PROVE  Made(e, W, x) <=> Made(f, W, x)
<1>1. ASSUME NEW m \in W
      PROVE  (Fits(e, m) <=> Fits(f, m)) /\ Series(e, m) = Series(f, m)
  <2>1. m.name \in DOMAIN e.descs /\ m.name \in DOMAIN f.descs /\ e.descs[m.name] = f.descs[m.name]
    BY DEF Known, Keeps
  <2>2. LabelsOf(e, m) = LabelsOf(f, m)
    BY <2>1 DEF LabelsOf
  <2>3. QED
    BY <2>1, <2>2 DEF Fits, Known, Series
<1>2. QED
  BY <1>1 DEF Made

\* The name of a series.
LEMMA SeriesName ==
    ASSUME NEW e, NEW m
    PROVE  Series(e, m).name = m.name
BY DEF Series

\* The account stays exact when what was sent is added to it.
LEMMA ExactStep ==
    ASSUME NEW e, IsExp(e), NEW W, Exactly(e, W), NEW f, NEW N, Sends(e, f, N), NEW V, Grows(W, N, V)
    PROVE  Exactly(f, V)
<1>1. PICK q : /\ IsSeq(q) /\ f.out = e.out \o q
               /\ \A x : x \in ToSet(q) <=> Made(f, N, x)
  BY DEF Sends
<1>2. IsSeq(e.out)
  BY DEF IsExp
<1>3. IsCat(f.out, e.out, q)
  BY <1>1, <1>2, CatFacts
<1>4. ToSet(f.out) = ToSet(e.out) \cup ToSet(q)
  BY <1>3 DEF IsCat
<1>5. \A m \in V : m.name \in Watched /\ IsSeq(m.values) /\ Known(f, m.name)
  <2>1. \A m \in W : Known(e, m.name) => Known(f, m.name)
    BY DEF Sends, Keeps, Known
  <2>2. QED
    BY <2>1 DEF Sends, Exactly, Grows
<1>6. \A x : Made(e, W, x) <=> Made(f, W, x)
  <2>1. Keeps(e, f) /\ \A m \in W : Known(e, m.name)
    BY DEF Sends, Exactly
  <2>2. QED
    BY <2>1, MadeKept
<1>7. \A x : x \in ToSet(f.out) /\ x.name \in Watched <=> Made(f, V, x)
  <2>1. SUFFICES ASSUME NEW x
                 PROVE  x \in ToSet(f.out) /\ x.name \in Watched <=> Made(f, V, x)
    OBVIOUS
  <2>2. x \in ToSet(e.out) /\ x.name \in Watched <=> Made(f, W, x)
    BY <1>6 DEF Exactly
  <2>3. x \in ToSet(q) /\ x.name \in Watched <=>
            \E m \in N : m.name \in Watched /\ Fits(f, m) /\ x = Series(f, m)
    BY <1>1, SeriesName DEF Made
  <2>4. Made(f, V, x) <=> Made(f, W, x) \/ \E m \in N : m.name \in Watched /\ Fits(f, m) /\ x = Series(f, m)
    BY DEF Made, Grows
  <2>5. QED
    BY <1>4, <2>2, <2>3, <2>4
<1>8. QED
  BY <1>5, <1>7 DEF Exactly

\* Only the series of replicas that are listed alike may have the same name and labels.
Alike(s) ==
    \E m, n \in DOMAIN s.replicas :
        m # n /\ <<s.replicas[m].ip, s.replicas[m].port, s.replicas[m].state>>
                 = <<s.replicas[n].ip, s.replicas[n].port, s.replicas[n].state>>
Clash(s, name) == name \in ReplicaMetrics /\ Alike(s)
Unique(s, q) == \A a, b \in DOMAIN q : a < b /\ KeyOf(q[a]) = KeyOf(q[b]) => Clash(s, q[a].name)

\* What a step adds has other names or labels than what was there.
Fresh(s, q, N) ==
    \A x \in ToSet(q) : \A n \in N : KeyOf(x) = <<n.name, n.values>> => Clash(s, n.name)

\* Nothing is sent twice when what is sent was not there.
LEMMA UniqueStep ==
    ASSUME NEW s, NEW e, IsExp(e), Unique(s, e.out), NEW f, NEW N, Sends(e, f, N), Fresh(s, e.out, N)
    PROVE  Unique(s, f.out)
<1>1. PICK q : /\ IsSeq(q) /\ f.out = e.out \o q /\ Apart(q)
               /\ \A x : x \in ToSet(q) <=> Made(f, N, x)
  BY DEF Sends
<1>2. IsSeq(e.out)
  BY DEF IsExp
<1> DEFINE u == e.out
           w == f.out
<1>3. IsCat(w, u, q)
  BY <1>1, <1>2, CatFacts
<1>4. DOMAIN u = 1 .. Len(u) /\ DOMAIN q = 1 .. Len(q) /\ DOMAIN w = 1 .. Len(w)
      /\ (\A i \in 1 .. Len(q) : q[i] \in ToSet(q)) /\ (\A i \in 1 .. Len(u) : u[i] \in ToSet(u))
  BY <1>1, <1>2, <1>3, SeqFacts DEF IsCat
<1>5. \A y \in ToSet(q) : \E n \in N : KeyOf(y) = <<n.name, n.values>>
  <2>1. \A n \in N : IsSeq(n.values)
    BY DEF Sends
  <2>2. \A n \in N : KeyOf(Series(f, n)) = <<n.name, n.values>>
    BY <2>1, KeyOfSeries
  <2>3. QED
    BY <1>1, <2>2 DEF Made
<1>6. \A x \in ToSet(u) : \A y \in ToSet(q) : KeyOf(x) = KeyOf(y) => Clash(s, x.name)
  <2>1. SUFFICES ASSUME NEW x \in ToSet(u), NEW y \in ToSet(q), KeyOf(x) = KeyOf(y)
                 PROVE  Clash(s, x.name)
    OBVIOUS
  <2>2. PICK n \in N : KeyOf(y) = <<n.name, n.values>>
    BY <1>5
  <2>3. Clash(s, n.name)
    BY <2>1, <2>2 DEF Fresh
  <2>4. x.name = n.name
    BY <2>1, <2>2 DEF KeyOf
  <2>5. QED
    BY <2>3, <2>4
<1>7. \A a, b \in 1 .. Len(u) : a < b /\ KeyOf(u[a]) = KeyOf(u[b]) => Clash(s, u[a].name)
  BY <1>4 DEF Unique
<1>8. \A a, b \in 1 .. Len(q) : a < b => KeyOf(q[a]) # KeyOf(q[b])
  BY <1>1, <1>4 DEF Apart
<1> HIDE DEF u, w
<1>9. Len(u) \in Nat /\ Len(q) \in Nat /\ Len(w) = Len(u) + Len(q)
      /\ (\A i \in 1 .. Len(u) : w[i] = u[i]) /\ (\A i \in 1 .. Len(q) : w[Len(u) + i] = q[i])
  BY <1>3 DEF IsCat
<1>10. ASSUME NEW a \in DOMAIN w, NEW b \in DOMAIN w, a < b, KeyOf(w[a]) = KeyOf(w[b])
       PROVE  Clash(s, w[a].name)
  <2>1. a \in 1 .. Len(u) + Len(q) /\ b \in 1 .. Len(u) + Len(q)
    BY <1>4, <1>9, <1>10
  <2>2. CASE b \in 1 .. Len(u)
    <3>1. a \in 1 .. Len(u)
      BY <1>9, <1>10, <2>1, <2>2
    <3>2. w[a] = u[a] /\ w[b] = u[b]
      BY <1>9, <2>2, <3>1
    <3>3. QED
      BY <1>7, <1>10, <2>2, <3>1, <3>2
  <2>3. CASE a \in 1 .. Len(u) /\ b \notin 1 .. Len(u)
    <3>1. b - Len(u) \in 1 .. Len(q) /\ Len(u) + (b - Len(u)) = b
      BY <1>9, <2>1, <2>3
    <3>2. w[b] = q[b - Len(u)] /\ w[a] = u[a]
      BY <1>9, <2>3, <3>1
    <3>3. w[b] \in ToSet(q) /\ w[a] \in ToSet(u)
      BY <1>4, <2>3, <3>1, <3>2
    <3>4. QED
      BY <1>6, <1>10, <3>3
  <2>4. CASE a \notin 1 .. Len(u)
    <3>1. a - Len(u) \in 1 .. Len(q) /\ Len(u) + (a - Len(u)) = a
      BY <1>9, <2>1, <2>4
    <3>2. b - Len(u) \in 1 .. Len(q) /\ Len(u) + (b - Len(u)) = b /\ a - Len(u) < b - Len(u)
      BY <1>9, <1>10, <2>1, <2>4
    <3>3. w[a] = q[a - Len(u)] /\ w[b] = q[b - Len(u)]
      BY <1>9, <3>1, <3>2
    <3>4. QED
      BY <1>8, <1>10, <3>1, <3>2, <3>3
  <2>5. QED
    BY <2>2, <2>3, <2>4
<1>11. QED
  BY <1>10 DEF Unique, w

\* Every series that is there after a step was there before it or is one of the step's.
LEMMA SentKeys ==
    ASSUME NEW e, IsExp(e), NEW f, NEW N, Sends(e, f, N), NEW x \in ToSet(f.out)
    PROVE  x \in ToSet(e.out) \/ \E n \in N : x.name = n.name /\ ValuesOf(x) = n.values
<1>1. PICK q : /\ IsSeq(q) /\ f.out = e.out \o q
               /\ \A y : y \in ToSet(q) <=> Made(f, N, y)
  BY DEF Sends
<1>2. IsSeq(e.out)
  BY DEF IsExp
<1>3. IsCat(f.out, e.out, q)
  BY <1>1, <1>2, CatFacts
<1>4. ToSet(f.out) = ToSet(e.out) \cup ToSet(q)
  BY <1>3 DEF IsCat
<1>5. \A n \in N : IsSeq(n.values)
  BY DEF Sends
<1>6. \A n \in N : Series(f, n).name = n.name /\ ValuesOf(Series(f, n)) = n.values
  BY <1>5, KeyOfSeries
<1>7. QED
  BY <1>1, <1>4, <1>6 DEF Made

(***************************************************************************)
(* The accounted metrics that a scrape has registered so far.              *)
(***************************************************************************)
InfoW(s, D) == UNION {LineW(s, p[1], p[2]) : p \in D}

PadsOf(p, d) ==
    LET empty == {Itoa(n) : n \in 0 .. d - 1} \ p.handled
    IN  {Metric("db_keys", Whole(0), <<n>>) : n \in empty}
        \cup {Metric("db_keys_expiring", Whole(0), <<n>>) : n \in empty}
DoneW(op, p, d) ==
    Summaries(p) \cup (IF op.emptyDbs THEN PadsOf(p, d) ELSE {}) \cup InstanceMetrics(p.kv)

UsecOf(s, cmd) ==
    LET lines == {i \in DOMAIN s.cmds : s.cmds[i].cmd \in Extensions[cmd] \cap Spelled}
    IN  MapThenSumSet(LAMBDA i : s.cmds[i].usec, lines)
HistOf(s, h) ==
    Distribution("commands_latencies_usec", Whole(UsecOf(s, h.cmd)), <<h.cmd>>, h.calls, h.buckets)
HistW(s, op, n) ==
    {HistOf(s, HistogramOf(s, op)[i]) : i \in {j \in 1 .. n : HistogramOf(s, op)[j].scans}}

ClientOf(op, v) ==
    Metric("connected_client_info", Whole(1),
        <<Text(v, "id"), Text(v, "name"), Text(v, "flags"), Text(v, "db"), Text(v, "addr")>>
        \o If(op.inclPort, <<Itoa(Get(v, "addr").x)>>)
        \o If(Text(v, "user") # "", <<Text(v, "user")>>) \o If(Text(v, "resp") # "", <<Text(v, "resp")>>))
ClientW(s, op, n) ==
    {ClientOf(op, ClientsOf(s, op)[i].v) : i \in {j \in 1 .. n : parseClientListString(ClientsOf(s, op)[j].v)}}

HistPart(s, op, sec, t) ==
    IF sec = "histogram" THEN HistW(s, op, Gone(t, HistogramOf(s, op)))
    ELSE IF sec \in After \ {"latest"} THEN HistW(s, op, Len(HistogramOf(s, op))) ELSE {}
ClientPart(s, op, sec, t) ==
    IF sec = "clients" THEN ClientW(s, op, Gone(t, ClientsOf(s, op)))
    ELSE IF sec \in {"tile38", "modules", "end"} THEN ClientW(s, op, Len(ClientsOf(s, op))) ELSE {}
InfoPart(s, op, sec, t, p, d) ==
    IF sec = "info" THEN InfoW(s, Done(s, Gone(t, InfoText(s))))
    ELSE IF sec \in After THEN InfoW(s, InfoPairs(s)) \cup DoneW(op, p, d) ELSE {}

SecW(s, op, sec, t, p, d) ==
    InfoPart(s, op, sec, t, p, d) \cup HistPart(s, op, sec, t) \cup ClientPart(s, op, sec, t)

\* The accounted series are the ones that the lines read so far make.
Exact == Exactly(exp, SecW(sv, opts, section, todo, parse, dbCount))

\* Metrics that are not accounted for leave the account alone.
LEMMA Unwatched ==
    ASSUME NEW W, NEW N, \A m \in N : m.name \notin Watched
    PROVE  Grows(W, N, W)
BY DEF Grows

\* The metrics of a setting name the setting.
LEMMA ConfigNamed ==
    ASSUME NEW f \in ToSet(ConfigText), NEW m \in ConfigMetrics(f)
    PROVE  \/ m.name = "config_key_value" /\ m.values[1] = f.k
           \/ m.name = "config_value" /\ m.values[1] = f.k
           \/ m.name \in LimitMetrics /\ f.k = "client-output-buffer-limit"
           \/ m.name = "config_maxmemory" /\ f.k = "maxmemory"
<1>1. CASE m \in ToSet(settingMetrics(f))
  <2>1. \/ m.name = "config_key_value" /\ Len(m.values) = 2 /\ m.values[1] = f.k
        \/ m.name = "config_value" /\ m.values = <<f.k>>
    BY <1>1, SettingFacts
  <2>2. QED
    BY <2>1
<1>2. CASE m \in ToSet(limitMetrics(f))
  BY <1>2, LimitFacts
<1>3. CASE f.k = "maxmemory" /\ m = Metric("config_maxmemory", Whole(Atoi(f.v)), <<>>)
  BY <1>3, MetricFacts
<1>4. QED
  BY <1>1, <1>2, <1>3 DEF ConfigMetrics

\* The settings are not accounted for.
LEMMA ConfigUnwatched ==
    ASSUME NEW f \in ToSet(ConfigText), NEW m \in ConfigMetrics(f)
    PROVE  m.name \notin Watched
BY ConfigNamed DEF LimitMetrics, Watched, DbMetrics, CmdMetrics, MasterMetrics, ReplicaMetrics

\* Before INFO nothing is accounted for.
LEMMA NoneYet ==
    ASSUME NEW s, NEW op, NEW t, NEW p, NEW d, NEW sec \in {"config", "cluster"}
    PROVE  SecW(s, op, sec, t, p, d) = {}
BY DEF SecW, InfoPart, HistPart, ClientPart, After

\* No lines, no metrics.
LEMMA EmptyW ==
    ASSUME NEW s, NEW op
    PROVE  InfoW(s, {}) = {} /\ HistW(s, op, 0) = {} /\ ClientW(s, op, 0) = {}
BY DEF InfoW, HistW, ClientW

\* Before the first line of INFO nothing is accounted for.
LEMMA InfoBegins ==
    ASSUME NEW s \in Facts, NEW op, NEW p, NEW d
    PROVE  SecW(s, op, "info", InfoText(s), p, d) = {}
<1>1. IsSeq(InfoText(s)) /\ Done(s, 0) = {}
  BY MarksFacts
<1>2. Gone(InfoText(s), InfoText(s)) = 0
  BY <1>1, SuffixFacts
<1>3. InfoPart(s, op, "info", InfoText(s), p, d) = {}
  BY <1>1, <1>2, EmptyW DEF InfoPart
<1>4. HistPart(s, op, "info", InfoText(s)) = {} /\ ClientPart(s, op, "info", InfoText(s)) = {}
  BY DEF HistPart, ClientPart, After
<1>5. QED
  BY <1>3, <1>4 DEF SecW

\* A setting keeps the account exact.
LEMMA ExactConfig ==
    ASSUME Base, Exact, extractConfigMetrics
    PROVE  Exact'
<1>1. /\ Head(todo) \in ToSet(ConfigText) /\ Sends(exp, exp', ConfigMetrics(Head(todo))) /\ IsExp(exp)
      /\ section = "config" /\ section' = section /\ sv' = sv /\ opts' = opts
  BY BaseConfig DEF Base, extractConfigMetrics
<1>2. Exactly(exp, {})
  BY <1>1, NoneYet DEF Exact
<1>3. Grows({}, ConfigMetrics(Head(todo)), {})
  BY <1>1, ConfigUnwatched, Unwatched
<1>4. Exactly(exp', {})
  BY <1>1, <1>2, <1>3, ExactStep
<1>5. QED
  BY <1>1, <1>4, NoneYet DEF Exact

\* So does the fetch of INFO or of the cluster's state.
LEMMA ExactFetchInfo ==
    ASSUME Base, Exact, FetchInfo
    PROVE  Exact'
<1>1. /\ exp' = exp /\ sv' = sv /\ opts' = opts /\ section = "config" /\ sv \in Facts
      /\ section' \in {"cluster", "info"} /\ (section' = "info" => todo' = InfoText(sv))
  BY BaseFetchInfo, ServerFacts DEF Base
<1>2. Exactly(exp, {})
  BY <1>1, NoneYet DEF Exact
<1>3. SecW(sv', opts', section', todo', parse', dbCount') = {}
  BY <1>1, NoneYet, InfoBegins
<1>4. QED
  BY <1>1, <1>2, <1>3 DEF Exact

\* So does a field of the cluster's state.
LEMMA ExactCluster ==
    ASSUME Base, Exact, extractClusterInfoMetrics
    PROVE  Exact'
<1>1. /\ sv' = sv /\ opts' = opts /\ section = "cluster" /\ sv \in Facts /\ IsExp(exp)
      /\ \/ exp' = exp /\ section' = "info" /\ todo' = InfoText(sv)
         \/ Sends(exp, exp', FieldMetrics(Head(todo))) /\ section' = "cluster"
  BY BaseCluster, ServerFacts DEF Base
<1>2. Exactly(exp, {})
  BY <1>1, NoneYet DEF Exact
<1>3. SecW(sv', opts', section', todo', parse', dbCount') = {}
  BY <1>1, NoneYet, InfoBegins
<1>4. Grows({}, FieldMetrics(Head(todo)), {})
  BY FieldsUnwatched, Unwatched
<1>5. Exactly(exp', {})
  BY <1>1, <1>2, <1>4, ExactStep
<1>6. QED
  BY <1>3, <1>5 DEF Exact

\* The address a line is read with is the one it leaves behind.
LEMMA SeenWalked ==
    ASSUME NEW p, NEW f, f.k # "#", p.cls = "Replication", NEW s, NEW o, Addr(s, f, o, Walked(p, f)), IsParse(p)
    PROVE  Addr(s, f, o, Seen(p, f))
<1>1. DOMAIN p = {"cls", "host", "port", "kv", "stats", "lat", "handled"}
  BY DEF IsParse
<1>2. Seen(p, f).host = Walked(p, f).host /\ Seen(p, f).port = Walked(p, f).port
  BY <1>1 DEF Seen, Walked, Silent
<1>3. QED
  BY <1>2 DEF Addr

\* The other lines do not need an address.
LEMMA AddrElsewhere ==
    ASSUME NEW f, f.k \notin MasterBlock, NEW s, NEW o, NEW p
    PROVE  Addr(s, f, o, p)
BY DEF Addr

\* One more line of INFO adds that line's metrics to the account.
LEMMA InfoGrows ==
    ASSUME NEW s, NEW D, NEW E, NEW k, NEW o, E = D \cup {<<k, o>>}, NEW m
    PROVE  m \in InfoW(s, E) <=> m \in InfoW(s, D) \/ m \in LineW(s, k, o)
<1>1. <<k, o>>[1] = k /\ <<k, o>>[2] = o
  OBVIOUS
<1>2. m \in InfoW(s, D) <=> \E p \in D : m \in LineW(s, p[1], p[2])
  BY DEF InfoW
<1>3. m \in InfoW(s, E) <=> \E p \in E : m \in LineW(s, p[1], p[2])
  BY DEF InfoW
<1>4. ASSUME m \in InfoW(s, E)
      PROVE  m \in InfoW(s, D) \/ m \in LineW(s, k, o)
  <2>1. PICK p \in E : m \in LineW(s, p[1], p[2])
    BY <1>3, <1>4
  <2>2. CASE p \in D
    BY <1>2, <2>1, <2>2
  <2>3. CASE p = <<k, o>>
    <3>1. p[1] = k /\ p[2] = o
      BY <1>1, <2>3
    <3>2. QED
      BY <2>1, <3>1
  <2>4. QED
    BY <2>1, <2>2, <2>3
<1>5. ASSUME m \in InfoW(s, D)
      PROVE  m \in InfoW(s, E)
  BY <1>2, <1>3, <1>5
<1>6. ASSUME m \in LineW(s, k, o)
      PROVE  m \in InfoW(s, E)
  <2>1. <<k, o>> \in E
    OBVIOUS
  <2>2. m \in LineW(s, <<k, o>>[1], <<k, o>>[2])
    BY <1>1, <1>6
  <2>3. QED
    BY <1>3, <2>1, <2>2
<1>7. QED
  BY <1>4, <1>5, <1>6

\* What one line adds.
LEMMA LineMakes ==
    ASSUME Base, InfoLine, Same, Head(todo).k # "#", NEW m
    PROVE  LET n == Gone(todo, InfoText(sv))
               f == Head(todo)
               o == Marks(sv)[n + 1]
           IN  m \in LineMetrics(parse, f) /\ m.name \in Watched <=> m \in LineW(sv, f.k, o)
<1> DEFINE n == Gone(todo, InfoText(sv))
           f == Head(todo)
           o == Marks(sv)[n + 1]
           D == Done(sv, n)
           E == Done(sv, n + 1)
<1>1. /\ sv \in Facts /\ n \in Nat /\ f = InfoText(sv)[n + 1]
      /\ WalkOk(sv, n, parse) /\ Steps(sv, D, E, f, o, parse)
      /\ WalkOk(sv, n + 1, parse') /\ parse' = Walked(parse, f)
  BY BaseInfoLine, ServerFacts DEF Base
<1>2. Addr(sv, f, o, Walked(parse, f)) /\ IsParse(parse)
  <2>1. n + 1 >= 1
    BY <1>1
  <2>2. QED
    BY <1>1, <2>1 DEF WalkOk
<1>3. f.k # "#"
  OBVIOUS
<1> HIDE DEF n, f, o, D, E
<1>4. LineOk(sv, f, o) /\ parse.cls = Home(f.k)
  BY <1>1, <1>3 DEF Steps
<1>5. Addr(sv, f, o, Seen(parse, f))
  <2>1. CASE f.k \in MasterBlock
    <3>1. parse.cls = "Replication"
      BY <1>4, <2>1, HomeFacts
    <3>2. QED
      BY <1>2, <1>3, <3>1, SeenWalked
  <2>2. CASE f.k \notin MasterBlock
    BY <2>2, AddrElsewhere
  <2>3. QED
    BY <2>1, <2>2
<1>6. m \in LineMetrics(parse, f) /\ m.name \in Watched <=> m \in LineW(sv, f.k, o)
  BY <1>1, <1>3, <1>4, <1>5, LineWatched
<1>7. QED
  BY <1>6 DEF f, o, n

\* A step over a line adds to the account what it sends.
LEMMA LineAdds ==
    ASSUME Base, InfoLine, Same, NEW m
    PROVE  LET n == Gone(todo, InfoText(sv))
           IN  m \in InfoW(sv, Done(sv, n + 1)) <=>
                   m \in InfoW(sv, Done(sv, n)) \/ (m \in LineMetrics(parse, Head(todo)) /\ m.name \in Watched)
<1> DEFINE n == Gone(todo, InfoText(sv))
           f == Head(todo)
           o == Marks(sv)[n + 1]
           D == Done(sv, n)
           E == Done(sv, n + 1)
<1>1. Steps(sv, D, E, f, o, parse)
  BY BaseInfoLine
<1>2. f.k # "#" => (m \in LineMetrics(parse, f) /\ m.name \in Watched <=> m \in LineW(sv, f.k, o))
  BY LineMakes
<1> HIDE DEF n, f, o, D, E
<1>3. CASE f.k = "#"
  <2>1. E = D
    BY <1>1, <1>3 DEF Steps
  <2>2. LineMetrics(parse, f) = {}
    BY <1>3 DEF LineMetrics
  <2>3. QED
    BY <2>1, <2>2 DEF D, E, f, n
<1>4. CASE f.k # "#"
  <2>1. E = D \cup {<<f.k, o>>}
    BY <1>1, <1>4 DEF Steps
  <2>2. m \in InfoW(sv, E) <=> m \in InfoW(sv, D) \/ m \in LineW(sv, f.k, o)
    <3>1. \A k : E = D \cup {<<k, o>>} => (m \in InfoW(sv, E) <=> m \in InfoW(sv, D) \/ m \in LineW(sv, k, o))
      BY ONLY InfoGrows, Zenon
    <3>2. QED
      BY ONLY <2>1, <3>1, Zenon
  <2>3. QED
    BY <1>2, <1>4, <2>2 DEF D, E, f, n
<1>5. QED
  BY <1>3, <1>4

\* A line of INFO keeps the account exact.
LEMMA ExactInfoLine ==
    ASSUME Base, Exact, InfoLine, Same
    PROVE  Exact'
<1> DEFINE n == Gone(todo, InfoText(sv))
           f == Head(todo)
           W == InfoW(sv, Done(sv, n))
           V == InfoW(sv, Done(sv, n + 1))
<1>1. /\ IsExp(exp) /\ section = "info" /\ section' = section /\ sv' = sv /\ opts' = opts
      /\ Sends(exp, exp', LineMetrics(parse, f)) /\ Gone(todo', InfoText(sv)) = n + 1
  BY BaseInfoLine DEF Base
<1>2. \A m : m \in V <=> m \in W \/ (m \in LineMetrics(parse, f) /\ m.name \in Watched)
  BY LineAdds
<1> HIDE DEF f, n
<1>3. Grows(W, LineMetrics(parse, f), V)
  BY <1>2 DEF Grows
<1>4. SecW(sv, opts, section, todo, parse, dbCount) = W
  BY <1>1 DEF SecW, InfoPart, HistPart, ClientPart, After, n
<1>5. SecW(sv', opts', section', todo', parse', dbCount') = V
  BY <1>1 DEF SecW, InfoPart, HistPart, ClientPart, After
<1> HIDE DEF W, V
<1>6. Exactly(exp', V)
  BY <1>1, <1>3, <1>4, ExactStep DEF Exact
<1>7. QED
  BY <1>5, <1>6 DEF Exact

\* What the end of INFO sends is accounted for.
LEMMA DoneWatched ==
    ASSUME NEW op, NEW p, NEW d, NEW m \in DoneW(op, p, d)
    PROVE  m.name \in Watched
<1>1. CASE m \in Summaries(p)
  <2>1. m.name = "latency_percentiles_usec"
    BY <1>1, SummaryFields DEF Summaries
  <2>2. QED
    BY <2>1 DEF Watched, CmdMetrics
<1>2. CASE m \in PadsOf(p, d)
  <2>1. \A n, v, w : Metric(n, v, w).name = n
    BY MetricFacts
  <2>2. \E n : m = Metric("db_keys", Whole(0), <<n>>) \/ m = Metric("db_keys_expiring", Whole(0), <<n>>)
    BY <1>2 DEF PadsOf
  <2>3. m.name = "db_keys" \/ m.name = "db_keys_expiring"
    BY <2>1, <2>2
  <2>4. QED
    BY <2>3 DEF Watched, DbMetrics
<1>3. CASE m \in InstanceMetrics(p.kv)
  <2>1. m.name = "instance_info" \/ m.name = "slave_info"
    BY <1>3, MetricFacts DEF InstanceMetrics, InstanceMetric, SlaveMetric
  <2>2. QED
    BY <2>1 DEF Watched
<1>4. QED
  BY <1>1, <1>2, <1>3 DEF DoneW

\* The end of INFO keeps the account exact.
LEMMA ExactInfoDone ==
    ASSUME Base, Exact, InfoDone(opts.emptyDbs), Same
    PROVE  Exact'
<1> DEFINE I == InfoW(sv, InfoPairs(sv))
           N == DoneW(opts, parse, dbCount)
<1>1. /\ sv \in Facts /\ IsExp(exp) /\ section = "info" /\ section' = "latest" /\ sv' = sv /\ opts' = opts
      /\ parse' = parse /\ dbCount' = dbCount
      /\ Sends(exp, exp', DoneMetrics(opts.emptyDbs)) /\ Gone(todo, InfoText(sv)) = Len(InfoText(sv))
  BY BaseInfoDone, ServerFacts DEF Base
<1>2. DoneMetrics(opts.emptyDbs) = N
  BY DEF DoneMetrics, DoneW, Pads, PadsOf, Unlisted
<1>3. Done(sv, Gone(todo, InfoText(sv))) = InfoPairs(sv)
  BY <1>1, MarksFacts
<1>4. SecW(sv, opts, section, todo, parse, dbCount) = I
  BY <1>1, <1>3 DEF SecW, InfoPart, HistPart, ClientPart, After
<1>5. SecW(sv', opts', section', todo', parse', dbCount') = I \cup N
  BY <1>1 DEF SecW, InfoPart, HistPart, ClientPart, After
<1>6. \A m \in N : m.name \in Watched
  BY DoneWatched
<1> HIDE DEF I, N
<1>7. Grows(I, N, I \cup N)
  BY <1>6 DEF Grows
<1>8. Exactly(exp', I \cup N)
  BY <1>1, <1>2, <1>4, <1>7, ExactStep DEF Exact
<1>9. QED
  BY <1>5, <1>8 DEF Exact

\* The latency spikes are not accounted for.
LEMMA SpikesUnwatched ==
    \A m \in SpikeSet : m.name \notin Watched
<1>1. \A m \in SpikeSet : m.name \in {"latency_spike_last", "latency_spike_duration_seconds"}
  BY MetricFacts DEF SpikeSet
<1>2. QED
  BY <1>1 DEF Watched, DbMetrics, CmdMetrics, MasterMetrics, ReplicaMetrics

\* LATENCY LATEST keeps the account exact.
LEMMA ExactLatest ==
    ASSUME Base, Exact, extractLatencyLatestMetrics
    PROVE  Exact'
<1> DEFINE W == SecW(sv, opts, section, todo, parse, dbCount)
<1>1. /\ sv \in Facts /\ IsExp(exp) /\ section = "latest" /\ section' = "histogram" /\ sv' = sv /\ opts' = opts
      /\ parse' = parse /\ dbCount' = dbCount
      /\ Sends(exp, exp', SpikeSet) /\ todo' = HistogramOf(sv, opts)
  BY BaseLatest, ServerFacts DEF Base
<1>2. Gone(todo', HistogramOf(sv, opts)) = 0
  BY <1>1, TextFacts, SuffixFacts
<1>3. HistW(sv, opts, Gone(todo', HistogramOf(sv, opts))) = {}
  BY <1>2, EmptyW
<1>4. SecW(sv', opts', section', todo', parse', dbCount') = W
  BY <1>1, <1>3 DEF SecW, InfoPart, HistPart, ClientPart, After
<1> HIDE DEF W
<1>5. Grows(W, SpikeSet, W)
  BY SpikesUnwatched, Unwatched
<1>6. Exactly(exp', W)
  BY <1>1, <1>5, ExactStep DEF Exact, W
<1>7. QED
  BY <1>4, <1>6 DEF Exact

\* The series of one more command of the histogram.
LEMMA HistAdds ==
    ASSUME NEW s, NEW op, NEW n \in Nat, NEW h, h = HistogramOf(s, op)[n + 1], NEW m
    PROVE  m \in HistW(s, op, n + 1) <=> m \in HistW(s, op, n) \/ (h.scans /\ m = HistOf(s, h))
<1> DEFINE T == HistogramOf(s, op)
<1>1. \A k : m \in HistW(s, op, k) <=> \E i \in 1 .. k : T[i].scans /\ m = HistOf(s, T[i])
  BY DEF HistW
<1> HIDE DEF T
<1>2. \A i : i \in 1 .. n + 1 <=> i \in 1 .. n \/ i = n + 1
  OBVIOUS
<1>3. h = T[n + 1]
  BY DEF T
<1>4. QED
  BY <1>1, <1>2, <1>3

\* So does an entry of LATENCY HISTOGRAM.
LEMMA ExactHistogram ==
    ASSUME Base, Exact, extractLatencyHistogramMetrics
    PROVE  Exact'
<1> DEFINE n == Gone(todo, HistogramAnswer(sv))
           h == Head(todo)
           I == InfoW(sv, InfoPairs(sv)) \cup DoneW(opts, parse, dbCount)
           W == I \cup HistW(sv, opts, n)
           V == I \cup HistW(sv, opts, n + 1)
<1>1. /\ IsExp(exp) /\ section = "histogram" /\ section' = section /\ sv' = sv /\ opts' = opts
      /\ parse' = parse /\ dbCount' = dbCount /\ n \in Nat
      /\ Sends(exp, exp', HistogramSet(h)) /\ HistogramOf(sv, opts) = HistogramAnswer(sv)
      /\ h = HistogramOf(sv, opts)[n + 1] /\ Gone(todo', HistogramAnswer(sv)) = n + 1
  BY BaseHistogram DEF Base
<1>2. Histogram(h) = HistOf(sv, h) /\ Histogram(h).name \in Watched
  BY HistogramFields DEF Histogram, HistOf, extractTotalUsecForCommand, UsecOf, Watched, CmdMetrics
<1>3. SecW(sv, opts, section, todo, parse, dbCount) = W
  BY <1>1 DEF SecW, InfoPart, HistPart, ClientPart, After
<1>4. SecW(sv', opts', section', todo', parse', dbCount') = V
  BY <1>1 DEF SecW, InfoPart, HistPart, ClientPart, After
<1> HIDE DEF n, h
<1>5. \A m : m \in HistW(sv, opts, n + 1) <=> m \in HistW(sv, opts, n) \/ (h.scans /\ m = HistOf(sv, h))
  BY <1>1, HistAdds
<1>6. \A m : m \in HistogramSet(h) <=> h.scans /\ m = HistOf(sv, h)
  BY <1>2 DEF HistogramSet
<1>7. Grows(W, HistogramSet(h), V)
  BY <1>2, <1>5, <1>6 DEF Grows
<1> HIDE DEF W, V
<1>8. Exactly(exp', V)
  BY <1>1, <1>3, <1>7, ExactStep DEF Exact
<1>9. QED
  BY <1>4, <1>8 DEF Exact

\* So does the fetch of CLIENT LIST.
LEMMA ExactFetchClients ==
    ASSUME Base, Exact, FetchClients
    PROVE  Exact'
<1> DEFINE H == HistogramOf(sv, opts)
           C == ClientsOf(sv, opts)
<1>1. /\ sv \in Facts /\ section = "histogram" /\ section' = "clients" /\ sv' = sv /\ opts' = opts
      /\ exp' = exp /\ parse' = parse /\ dbCount' = dbCount /\ todo = <<>> /\ todo' = C
  BY BaseFetchClients, ServerFacts DEF Base
<1>2. Gone(todo, H) = Len(H) /\ Gone(todo', C) = 0
  BY <1>1, TextFacts, SuffixFacts
<1>3. ClientW(sv, opts, Gone(todo', C)) = {}
  BY <1>2, EmptyW
<1> HIDE DEF H, C
<1>4. HistPart(sv', opts', section', todo') = HistPart(sv, opts, section, todo)
  BY <1>1, <1>2 DEF HistPart, After, H
<1>5. ClientPart(sv', opts', section', todo') = ClientPart(sv, opts, section, todo)
  BY <1>1, <1>3 DEF ClientPart, C
<1>6. InfoPart(sv', opts', section', todo', parse', dbCount') = InfoPart(sv, opts, section, todo, parse, dbCount)
  BY <1>1 DEF InfoPart, After
<1>7. QED
  BY <1>1, <1>4, <1>5, <1>6 DEF SecW, Exact

\* One more client adds its series to the account.
LEMMA ClientAdds ==
    ASSUME NEW s, NEW op, NEW n \in Nat, NEW v, v = ClientsOf(s, op)[n + 1].v, NEW m
    PROVE  m \in ClientW(s, op, n + 1) <=>
               m \in ClientW(s, op, n) \/ (parseClientListString(v) /\ m = ClientOf(op, v))
<1> DEFINE T == ClientsOf(s, op)
<1>1. \A k : m \in ClientW(s, op, k) <=> \E i \in 1 .. k : parseClientListString(T[i].v) /\ m = ClientOf(op, T[i].v)
  BY DEF ClientW
<1> HIDE DEF T
<1>2. \A i : i \in 1 .. n + 1 <=> i \in 1 .. n \/ i = n + 1
  OBVIOUS
<1>3. v = T[n + 1].v
  BY DEF T
<1>4. QED
  BY <1>1, <1>2, <1>3

\* The numbers of the clients are not accounted for.
LEMMA ClientNamesUnwatched ==
    \A n \in ClientNames : n \notin Watched
<1>1. ASSUME NEW n \in ToSet(ClientMetrics)
      PROVE  n \notin Watched
  <2>1. n \notin DOMAIN KnownDescs /\ n # "connected_client_info"
    BY ClientMetricsFacts
  <2>2. n # "instance_info"
    <3>1. PICK i \in 1 .. 10 : n = ClientMetrics[i]
      BY ClientMetricsFacts DEF ToSet
    <3>2. QED
      BY <3>1 DEF ClientMetrics
  <2>3. QED
    BY <2>1, <2>2, KnownFacts DEF Watched
<1>2. QED
  BY <1>1 DEF ClientNames, Watched, DbMetrics, CmdMetrics, MasterMetrics, ReplicaMetrics

\* A client keeps the account exact.
LEMMA ExactClient ==
    ASSUME Base, Exact, parseConnectedClientMetrics
    PROVE  Exact'
<1> DEFINE n == Gone(todo, ClientText(sv))
           v == Head(todo).v
           I == InfoW(sv, InfoPairs(sv)) \cup DoneW(opts, parse, dbCount) \cup HistW(sv, opts, Len(HistogramOf(sv, opts)))
           W == I \cup ClientW(sv, opts, n)
           V == I \cup ClientW(sv, opts, n + 1)
<1>1. /\ IsExp(exp) /\ section = "clients" /\ section' = section /\ sv' = sv /\ opts' = opts
      /\ parse' = parse /\ dbCount' = dbCount /\ n \in Nat
      /\ Sends(exp, exp', ClientSet(v)) /\ ClientsOf(sv, opts) = ClientText(sv)
      /\ v = ClientsOf(sv, opts)[n + 1].v /\ Gone(todo', ClientText(sv)) = n + 1
  BY BaseClient DEF Base
<1>2. ClientMetric(v) = ClientOf(opts, v) /\ ClientMetric(v).name \in Watched
  <2>1. ClientMetric(v) = ClientOf(opts, v)
    BY DEF ClientMetric, ClientOf, clientValues
  <2>2. ClientMetric(v).name = "connected_client_info"
    BY MetricFacts DEF ClientMetric
  <2>3. QED
    BY <2>1, <2>2 DEF Watched
<1>3. SecW(sv, opts, section, todo, parse, dbCount) = W
  BY <1>1 DEF SecW, InfoPart, HistPart, ClientPart, After
<1>4. SecW(sv', opts', section', todo', parse', dbCount') = V
  BY <1>1 DEF SecW, InfoPart, HistPart, ClientPart, After
<1> HIDE DEF n, v
<1>5. \A m : m \in ClientW(sv, opts, n + 1) <=>
          m \in ClientW(sv, opts, n) \/ (parseClientListString(v) /\ m = ClientOf(opts, v))
  BY <1>1, ClientAdds
<1>6. \A m : m \in ClientSet(v) /\ m.name \in Watched <=> parseClientListString(v) /\ m = ClientOf(opts, v)
  <2>1. \A m \in ToSet(clientMetrics(v)) : m.name \notin Watched
    BY ClientNumbersSent, ClientNamesUnwatched
  <2>2. CASE parseClientListString(v)
    <3>1. ClientSet(v) = {ClientMetric(v)} \cup ToSet(clientMetrics(v))
      BY <2>2 DEF ClientSet
    <3>2. QED
      BY <1>2, <2>1, <2>2, <3>1
  <2>3. CASE ~parseClientListString(v)
    <3>1. ClientSet(v) = {}
      BY <2>3 DEF ClientSet
    <3>2. QED
      BY <2>3, <3>1
  <2>4. QED
    BY <2>2, <2>3
<1>7. Grows(W, ClientSet(v), V)
  BY <1>5, <1>6 DEF Grows
<1> HIDE DEF W, V
<1>8. Exactly(exp', V)
  BY <1>1, <1>3, <1>7, ExactStep DEF Exact
<1>9. QED
  BY <1>4, <1>8 DEF Exact

\* So does the fetch of SERVER EXT.
LEMMA ExactFetchTile38 ==
    ASSUME Base, Exact, FetchTile38
    PROVE  Exact'
<1> DEFINE C == ClientsOf(sv, opts)
<1>1. /\ sv \in Facts /\ section = "clients" /\ section' = "tile38" /\ sv' = sv /\ opts' = opts
      /\ exp' = exp /\ parse' = parse /\ dbCount' = dbCount /\ todo = <<>>
  BY BaseFetchTile38, ServerFacts DEF Base
<1>2. Gone(todo, C) = Len(C)
  BY <1>1, TextFacts, SuffixFacts
<1> HIDE DEF C
<1>3. HistPart(sv', opts', section', todo') = HistPart(sv, opts, section, todo)
  BY <1>1 DEF HistPart, After
<1>4. ClientPart(sv', opts', section', todo') = ClientPart(sv, opts, section, todo)
  BY <1>1, <1>2 DEF ClientPart, C
<1>5. InfoPart(sv', opts', section', todo', parse', dbCount') = InfoPart(sv, opts, section, todo, parse, dbCount)
  BY <1>1 DEF InfoPart, After
<1>6. QED
  BY <1>1, <1>3, <1>4, <1>5 DEF SecW, Exact

\* From here on nothing that is accounted for is added.
LEMMA RestSame ==
    ASSUME NEW s, NEW op, NEW p, NEW d, NEW t, NEW u, NEW a \in {"tile38", "modules", "end"},
           NEW b \in {"tile38", "modules", "end"}
    PROVE  SecW(s, op, a, t, p, d) = SecW(s, op, b, u, p, d)
BY DEF SecW, InfoPart, HistPart, ClientPart, After

\* So do steps after the clients that send nothing accounted for.
LEMMA ExactRest ==
    ASSUME Base, Exact, section \in {"tile38", "modules", "end"}, section' \in {"tile38", "modules", "end"},
           UNCHANGED <<sv, opts, parse, dbCount>>, NEW N, exp' = exp \/ Sends(exp, exp', N),
           \A m \in N : m.name \notin Watched
    PROVE  Exact'
<1> DEFINE W == SecW(sv, opts, section, todo, parse, dbCount)
<1>1. SecW(sv', opts', section', todo', parse', dbCount') = W
  <2>1. SecW(sv, opts, section', todo', parse, dbCount) = W
    BY RestSame
  <2>2. QED
    BY <2>1
<1> HIDE DEF W
<1>2. Grows(W, N, W)
  BY Unwatched
<1>3. Exactly(exp, W) /\ IsExp(exp)
  BY DEF Exact, Base, W
<1>4. Exactly(exp', W)
  BY <1>2, <1>3, ExactStep
<1>5. QED
  BY <1>1, <1>4 DEF Exact

\* So does a field of SERVER EXT.
LEMMA ExactTile38 ==
    ASSUME Base, Exact, extractTile38Metrics
    PROVE  Exact'
<1> DEFINE N == FieldMetrics(tile38Field(Head(todo)))
<1>1. section = "tile38" /\ section' = "tile38" /\ UNCHANGED <<sv, opts, parse, dbCount>> /\ Sends(exp, exp', N)
  BY BaseTile38
<1>2. \A m \in N : m.name \notin Watched
  BY FieldsUnwatched
<1> HIDE DEF N
<1>3. QED
  BY <1>1, <1>2, ExactRest

\* So does the fetch of INFO MODULES.
LEMMA ExactFetchModules ==
    ASSUME Base, Exact, FetchModules
    PROVE  Exact'
<1>1. section = "tile38" /\ section' = "modules" /\ UNCHANGED <<sv, opts, parse, dbCount>> /\ exp' = exp
  BY BaseFetchModules
<1>2. PICK N : N = {}
  OBVIOUS
<1>3. QED
  BY <1>1, <1>2, ExactRest

\* The modules are not accounted for.
LEMMA ModulesUnwatched ==
    ASSUME NEW f, NEW m \in ModuleSet(f)
    PROVE  m.name \notin Watched
<1>1. CASE f.k = "module"
  <2>1. m.name = "module_info"
    BY <1>1, ModuleMetricsFacts DEF ModuleSet
  <2>2. QED
    BY <2>1 DEF Watched, DbMetrics, CmdMetrics, MasterMetrics, ReplicaMetrics
<1>2. CASE f.k # "module"
  BY <1>2, FieldsUnwatched DEF ModuleSet
<1>3. QED
  BY <1>1, <1>2

\* A line of INFO MODULES keeps the account exact.
LEMMA ExactModules ==
    ASSUME Base, Exact, extractModulesMetrics
    PROVE  Exact'
<1>1. section = "modules" /\ section' = "modules" /\ UNCHANGED <<sv, opts, parse, dbCount>>
      /\ Sends(exp, exp', ModuleSet(Head(todo)))
  BY BaseModules
<1>2. QED
  BY <1>1, ModulesUnwatched, ExactRest

\* So does the end of a scrape.
LEMMA ExactEndScrape ==
    ASSUME Base, Exact, EndScrape
    PROVE  Exact'
<1>1. section = "modules" /\ section' = "end" /\ UNCHANGED <<sv, opts, parse, dbCount>> /\ exp' = exp
  BY BaseEndScrape
<1>2. PICK N : N = {}
  OBVIOUS
<1>3. QED
  BY <1>1, <1>2, ExactRest

\* No series, no account.
LEMMA ExactEmpty ==
    ASSUME NEW e, e.out = <<>>
    PROVE  Exactly(e, {})
<1>1. ToSet(e.out) = {}
  BY ShortSeqs
<1>2. QED
  BY <1>1 DEF Exactly, Made

\* The next scrape begins with an empty account.
LEMMA ExactNextScrape ==
    ASSUME Base, Exact, NextScrape
    PROVE  Exact'
<1>1. section' = "config" /\ exp'.out = <<>>
  BY BaseNextScrape
<1>2. SecW(sv', opts', section', todo', parse', dbCount') = {}
  BY <1>1, NoneYet
<1>3. Exactly(exp', {})
  BY <1>1, ExactEmpty
<1>4. QED
  BY <1>2, <1>3 DEF Exact

\* So does the first one.
LEMMA ExactInit == Init => Exact
<1>1. SUFFICES ASSUME Init
               PROVE  Exact
  OBVIOUS
<1>2. section = "config" /\ exp.out = <<>>
  BY <1>1 DEF Init, NewExporter
<1>3. SecW(sv, opts, section, todo, parse, dbCount) = {}
  BY <1>2, NoneYet
<1>4. QED
  BY <1>2, <1>3, ExactEmpty DEF Exact

\* A stuttering step keeps the account exact.
LEMMA ExactSame ==
    ASSUME Exact, UNCHANGED vars
    PROVE  Exact'
BY DEF Exact, vars, infoVars

\* Every step keeps the account exact.
LEMMA ExactNext == Base /\ Exact /\ [Next]_vars => Exact'
<1>1. SUFFICES ASSUME Base, Exact, [Next]_vars
               PROVE  Exact'
  OBVIOUS
<1>2. CASE extractConfigMetrics
  BY <1>1, <1>2, ExactConfig
<1>3. CASE FetchInfo
  BY <1>1, <1>3, ExactFetchInfo
<1>4. CASE extractClusterInfoMetrics
  BY <1>1, <1>4, ExactCluster
<1>5. CASE Info
  BY <1>1, <1>5, ExactInfoLine, ExactInfoDone DEF Info
<1>6. CASE extractLatencyLatestMetrics
  BY <1>1, <1>6, ExactLatest
<1>7. CASE extractLatencyHistogramMetrics
  BY <1>1, <1>7, ExactHistogram
<1>8. CASE FetchClients
  BY <1>1, <1>8, ExactFetchClients
<1>9. CASE parseConnectedClientMetrics
  BY <1>1, <1>9, ExactClient
<1>10. CASE FetchTile38
  BY <1>1, <1>10, ExactFetchTile38
<1>11. CASE extractTile38Metrics
  BY <1>1, <1>11, ExactTile38
<1>12. CASE FetchModules
  BY <1>1, <1>12, ExactFetchModules
<1>13. CASE extractModulesMetrics
  BY <1>1, <1>13, ExactModules
<1>14. CASE EndScrape
  BY <1>1, <1>14, ExactEndScrape
<1>15. CASE NextScrape
  BY <1>1, <1>15, ExactNextScrape
<1>16. CASE Terminated \/ UNCHANGED vars
  BY <1>1, <1>16, ExactSame DEF Terminated
<1>17. QED
  BY <1>1, <1>2, <1>3, <1>4, <1>5, <1>6, <1>7, <1>8, <1>9, <1>10, <1>11, <1>12, <1>13, <1>14, <1>15, <1>16 DEF Next

\* Base and Exact are invariants.
LEMMA ExactAlways == Spec => [](Base /\ Exact)
<1>1. Init => Base /\ Exact
  BY BaseInit, ExactInit
<1>2. Base /\ Exact /\ [Next]_vars => (Base /\ Exact)'
  BY BaseStep, ExactNext
<1>3. QED
  BY <1>1, <1>2, PTL DEF Spec

(***************************************************************************)
(* A finished scrape: which lines there were, and what each of them made.  *)
(***************************************************************************)
LEMMA PairsListed ==
    ASSUME NEW s \in Facts, Consistent(s)
    PROVE  /\ \A o : <<"db", o>> \in InfoPairs(s) <=> o \in DOMAIN s.dbs
           /\ \A o : <<"cmdstat_", o>> \in InfoPairs(s) <=> o \in DOMAIN s.cmds
           /\ \A o : <<"slave", o>> \in InfoPairs(s) <=> o \in DOMAIN s.replicas
           /\ \A o : <<"latency_percentiles_usec_", o>> \in InfoPairs(s) <=> s.kind \in Since70 /\ o \in DOMAIN s.cmds
           /\ \A k \in MasterBlock : \A o : <<k, o>> \in InfoPairs(s) <=> o \in DOMAIN s.masters
           /\ <<"role", 0>> \in InfoPairs(s) <=> ~s.sentinel
           /\ <<"slave_read_only", 0>> \in InfoPairs(s) <=> s.masters # <<>>
           /\ <<"redis_version", 0>> \in InfoPairs(s)
           /\ <<"valkey_version", 0>> \in InfoPairs(s) <=> s.kind \in Valkey
           /\ <<"valkey_release_stage", 0>> \in InfoPairs(s) <=> s.kind = "valkey8"
<1>1. \A k, o, l, q : <<k, o>> = <<l, q>> <=> k = l /\ o = q
  OBVIOUS
<1>2. /\ DOMAIN s.dbs = 1 .. Len(s.dbs) /\ DOMAIN s.cmds = 1 .. Len(s.cmds)
      /\ DOMAIN s.replicas = 1 .. Len(s.replicas) /\ DOMAIN s.masters = 1 .. Len(s.masters)
  BY FactSeqs, SeqFacts
<1>3. DOMAIN <<>> = {}
  BY ShortSeqs
<1>4. s.sentinel => DOMAIN s.dbs = {} /\ DOMAIN s.cmds = {} /\ DOMAIN s.replicas = {} /\ DOMAIN s.masters = {} /\ s.masters = <<>>
  BY <1>3 DEF Consistent
<1>5. \A k, o : <<k, o>> \in MasterPairs(Len(s.masters)) <=> k \in MasterBlock /\ o \in DOMAIN s.masters
  <2>1. ASSUME NEW k, NEW o, <<k, o>> \in MasterPairs(Len(s.masters))
        PROVE  k \in MasterBlock /\ o \in DOMAIN s.masters
    <3>1. PICK c \in 1 .. 6, q \in 1 .. Len(s.masters) : <<k, o>> = <<MasterRow[c], q>>
      BY <2>1 DEF MasterPairs
    <3>2. k = MasterRow[c] /\ o = q
      BY <1>1, <3>1
    <3>3. QED
      BY <1>2, <3>2, MasterRowFacts
  <2>2. ASSUME NEW k \in MasterBlock, NEW o \in DOMAIN s.masters
        PROVE  <<k, o>> \in MasterPairs(Len(s.masters))
    <3>1. \E c \in 1 .. 6 : k = MasterRow[c]
      <4>1. MasterRow[1] = "master_host" /\ MasterRow[2] = "master_port" /\ MasterRow[3] = "master_link_status"
            /\ MasterRow[4] = "master_last_io_seconds_ago" /\ MasterRow[5] = "master_sync_in_progress"
            /\ MasterRow[6] = "slave_repl_offset"
        BY DEF MasterRow
      <4>2. QED
        BY <4>1 DEF MasterBlock
    <3>2. QED
      BY <1>2, <3>1 DEF MasterPairs
  <2>3. QED
    BY <2>1, <2>2
<1>6. \A k, o : <<k, o>> \in FrontPairs(s) <=>
          /\ o = 0
          /\ \/ k \in {"redis_version", "uptime_in_seconds", "hz", "latest_fork_usec"}
             \/ k = "valkey_version" /\ s.kind \in Valkey
             \/ k = "valkey_release_stage" /\ s.kind = "valkey8"
  BY <1>1 DEF FrontPairs
<1>7. \A k, o : <<k, o>> \in WatchPairs(s) <=> o = 0 /\ k \in {"sentinel_masters", "master"}
  BY <1>1 DEF WatchPairs
<1>8. \A k, o : <<k, o>> \in DataPairs(s) <=>
          \/ o = 0 /\ k \in {"role", "connected_slaves", "cluster_enabled"}
          \/ o = 0 /\ k = "slave_read_only" /\ s.masters # <<>>
          \/ o = 0 /\ k = "errorstat_" /\ s.kind \in Since62
          \/ k \in MasterBlock /\ o \in DOMAIN s.masters
          \/ k = "slave" /\ o \in DOMAIN s.replicas
          \/ k = "cmdstat_" /\ o \in DOMAIN s.cmds
          \/ k = "latency_percentiles_usec_" /\ s.kind \in Since70 /\ o \in DOMAIN s.cmds
          \/ k = "db" /\ o \in DOMAIN s.dbs
  <2>1. \A K, n, k, o : <<k, o>> \in {<<K, q>> : q \in 1 .. n} <=> k = K /\ o \in 1 .. n
    BY <1>1
  <2>2. SUFFICES ASSUME NEW k, NEW o
                 PROVE  <<k, o>> \in DataPairs(s) <=>
                            \/ o = 0 /\ k \in {"role", "connected_slaves", "cluster_enabled"}
                            \/ o = 0 /\ k = "slave_read_only" /\ s.masters # <<>>
                            \/ o = 0 /\ k = "errorstat_" /\ s.kind \in Since62
                            \/ k \in MasterBlock /\ o \in DOMAIN s.masters
                            \/ k = "slave" /\ o \in DOMAIN s.replicas
                            \/ k = "cmdstat_" /\ o \in DOMAIN s.cmds
                            \/ k = "latency_percentiles_usec_" /\ s.kind \in Since70 /\ o \in DOMAIN s.cmds
                            \/ k = "db" /\ o \in DOMAIN s.dbs
    OBVIOUS
  <2>3. <<k, o>> \in DataPairs(s) <=>
            \/ <<k, o>> = <<"role", 0>> \/ <<k, o>> \in MasterPairs(Len(s.masters))
            \/ (s.masters # <<>> /\ <<k, o>> = <<"slave_read_only", 0>>) \/ <<k, o>> = <<"connected_slaves", 0>>
            \/ <<k, o>> \in {<<"slave", q>> : q \in 1 .. Len(s.replicas)}
            \/ <<k, o>> \in {<<"cmdstat_", q>> : q \in 1 .. Len(s.cmds)}
            \/ (s.kind \in Since62 /\ <<k, o>> = <<"errorstat_", 0>>)
            \/ (s.kind \in Since70 /\ <<k, o>> \in {<<"latency_percentiles_usec_", q>> : q \in 1 .. Len(s.cmds)})
            \/ <<k, o>> = <<"cluster_enabled", 0>>
            \/ <<k, o>> \in {<<"db", q>> : q \in 1 .. Len(s.dbs)}
    BY Zenon DEF DataPairs
  <2>4. QED
    BY <1>1, <1>2, <1>5, <2>1, <2>3
<1>9. \A k, o : <<k, o>> \in InfoPairs(s) <=>
          <<k, o>> \in FrontPairs(s) \/ (s.sentinel /\ <<k, o>> \in WatchPairs(s)) \/ (~s.sentinel /\ <<k, o>> \in DataPairs(s))
  BY DEF InfoPairs
<1>10. QED
  BY <1>4, <1>6, <1>7, <1>8, <1>9 DEF MasterBlock

\* What the lines of INFO made.
LEMMA InfoWIs ==
    ASSUME NEW s \in Facts, Consistent(s), NEW m
    PROVE  m \in InfoW(s, InfoPairs(s)) <=>
               \/ s.kind # "later" /\ \E o \in DOMAIN s.dbs : m \in DbSet(s, s.dbs[o])
               \/ \E o \in DOMAIN s.cmds : s.cmds[o].cmd \notin s.brief /\ m \in CmdSet(s, s.cmds[o])
               \/ \E o \in DOMAIN s.replicas : m \in ReplicaSet(s, s.replicas[o])
               \/ \E o \in DOMAIN s.masters : \E k \in MasterKeys : m \in MasterSet(s.masters[o], k)
<1>1. \A p \in InfoPairs(s) : \E k, o : p = <<k, o>>
  BY DEF InfoPairs, FrontPairs, WatchPairs, DataPairs, MasterPairs
<1>2. \A k, o : <<k, o>>[1] = k /\ <<k, o>>[2] = o
  OBVIOUS
<1>3. m \in InfoW(s, InfoPairs(s)) <=> \E p \in InfoPairs(s) : m \in LineW(s, p[1], p[2])
  BY DEF InfoW
<1>4. m \in InfoW(s, InfoPairs(s)) <=> \E k, o : <<k, o>> \in InfoPairs(s) /\ m \in LineW(s, k, o)
  <2>1. ASSUME m \in InfoW(s, InfoPairs(s))
        PROVE  \E k, o : <<k, o>> \in InfoPairs(s) /\ m \in LineW(s, k, o)
    <3>1. PICK p \in InfoPairs(s) : m \in LineW(s, p[1], p[2])
      BY <1>3, <2>1
    <3>2. PICK k, o : p = <<k, o>>
      BY <1>1, <3>1
    <3>3. p[1] = k /\ p[2] = o
      BY <3>2
    <3>4. QED
      BY <3>1, <3>2, <3>3
  <2>2. ASSUME NEW k, NEW o, <<k, o>> \in InfoPairs(s), m \in LineW(s, k, o)
        PROVE  m \in InfoW(s, InfoPairs(s))
    <3>1. m \in LineW(s, <<k, o>>[1], <<k, o>>[2])
      BY <1>2, <2>2
    <3>2. QED
      BY <1>3, <2>2, <3>1
  <2>3. QED
    BY <2>1, <2>2
<1>5. \A k \in MasterKeys : k \in MasterBlock /\ k \notin {"db", "cmdstat_", "slave"}
  BY DEF MasterKeys, MasterBlock
<1>6. \A k, o : m \in LineW(s, k, o) <=>
          \/ k = "db" /\ s.kind # "later" /\ m \in DbSet(s, s.dbs[o])
          \/ k = "cmdstat_" /\ s.cmds[o].cmd \notin s.brief /\ m \in CmdSet(s, s.cmds[o])
          \/ k = "slave" /\ m \in ReplicaSet(s, s.replicas[o])
          \/ k \in MasterKeys /\ m \in MasterSet(s.masters[o], k)
  BY <1>5 DEF LineW
<1>7. QED
  BY <1>4, <1>5, <1>6, PairsListed

\* The names of the series of a database, a command, a replica and a master.
LEMMA SetNames ==
    ASSUME NEW s, NEW x, NEW m
    PROVE  /\ m \in DbSet(s, x) => m.name \in DbMetrics
           /\ m \in CmdSet(s, x) => m.name \in CmdMetrics \ {"commands_latencies_usec", "latency_percentiles_usec"}
           /\ m \in ReplicaSet(s, x) => m.name \in ReplicaMetrics
           /\ \A k : m \in MasterSet(x, k) => m.name \in MasterMetrics
<1>1. \A n, v, w : Metric(n, v, w).name = n
  BY MetricFacts
<1>2. m \in DbSet(s, x) => m.name \in DbMetrics
  BY <1>1 DEF DbSet, DbMetrics
<1>3. m \in CmdSet(s, x) => m.name \in CmdMetrics \ {"commands_latencies_usec", "latency_percentiles_usec"}
  BY <1>1 DEF CmdSet, CmdMetrics
<1>4. m \in ReplicaSet(s, x) => m.name \in ReplicaMetrics
  BY <1>1 DEF ReplicaSet, ReplicaMetrics
<1>5. \A k : m \in MasterSet(x, k) => m.name \in MasterMetrics
  BY <1>1 DEF MasterSet, MasterMetrics
<1>6. QED
  BY <1>2, <1>3, <1>4, <1>5

\* Who makes which metric.
EndW(s, op, p, d) ==
    InfoW(s, InfoPairs(s)) \cup DoneW(op, p, d) \cup HistW(s, op, Len(HistogramOf(s, op)))
    \cup ClientW(s, op, Len(ClientsOf(s, op)))

\* The account of a finished scrape, name by name.
LEMMA EndIs ==
    ASSUME NEW s \in Facts, Consistent(s), NEW op, NEW p, NEW d, NEW m
    PROVE  /\ m.name \in DbMetrics =>
                 (m \in EndW(s, op, p, d) <=>
                     \/ s.kind # "later" /\ \E o \in DOMAIN s.dbs : m \in DbSet(s, s.dbs[o])
                     \/ op.emptyDbs /\ m \in PadsOf(p, d))
           /\ m.name \in CmdMetrics \ {"commands_latencies_usec", "latency_percentiles_usec"} =>
                 (m \in EndW(s, op, p, d) <=>
                     \E o \in DOMAIN s.cmds : s.cmds[o].cmd \notin s.brief /\ m \in CmdSet(s, s.cmds[o]))
           /\ m.name = "latency_percentiles_usec" => (m \in EndW(s, op, p, d) <=> m \in Summaries(p))
           /\ m.name = "commands_latencies_usec" =>
                 (m \in EndW(s, op, p, d) <=> m \in HistW(s, op, Len(HistogramOf(s, op))))
           /\ m.name \in ReplicaMetrics =>
                 (m \in EndW(s, op, p, d) <=> \E o \in DOMAIN s.replicas : m \in ReplicaSet(s, s.replicas[o]))
           /\ m.name \in MasterMetrics =>
                 (m \in EndW(s, op, p, d) <=>
                     \E o \in DOMAIN s.masters : \E k \in MasterKeys : m \in MasterSet(s.masters[o], k))
           /\ m.name = "slave_info" => (m \in EndW(s, op, p, d) <=> Value(p.kv, "role") = "slave" /\ m = SlaveMetric(p.kv))
           /\ m.name = "instance_info" => (m \in EndW(s, op, p, d) <=> m = InstanceMetric(p.kv))
           /\ m.name = "connected_client_info" =>
                 (m \in EndW(s, op, p, d) <=> m \in ClientW(s, op, Len(ClientsOf(s, op))))
<1>1. /\ m \in Summaries(p) => m.name = "latency_percentiles_usec"
      /\ m \in HistW(s, op, Len(HistogramOf(s, op))) => m.name = "commands_latencies_usec"
      /\ m \in ClientW(s, op, Len(ClientsOf(s, op))) => m.name = "connected_client_info"
      /\ m \in PadsOf(p, d) => m.name \in DbMetrics
      /\ m = InstanceMetric(p.kv) => m.name = "instance_info"
      /\ m = SlaveMetric(p.kv) => m.name = "slave_info"
  <2>1. \A n, v, w : Metric(n, v, w).name = n
    BY MetricFacts
  <2>2. \A h : HistOf(s, h).name = "commands_latencies_usec"
    BY DEF HistOf, Distribution
  <2>3. m \in Summaries(p) => m.name = "latency_percentiles_usec"
    BY SummaryFields DEF Summaries
  <2>4. m \in HistW(s, op, Len(HistogramOf(s, op))) => m.name = "commands_latencies_usec"
    BY <2>2 DEF HistW
  <2>5. \A v : ClientOf(op, v).name = "connected_client_info"
    BY <2>1 DEF ClientOf
  <2>6. m \in ClientW(s, op, Len(ClientsOf(s, op))) => m.name = "connected_client_info"
    BY <2>5 DEF ClientW
  <2>7. m \in PadsOf(p, d) => \E n : m = Metric("db_keys", Whole(0), <<n>>) \/ m = Metric("db_keys_expiring", Whole(0), <<n>>)
    BY DEF PadsOf
  <2>8. m \in PadsOf(p, d) => m.name \in DbMetrics
    <3>1. SUFFICES ASSUME m \in PadsOf(p, d)
                   PROVE  m.name \in DbMetrics
      OBVIOUS
    <3>2. PICK n : m = Metric("db_keys", Whole(0), <<n>>) \/ m = Metric("db_keys_expiring", Whole(0), <<n>>)
      BY <2>7, <3>1
    <3>3. m.name = "db_keys" \/ m.name = "db_keys_expiring"
      BY <2>1, <3>2
    <3>4. QED
      BY <3>3 DEF DbMetrics
  <2>9. m = InstanceMetric(p.kv) => m.name = "instance_info"
    BY <2>1 DEF InstanceMetric
  <2>10. m = SlaveMetric(p.kv) => m.name = "slave_info"
    BY <2>1 DEF SlaveMetric
  <2>11. QED
    BY <2>3, <2>4, <2>6, <2>8, <2>9, <2>10
<1>2. m \in EndW(s, op, p, d) <=>
          \/ m \in InfoW(s, InfoPairs(s)) \/ m \in Summaries(p) \/ (op.emptyDbs /\ m \in PadsOf(p, d))
          \/ m = InstanceMetric(p.kv) \/ (Value(p.kv, "role") = "slave" /\ m = SlaveMetric(p.kv))
          \/ m \in HistW(s, op, Len(HistogramOf(s, op))) \/ m \in ClientW(s, op, Len(ClientsOf(s, op)))
  BY DEF EndW, DoneW, InstanceMetrics
<1>3. m \in InfoW(s, InfoPairs(s)) <=>
               \/ s.kind # "later" /\ \E o \in DOMAIN s.dbs : m \in DbSet(s, s.dbs[o])
               \/ \E o \in DOMAIN s.cmds : s.cmds[o].cmd \notin s.brief /\ m \in CmdSet(s, s.cmds[o])
               \/ \E o \in DOMAIN s.replicas : m \in ReplicaSet(s, s.replicas[o])
               \/ \E o \in DOMAIN s.masters : \E k \in MasterKeys : m \in MasterSet(s.masters[o], k)
  BY InfoWIs
<1> DEFINE A == \E o \in DOMAIN s.dbs : m \in DbSet(s, s.dbs[o])
           B == \E o \in DOMAIN s.cmds : s.cmds[o].cmd \notin s.brief /\ m \in CmdSet(s, s.cmds[o])
           C == \E o \in DOMAIN s.replicas : m \in ReplicaSet(s, s.replicas[o])
           D == \E o \in DOMAIN s.masters : \E k \in MasterKeys : m \in MasterSet(s.masters[o], k)
<1>4. /\ A => m.name \in DbMetrics
      /\ B => m.name \in CmdMetrics \ {"commands_latencies_usec", "latency_percentiles_usec"}
      /\ C => m.name \in ReplicaMetrics
      /\ D => m.name \in MasterMetrics
  BY SetNames
<1> HIDE DEF A, B, C, D
<1>5. m \in InfoW(s, InfoPairs(s)) <=> (s.kind # "later" /\ A) \/ B \/ C \/ D
  BY <1>3 DEF A, B, C, D
<1>6. /\ m.name \in DbMetrics => (m \in EndW(s, op, p, d) <=> (s.kind # "later" /\ A) \/ (op.emptyDbs /\ m \in PadsOf(p, d)))
      /\ m.name \in CmdMetrics \ {"commands_latencies_usec", "latency_percentiles_usec"} => (m \in EndW(s, op, p, d) <=> B)
      /\ m.name = "latency_percentiles_usec" => (m \in EndW(s, op, p, d) <=> m \in Summaries(p))
      /\ m.name = "commands_latencies_usec" =>
                 (m \in EndW(s, op, p, d) <=> m \in HistW(s, op, Len(HistogramOf(s, op))))
      /\ m.name \in ReplicaMetrics => (m \in EndW(s, op, p, d) <=> C)
      /\ m.name \in MasterMetrics => (m \in EndW(s, op, p, d) <=> D)
      /\ m.name = "slave_info" => (m \in EndW(s, op, p, d) <=> Value(p.kv, "role") = "slave" /\ m = SlaveMetric(p.kv))
      /\ m.name = "instance_info" => (m \in EndW(s, op, p, d) <=> m = InstanceMetric(p.kv))
      /\ m.name = "connected_client_info" =>
                 (m \in EndW(s, op, p, d) <=> m \in ClientW(s, op, Len(ClientsOf(s, op))))
  BY <1>1, <1>2, <1>4, <1>5 DEF DbMetrics, CmdMetrics, ReplicaMetrics, MasterMetrics
<1>7. QED
  BY <1>6 DEF A, B, C, D

\* What a finished scrape exported under a name, against what was registered.
LEMMA AtTheEnd ==
    ASSUME Base, Exact, AtEnd
    PROVE  /\ sv \in Facts /\ Consistent(sv) /\ opts \in Options /\ IsExp(exp)
           /\ dbCount = KnownDbs(sv) /\ WalkOk(sv, Len(InfoText(sv)), parse)
           /\ Exactly(exp, EndW(sv, opts, parse, dbCount))
<1>1. section = "end"
  BY DEF AtEnd
<1>2. SecW(sv, opts, section, todo, parse, dbCount) = EndW(sv, opts, parse, dbCount)
  BY <1>1 DEF SecW, EndW, InfoPart, HistPart, ClientPart, After
<1>3. QED
  BY <1>1, <1>2, ServerFacts DEF Base, BaseAt, Exact, After

\* What a finished scrape exports under a name is what the account has under it.
LEMMA FoundIs ==
    ASSUME IsExp(exp), NEW W, Exactly(exp, W),
           NEW name \in DbMetrics \cup CmdMetrics \cup MasterMetrics \cup ReplicaMetrics \cup {"slave_info"},
           \A m \in W : m.name = name => Len(m.values) = Len(KnownDescs[name]),
           NEW y
    PROVE  y \in Found(name) <=> \E m \in W : m.name = name /\ y = <<m.values, m.val>>
<1>1. name \in Watched /\ name \in DOMAIN KnownDescs
  BY KnownFacts DEF Watched
<1>2. y \in Found(name) <=> \E x : x \in ToSet(exp.out) /\ x.name = name /\ y = <<ValuesOf(x), x.val>>
  BY DEF Found, Out
<1>3. \A x : x \in ToSet(exp.out) /\ x.name = name <=> \E m \in W : Fits(exp, m) /\ x = Series(exp, m) /\ m.name = name
  BY <1>1, SeriesName DEF Exactly, Made
<1>4. \A m \in W : m.name = name => Fits(exp, m) /\ ValuesOf(Series(exp, m)) = m.values /\ Series(exp, m).val = m.val
  <2>1. SUFFICES ASSUME NEW m \in W, m.name = name
                 PROVE  Fits(exp, m) /\ ValuesOf(Series(exp, m)) = m.values /\ Series(exp, m).val = m.val
    OBVIOUS
  <2>2. IsSeq(m.values) /\ Known(exp, m.name)
    BY DEF Exactly
  <2>3. exp.descs[m.name] = KnownDescs[name]
    BY <1>1, <2>1 DEF IsExp
  <2>4. QED
    BY <2>1, <2>2, <2>3, KeyOfSeries DEF Fits
<1>5. QED
  BY <1>2, <1>3, <1>4

\* The databases shown as empty: those that no readable line names.
Padded ==
    IF opts.emptyDbs THEN {n \in 0 .. KnownDatabases - 1 : \A d \in Readable : d.db # n} ELSE {}

\* The databases whose line can be read.
LEMMA ReadableIs ==
    ASSUME sv \in Facts, NEW d
    PROVE  d \in Readable <=> sv.kind # "later" /\ \E o \in DOMAIN sv.dbs : d = sv.dbs[o]
BY DEF Readable, ToSet

\* The databases that are padded are the ones that no readable line names.
LEMMA EmptyIs ==
    ASSUME sv \in Facts, Consistent(sv), dbCount = KnownDbs(sv), KnownDbs(sv) \in 0 .. 16,
           WalkOk(sv, Len(InfoText(sv)), parse), NEW x
    PROVE  x \in {Itoa(n) : n \in 0 .. dbCount - 1} \ parse.handled <=>
               \E n \in 0 .. KnownDatabases - 1 : x = Itoa(n) /\ \A d \in Readable : d.db # n
<1>1. KnownDatabases = dbCount
  BY DEF KnownDatabases, KnownDbs
<1>2. x \in parse.handled <=> sv.kind # "later" /\ \E o \in DOMAIN sv.dbs : x = Itoa(sv.dbs[o].db)
  <2>1. HandledOk(sv, InfoPairs(sv), parse.handled)
    BY MarksFacts DEF WalkOk
  <2>2. QED
    BY <2>1, PairsListed DEF HandledOk
<1>3. x \in parse.handled <=> \E d \in Readable : x = Itoa(d.db)
  BY <1>2, ReadableIs
<1>4. \A d \in Readable : d.db \in 0 .. 15
  <2>1. \A o \in DOMAIN sv.dbs : sv.dbs[o].db \in 0 .. Databases - 1
    BY FactTypes
  <2>2. Databases \in 1 .. 16
    BY DatabasesAssumption
  <2>3. SUFFICES ASSUME NEW d \in Readable
                 PROVE  d.db \in 0 .. 15
    OBVIOUS
  <2>4. PICK o \in DOMAIN sv.dbs : d = sv.dbs[o]
    BY ReadableIs
  <2>5. d.db \in 0 .. Databases - 1
    BY <2>1, <2>4
  <2>6. QED
    BY <2>2, <2>5
<1>5. \A n \in 0 .. dbCount - 1 : n \in 0 .. 15
  OBVIOUS
<1>6. \A n \in 0 .. dbCount - 1 : x = Itoa(n) => (x \notin parse.handled <=> \A d \in Readable : d.db # n)
  BY <1>3, <1>4, <1>5, ItoaFacts
<1>7. QED
  BY <1>1, <1>6

\* A scrape never knows of more than 16 databases.
LEMMA KnownDbsBound ==
    ASSUME NEW s
    PROVE  KnownDbs(s) \in 0 .. 16
BY DatabasesAssumption, ServerMetricsAssumption DEF KnownDbs

\* The account of the databases.
LEMMA DbW ==
    ASSUME Base, Exact, AtEnd, NEW m
    PROVE  /\ m.name \in DbMetrics => (m \in EndW(sv, opts, parse, dbCount) <=>
                 \/ \E d \in Readable : m \in DbSet(sv, d)
                 \/ \E n \in Padded : \/ m = Metric("db_keys", Whole(0), <<Itoa(n)>>)
                                      \/ m = Metric("db_keys_expiring", Whole(0), <<Itoa(n)>>))
<1>1. /\ sv \in Facts /\ Consistent(sv) /\ opts \in Options /\ dbCount = KnownDbs(sv)
      /\ WalkOk(sv, Len(InfoText(sv)), parse)
  BY AtTheEnd
<1> DEFINE empty == {Itoa(n) : n \in 0 .. dbCount - 1} \ parse.handled
<1>2. \A x : x \in empty <=>
               \E n \in 0 .. KnownDatabases - 1 : x = Itoa(n) /\ \A d \in Readable : d.db # n
  BY <1>1, KnownDbsBound, EmptyIs
<1>3. m \in PadsOf(parse, dbCount) <=>
          \E x \in empty : m = Metric("db_keys", Whole(0), <<x>>) \/ m = Metric("db_keys_expiring", Whole(0), <<x>>)
  BY DEF PadsOf
<1> HIDE DEF empty
<1>4. opts.emptyDbs /\ m \in PadsOf(parse, dbCount) <=>
          \E n \in Padded : \/ m = Metric("db_keys", Whole(0), <<Itoa(n)>>)
                            \/ m = Metric("db_keys_expiring", Whole(0), <<Itoa(n)>>)
  <2>1. CASE opts.emptyDbs
    <3>1. \A n : n \in Padded <=> n \in 0 .. KnownDatabases - 1 /\ \A d \in Readable : d.db # n
      BY <2>1 DEF Padded
    <3>2. QED
      BY <1>2, <1>3, <2>1, <3>1
  <2>2. CASE ~opts.emptyDbs
    BY <2>2 DEF Padded
  <2>3. QED
    BY <2>1, <2>2
<1>5. sv.kind # "later" /\ (\E o \in DOMAIN sv.dbs : m \in DbSet(sv, sv.dbs[o])) <=> \E d \in Readable : m \in DbSet(sv, d)
  BY <1>1, ReadableIs
<1>6. m.name \in DbMetrics =>
                 (m \in EndW(sv, opts, parse, dbCount) <=>
                     \/ sv.kind # "later" /\ \E o \in DOMAIN sv.dbs : m \in DbSet(sv, sv.dbs[o])
                     \/ opts.emptyDbs /\ m \in PadsOf(parse, dbCount))
  BY <1>1, EndIs
<1>7. QED
  BY <1>4, <1>5, <1>6

\* The databases, series by series.
LEMMA DbFound ==
    ASSUME Base, Exact, AtEnd, NEW name \in DbMetrics, NEW y
    PROVE  y \in Found(name) <=>
               \/ \E d \in Readable : \E m \in DbSet(sv, d) : m.name = name /\ y = <<m.values, m.val>>
               \/ name \in {"db_keys", "db_keys_expiring"} /\ \E n \in Padded : y = <<<<Itoa(n)>>, Whole(0)>>
<1> DEFINE W == EndW(sv, opts, parse, dbCount)
<1>1. IsExp(exp) /\ Exactly(exp, W)
  BY AtTheEnd
<1>2. \A n, v, w : Metric(n, v, w).name = n /\ Metric(n, v, w).values = w /\ Metric(n, v, w).val = v
  BY MetricFacts
<1>3. \A d : \A m \in DbSet(sv, d) : Len(m.values) = 1
  <2>1. \A d : \A m \in DbSet(sv, d) : m.values = <<Itoa(d.db)>>
    BY <1>2 DEF DbSet
  <2>2. \A x : Len(<<x>>) = 1
    OBVIOUS
  <2>3. QED
    BY ONLY <2>1, <2>2
<1>4. \A m : m.name = name => (m \in W <=>
                 \/ \E d \in Readable : m \in DbSet(sv, d)
                 \/ \E n \in Padded : \/ m = Metric("db_keys", Whole(0), <<Itoa(n)>>)
                                      \/ m = Metric("db_keys_expiring", Whole(0), <<Itoa(n)>>))
  BY DbW
<1>5. \A m : m.name = name => (m \in W <=>
                 \/ \E d \in Readable : m \in DbSet(sv, d)
                 \/ name \in {"db_keys", "db_keys_expiring"} /\ \E n \in Padded : m = Metric(name, Whole(0), <<Itoa(n)>>))
  <2>1. SUFFICES ASSUME NEW m, m.name = name
                 PROVE  (\E n \in Padded : \/ m = Metric("db_keys", Whole(0), <<Itoa(n)>>)
                                           \/ m = Metric("db_keys_expiring", Whole(0), <<Itoa(n)>>))
                        <=> name \in {"db_keys", "db_keys_expiring"} /\ \E n \in Padded : m = Metric(name, Whole(0), <<Itoa(n)>>)
    BY <1>4
  <2>2. \A n : /\ m = Metric("db_keys", Whole(0), <<Itoa(n)>>) => name = "db_keys"
               /\ m = Metric("db_keys_expiring", Whole(0), <<Itoa(n)>>) => name = "db_keys_expiring"
    BY <1>2, <2>1
  <2>3. QED
    BY <2>2
<1>6. Len(KnownDescs[name]) = 1
  <2>1. KnownDescs[name] = <<"db">>
    BY KnownFacts
  <2>2. QED
    BY <2>1
<1> HIDE DEF W
<1>7. \A m \in W : m.name = name => Len(m.values) = Len(KnownDescs[name])
  <2>1. \A n : Len(<<Itoa(n)>>) = 1
    OBVIOUS
  <2>2. SUFFICES ASSUME NEW m \in W, m.name = name
                 PROVE  Len(m.values) = 1
    BY <1>6
  <2>3. CASE \E d \in Readable : m \in DbSet(sv, d)
    BY <2>3, <1>3
  <2>4. CASE \E n \in Padded : m = Metric(name, Whole(0), <<Itoa(n)>>)
    BY <2>4, <1>2, <2>1
  <2>5. QED
    BY <1>5, <2>2, <2>3, <2>4
<1>8. y \in Found(name) <=> \E m \in W : m.name = name /\ y = <<m.values, m.val>>
  BY <1>1, <1>7, FoundIs
<1>9. ASSUME y \in Found(name)
      PROVE  \/ \E d \in Readable : \E m \in DbSet(sv, d) : m.name = name /\ y = <<m.values, m.val>>
             \/ name \in {"db_keys", "db_keys_expiring"} /\ \E n \in Padded : y = <<<<Itoa(n)>>, Whole(0)>>
  <2>1. PICK m \in W : m.name = name /\ y = <<m.values, m.val>>
    BY <1>8, <1>9
  <2>2. CASE \E d \in Readable : m \in DbSet(sv, d)
    BY <2>1, <2>2
  <2>3. CASE name \in {"db_keys", "db_keys_expiring"} /\ \E n \in Padded : m = Metric(name, Whole(0), <<Itoa(n)>>)
    BY <1>2, <2>1, <2>3
  <2>4. QED
    BY <1>5, <2>1, <2>2, <2>3
<1>10. ASSUME NEW d \in Readable, NEW m \in DbSet(sv, d), m.name = name, y = <<m.values, m.val>>
       PROVE  y \in Found(name)
  BY <1>5, <1>8, <1>10
<1>11. ASSUME name \in {"db_keys", "db_keys_expiring"}, NEW n \in Padded, y = <<<<Itoa(n)>>, Whole(0)>>
       PROVE  y \in Found(name)
  <2> DEFINE m == Metric(name, Whole(0), <<Itoa(n)>>)
  <2>1. m.name = name /\ m.values = <<Itoa(n)>> /\ m.val = Whole(0)
    BY <1>2
  <2>2. m \in W
    BY <1>5, <1>11, <2>1
  <2> HIDE DEF m
  <2>3. QED
    BY <1>8, <1>11, <2>1, <2>2
<1>12. QED
  BY <1>9, <1>10, <1>11

\* A database that no line names is shown as empty, and has a name of its own.
LEMMA AbsentIs ==
    ASSUME Base, Exact, AtEnd, NEW n
    PROVE  n \in Absent <=> n \in Padded /\ \A d \in ToSet(sv.dbs) \ Readable : <<Itoa(n)>> # <<Itoa(d.db)>>
<1>1. sv \in Facts /\ Consistent(sv)
  BY AtTheEnd
<1>2. KnownDatabases \in 0 .. 16
  <2>1. KnownDatabases = KnownDbs(sv)
    BY DEF KnownDatabases, KnownDbs
  <2>2. QED
    BY <2>1, KnownDbsBound
<1>3. \A d \in ToSet(sv.dbs) : d.db \in 0 .. 15
  <2>1. \A o \in DOMAIN sv.dbs : sv.dbs[o].db \in 0 .. Databases - 1
    BY <1>1, FactTypes
  <2>2. Databases \in 1 .. 16
    BY DatabasesAssumption
  <2>3. \A o \in DOMAIN sv.dbs : sv.dbs[o].db \in 0 .. 15
    BY <2>1, <2>2
  <2>4. QED
    BY <2>3 DEF ToSet
<1>4. Readable \subseteq ToSet(sv.dbs)
  BY DEF Readable
<1>5. \A m \in 0 .. KnownDatabases - 1 : m \in 0 .. 15
  BY <1>2
<1>6. ASSUME n \in 0 .. KnownDatabases - 1, NEW d \in ToSet(sv.dbs)
      PROVE  d.db # n <=> <<Itoa(n)>> # <<Itoa(d.db)>>
  <2>1. n \in 0 .. 15 /\ d.db \in 0 .. 15
    BY <1>3, <1>5, <1>6
  <2>2. d.db # n <=> Itoa(n) # Itoa(d.db)
    BY <2>1, ItoaFacts
  <2>3. QED
    BY <2>2
<1>7. CASE opts.emptyDbs
  <2>1. n \in Absent <=> n \in 0 .. KnownDatabases - 1 /\ \A d \in ToSet(sv.dbs) : d.db # n
    BY <1>7 DEF Absent
  <2>2. n \in Padded <=> n \in 0 .. KnownDatabases - 1 /\ \A d \in Readable : d.db # n
    BY <1>7 DEF Padded
  <2>3. QED
    BY <1>4, <1>6, <2>1, <2>2
<1>8. CASE ~opts.emptyDbs
  BY <1>8 DEF Absent, Padded
<1>9. QED
  BY <1>7, <1>8

\* What is exported of the databases, for those whose line can be read.
LEMMA DatabasesAtEnd ==
    ASSUME Base, Exact
    PROVE  DatabasesExact
<1> DEFINE Odd == ToSet(sv.dbs) \ Readable
<1>1. SUFFICES ASSUME AtEnd
               PROVE  LET Read(name) == {x \in Found(name) : \A d \in Odd : x[1] # <<Itoa(d.db)>>}
                          Listed(f(_)) == {<<<<Itoa(d.db)>>, f(d)>> : d \in Readable}
                          Empty == {<<<<Itoa(n)>>, Whole(0)>> : n \in Absent}
                          none == {d \in {} : TRUE}
                      IN  /\ Read("db_keys") = Listed(LAMBDA d : Whole(d.keys)) \cup Empty
                          /\ Read("db_keys_expiring") = Listed(LAMBDA d : Whole(d.expires)) \cup Empty
                          /\ Read("db_avg_ttl_seconds") =
                                 IF sv.kind \in Since28 THEN Listed(LAMBDA d : Milli(d.ttl)) ELSE none
                          /\ sv.kind \notin Since74 =>
                                 Found("db_keys_cached") =
                                     IF sv.kind = "keydb" THEN Listed(LAMBDA d : Whole(d.other)) ELSE none
  BY DEF DatabasesExact
<1>2. \A n, v, w : Metric(n, v, w).name = n /\ Metric(n, v, w).values = w /\ Metric(n, v, w).val = v
  BY MetricFacts
<1>3. {"db_keys", "db_keys_expiring", "db_avg_ttl_seconds", "db_keys_cached"} \subseteq DbMetrics
  BY DEF DbMetrics
<1>4. \A d, y :
        /\ (\E m \in DbSet(sv, d) : m.name = "db_keys" /\ y = <<m.values, m.val>>)
              <=> y = <<<<Itoa(d.db)>>, Whole(d.keys)>>
        /\ (\E m \in DbSet(sv, d) : m.name = "db_keys_expiring" /\ y = <<m.values, m.val>>)
              <=> y = <<<<Itoa(d.db)>>, Whole(d.expires)>>
        /\ (\E m \in DbSet(sv, d) : m.name = "db_avg_ttl_seconds" /\ y = <<m.values, m.val>>)
              <=> sv.kind \in Since28 /\ y = <<<<Itoa(d.db)>>, Milli(d.ttl)>>
        /\ (\E m \in DbSet(sv, d) : m.name = "db_keys_cached" /\ y = <<m.values, m.val>>)
              <=> sv.kind \in Since74 \cup {"keydb"} /\ y = <<<<Itoa(d.db)>>, Whole(d.other)>>
  BY <1>2 DEF DbSet
<1>5. \A y : y \in Found("db_keys") <=>
          (\E d \in Readable : y = <<<<Itoa(d.db)>>, Whole(d.keys)>>) \/ \E n \in Padded : y = <<<<Itoa(n)>>, Whole(0)>>
  BY <1>1, <1>3, <1>4, DbFound
<1>6. \A y : y \in Found("db_keys_expiring") <=>
          (\E d \in Readable : y = <<<<Itoa(d.db)>>, Whole(d.expires)>>) \/ \E n \in Padded : y = <<<<Itoa(n)>>, Whole(0)>>
  BY <1>1, <1>3, <1>4, DbFound
<1>7. \A y : y \in Found("db_avg_ttl_seconds") <=>
          \E d \in Readable : sv.kind \in Since28 /\ y = <<<<Itoa(d.db)>>, Milli(d.ttl)>>
  <2>1. "db_avg_ttl_seconds" \notin {"db_keys", "db_keys_expiring"}
    OBVIOUS
  <2>2. \A y : y \in Found("db_avg_ttl_seconds") <=>
            \E d \in Readable : \E m \in DbSet(sv, d) : m.name = "db_avg_ttl_seconds" /\ y = <<m.values, m.val>>
    BY <1>1, <1>3, <2>1, DbFound
  <2>3. QED
    <3>1. SUFFICES ASSUME NEW y, NEW d
                   PROVE  (\E m \in DbSet(sv, d) : m.name = "db_avg_ttl_seconds" /\ y = <<m.values, m.val>>)
                              <=> sv.kind \in Since28 /\ y = <<<<Itoa(d.db)>>, Milli(d.ttl)>>
      BY <2>2
    <3>2. QED
      BY <1>4
<1>8. \A y : y \in Found("db_keys_cached") <=>
          \E d \in Readable : sv.kind \in Since74 \cup {"keydb"} /\ y = <<<<Itoa(d.db)>>, Whole(d.other)>>
  <2>1. "db_keys_cached" \notin {"db_keys", "db_keys_expiring"}
    OBVIOUS
  <2>2. \A y : y \in Found("db_keys_cached") <=>
            \E d \in Readable : \E m \in DbSet(sv, d) : m.name = "db_keys_cached" /\ y = <<m.values, m.val>>
    BY <1>1, <1>3, <2>1, DbFound
  <2>3. QED
    <3>1. SUFFICES ASSUME NEW y, NEW d
                   PROVE  (\E m \in DbSet(sv, d) : m.name = "db_keys_cached" /\ y = <<m.values, m.val>>)
                              <=> sv.kind \in Since74 \cup {"keydb"} /\ y = <<<<Itoa(d.db)>>, Whole(d.other)>>
      BY <2>2
    <3>2. QED
      BY <1>4
<1>9. \A d \in Readable : Odd = {}
  BY DEF Readable
<1>10. \A n : n \in Absent <=> n \in Padded /\ \A d \in Odd : <<Itoa(n)>> # <<Itoa(d.db)>>
  BY <1>1, AbsentIs
<1> HIDE DEF Odd
<1>11. QED
  BY <1>5, <1>6, <1>7, <1>8, <1>9, <1>10

\* A sum over one element.
UsecFold(s, S, F) ==
    F = [t \in SUBSET S |->
            IF t = {} THEN 0
            ELSE s.cmds[CHOOSE x \in t : TRUE].usec + F[t \ {CHOOSE x \in t : TRUE}]]

\* MapThenSumSet is a fold over subsets.
LEMMA UsecMeaning ==
    ASSUME NEW s, NEW S
    PROVE  MapThenSumSet(LAMBDA i : s.cmds[i].usec, S) = (CHOOSE F : UsecFold(s, S, F))[S]
BY Zenon DEF MapThenSumSet, MapThenFoldSet, UsecFold

\* The sum over one line is that line's time.
LEMMA UsecOne ==
    ASSUME NEW s, NEW o, s.cmds[o].usec \in Nat
    PROVE  MapThenSumSet(LAMBDA i : s.cmds[i].usec, {o}) = s.cmds[o].usec
<1> DEFINE u == s.cmds[o].usec
           G == [t \in SUBSET {o} |-> IF t = {} THEN 0 ELSE u]
<1>1. \A t \in SUBSET {o} : t = {} \/ t = {o}
  OBVIOUS
<1>2. (CHOOSE x \in {o} : TRUE) = o /\ {o} \ {o} = {} /\ {o} # {}
  OBVIOUS
<1>3. ASSUME NEW F, UsecFold(s, {o}, F)
      PROVE  F[{}] = 0 /\ F[{o}] = u + F[{}]
  <2>1. F = [t \in SUBSET {o} |->
            IF t = {} THEN 0
            ELSE s.cmds[CHOOSE x \in t : TRUE].usec + F[t \ {CHOOSE x \in t : TRUE}]]
    BY <1>3 DEF UsecFold
  <2>2. {} \in SUBSET {o} /\ {o} \in SUBSET {o}
    OBVIOUS
  <2>3. F[{}] = 0
    BY <2>1, <2>2
  <2>4. F[{o}] = s.cmds[CHOOSE x \in {o} : TRUE].usec + F[{o} \ {CHOOSE x \in {o} : TRUE}]
    BY <1>2, <2>1, <2>2
  <2>5. QED
    BY <1>2, <2>3, <2>4
<1>4. UsecFold(s, {o}, G)
  <2>1. \A t \in SUBSET {o} : G[t] = IF t = {} THEN 0
            ELSE s.cmds[CHOOSE x \in t : TRUE].usec + G[t \ {CHOOSE x \in t : TRUE}]
    <3>1. G[{}] = 0 /\ G[{o}] = u
      BY <1>2
    <3>2. u + 0 = u
      OBVIOUS
    <3> HIDE DEF G
    <3>3. QED
      BY <1>1, <1>2, <3>1, <3>2
  <2>2. G = [t \in SUBSET {o} |-> G[t]]
    OBVIOUS
  <2> HIDE DEF G
  <2>3. QED
    BY <2>1, <2>2 DEF UsecFold
<1> HIDE DEF G
<1>5. UsecFold(s, {o}, CHOOSE F : UsecFold(s, {o}, F))
  BY <1>4
<1>6. (CHOOSE F : UsecFold(s, {o}, F))[{o}] = u + 0
  BY <1>3, <1>5
<1>7. MapThenSumSet(LAMBDA i : s.cmds[i].usec, {o}) = (CHOOSE F : UsecFold(s, {o}, F))[{o}]
  BY UsecMeaning, Zenon
<1>8. u + 0 = u
  OBVIOUS
<1>9. QED
  BY ONLY <1>6, <1>7, <1>8, Zenon

\* The time found for a command whose name begins no other command's and can be matched.
LEMMA UsecIs ==
    ASSUME NEW s \in Facts, Consistent(s), NEW o \in DOMAIN s.cmds,
           {x.cmd : x \in ToSet(s.cmds)} \cap Extensions[s.cmds[o].cmd] = {s.cmds[o].cmd}, s.cmds[o].cmd \in Spelled
    PROVE  UsecOf(s, s.cmds[o].cmd) = s.cmds[o].usec
<1> DEFINE c == s.cmds[o].cmd
           lines == {i \in DOMAIN s.cmds : s.cmds[i].cmd \in Extensions[c] \cap Spelled}
<1>1. \A i \in DOMAIN s.cmds : s.cmds[i].cmd \in {x.cmd : x \in ToSet(s.cmds)}
  BY DEF ToSet
<1>2. \A i \in DOMAIN s.cmds : s.cmds[i].cmd \in Extensions[c] => s.cmds[i].cmd = c
  BY <1>1
<1>3. \A i \in DOMAIN s.cmds : s.cmds[i].cmd = c => i = o
  BY DEF Consistent
<1>4. c \in Extensions[c]
  OBVIOUS
<1>5. lines = {o}
  BY <1>2, <1>3, <1>4
<1>6. UsecOf(s, c) = MapThenSumSet(LAMBDA i : s.cmds[i].usec, lines)
  BY DEF UsecOf
<1>7. s.cmds[o].usec \in Nat
  BY FactTypes
<1> HIDE DEF lines
<1>8. QED
  BY <1>5, <1>6, <1>7, UsecOne

\* The histograms of a finished scrape.
LEMMA HistWIs ==
    ASSUME NEW s \in Facts, NEW op, NEW m
    PROVE  m \in HistW(s, op, Len(HistogramOf(s, op))) <=>
               /\ op.latency /\ "LATENCY" \notin s.denied /\ s.kind \in Since70
               /\ \E o \in DOMAIN s.cmds : /\ ~(s.kind = "later" /\ o = Len(s.cmds))
                                           /\ m = HistOf(s, HistogramAnswer(s)[o])
<1>1. IsSeq(s.cmds) /\ DOMAIN s.cmds = 1 .. Len(s.cmds) /\ Len(HistogramAnswer(s)) = Len(s.cmds)
  BY FactSeqs, SeqFacts, TextFacts
<1>2. CASE op.latency /\ "LATENCY" \notin s.denied /\ s.kind \in Since70
  <2>1. HistogramOf(s, op) = HistogramAnswer(s)
    BY <1>2 DEF HistogramOf, If
  <2>2. m \in HistW(s, op, Len(s.cmds)) <=>
            \E i \in 1 .. Len(s.cmds) : HistogramAnswer(s)[i].scans /\ m = HistOf(s, HistogramAnswer(s)[i])
    BY <2>1 DEF HistW
  <2>3. \A i \in 1 .. Len(s.cmds) : HistogramAnswer(s)[i].scans <=> ~(s.kind = "later" /\ i = Len(s.cmds))
    BY HistogramLines
  <2>4. QED
    BY <1>1, <1>2, <2>1, <2>2, <2>3
<1>3. CASE ~(op.latency /\ "LATENCY" \notin s.denied /\ s.kind \in Since70)
  <2>1. HistogramOf(s, op) = <<>> /\ Len(<<>>) = 0
    BY <1>3 DEF HistogramOf, If
  <2>2. HistW(s, op, Len(HistogramOf(s, op))) = {}
    BY <2>1, EmptyW
  <2>3. QED
    BY <1>3, <2>2
<1>4. QED
  BY <1>2, <1>3

\* The fields of a command's histogram at the end.
LEMMA HistOfFields ==
    ASSUME NEW s \in Facts, NEW o \in DOMAIN s.cmds
    PROVE  LET m == HistOf(s, HistogramAnswer(s)[o])
           IN  /\ m.name = "commands_latencies_usec" /\ m.values = <<s.cmds[o].cmd>>
               /\ m.count = s.cmds[o].calls /\ m.val = Whole(UsecOf(s, s.cmds[o].cmd))
<1>1. o \in 1 .. Len(s.cmds)
  BY FactSeqs, SeqFacts
<1>2. HistogramAnswer(s)[o].cmd = s.cmds[o].cmd /\ HistogramAnswer(s)[o].calls = s.cmds[o].calls
  BY <1>1, HistogramLines
<1>3. QED
  BY <1>2 DEF HistOf, Distribution

\* The series with one label, the name of a command.
LEMMA CmdSeries ==
    ASSUME IsExp(exp), NEW W, Exactly(exp, W), NEW name \in CmdMetrics,
           \A m \in W : m.name = name => \E w : m.values = <<w>>, NEW cmd, NEW x
    PROVE  x \in Out /\ x.name = name /\ x.lbls = <<<<"cmd", cmd>>>> <=>
               \E m \in W : m.name = name /\ m.values = <<cmd>> /\ x = Series(exp, m)
<1>1. name \in Watched /\ name \in DOMAIN KnownDescs
  BY KnownFacts DEF Watched
<1>2. exp.descs[name] = <<"cmd">> /\ name \in DOMAIN exp.descs
  BY <1>1, KnownFacts DEF IsExp
<1>3. x \in Out /\ x.name = name <=> \E m \in W : Fits(exp, m) /\ x = Series(exp, m) /\ m.name = name
  BY <1>1, SeriesName DEF Exactly, Made, Out
<1>4. ASSUME NEW m \in W, m.name = name, NEW w, m.values = <<w>>
      PROVE  Fits(exp, m) /\ Series(exp, m).lbls = <<<<"cmd", w>>>>
  <2>1. Len(<<"cmd">>) = 1 /\ Len(<<w>>) = 1 /\ DOMAIN <<w>> = {1} /\ <<w>>[1] = w /\ <<"cmd">>[1] = "cmd"
    OBVIOUS
  <2>2. Fits(exp, m)
    BY <1>2, <1>4, <2>1 DEF Fits, Known
  <2>3. LabelsOf(exp, m) = [i \in {1} |-> <<"cmd", w>>]
    BY <1>2, <1>4, <2>1 DEF LabelsOf
  <2>4. [i \in {1} |-> <<"cmd", w>>] = <<<<"cmd", w>>>>
    OBVIOUS
  <2>5. Series(exp, m).lbls = LabelsOf(exp, m)
    BY DEF Series
  <2>6. QED
    BY <2>2, <2>3, <2>4, <2>5
<1>5. \A w : <<<<"cmd", w>>>> = <<<<"cmd", cmd>>>> => w = cmd
  <2>1. SUFFICES ASSUME NEW w, <<<<"cmd", w>>>> = <<<<"cmd", cmd>>>>
                 PROVE  w = cmd
    OBVIOUS
  <2>2. <<<<"cmd", w>>>>[1] = <<"cmd", w>> /\ <<<<"cmd", cmd>>>>[1] = <<"cmd", cmd>>
    OBVIOUS
  <2>3. <<"cmd", w>>[2] = w /\ <<"cmd", cmd>>[2] = cmd
    OBVIOUS
  <2>4. QED
    BY <2>1, <2>2, <2>3
<1>6. ASSUME x \in Out, x.name = name, x.lbls = <<<<"cmd", cmd>>>>
      PROVE  \E m \in W : m.name = name /\ m.values = <<cmd>> /\ x = Series(exp, m)
  <2>1. PICK m \in W : Fits(exp, m) /\ x = Series(exp, m) /\ m.name = name
    BY <1>3, <1>6
  <2>2. PICK w : m.values = <<w>>
    BY <2>1
  <2>3. x.lbls = <<<<"cmd", w>>>>
    BY <1>4, <2>1, <2>2
  <2>4. w = cmd
    BY <1>5, <1>6, <2>3
  <2>5. QED
    BY <2>1, <2>2, <2>4
<1>7. ASSUME NEW m \in W, m.name = name, m.values = <<cmd>>, x = Series(exp, m)
      PROVE  x \in Out /\ x.name = name /\ x.lbls = <<<<"cmd", cmd>>>>
  <2>1. Fits(exp, m) /\ Series(exp, m).lbls = <<<<"cmd", cmd>>>>
    BY <1>4, <1>7
  <2>2. QED
    BY <1>3, <1>7, <2>1
<1>8. QED
  BY <1>6, <1>7

\* The values of one of a command's metrics.
LEMMA CmdSetFields ==
    ASSUME NEW s, NEW c, NEW m \in CmdSet(s, c)
    PROVE  /\ m.values = <<c.cmd>>
           /\ m.name = "commands_total" => m.val = Whole(c.calls)
           /\ m.name = "commands_rejected_calls_total" => s.kind \in Since62
<1>1. \A n, v, w : Metric(n, v, w).name = n /\ Metric(n, v, w).values = w /\ Metric(n, v, w).val = v
  BY MetricFacts
<1>2. QED
  BY <1>1 DEF CmdSet

\* The series of a command that were not left out.
LEMMA CmdSetHas ==
    ASSUME NEW s, NEW c
    PROVE  /\ \E m \in CmdSet(s, c) : m.name = "commands_total" /\ m.values = <<c.cmd>> /\ m.val = Whole(c.calls)
           /\ s.kind \in Since62 => \E m \in CmdSet(s, c) : m.name = "commands_rejected_calls_total" /\ m.values = <<c.cmd>>
<1>1. \A n, v, w : Metric(n, v, w).name = n /\ Metric(n, v, w).values = w /\ Metric(n, v, w).val = v
  BY MetricFacts
<1>2. QED
  BY <1>1 DEF CmdSet

\* The summaries of a finished scrape.
LEMMA SummariesAre ==
    ASSUME NEW s \in Facts, Consistent(s), NEW p, WalkOk(s, Len(InfoText(s)), p), NEW m
    PROVE  m \in Summaries(p) <=>
               s.kind \in Since70 /\ \E o \in DOMAIN s.cmds :
                   m = Distribution("latency_percentiles_usec", Whole(StatsOf(s, s.cmds[o]).usec), <<s.cmds[o].cmd>>,
                                    StatsOf(s, s.cmds[o]).calls, LatOf(s.cmds[o]))
<1>1. StatsOk(s, InfoPairs(s), p.stats) /\ LatOk(s, InfoPairs(s), p.lat)
  BY MarksFacts DEF WalkOk
<1>2. /\ \A c : c \in DOMAIN p.stats <=> \E o \in DOMAIN s.cmds : c = s.cmds[o].cmd
      /\ \A o \in DOMAIN s.cmds : p.stats[s.cmds[o].cmd] = StatsOf(s, s.cmds[o])
  BY <1>1, PairsListed DEF StatsOk
<1>3. /\ \A c : c \in DOMAIN p.lat <=> s.kind \in Since70 /\ \E o \in DOMAIN s.cmds : c = s.cmds[o].cmd
      /\ s.kind \in Since70 => \A o \in DOMAIN s.cmds : p.lat[s.cmds[o].cmd] = LatOf(s.cmds[o])
  BY <1>1, PairsListed DEF LatOk
<1>4. m \in Summaries(p) <=> \E c : c \in DOMAIN p.lat /\ c \in DOMAIN p.stats /\ m = Summary(p, c)
  BY DEF Summaries
<1>5. m \in Summaries(p) <=> s.kind \in Since70 /\ \E o \in DOMAIN s.cmds : m = Summary(p, s.cmds[o].cmd)
  BY <1>2, <1>3, <1>4
<1>6. \A o \in DOMAIN s.cmds : s.kind \in Since70 =>
          Summary(p, s.cmds[o].cmd) =
              Distribution("latency_percentiles_usec", Whole(StatsOf(s, s.cmds[o]).usec), <<s.cmds[o].cmd>>,
                           StatsOf(s, s.cmds[o]).calls, LatOf(s.cmds[o]))
  BY <1>2, <1>3 DEF Summary
<1>7. QED
  BY <1>5, <1>6

\* Every metric of a command has the command's name as its only value.
LEMMA CmdValues ==
    ASSUME Base, Exact, AtEnd, NEW m \in EndW(sv, opts, parse, dbCount), m.name \in CmdMetrics
    PROVE  \E o \in DOMAIN sv.cmds : m.values = <<sv.cmds[o].cmd>>
<1>1. /\ sv \in Facts /\ Consistent(sv) /\ WalkOk(sv, Len(InfoText(sv)), parse)
  BY AtTheEnd
<1>2. CASE m.name \in CmdMetrics \ {"commands_latencies_usec", "latency_percentiles_usec"}
  <2>1. PICK o \in DOMAIN sv.cmds : m \in CmdSet(sv, sv.cmds[o])
    BY <1>1, <1>2, EndIs
  <2>2. QED
    BY <2>1, CmdSetFields
<1>3. CASE m.name = "latency_percentiles_usec"
  <2>1. m \in Summaries(parse)
    BY <1>1, <1>3, EndIs
  <2>2. PICK o \in DOMAIN sv.cmds :
           m = Distribution("latency_percentiles_usec", Whole(StatsOf(sv, sv.cmds[o]).usec), <<sv.cmds[o].cmd>>,
                            StatsOf(sv, sv.cmds[o]).calls, LatOf(sv.cmds[o]))
    BY <1>1, <2>1, SummariesAre
  <2>3. \A n, v, w, c, d : Distribution(n, v, w, c, d).values = w
    BY DEF Distribution
  <2>4. QED
    BY <2>2, <2>3
<1>4. CASE m.name = "commands_latencies_usec"
  <2>1. m \in HistW(sv, opts, Len(HistogramOf(sv, opts)))
    BY <1>1, <1>4, EndIs
  <2>2. PICK o \in DOMAIN sv.cmds : m = HistOf(sv, HistogramAnswer(sv)[o])
    BY <1>1, <2>1, HistWIs
  <2>3. QED
    BY <1>1, <2>2, HistOfFields
<1>5. QED
  BY <1>2, <1>3, <1>4

\* The series of one command under one name.
OfCommand(c, name) == {s \in Out : s.name = name /\ s.lbls = <<<<"cmd", c.cmd>>>>}

\* The exported series of one command, by the account.
LEMMA OfCommandIs ==
    ASSUME Base, Exact, AtEnd, NEW c, NEW name \in CmdMetrics, NEW x
    PROVE  x \in OfCommand(c, name) <=>
               \E m \in EndW(sv, opts, parse, dbCount) : m.name = name /\ m.values = <<c.cmd>> /\ x = Series(exp, m)
<1> DEFINE W == EndW(sv, opts, parse, dbCount)
<1>1. IsExp(exp) /\ Exactly(exp, W)
  BY AtTheEnd
<1>2. \A m \in W : m.name = name => \E w : m.values = <<w>>
  BY CmdValues
<1> HIDE DEF W
<1>3. x \in OfCommand(c, name) <=> x \in Out /\ x.name = name /\ x.lbls = <<<<"cmd", c.cmd>>>>
  BY DEF OfCommand
<1>4. x \in Out /\ x.name = name /\ x.lbls = <<<<"cmd", c.cmd>>>> <=>
          \E m \in W : m.name = name /\ m.values = <<c.cmd>> /\ x = Series(exp, m)
  BY <1>1, <1>2, CmdSeries
<1>5. QED
  BY <1>3, <1>4 DEF W

\* A command is known by its name.
LEMMA SameCommand ==
    ASSUME NEW s, Consistent(s), NEW o \in DOMAIN s.cmds, NEW q \in DOMAIN s.cmds, <<s.cmds[q].cmd>> = <<s.cmds[o].cmd>>
    PROVE  q = o
<1>1. s.cmds[q].cmd = s.cmds[o].cmd
  <2>1. \A a, b : <<a>> = <<b>> => a = b
    <3>1. \A a : <<a>>[1] = a
      OBVIOUS
    <3>2. QED
      BY <3>1
  <2>2. QED
    BY <2>1
<1>2. QED
  BY <1>1 DEF Consistent

\* The statistics of one command in a finished scrape.
LEMMA StatsOfOne ==
    ASSUME Base, Exact, AtEnd, NEW o \in DOMAIN sv.cmds
    PROVE  LET c == sv.cmds[o]
               told == c.cmd \notin sv.brief
           IN  /\ {s.val : s \in OfCommand(c, "commands_total")} = {Whole(x) : x \in IF told THEN {c.calls} ELSE {}}
               /\ OfCommand(c, "commands_rejected_calls_total") # {} <=> told /\ sv.kind \in Since62
<1> DEFINE c == sv.cmds[o]
           W == EndW(sv, opts, parse, dbCount)
<1>1. sv \in Facts /\ Consistent(sv) /\ IsExp(exp) /\ Exactly(exp, W)
  BY AtTheEnd
<1>2. /\ "commands_total" \in CmdMetrics /\ "commands_rejected_calls_total" \in CmdMetrics
      /\ "commands_total" \in CmdMetrics \ {"commands_latencies_usec", "latency_percentiles_usec"}
      /\ "commands_rejected_calls_total" \in CmdMetrics \ {"commands_latencies_usec", "latency_percentiles_usec"}
  BY DEF CmdMetrics
<1>3. \A m : m.name \in CmdMetrics \ {"commands_latencies_usec", "latency_percentiles_usec"} /\ m.values = <<c.cmd>> =>
          (m \in W <=> c.cmd \notin sv.brief /\ m \in CmdSet(sv, c))
  <2>1. SUFFICES ASSUME NEW m, m.name \in CmdMetrics \ {"commands_latencies_usec", "latency_percentiles_usec"},
                        m.values = <<c.cmd>>
                 PROVE  m \in W <=> c.cmd \notin sv.brief /\ m \in CmdSet(sv, c)
    OBVIOUS
  <2>2. m \in W <=> \E q \in DOMAIN sv.cmds : sv.cmds[q].cmd \notin sv.brief /\ m \in CmdSet(sv, sv.cmds[q])
    BY <1>1, <2>1, EndIs
  <2>3. \A q \in DOMAIN sv.cmds : m \in CmdSet(sv, sv.cmds[q]) => q = o
    BY <1>1, <2>1, CmdSetFields, SameCommand
  <2>4. QED
    BY <2>2, <2>3
<1>4. \A m : Series(exp, m).val = m.val
  BY DEF Series
<1>5. \A x : x \in OfCommand(c, "commands_total") <=>
          c.cmd \notin sv.brief /\ \E m \in CmdSet(sv, c) : m.name = "commands_total" /\ m.values = <<c.cmd>> /\ x = Series(exp, m)
  <2>1. \A x : x \in OfCommand(c, "commands_total") <=>
          \E m \in W : m.name = "commands_total" /\ m.values = <<c.cmd>> /\ x = Series(exp, m)
    BY <1>2, OfCommandIs
  <2> HIDE DEF W, c
  <2>2. QED
    BY <1>2, <1>3, <2>1
<1>6. \A x : x \in OfCommand(c, "commands_rejected_calls_total") <=>
          c.cmd \notin sv.brief
          /\ \E m \in CmdSet(sv, c) : m.name = "commands_rejected_calls_total" /\ m.values = <<c.cmd>> /\ x = Series(exp, m)
  <2>1. \A x : x \in OfCommand(c, "commands_rejected_calls_total") <=>
          \E m \in W : m.name = "commands_rejected_calls_total" /\ m.values = <<c.cmd>> /\ x = Series(exp, m)
    BY <1>2, OfCommandIs
  <2> HIDE DEF W, c
  <2>2. QED
    BY <1>2, <1>3, <2>1
<1> HIDE DEF c
<1>7. {s.val : s \in OfCommand(c, "commands_total")} = {Whole(x) : x \in IF c.cmd \notin sv.brief THEN {c.calls} ELSE {}}
  <2>1. CASE c.cmd \in sv.brief
    BY <1>5, <2>1
  <2>2. CASE c.cmd \notin sv.brief
    <3>1. \A s \in OfCommand(c, "commands_total") : s.val = Whole(c.calls)
      BY <1>4, <1>5, CmdSetFields
    <3>2. OfCommand(c, "commands_total") # {}
      BY <1>5, <2>2, CmdSetHas
    <3>3. QED
      BY <2>2, <3>1, <3>2
  <2>3. QED
    BY <2>1, <2>2
<1>8. OfCommand(c, "commands_rejected_calls_total") # {} <=> c.cmd \notin sv.brief /\ sv.kind \in Since62
  BY <1>6, CmdSetFields, CmdSetHas
<1>9. QED
  BY <1>7, <1>8 DEF c

\* The summary of one command in a finished scrape.
LEMMA SummaryOfOne ==
    ASSUME Base, Exact, AtEnd, NEW o \in DOMAIN sv.cmds
    PROVE  LET c == sv.cmds[o]
               told == c.cmd \notin sv.brief
           IN  /\ OfCommand(c, "latency_percentiles_usec") # {} <=> sv.kind \in Since70
               /\ \A s \in OfCommand(c, "latency_percentiles_usec") :
                     /\ s.count = (IF told THEN c.calls ELSE 0) /\ s.val = Whole(IF told THEN c.usec ELSE 0)
                     /\ s.dist = {<<"p50", c.usec>>, <<"p99", c.usec + 1>>}
<1> DEFINE c == sv.cmds[o]
           W == EndW(sv, opts, parse, dbCount)
           S(q) == Distribution("latency_percentiles_usec", Whole(StatsOf(sv, sv.cmds[q]).usec), <<sv.cmds[q].cmd>>,
                                StatsOf(sv, sv.cmds[q]).calls, LatOf(sv.cmds[q]))
<1>1. sv \in Facts /\ Consistent(sv) /\ WalkOk(sv, Len(InfoText(sv)), parse)
  BY AtTheEnd
<1>2. \A m : m.name = "latency_percentiles_usec" =>
          (m \in W <=> sv.kind \in Since70 /\ \E q \in DOMAIN sv.cmds : m = S(q))
  BY <1>1, EndIs, SummariesAre
<1>3. \A q : /\ S(q).name = "latency_percentiles_usec" /\ S(q).values = <<sv.cmds[q].cmd>>
             /\ S(q).val = Whole(StatsOf(sv, sv.cmds[q]).usec) /\ S(q).count = StatsOf(sv, sv.cmds[q]).calls
             /\ S(q).dist = LatOf(sv.cmds[q])
  BY DEF Distribution
<1>4. \A x : x \in OfCommand(c, "latency_percentiles_usec") <=>
          \E m \in W : m.name = "latency_percentiles_usec" /\ m.values = <<c.cmd>> /\ x = Series(exp, m)
  <2>1. "latency_percentiles_usec" \in CmdMetrics
    BY DEF CmdMetrics
  <2>2. QED
    BY <2>1, OfCommandIs
<1> HIDE DEF S, W
<1>5. \A q \in DOMAIN sv.cmds : S(q).values = <<c.cmd>> => q = o
  BY <1>1, <1>3, SameCommand
<1>6. \A x : x \in OfCommand(c, "latency_percentiles_usec") <=> sv.kind \in Since70 /\ x = Series(exp, S(o))
  <2>1. ASSUME NEW x \in OfCommand(c, "latency_percentiles_usec")
        PROVE  sv.kind \in Since70 /\ x = Series(exp, S(o))
    <3>1. PICK m \in W : m.name = "latency_percentiles_usec" /\ m.values = <<c.cmd>> /\ x = Series(exp, m)
      BY <1>4, <2>1
    <3>2. sv.kind \in Since70 /\ \E q \in DOMAIN sv.cmds : m = S(q)
      BY <1>2, <3>1
    <3>3. m = S(o)
      BY <1>5, <3>1, <3>2
    <3>4. QED
      BY <3>1, <3>2, <3>3
  <2>2. ASSUME sv.kind \in Since70
        PROVE  Series(exp, S(o)) \in OfCommand(c, "latency_percentiles_usec")
    <3>1. S(o) \in W /\ S(o).name = "latency_percentiles_usec" /\ S(o).values = <<c.cmd>>
      BY <1>2, <1>3, <2>2
    <3>2. QED
      BY <1>4, <3>1
  <2>3. QED
    BY <2>1, <2>2
<1>7. /\ Series(exp, S(o)).val = Whole(StatsOf(sv, c).usec) /\ Series(exp, S(o)).count = StatsOf(sv, c).calls
      /\ Series(exp, S(o)).dist = LatOf(c)
  BY <1>3 DEF Series
<1> HIDE DEF c
<1>8. /\ StatsOf(sv, c).usec = (IF c.cmd \notin sv.brief THEN c.usec ELSE 0)
      /\ StatsOf(sv, c).calls = (IF c.cmd \notin sv.brief THEN c.calls ELSE 0)
      /\ LatOf(c) = {<<"p50", c.usec>>, <<"p99", c.usec + 1>>}
  BY DEF StatsOf, LatOf
<1>9. OfCommand(c, "latency_percentiles_usec") # {} <=> sv.kind \in Since70
  BY <1>6
<1>10. \A s \in OfCommand(c, "latency_percentiles_usec") :
           /\ s.count = (IF c.cmd \notin sv.brief THEN c.calls ELSE 0)
           /\ s.val = Whole(IF c.cmd \notin sv.brief THEN c.usec ELSE 0)
           /\ s.dist = {<<"p50", c.usec>>, <<"p99", c.usec + 1>>}
  BY <1>6, <1>7, <1>8
<1>11. QED
  BY <1>9, <1>10 DEF c

\* The histogram of one command in a finished scrape.
LEMMA HistogramOfOne ==
    ASSUME Base, Exact, AtEnd, NEW o \in DOMAIN sv.cmds
    PROVE  LET c == sv.cmds[o]
               others == {x.cmd : x \in ToSet(sv.cmds)} \cap Extensions[c.cmd]
           IN  /\ \A s \in OfCommand(c, "commands_latencies_usec") :
                       /\ s.count = c.calls
                       /\ others = {c.cmd} /\ c.cmd \in Spelled => s.val = Whole(c.usec)
               /\ opts.latency /\ sv.kind \in Since70 \ {"later"} /\ "LATENCY" \notin sv.denied
                       => OfCommand(c, "commands_latencies_usec") # {}
<1> DEFINE c == sv.cmds[o]
           W == EndW(sv, opts, parse, dbCount)
           H(q) == HistOf(sv, HistogramAnswer(sv)[q])
<1>1. sv \in Facts /\ Consistent(sv)
  BY AtTheEnd
<1>2. \A m : m.name = "commands_latencies_usec" =>
          (m \in W <=> /\ opts.latency /\ "LATENCY" \notin sv.denied /\ sv.kind \in Since70
                       /\ \E q \in DOMAIN sv.cmds : ~(sv.kind = "later" /\ q = Len(sv.cmds)) /\ m = H(q))
  BY <1>1, EndIs, HistWIs
<1>3. \A q \in DOMAIN sv.cmds :
          /\ H(q).name = "commands_latencies_usec" /\ H(q).values = <<sv.cmds[q].cmd>>
          /\ H(q).count = sv.cmds[q].calls /\ H(q).val = Whole(UsecOf(sv, sv.cmds[q].cmd))
  BY <1>1, HistOfFields
<1>4. \A x : x \in OfCommand(c, "commands_latencies_usec") <=>
          \E m \in W : m.name = "commands_latencies_usec" /\ m.values = <<c.cmd>> /\ x = Series(exp, m)
  <2>1. "commands_latencies_usec" \in CmdMetrics
    BY DEF CmdMetrics
  <2>2. QED
    BY <2>1, OfCommandIs
<1> HIDE DEF H, W
<1>5. \A q \in DOMAIN sv.cmds : H(q).values = <<c.cmd>> => q = o
  BY <1>1, <1>3, SameCommand
<1>6. \A x \in OfCommand(c, "commands_latencies_usec") : x = Series(exp, H(o))
  BY <1>2, <1>4, <1>5
<1>7. Series(exp, H(o)).val = Whole(UsecOf(sv, c.cmd)) /\ Series(exp, H(o)).count = c.calls
  BY <1>3 DEF Series
<1>8. ASSUME {x.cmd : x \in ToSet(sv.cmds)} \cap Extensions[c.cmd] = {c.cmd}, c.cmd \in Spelled
      PROVE  UsecOf(sv, c.cmd) = c.usec
  BY <1>1, <1>8, UsecIs
<1>9. ASSUME opts.latency, sv.kind \in Since70 \ {"later"}, "LATENCY" \notin sv.denied
      PROVE  OfCommand(c, "commands_latencies_usec") # {}
  <2>1. H(o) \in W /\ H(o).name = "commands_latencies_usec" /\ H(o).values = <<c.cmd>>
    BY <1>2, <1>3, <1>9
  <2>2. QED
    BY <1>4, <2>1
<1>10. QED
  BY <1>6, <1>7, <1>8, <1>9

\* A finished scrape says of each command what the server said of it.
LEMMA CommandsAtEnd ==
    ASSUME Base, Exact
    PROVE  CommandsExact
<1>1. SUFFICES ASSUME AtEnd, NEW c \in ToSet(sv.cmds)
               PROVE  LET told == c.cmd \notin sv.brief
                          others == {x.cmd : x \in ToSet(sv.cmds)} \cap Extensions[c.cmd]
                      IN  /\ {s.val : s \in OfCommand(c, "commands_total")} = {Whole(x) : x \in IF told THEN {c.calls} ELSE {}}
                          /\ OfCommand(c, "commands_rejected_calls_total") # {} <=> told /\ sv.kind \in Since62
                          /\ OfCommand(c, "latency_percentiles_usec") # {} <=> sv.kind \in Since70
                          /\ \A s \in OfCommand(c, "latency_percentiles_usec") :
                                 /\ s.count = (IF told THEN c.calls ELSE 0) /\ s.val = Whole(IF told THEN c.usec ELSE 0)
                                 /\ s.dist = {<<"p50", c.usec>>, <<"p99", c.usec + 1>>}
                          /\ \A s \in OfCommand(c, "commands_latencies_usec") :
                                 /\ s.count = c.calls
                                 /\ others = {c.cmd} /\ c.cmd \in Spelled => s.val = Whole(c.usec)
                          /\ opts.latency /\ sv.kind \in Since70 \ {"later"} /\ "LATENCY" \notin sv.denied
                                 => OfCommand(c, "commands_latencies_usec") # {}
  BY DEF CommandsExact, OfCommand
<1>2. PICK o \in DOMAIN sv.cmds : c = sv.cmds[o]
  BY <1>1 DEF ToSet
<1>3. QED
  BY <1>1, <1>2, StatsOfOne, SummaryOfOne, HistogramOfOne

\* The masters' series of a finished scrape.
LEMMA MasterFound ==
    ASSUME Base, Exact, AtEnd, NEW name \in MasterMetrics, NEW y
    PROVE  y \in Found(name) <=>
               \E o \in DOMAIN sv.masters : \E k \in MasterKeys : \E m \in MasterSet(sv.masters[o], k) :
                   m.name = name /\ y = <<m.values, m.val>>
<1> DEFINE W == EndW(sv, opts, parse, dbCount)
<1>1. sv \in Facts /\ Consistent(sv) /\ IsExp(exp) /\ Exactly(exp, W)
  BY AtTheEnd
<1>2. \A n, v, w : Metric(n, v, w).name = n /\ Metric(n, v, w).values = w /\ Metric(n, v, w).val = v
  BY MetricFacts
<1>3. \A x, k : \A m \in MasterSet(x, k) : Len(m.values) = 2
  <2>1. \A x, k : \A m \in MasterSet(x, k) : m.values = <<x.host, x.port>>
    BY <1>2 DEF MasterSet
  <2>2. \A a, b : Len(<<a, b>>) = 2
    OBVIOUS
  <2>3. QED
    BY ONLY <2>1, <2>2
<1>4. Len(KnownDescs[name]) = 2
  <2>1. KnownDescs[name] = <<"master_host", "master_port">>
    BY KnownFacts
  <2>2. QED
    BY <2>1
<1>5. \A m : m.name = name => (m \in W <=>
          \E o \in DOMAIN sv.masters : \E k \in MasterKeys : m \in MasterSet(sv.masters[o], k))
  BY <1>1, EndIs
<1> HIDE DEF W
<1>6. \A m \in W : m.name = name => Len(m.values) = Len(KnownDescs[name])
  BY <1>3, <1>4, <1>5
<1>7. y \in Found(name) <=> \E m \in W : m.name = name /\ y = <<m.values, m.val>>
  BY <1>1, <1>6, FoundIs
<1>8. QED
  BY <1>5, <1>7

\* The replicas' series of a finished scrape.
LEMMA ReplicaFound ==
    ASSUME Base, Exact, AtEnd, NEW name \in ReplicaMetrics, NEW y
    PROVE  y \in Found(name) <=>
               \E o \in DOMAIN sv.replicas : \E m \in ReplicaSet(sv, sv.replicas[o]) :
                   m.name = name /\ y = <<m.values, m.val>>
<1> DEFINE W == EndW(sv, opts, parse, dbCount)
<1>1. sv \in Facts /\ Consistent(sv) /\ IsExp(exp) /\ Exactly(exp, W)
  BY AtTheEnd
<1>2. \A n, v, w : Metric(n, v, w).name = n /\ Metric(n, v, w).values = w /\ Metric(n, v, w).val = v
  BY MetricFacts
<1>3. \A r : \A m \in ReplicaSet(sv, r) : Len(m.values) = 3
  <2>1. \A r : \A m \in ReplicaSet(sv, r) : m.values = <<r.ip, r.port, r.state>>
    BY <1>2 DEF ReplicaSet
  <2>2. \A a, b, c : Len(<<a, b, c>>) = 3
    OBVIOUS
  <2>3. QED
    BY ONLY <2>1, <2>2
<1>4. Len(KnownDescs[name]) = 3
  <2>1. KnownDescs[name] = <<"slave_ip", "slave_port", "slave_state">>
    BY KnownFacts
  <2>2. QED
    BY <2>1
<1>5. \A m : m.name = name => (m \in W <=> \E o \in DOMAIN sv.replicas : m \in ReplicaSet(sv, sv.replicas[o]))
  BY <1>1, EndIs
<1> HIDE DEF W
<1>6. \A m \in W : m.name = name => Len(m.values) = Len(KnownDescs[name])
  BY <1>3, <1>4, <1>5
<1>7. y \in Found(name) <=> \E m \in W : m.name = name /\ y = <<m.values, m.val>>
  BY <1>1, <1>6, FoundIs
<1>8. QED
  BY <1>5, <1>7

\* What the fields that become labels hold at the end.
LEMMA KvAtEnd ==
    ASSUME NEW s \in Facts, Consistent(s), NEW p, WalkOk(s, Len(InfoText(s)), p)
    PROVE  /\ Value(p.kv, "role") = (IF s.sentinel THEN "" ELSE IF s.masters = <<>> THEN "master" ELSE "slave")
           /\ s.masters # <<>> => /\ Value(p.kv, "master_host") = s.masters[1].host
                                  /\ Value(p.kv, "master_port") = s.masters[1].port
                                  /\ Value(p.kv, "slave_read_only") = "1"
           /\ Value(p.kv, "redis_version") = s.kind
           /\ "valkey_version" \in DOMAIN p.kv <=> s.kind \in Valkey
           /\ "valkey_release_stage" \in DOMAIN p.kv <=> s.kind = "valkey8"
           /\ "valkey_version" \in DOMAIN p.kv => p.kv["valkey_version"] = s.kind
           /\ "valkey_release_stage" \in DOMAIN p.kv => p.kv["valkey_release_stage"] = "ga"
           /\ \A k : k \notin KvKeys => Value(p.kv, k) = ""
<1> DEFINE kv == p.kv
<1>1. KvOk(s, InfoPairs(s), kv)
  BY MarksFacts DEF WalkOk
<1> HIDE DEF kv
<1>2. \A k : k \in DOMAIN kv <=> k \in KvKeys /\ <<k, KvMark(k)>> \in InfoPairs(s)
  BY <1>1 DEF KvOk
<1>3. \A k \in DOMAIN kv : kv[k] = KvVal(s, k)
  BY <1>1 DEF KvOk
<1>4. /\ "role" \in DOMAIN kv <=> ~s.sentinel
      /\ "slave_read_only" \in DOMAIN kv <=> s.masters # <<>>
      /\ "redis_version" \in DOMAIN kv
      /\ "valkey_version" \in DOMAIN kv <=> s.kind \in Valkey
      /\ "valkey_release_stage" \in DOMAIN kv <=> s.kind = "valkey8"
      /\ "master_host" \in DOMAIN kv <=> 1 \in DOMAIN s.masters
      /\ "master_port" \in DOMAIN kv <=> 1 \in DOMAIN s.masters
  <2>1. /\ KvMark("role") = 0 /\ KvMark("slave_read_only") = 0 /\ KvMark("redis_version") = 0
        /\ KvMark("valkey_version") = 0 /\ KvMark("valkey_release_stage") = 0
        /\ KvMark("master_host") = 1 /\ KvMark("master_port") = 1
    BY DEF KvMark
  <2>2. /\ "role" \in KvKeys /\ "slave_read_only" \in KvKeys /\ "redis_version" \in KvKeys /\ "valkey_version" \in KvKeys
        /\ "valkey_release_stage" \in KvKeys /\ "master_host" \in KvKeys /\ "master_port" \in KvKeys
    BY DEF KvKeys
  <2>3. "master_host" \in MasterBlock /\ "master_port" \in MasterBlock
    BY DEF MasterBlock
  <2>4. /\ <<"role", 0>> \in InfoPairs(s) <=> ~s.sentinel
        /\ <<"slave_read_only", 0>> \in InfoPairs(s) <=> s.masters # <<>>
        /\ <<"redis_version", 0>> \in InfoPairs(s)
        /\ <<"valkey_version", 0>> \in InfoPairs(s) <=> s.kind \in Valkey
        /\ <<"valkey_release_stage", 0>> \in InfoPairs(s) <=> s.kind = "valkey8"
        /\ <<"master_host", 1>> \in InfoPairs(s) <=> 1 \in DOMAIN s.masters
        /\ <<"master_port", 1>> \in InfoPairs(s) <=> 1 \in DOMAIN s.masters
    BY <2>3, PairsListed
  <2>5. QED
    BY <1>2, <2>1, <2>2, <2>4
<1>5. s.masters # <<>> => 1 \in DOMAIN s.masters
  <2>1. IsSeq(s.masters)
    BY FactSeqs
  <2>2. QED
    BY <2>1, SeqFacts
<1>6. s.sentinel => s.masters = <<>>
  BY DEF Consistent
<1>7. /\ KvVal(s, "role") = (IF s.masters = <<>> THEN "master" ELSE "slave")
      /\ KvVal(s, "slave_read_only") = "1"
      /\ KvVal(s, "redis_version") = s.kind /\ KvVal(s, "valkey_version") = s.kind
      /\ KvVal(s, "valkey_release_stage") = "ga"
      /\ KvVal(s, "master_host") = s.masters[1].host /\ KvVal(s, "master_port") = s.masters[1].port
  BY DEF KvVal
<1>8. \A k : Value(kv, k) = IF k \in DOMAIN kv THEN kv[k] ELSE ""
  BY DEF Value
<1>9. QED
  BY <1>2, <1>3, <1>4, <1>5, <1>6, <1>7, <1>8 DEF kv

\* The series slave_info of a finished scrape.
LEMMA SlaveFound ==
    ASSUME Base, Exact, AtEnd, NEW y
    PROVE  y \in Found("slave_info") <=>
               sv.masters # <<>> /\ y = <<<<sv.masters[1].host, sv.masters[1].port, "1">>, Whole(1)>>
<1> DEFINE W == EndW(sv, opts, parse, dbCount)
           S == SlaveMetric(parse.kv)
<1>1. sv \in Facts /\ Consistent(sv) /\ IsExp(exp) /\ Exactly(exp, W) /\ WalkOk(sv, Len(InfoText(sv)), parse)
  BY AtTheEnd
<1>2. S.name = "slave_info" /\ S.val = Whole(1)
      /\ S.values = <<Value(parse.kv, "master_host"), Value(parse.kv, "master_port"), Value(parse.kv, "slave_read_only")>>
  BY MetricFacts DEF SlaveMetric
<1>3. Len(S.values) = 3
  BY <1>2
<1>4. Len(KnownDescs["slave_info"]) = 3
  <2>1. KnownDescs["slave_info"] = <<"master_host", "master_port", "read_only">>
    BY KnownFacts
  <2>2. QED
    BY <2>1
<1>5. \A m : m.name = "slave_info" => (m \in W <=> Value(parse.kv, "role") = "slave" /\ m = S)
  BY <1>1, EndIs
<1>6. Value(parse.kv, "role") = "slave" <=> sv.masters # <<>>
  <2>1. Value(parse.kv, "role") = (IF sv.sentinel THEN "" ELSE IF sv.masters = <<>> THEN "master" ELSE "slave")
    BY <1>1, KvAtEnd
  <2>2. sv.sentinel => sv.masters = <<>>
    BY <1>1 DEF Consistent
  <2>3. QED
    BY <2>1, <2>2
<1>7. sv.masters # <<>> => S.values = <<sv.masters[1].host, sv.masters[1].port, "1">>
  BY <1>1, <1>2, KvAtEnd
<1> HIDE DEF W, S
<1>8. \A m \in W : m.name = "slave_info" => Len(m.values) = Len(KnownDescs["slave_info"])
  BY <1>3, <1>4, <1>5
<1>9. y \in Found("slave_info") <=> \E m \in W : m.name = "slave_info" /\ y = <<m.values, m.val>>
  BY <1>1, <1>8, FoundIs
<1>10. QED
  BY <1>2, <1>5, <1>6, <1>7, <1>9

\* A finished scrape names each master's, each replica's and the first master's address with its own numbers.
LEMMA ReplicationAtEnd ==
    ASSUME Base, Exact
    PROVE  ReplicationExact
<1>1. SUFFICES ASSUME AtEnd
               PROVE  LET Masters(f(_)) == {<<<<m.host, m.port>>, f(m)>> : m \in ToSet(sv.masters)}
                          Replicas(f(_)) == {<<<<r.ip, r.port, r.state>>, f(r)>> : r \in ToSet(sv.replicas)}
                      IN  /\ Found("master_link_up") = Masters(LAMBDA m : Whole(IF m.up THEN 1 ELSE 0))
                          /\ Found("master_last_io_seconds_ago") = Masters(LAMBDA m : Whole(m.io))
                          /\ Found("master_sync_in_progress") = Masters(LAMBDA m : Whole(IF m.up THEN 0 ELSE 1))
                          /\ Found("slave_repl_offset") = Masters(LAMBDA m : Whole(m.offset))
                          /\ Found("connected_slave_offset_bytes") = Replicas(LAMBDA r : Whole(r.offset))
                          /\ sv.kind \in Since28 => Found("connected_slave_lag_seconds") = Replicas(LAMBDA r : Whole(r.lag))
                          /\ Found("slave_info") =
                                 {<<<<m.host, m.port, "1">>, Whole(1)>> :
                                      m \in {sv.masters[i] : i \in DOMAIN sv.masters \cap {1}}}
  BY DEF ReplicationExact
<1>2. \A n, v, w : Metric(n, v, w).name = n /\ Metric(n, v, w).values = w /\ Metric(n, v, w).val = v
  BY MetricFacts
<1>3. \A x, y :
        /\ (\E k \in MasterKeys : \E m \in MasterSet(x, k) : m.name = "master_link_up" /\ y = <<m.values, m.val>>)
              <=> y = <<<<x.host, x.port>>, Whole(IF x.up THEN 1 ELSE 0)>>
        /\ (\E k \in MasterKeys : \E m \in MasterSet(x, k) : m.name = "master_last_io_seconds_ago" /\ y = <<m.values, m.val>>)
              <=> y = <<<<x.host, x.port>>, Whole(x.io)>>
        /\ (\E k \in MasterKeys : \E m \in MasterSet(x, k) : m.name = "master_sync_in_progress" /\ y = <<m.values, m.val>>)
              <=> y = <<<<x.host, x.port>>, Whole(IF x.up THEN 0 ELSE 1)>>
        /\ (\E k \in MasterKeys : \E m \in MasterSet(x, k) : m.name = "slave_repl_offset" /\ y = <<m.values, m.val>>)
              <=> y = <<<<x.host, x.port>>, Whole(x.offset)>>
  BY <1>2 DEF MasterSet, MasterKeys
<1>4. \A r, y :
        /\ (\E m \in ReplicaSet(sv, r) : m.name = "connected_slave_offset_bytes" /\ y = <<m.values, m.val>>)
              <=> y = <<<<r.ip, r.port, r.state>>, Whole(r.offset)>>
        /\ sv.kind \in Since28 =>
              ((\E m \in ReplicaSet(sv, r) : m.name = "connected_slave_lag_seconds" /\ y = <<m.values, m.val>>)
                  <=> y = <<<<r.ip, r.port, r.state>>, Whole(r.lag)>>)
  BY <1>2 DEF ReplicaSet
<1>5. {"master_link_up", "master_last_io_seconds_ago", "master_sync_in_progress", "slave_repl_offset"} \subseteq MasterMetrics
      /\ {"connected_slave_offset_bytes", "connected_slave_lag_seconds"} \subseteq ReplicaMetrics
  BY DEF MasterMetrics, ReplicaMetrics
<1>6. /\ \A x : x \in ToSet(sv.masters) <=> \E o \in DOMAIN sv.masters : x = sv.masters[o]
      /\ \A x : x \in ToSet(sv.replicas) <=> \E o \in DOMAIN sv.replicas : x = sv.replicas[o]
  BY DEF ToSet
<1>7. \A y :
        /\ y \in Found("master_link_up") <=> \E x \in ToSet(sv.masters) : y = <<<<x.host, x.port>>, Whole(IF x.up THEN 1 ELSE 0)>>
        /\ y \in Found("master_last_io_seconds_ago") <=> \E x \in ToSet(sv.masters) : y = <<<<x.host, x.port>>, Whole(x.io)>>
        /\ y \in Found("master_sync_in_progress")
              <=> \E x \in ToSet(sv.masters) : y = <<<<x.host, x.port>>, Whole(IF x.up THEN 0 ELSE 1)>>
        /\ y \in Found("slave_repl_offset") <=> \E x \in ToSet(sv.masters) : y = <<<<x.host, x.port>>, Whole(x.offset)>>
  <2>1. \A name \in MasterMetrics : \A y : y \in Found(name) <=>
               \E x \in ToSet(sv.masters) : \E k \in MasterKeys : \E m \in MasterSet(x, k) :
                   m.name = name /\ y = <<m.values, m.val>>
    BY <1>1, <1>6, MasterFound
  <2>2. \A y : y \in Found("master_link_up") <=> \E x \in ToSet(sv.masters) : y = <<<<x.host, x.port>>, Whole(IF x.up THEN 1 ELSE 0)>>
    <3> DEFINE P(x, y) == \E k \in MasterKeys : \E m \in MasterSet(x, k) : m.name = "master_link_up" /\ y = <<m.values, m.val>>
    <3>1. \A x, y : P(x, y) <=> y = <<<<x.host, x.port>>, Whole(IF x.up THEN 1 ELSE 0)>>
      BY <1>3
    <3>2. "master_link_up" \in MasterMetrics
      BY <1>5
    <3>3. \A y : y \in Found("master_link_up") <=> \E x \in ToSet(sv.masters) : P(x, y)
      BY <2>1, <3>2
    <3> HIDE DEF P
    <3>4. QED
      BY <3>1, <3>3
  <2>3. \A y : y \in Found("master_last_io_seconds_ago") <=> \E x \in ToSet(sv.masters) : y = <<<<x.host, x.port>>, Whole(x.io)>>
    <3> DEFINE P(x, y) == \E k \in MasterKeys : \E m \in MasterSet(x, k) : m.name = "master_last_io_seconds_ago" /\ y = <<m.values, m.val>>
    <3>1. \A x, y : P(x, y) <=> y = <<<<x.host, x.port>>, Whole(x.io)>>
      BY <1>3
    <3>2. "master_last_io_seconds_ago" \in MasterMetrics
      BY <1>5
    <3>3. \A y : y \in Found("master_last_io_seconds_ago") <=> \E x \in ToSet(sv.masters) : P(x, y)
      BY <2>1, <3>2
    <3> HIDE DEF P
    <3>4. QED
      BY <3>1, <3>3
  <2>4. \A y : y \in Found("master_sync_in_progress") <=> \E x \in ToSet(sv.masters) : y = <<<<x.host, x.port>>, Whole(IF x.up THEN 0 ELSE 1)>>
    <3> DEFINE P(x, y) == \E k \in MasterKeys : \E m \in MasterSet(x, k) : m.name = "master_sync_in_progress" /\ y = <<m.values, m.val>>
    <3>1. \A x, y : P(x, y) <=> y = <<<<x.host, x.port>>, Whole(IF x.up THEN 0 ELSE 1)>>
      BY <1>3
    <3>2. "master_sync_in_progress" \in MasterMetrics
      BY <1>5
    <3>3. \A y : y \in Found("master_sync_in_progress") <=> \E x \in ToSet(sv.masters) : P(x, y)
      BY <2>1, <3>2
    <3> HIDE DEF P
    <3>4. QED
      BY <3>1, <3>3
  <2>5. \A y : y \in Found("slave_repl_offset") <=> \E x \in ToSet(sv.masters) : y = <<<<x.host, x.port>>, Whole(x.offset)>>
    <3> DEFINE P(x, y) == \E k \in MasterKeys : \E m \in MasterSet(x, k) : m.name = "slave_repl_offset" /\ y = <<m.values, m.val>>
    <3>1. \A x, y : P(x, y) <=> y = <<<<x.host, x.port>>, Whole(x.offset)>>
      BY <1>3
    <3>2. "slave_repl_offset" \in MasterMetrics
      BY <1>5
    <3>3. \A y : y \in Found("slave_repl_offset") <=> \E x \in ToSet(sv.masters) : P(x, y)
      BY <2>1, <3>2
    <3> HIDE DEF P
    <3>4. QED
      BY <3>1, <3>3
  <2>6. QED
    BY <2>2, <2>3, <2>4, <2>5
<1>8. \A y :
        /\ y \in Found("connected_slave_offset_bytes")
              <=> \E r \in ToSet(sv.replicas) : y = <<<<r.ip, r.port, r.state>>, Whole(r.offset)>>
        /\ sv.kind \in Since28 => (y \in Found("connected_slave_lag_seconds")
              <=> \E r \in ToSet(sv.replicas) : y = <<<<r.ip, r.port, r.state>>, Whole(r.lag)>>)
  <2>1. \A name \in ReplicaMetrics : \A y : y \in Found(name) <=>
               \E r \in ToSet(sv.replicas) : \E m \in ReplicaSet(sv, r) : m.name = name /\ y = <<m.values, m.val>>
    BY <1>1, <1>6, ReplicaFound
  <2>2. QED
    BY <1>4, <1>5, <2>1
<1>9. Found("slave_info") =
                                 {<<<<m.host, m.port, "1">>, Whole(1)>> :
                                      m \in {sv.masters[i] : i \in DOMAIN sv.masters \cap {1}}}
  <2>1. \A y : y \in Found("slave_info") <=>
               sv.masters # <<>> /\ y = <<<<sv.masters[1].host, sv.masters[1].port, "1">>, Whole(1)>>
    BY <1>1, SlaveFound
  <2>2. sv.masters # <<>> <=> 1 \in DOMAIN sv.masters
    <3>1. IsSeq(sv.masters)
      BY <1>1, AtTheEnd, FactSeqs
    <3>2. QED
      BY <3>1, SeqFacts
  <2>3. QED
    BY <2>1, <2>2
<1>10. QED
  BY <1>7, <1>8, <1>9

(***************************************************************************)
(* The line of a client: pieces with different names.                      *)
(***************************************************************************)
Pieces(v, S) ==
    /\ IsSeq(v) /\ \A x : x \in ToSet(v) <=> x \in S
    /\ \A i, j \in DOMAIN v : i # j => v[i].n # v[j].n

\* Pieces with different names put together.
LEMMA PiecesJoin ==
    ASSUME NEW s, NEW A, Pieces(s, A), NEW t, NEW B, Pieces(t, B), \A a \in A, b \in B : a.n # b.n
    PROVE  Pieces(s \o t, A \cup B)
<1> DEFINE y == s \o t
<1>1. IsSeq(s) /\ IsSeq(t)
  BY DEF Pieces
<1>2. IsCat(y, s, t)
  BY <1>1, CatFacts
<1>3. /\ DOMAIN s = 1 .. Len(s) /\ DOMAIN t = 1 .. Len(t) /\ DOMAIN y = 1 .. Len(y)
      /\ \A i \in DOMAIN s : s[i] \in A
      /\ \A i \in DOMAIN t : t[i] \in B
  BY <1>1, <1>2, SeqFacts DEF Pieces, IsCat
<1> HIDE DEF y
<1>4. \A x : x \in ToSet(y) <=> x \in A \cup B
  BY <1>2 DEF IsCat, Pieces
<1>5. \A i \in DOMAIN y : \/ i \in DOMAIN s /\ y[i] = s[i]
                          \/ i - Len(s) \in DOMAIN t /\ y[i] = t[i - Len(s)]
  <2>1. SUFFICES ASSUME NEW i \in DOMAIN y, i \notin DOMAIN s
                 PROVE  i - Len(s) \in DOMAIN t /\ y[i] = t[i - Len(s)]
    BY <1>2, <1>3 DEF IsCat
  <2>2. i - Len(s) \in 1 .. Len(t) /\ Len(s) + (i - Len(s)) = i
    BY <1>2, <1>3, <2>1 DEF IsCat
  <2>3. y[Len(s) + (i - Len(s))] = t[i - Len(s)]
    BY <1>2, <2>2 DEF IsCat
  <2>4. QED
    BY <1>3, <2>2, <2>3
<1>6. ASSUME NEW i \in DOMAIN y, NEW j \in DOMAIN y, i # j
      PROVE  y[i].n # y[j].n
  <2>1. i \in Int /\ j \in Int /\ Len(s) \in Int
    BY <1>2, <1>3 DEF IsCat
  <2>2. CASE i \in DOMAIN s /\ y[i] = s[i] /\ j \in DOMAIN s /\ y[j] = s[j]
    BY <1>6, <2>2 DEF Pieces
  <2>3. CASE i \in DOMAIN s /\ y[i] = s[i] /\ j - Len(s) \in DOMAIN t /\ y[j] = t[j - Len(s)]
    BY <1>3, <2>3
  <2>4. CASE j \in DOMAIN s /\ y[j] = s[j] /\ i - Len(s) \in DOMAIN t /\ y[i] = t[i - Len(s)]
    BY <1>3, <2>4
  <2>5. CASE i - Len(s) \in DOMAIN t /\ y[i] = t[i - Len(s)] /\ j - Len(s) \in DOMAIN t /\ y[j] = t[j - Len(s)]
    <3>1. i - Len(s) # j - Len(s)
      BY <1>6, <2>1
    <3>2. QED
      BY <2>5, <3>1 DEF Pieces
  <2>6. QED
    BY <1>5, <1>6, <2>2, <2>3, <2>4, <2>5
<1>7. QED
  BY <1>2, <1>4, <1>6 DEF Pieces, IsCat, y

\* A piece is found by its name.
LEMMA PiecesGet ==
    ASSUME NEW v, NEW S, Pieces(v, S)
    PROVE  /\ \A x \in S : Has(v, x.n) /\ Get(v, x.n) = x
           /\ \A n : (\A x \in S : x.n # n) => ~Has(v, n)
<1>1. IsSeq(v) /\ DOMAIN v = 1 .. Len(v) /\ \A i \in DOMAIN v : v[i] \in S
  BY SeqFacts DEF Pieces
<1>2. ASSUME NEW x \in S
      PROVE  Has(v, x.n) /\ Get(v, x.n) = x
  <2>1. PICK i \in DOMAIN v : v[i] = x
    BY <1>1, SeqFacts DEF Pieces
  <2>2. \A j \in DOMAIN v : v[j].n = x.n => j = i
    BY <2>1 DEF Pieces
  <2>3. i \in Int
    BY <1>1
  <2>4. QED
    BY <2>1, <2>2, <2>3, GetFacts
<1>3. \A n : (\A x \in S : x.n # n) => ~Has(v, n)
  BY <1>1 DEF Has
<1>4. QED
  BY <1>2, <1>3

\* One piece or none.
LEMMA PiecesIf ==
    ASSUME NEW b, NEW x
    PROVE  Pieces(If(b, <<x>>), IF b THEN {x} ELSE {})
<1>1. Pieces(<<x>>, {x})
  <2>1. DOMAIN <<x>> = {1}
    OBVIOUS
  <2>2. QED
    BY <2>1, ShortSeqs DEF Pieces
<1>2. Pieces(<<>>, {})
  BY ShortSeqs DEF Pieces
<1>3. CASE b
  BY <1>1, <1>3 DEF If
<1>4. CASE ~b
  BY <1>2, <1>4 DEF If
<1>5. QED
  BY <1>3, <1>4

\* Five pieces with different names.
LEMMA PiecesFive ==
    ASSUME NEW a, NEW b, NEW c, NEW d, NEW e, a.n # b.n, a.n # c.n, a.n # d.n, a.n # e.n, b.n # c.n, b.n # d.n,
           b.n # e.n, c.n # d.n, c.n # e.n, d.n # e.n
    PROVE  Pieces(<<a, b, c, d, e>>, {a, b, c, d, e})
<1> DEFINE q == <<a, b, c, d, e>>
<1>1. q \in Seq({a, b, c, d, e}) /\ DOMAIN q = 1 .. 5
      /\ q[1] = a /\ q[2] = b /\ q[3] = c /\ q[4] = d /\ q[5] = e
  OBVIOUS
<1> HIDE DEF q
<1>2. \A i \in DOMAIN q : i = 1 \/ i = 2 \/ i = 3 \/ i = 4 \/ i = 5
  BY <1>1
<1>3. \A x : x \in ToSet(q) <=> \E i \in DOMAIN q : x = q[i]
  BY DEF ToSet
<1>4. \A x : x \in ToSet(q) <=> x \in {a, b, c, d, e}
  BY <1>1, <1>2, <1>3
<1>5. IsSeq(q)
  BY <1>1, SeqIsSeq
<1>6. \A i, j \in DOMAIN q : i # j => q[i].n # q[j].n
  BY <1>1, <1>2
<1>7. QED
  BY <1>4, <1>5, <1>6 DEF Pieces, q

ClientNumberNames == {"omem", "tot-mem", "age", "idle", "sub", "psub", "qbuf", "qbuf-free", "obl", "oll"}
NumberPieces(c) == {Num(ClientNumbers[j], c.age + j) : j \in 1 .. 10}

\* The names of a client's ten numbers in its line.
LEMMA ClientNumbersFacts ==
    /\ DOMAIN ClientNumbers = 1 .. 10
    /\ \A j \in 1 .. 10 : ClientNumbers[j] \in ClientNumberNames
    /\ \A i, j \in 1 .. 10 : i # j => ClientNumbers[i] # ClientNumbers[j]
<1> DEFINE q == <<"omem", "tot-mem", "age", "idle", "sub", "psub", "qbuf", "qbuf-free", "obl", "oll">>
<1>1. ClientNumbers = q
  BY DEF ClientNumbers
<1>2. DOMAIN q = 1 .. 10
      /\ q[1] = "omem" /\ q[2] = "tot-mem" /\ q[3] = "age" /\ q[4] = "idle" /\ q[5] = "sub"
      /\ q[6] = "psub" /\ q[7] = "qbuf" /\ q[8] = "qbuf-free" /\ q[9] = "obl" /\ q[10] = "oll"
  OBVIOUS
<1> HIDE DEF q
<1>3. \A i \in 1 .. 10 : i = 1 \/ i = 2 \/ i = 3 \/ i = 4 \/ i = 5 \/ i = 6 \/ i = 7 \/ i = 8 \/ i = 9 \/ i = 10
  OBVIOUS
<1>4. \A j \in 1 .. 10 : q[j] \in ClientNumberNames
  BY <1>2, <1>3 DEF ClientNumberNames
<1>5. \A i, j \in 1 .. 10 : i # j => q[i] # q[j]
  BY <1>2, <1>3
<1>6. QED
  BY <1>1, <1>2, <1>4, <1>5

\* Those numbers as pieces.
LEMMA NumbersPieces ==
    ASSUME NEW c
    PROVE  /\ Pieces([j \in DOMAIN ClientNumbers |-> Num(ClientNumbers[j], c.age + j)], NumberPieces(c))
           /\ \A x \in NumberPieces(c) : x.n \in ClientNumberNames
<1> DEFINE q == [j \in DOMAIN ClientNumbers |-> Num(ClientNumbers[j], c.age + j)]
<1>1. DOMAIN q = 1 .. 10 /\ \A j \in 1 .. 10 : q[j] = Num(ClientNumbers[j], c.age + j)
  BY ClientNumbersFacts
<1>2. \A n, x : Num(n, x).n = n
  BY DEF Num
<1>3. q = [j \in 1 .. 10 |-> q[j]]
  BY <1>1
<1> HIDE DEF q
<1>4. IsSeq(q)
  BY <1>1, <1>3, TableFacts
<1>5. \A x : x \in ToSet(q) <=> x \in NumberPieces(c)
  BY <1>1 DEF ToSet, NumberPieces
<1>6. \A i, j \in DOMAIN q : i # j => q[i].n # q[j].n
  BY <1>1, <1>2, ClientNumbersFacts
<1>7. \A x \in NumberPieces(c) : x.n \in ClientNumberNames
  BY <1>2, ClientNumbersFacts DEF NumberPieces
<1>8. QED
  BY <1>4, <1>5, <1>6, <1>7 DEF Pieces, q

\* Every finished scrape exports each database's own numbers (info.go 131-145, 162-170), as far as
\* its keyspace line is one that parseDBKeyspaceString reads.
THEOREM DatabasesCorrect == Spec => []DatabasesExact
BY ExactAlways, DatabasesAtEnd, PTL

\* Every finished scrape exports each master's and each replica's own numbers (info.go 99-112,
\* 331-372).
THEOREM ReplicationCorrect == Spec => []ReplicationExact
BY ExactAlways, ReplicationAtEnd, PTL

\* What a finished scrape exports of a command is that command's (info.go 209-218, latency.go 56-90).
THEOREM CommandsCorrect == Spec => []CommandsExact
BY ExactAlways, CommandsAtEnd, PTL

(***************************************************************************)
(* What the parser of a client's line finds in it.                         *)
(***************************************************************************)
OwnPieces(c) ==
    {Txt("id", c.id), [n |-> "addr", s |-> c.host, x |-> c.port], Txt(IF c.equals THEN "" ELSE "name", c.name),
     Txt("flags", "N"), Txt("db", "0")}
OnePiece(b, x) == IF b THEN {x} ELSE {}
ClientPieces(s, c) ==
    ((((OwnPieces(c) \cup NumberPieces(c)) \cup OnePiece(s.kind \in Since70, Num("ssub", 0)))
      \cup OnePiece(s.kind \in Since74, Num("watch", 1))) \cup OnePiece(s.kind \in Since62, Txt("user", "default")))
    \cup OnePiece(s.kind \in Since70, Txt("resp", "2"))

\* The parts of the pieces of a client's line.
LEMMA PieceNames ==
    /\ \A n, x : Num(n, x).n = n /\ Num(n, x).s = "" /\ Num(n, x).x = x
    /\ \A n, t : Txt(n, t).n = n /\ Txt(n, t).s = t
    /\ \A h, p : [n |-> "addr", s |-> h, x |-> p].n = "addr" /\ [n |-> "addr", s |-> h, x |-> p].s = h
                 /\ [n |-> "addr", s |-> h, x |-> p].x = p
BY DEF Num, Txt

\* The five pieces every client's line begins with.
LEMMA OwnPiecesFacts ==
    ASSUME NEW c
    PROVE  /\ Pieces(<<Txt("id", c.id), [n |-> "addr", s |-> c.host, x |-> c.port],
                       Txt(IF c.equals THEN "" ELSE "name", c.name), Txt("flags", "N"), Txt("db", "0")>>, OwnPieces(c))
           /\ \A x \in OwnPieces(c) : x.n \in {"id", "addr", "", "name", "flags", "db"}
<1> DEFINE a == Txt("id", c.id)
           b == [n |-> "addr", s |-> c.host, x |-> c.port]
           d == Txt(IF c.equals THEN "" ELSE "name", c.name)
           e == Txt("flags", "N")
           g == Txt("db", "0")
<1>1. a.n = "id" /\ b.n = "addr" /\ d.n \in {"", "name"} /\ e.n = "flags" /\ g.n = "db"
  BY PieceNames, ZenonT(60)
<1>2. OwnPieces(c) = {a, b, d, e, g}
  BY DEF OwnPieces
<1> HIDE DEF a, b, d, e, g
<1>3. Pieces(<<a, b, d, e, g>>, {a, b, d, e, g})
  <2>1. /\ a.n # b.n /\ a.n # d.n /\ a.n # e.n /\ a.n # g.n /\ b.n # d.n /\ b.n # e.n /\ b.n # g.n
        /\ d.n # e.n /\ d.n # g.n /\ e.n # g.n
    BY <1>1
  <2>2. QED
    BY ONLY <2>1, PiecesFive
<1>4. \A x \in OwnPieces(c) : x.n \in {"id", "addr", "", "name", "flags", "db"}
  BY <1>1, <1>2
<1>5. QED
  BY <1>2, <1>3, <1>4 DEF a, b, d, e, g

\* One more piece or none.
LEMMA PiecesMore ==
    ASSUME NEW s, NEW A, Pieces(s, A), NEW b, NEW x, \A a \in A : a.n # x.n
    PROVE  Pieces(s \o If(b, <<x>>), A \cup OnePiece(b, x))
<1>1. Pieces(If(b, <<x>>), OnePiece(b, x))
  BY PiecesIf DEF OnePiece
<1>2. \A a \in A, y \in OnePiece(b, x) : a.n # y.n
  BY DEF OnePiece
<1> DEFINE t == If(b, <<x>>)
           B == OnePiece(b, x)
<1> HIDE DEF t, B
<1>3. QED
  BY <1>1, <1>2, PiecesJoin DEF t, B

\* The pieces of a client's line.
LEMMA ClientLinePieces ==
    ASSUME NEW s, NEW c
    PROVE  Pieces(ClientLine(s, c).v, ClientPieces(s, c))
<1> DEFINE own == <<Txt("id", c.id), [n |-> "addr", s |-> c.host, x |-> c.port],
                    Txt(IF c.equals THEN "" ELSE "name", c.name), Txt("flags", "N"), Txt("db", "0")>>
           numbers == [j \in DOMAIN ClientNumbers |-> Num(ClientNumbers[j], c.age + j)]
           q1 == own \o numbers
           A1 == OwnPieces(c) \cup NumberPieces(c)
           q2 == q1 \o If(s.kind \in Since70, <<Num("ssub", 0)>>)
           A2 == A1 \cup OnePiece(s.kind \in Since70, Num("ssub", 0))
           q3 == q2 \o If(s.kind \in Since74, <<Num("watch", 1)>>)
           A3 == A2 \cup OnePiece(s.kind \in Since74, Num("watch", 1))
           q4 == q3 \o If(s.kind \in Since62, <<Txt("user", "default")>>)
           A4 == A3 \cup OnePiece(s.kind \in Since62, Txt("user", "default"))
           q5 == q4 \o If(s.kind \in Since70, <<Txt("resp", "2")>>)
           A5 == A4 \cup OnePiece(s.kind \in Since70, Txt("resp", "2"))
<1>1. ClientLine(s, c).v = q5 /\ ClientPieces(s, c) = A5
  BY DEF ClientLine, ClientPieces, Field
<1>2. Pieces(own, OwnPieces(c)) /\ \A x \in OwnPieces(c) : x.n \in {"id", "addr", "", "name", "flags", "db"}
  BY OwnPiecesFacts
<1>3. Pieces(numbers, NumberPieces(c)) /\ \A x \in NumberPieces(c) : x.n \in ClientNumberNames
  BY NumbersPieces
<1> HIDE DEF own, numbers
<1>4. \A a \in OwnPieces(c), b \in NumberPieces(c) : a.n # b.n
  BY <1>2, <1>3 DEF ClientNumberNames
<1>5. Pieces(q1, A1)
  BY <1>2, <1>3, <1>4, PiecesJoin
<1>6. \A x \in A1 : x.n \notin {"ssub", "watch", "user", "resp"}
  BY <1>2, <1>3 DEF ClientNumberNames
<1> HIDE DEF q1, A1
<1>7. Pieces(q2, A2)
  <2>1. \A a \in A1 : a.n # Num("ssub", 0).n
    BY <1>6, PieceNames
  <2>2. QED
    BY <1>5, <2>1, PiecesMore
<1>8. \A x \in A2 : x.n \notin {"watch", "user", "resp"}
  BY <1>6, PieceNames DEF OnePiece
<1> HIDE DEF q2, A2
<1>9. Pieces(q3, A3)
  <2>1. \A a \in A2 : a.n # Num("watch", 1).n
    BY <1>8, PieceNames
  <2>2. QED
    BY <1>7, <2>1, PiecesMore
<1>10. \A x \in A3 : x.n \notin {"user", "resp"}
  BY <1>8, PieceNames DEF OnePiece
<1> HIDE DEF q3, A3
<1>11. Pieces(q4, A4)
  <2>1. \A a \in A3 : a.n # Txt("user", "default").n
    BY <1>10, PieceNames
  <2>2. QED
    BY <1>9, <2>1, PiecesMore
<1>12. \A x \in A4 : x.n # "resp"
  BY <1>10, PieceNames DEF OnePiece
<1> HIDE DEF q4, A4
<1>13. Pieces(q5, A5)
  <2>1. \A a \in A4 : a.n # Txt("resp", "2").n
    BY <1>12, PieceNames
  <2>2. QED
    BY <1>11, <2>1, PiecesMore
<1>14. QED
  BY <1>1, <1>13

\* What the parser finds in a client's line, and when it gives up (clients.go 43-116).
LEMMA ClientLineFacts ==
    ASSUME NEW s, NEW c, NEW v, v = ClientLine(s, c).v
    PROVE  /\ Text(v, "id") = c.id /\ Text(v, "flags") = "N" /\ Text(v, "db") = "0" /\ Text(v, "addr") = c.host
           /\ Get(v, "addr").x = c.port /\ (~c.equals => Text(v, "name") = c.name)
           /\ Text(v, "user") = (IF s.kind \in Since62 THEN "default" ELSE "")
           /\ Text(v, "resp") = (IF s.kind \in Since70 THEN "2" ELSE "")
           /\ parseClientListString(v) <=> ~c.equals
<1> DEFINE S == ClientPieces(s, c)
<1>1. Pieces(v, S)
  BY ClientLinePieces
<1>2. /\ Txt("id", c.id) \in S /\ Txt("flags", "N") \in S /\ Txt("db", "0") \in S
      /\ [n |-> "addr", s |-> c.host, x |-> c.port] \in S
      /\ Txt(IF c.equals THEN "" ELSE "name", c.name) \in S
      /\ s.kind \in Since62 => Txt("user", "default") \in S
      /\ s.kind \in Since70 => Txt("resp", "2") \in S
  BY DEF ClientPieces, OwnPieces, OnePiece
<1>3. \A x \in S : \/ x.n \in {"id", "addr", "flags", "db", "ssub", "watch"} \cup ClientNumberNames
                   \/ c.equals /\ x.n = ""
                   \/ ~c.equals /\ x.n = "name"
                   \/ x.n = "user" /\ s.kind \in Since62
                   \/ x.n = "resp" /\ s.kind \in Since70
  <2>1. \A x \in NumberPieces(c) : x.n \in ClientNumberNames
    BY NumbersPieces
  <2>2. \A x \in OwnPieces(c) : \/ x.n \in {"id", "addr", "flags", "db"}
                                \/ c.equals /\ x.n = ""
                                \/ ~c.equals /\ x.n = "name"
    <3> DEFINE w == Txt(IF c.equals THEN "" ELSE "name", c.name)
               E == c.equals
    <3>1. w.n = IF E THEN "" ELSE "name"
      BY PieceNames
    <3>2. \A x \in OwnPieces(c) : x = w \/ x.n \in {"id", "addr", "flags", "db"}
      <4>1. /\ Txt("id", c.id).n = "id" /\ [n |-> "addr", s |-> c.host, x |-> c.port].n = "addr"
            /\ Txt("flags", "N").n = "flags" /\ Txt("db", "0").n = "db"
        BY PieceNames
      <4>2. \A x \in OwnPieces(c) : x \in {Txt("id", c.id), [n |-> "addr", s |-> c.host, x |-> c.port], w,
                                          Txt("flags", "N"), Txt("db", "0")}
        BY DEF OwnPieces
      <4>3. QED
        BY ONLY <4>1, <4>2, Zenon
    <3> HIDE DEF w
    <3>3. CASE E
      BY <3>1, <3>2, <3>3
    <3>4. CASE ~E
      BY <3>1, <3>2, <3>4
    <3>5. QED
      BY <3>3, <3>4
  <2>3. \A x \in S : \/ x \in NumberPieces(c) \cup OwnPieces(c)
                     \/ x.n \in {"ssub", "watch"}
                     \/ x.n = "user" /\ s.kind \in Since62
                     \/ x.n = "resp" /\ s.kind \in Since70
    <3>1. /\ Num("ssub", 0).n = "ssub" /\ Num("watch", 1).n = "watch"
          /\ Txt("user", "default").n = "user" /\ Txt("resp", "2").n = "resp"
      BY PieceNames
    <3>2. /\ \A y : y \in OnePiece(s.kind \in Since70, Num("ssub", 0)) => y.n = "ssub"
          /\ \A y : y \in OnePiece(s.kind \in Since74, Num("watch", 1)) => y.n = "watch"
          /\ \A y : y \in OnePiece(s.kind \in Since62, Txt("user", "default")) => y.n = "user" /\ s.kind \in Since62
          /\ \A y : y \in OnePiece(s.kind \in Since70, Txt("resp", "2")) => y.n = "resp" /\ s.kind \in Since70
      BY <3>1 DEF OnePiece
    <3>3. \A x \in S : \/ x \in NumberPieces(c) \cup OwnPieces(c)
                       \/ x \in OnePiece(s.kind \in Since70, Num("ssub", 0))
                       \/ x \in OnePiece(s.kind \in Since74, Num("watch", 1))
                       \/ x \in OnePiece(s.kind \in Since62, Txt("user", "default"))
                       \/ x \in OnePiece(s.kind \in Since70, Txt("resp", "2"))
      BY DEF ClientPieces
    <3>4. QED
      BY ONLY <3>2, <3>3
  <2>4. QED
    BY ONLY <2>1, <2>2, <2>3
<1> HIDE DEF S
<1>4. \A x \in S : Has(v, x.n) /\ Get(v, x.n) = x
  BY <1>1, PiecesGet
<1>5. \A n : (\A x \in S : x.n # n) => ~Has(v, n)
  BY <1>1, PiecesGet
<1>6. \A t, n : Txt(n, t) \in S => Text(v, n) = t
  <2>1. SUFFICES ASSUME NEW t, NEW n, Txt(n, t) \in S
                 PROVE  Text(v, n) = t
    OBVIOUS
  <2>2. Txt(n, t).n = n /\ Txt(n, t).s = t
    BY PieceNames, ZenonT(60)
  <2>3. Has(v, n) /\ Get(v, n) = Txt(n, t)
    BY <1>4, <2>1, <2>2
  <2>4. QED
    BY <2>2, <2>3 DEF Text
<1>7. Text(v, "addr") = c.host /\ Get(v, "addr").x = c.port
  <2> DEFINE a == [n |-> "addr", s |-> c.host, x |-> c.port]
  <2>1. a.n = "addr" /\ a.s = c.host /\ a.x = c.port /\ a \in S
    BY <1>2
  <2> HIDE DEF a
  <2>2. Has(v, "addr") /\ Get(v, "addr") = a
    BY <1>4, <2>1
  <2>3. QED
    BY <2>1, <2>2 DEF Text
<1>8. Text(v, "id") = c.id /\ Text(v, "flags") = "N" /\ Text(v, "db") = "0" /\ (~c.equals => Text(v, "name") = c.name)
  BY <1>2, <1>6
<1>9. Text(v, "user") = (IF s.kind \in Since62 THEN "default" ELSE "")
  <2>1. CASE s.kind \in Since62
    BY <1>2, <1>6, <2>1
  <2>2. CASE s.kind \notin Since62
    <3>1. ~Has(v, "user")
      BY <1>3, <1>5, <2>2 DEF ClientNumberNames
    <3>2. QED
      BY <2>2, <3>1 DEF Text
  <2>3. QED
    BY <2>1, <2>2
<1>10. Text(v, "resp") = (IF s.kind \in Since70 THEN "2" ELSE "")
  <2>1. CASE s.kind \in Since70
    BY <1>2, <1>6, <2>1
  <2>2. CASE s.kind \notin Since70
    <3>1. ~Has(v, "resp")
      BY <1>3, <1>5, <2>2 DEF ClientNumberNames
    <3>2. QED
      BY <2>2, <3>1 DEF Text
  <2>3. QED
    BY <2>1, <2>2
<1>11. parseClientListString(v) <=> ~c.equals
  <2>1. \A x : (\E i \in DOMAIN v : v[i] = x) <=> x \in S
    BY <1>1, SeqFacts DEF Pieces
  <2>2. ASSUME c.equals
        PROVE  \E i \in DOMAIN v : v[i].n = ""
    <3>1. Txt("", c.name) \in S /\ Txt("", c.name).n = ""
      BY <1>2, <2>2, PieceNames
    <3>2. QED
      BY <2>1, <3>1, ZenonT(60)
  <2>3. ASSUME ~c.equals, NEW i \in DOMAIN v
        PROVE  v[i].n # ""
    BY <1>3, <2>1, <2>3 DEF ClientNumberNames
  <2>4. QED
    BY <2>2, <2>3 DEF parseClientListString
<1>12. QED
  BY <1>7, <1>8, <1>9, <1>10, <1>11

(***************************************************************************)
(* The two descriptions whose labels depend on the server: each has the    *)
(* labels of one of the servers met so far.                                *)
(***************************************************************************)
LabelsForInstance(s) ==
    BaseLabels \o If(s.kind \in Valkey, <<"valkey_version">>)
               \o If(s.kind = "valkey8", <<"valkey_release_stage">>)
LabelsForClient(s, op) ==
    <<"id", "name", "flags", "db", "host">> \o If(op.inclPort, <<"port">>)
    \o If(s.kind \in Since62, <<"user">>) \o If(s.kind \in Since70, <<"resp">>)

VaryingMetrics == {"instance_info", "connected_client_info"}

\* The two descriptions that vary are those of a server already met.
Described ==
    /\ "instance_info" \in DOMAIN exp.descs =>
          \E s \in past \cup {sv} : exp.descs["instance_info"] = LabelsForInstance(s)
    /\ "connected_client_info" \in DOMAIN exp.descs =>
          \E s \in past \cup {sv} : exp.descs["connected_client_info"] = LabelsForClient(s, opts)

\* The labels for instance_info depend on the server's kind alone.
LEMMA InstanceLabelsAre ==
    ASSUME NEW s \in Facts, Consistent(s), NEW p, WalkOk(s, Len(InfoText(s)), p)
    PROVE  instanceLabels(p.kv) = LabelsForInstance(s)
<1>1. /\ "valkey_version" \in DOMAIN p.kv <=> s.kind \in Valkey
      /\ "valkey_release_stage" \in DOMAIN p.kv <=> s.kind = "valkey8"
  BY KvAtEnd
<1>2. /\ If("valkey_version" \in DOMAIN p.kv, <<"valkey_version">>) = If(s.kind \in Valkey, <<"valkey_version">>)
      /\ If("valkey_release_stage" \in DOMAIN p.kv, <<"valkey_release_stage">>)
         = If(s.kind = "valkey8", <<"valkey_release_stage">>)
  BY <1>1 DEF If
<1>3. QED
  BY <1>2 DEF instanceLabels, LabelsForInstance

\* The labels for connected_client_info depend on the server's kind and the options.
LEMMA ClientLabelsAre ==
    ASSUME NEW s, NEW c, NEW v, v = ClientLine(s, c).v
    PROVE  /\ clientLabels(v) = LabelsForClient(s, opts)
           /\ HasUser(v) <=> s.kind \in Since62
           /\ HasResp(v) <=> s.kind \in Since70
<1>1. /\ Text(v, "user") # "" <=> s.kind \in Since62
      /\ Text(v, "resp") # "" <=> s.kind \in Since70
  BY ClientLineFacts, ZenonT(60)
<1>2. /\ If(Text(v, "user") # "", <<"user">>) = If(s.kind \in Since62, <<"user">>)
      /\ If(Text(v, "resp") # "", <<"resp">>) = If(s.kind \in Since70, <<"resp">>)
  BY <1>1 DEF If
<1>3. QED
  BY <1>1, <1>2 DEF clientLabels, LabelsForClient, HasUser, HasResp

\* What sends neither of the two series keeps the two descriptions.
LEMMA DescribedKept ==
    ASSUME Described, UNCHANGED <<sv, opts, past>>, NEW N, exp' = exp \/ Sends(exp, exp', N),
           \A m \in N : m.name \notin VaryingMetrics
    PROVE  Described'
<1>1. CASE exp' = exp
  BY <1>1 DEF Described
<1>2. CASE Sends(exp, exp', N)
  <2>1. \A n \in DOMAIN exp.descs : n \in DOMAIN exp'.descs /\ exp'.descs[n] = exp.descs[n]
    BY <1>2 DEF Sends, Keeps
  <2>2. \A n \in DOMAIN exp'.descs : n \in DOMAIN exp.descs \/ n \notin VaryingMetrics
    BY <1>2 DEF Sends
  <2>3. QED
    BY <2>1, <2>2 DEF Described, VaryingMetrics
<1>3. QED
  BY <1>1, <1>2

\* So does what is not accounted for.
LEMMA UnwatchedKept ==
    ASSUME Described, UNCHANGED <<sv, opts, past>>, NEW N, exp' = exp \/ Sends(exp, exp', N),
           \A m \in N : m.name \notin Watched
    PROVE  Described'
<1>1. \A m \in N : m.name \notin VaryingMetrics
  BY DEF Watched, VaryingMetrics
<1>2. QED
  BY <1>1, DescribedKept

\* So does a line of INFO.
LEMMA DescribedInfoLine ==
    ASSUME Base, Described, InfoLine, Same
    PROVE  Described'
<1> DEFINE N == LineMetrics(parse, Head(todo))
<1>1. Sends(exp, exp', N) /\ UNCHANGED <<sv, opts, past>>
  BY BaseInfoLine
<1>2. \A m \in N : m.name \notin VaryingMetrics
  <2>1. SUFFICES ASSUME NEW m \in N
                 PROVE  m.name \notin VaryingMetrics
    OBVIOUS
  <2>2. m.name \in DbMetrics \cup CmdMetrics \cup MasterMetrics \cup ReplicaMetrics \cup SentinelMetrics
                   \cup FieldNames
                   \cup {"sentinel_master_status", "sentinel_masters", "sentinel_tilt", "errors_total",
                         "start_time_seconds", "hz", "configured_hz"}
    BY <2>1, LineNames
  <2>3. QED
    BY <2>2 DEF VaryingMetrics, DbMetrics, CmdMetrics, MasterMetrics, ReplicaMetrics, SentinelMetrics, FieldNames
<1> HIDE DEF N
<1>3. QED
  BY <1>1, <1>2, DescribedKept

\* The end of INFO describes instance_info with this server's labels, or not at all.
LEMMA DescribedInfoDone ==
    ASSUME Base, Described, InfoDone(opts.emptyDbs), Same
    PROVE  Described'
<1> DEFINE N == DoneMetrics(opts.emptyDbs)
<1>1. /\ Sends(exp, exp', N) /\ UNCHANGED <<sv, opts, past>>
      /\ "instance_info" \notin DOMAIN exp.descs => exp'.descs["instance_info"] = instanceLabels(parse.kv)
      /\ WalkOk(sv, Len(InfoText(sv)), parse) /\ sv \in Servers
  BY BaseInfoDone DEF Base
<1>2. instanceLabels(parse.kv) = LabelsForInstance(sv)
  BY <1>1, InstanceLabelsAre, ServerFacts
<1>3. \A m \in N : m.name # "connected_client_info"
  <2>1. SUFFICES ASSUME NEW m \in N
                 PROVE  m.name # "connected_client_info"
    OBVIOUS
  <2>2. \A n, v, w : Metric(n, v, w).name = n
    BY MetricFacts
  <2>3. CASE m \in Summaries(parse)
    BY <2>3, SummaryFields DEF Summaries
  <2>4. CASE m \in Pads(parse)
    <3>1. \E n : m = Metric("db_keys", Whole(0), <<n>>) \/ m = Metric("db_keys_expiring", Whole(0), <<n>>)
      BY <2>4 DEF Pads
    <3>2. m.name = "db_keys" \/ m.name = "db_keys_expiring"
      BY <2>2, <3>1
    <3>3. QED
      BY <3>2
  <2>5. CASE m \in InstanceMetrics(parse.kv)
    <3>1. m.name = "instance_info" \/ m.name = "slave_info"
      BY <2>5, MetricFacts DEF InstanceMetrics, InstanceMetric, SlaveMetric
    <3>2. QED
      BY <3>1
  <2>6. QED
    BY <2>1, <2>3, <2>4, <2>5 DEF DoneMetrics
<1> HIDE DEF N
<1>4. \A n \in DOMAIN exp.descs : n \in DOMAIN exp'.descs /\ exp'.descs[n] = exp.descs[n]
  BY <1>1 DEF Sends, Keeps
<1>5. "connected_client_info" \in DOMAIN exp'.descs => "connected_client_info" \in DOMAIN exp.descs
  BY <1>1, <1>3 DEF Sends
<1>6. "instance_info" \in DOMAIN exp'.descs =>
          \E s \in past \cup {sv} : exp'.descs["instance_info"] = LabelsForInstance(s)
  BY <1>1, <1>2, <1>4 DEF Described
<1>7. QED
  BY <1>1, <1>4, <1>5, <1>6 DEF Described

\* The lines of CLIENT LIST.
LEMMA ClientAt ==
    ASSUME NEW s \in Facts, NEW i \in 1 .. Len(s.clients)
    PROVE  ClientText(s)[i] = ClientLine(s, s.clients[i])
<1>1. Len(s.clients) \in Nat
  BY DEF Facts
<1>2. QED
  BY <1>1 DEF ClientText, Each

\* A client describes connected_client_info with this server's labels, or not at all.
LEMMA DescribedClient ==
    ASSUME Base, Described, parseConnectedClientMetrics
    PROVE  Described'
<1> DEFINE n == Gone(todo, ClientText(sv))
           v == Head(todo).v
           N == ClientSet(v)
<1>1. /\ Sends(exp, exp', N) /\ UNCHANGED <<sv, opts, past>> /\ sv \in Servers
      /\ n \in Nat /\ n < Len(sv.clients) /\ Head(todo) = ClientText(sv)[n + 1]
      /\ "connected_client_info" \in DOMAIN exp'.descs \ DOMAIN exp.descs
            => exp'.descs["connected_client_info"] = clientLabels(v)
  BY BaseClient DEF Base
<1>2. clientLabels(v) = LabelsForClient(sv, opts)
  <2>1. sv \in Facts /\ n + 1 \in 1 .. Len(sv.clients)
    <3>1. sv \in Facts
      BY <1>1, ServerFacts
    <3>2. Len(sv.clients) \in Nat
      BY <3>1 DEF Facts
    <3>3. QED
      BY <1>1, <3>1, <3>2
  <2>2. v = ClientLine(sv, sv.clients[n + 1]).v
    BY <1>1, <2>1, ClientAt
  <2> HIDE DEF n, v
  <2>3. QED
    BY <2>2, ClientLabelsAre
<1>3. \A m \in N : m.name # "instance_info"
  <2> HIDE DEF v
  <2>1. \A m \in ToSet(clientMetrics(v)) : m.name \in ClientNames
    BY ClientNumbersSent
  <2>2. ClientMetric(v).name = "connected_client_info"
    BY MetricFacts DEF ClientMetric
  <2>3. "instance_info" \notin ClientNames
    BY ClientNamesUnwatched DEF Watched
  <2>4. QED
    BY <2>1, <2>2, <2>3 DEF ClientSet
<1> HIDE DEF N, n, v
<1>4. \A k \in DOMAIN exp.descs : k \in DOMAIN exp'.descs /\ exp'.descs[k] = exp.descs[k]
  BY <1>1 DEF Sends, Keeps
<1>5. "instance_info" \in DOMAIN exp'.descs => "instance_info" \in DOMAIN exp.descs
  BY <1>1, <1>3 DEF Sends
<1>6. "connected_client_info" \in DOMAIN exp'.descs =>
          \E s \in past \cup {sv} : exp'.descs["connected_client_info"] = LabelsForClient(s, opts)
  BY <1>1, <1>2, <1>4 DEF Described
<1>7. QED
  BY <1>1, <1>4, <1>5, <1>6 DEF Described

\* Every step keeps the two descriptions those of a server met.
LEMMA DescribedNext == Base /\ Described /\ [Next]_vars => Described'
<1>1. SUFFICES ASSUME Base, Described, [Next]_vars
               PROVE  Described'
  OBVIOUS
<1> DEFINE Still == UNCHANGED <<sv, opts, past>>
<1>n. ASSUME Still, exp' = exp
      PROVE  Described'
  BY <1>1, <1>n DEF Described
<1>2. CASE extractConfigMetrics
  BY <1>1, <1>2, BaseConfig, ConfigUnwatched, UnwatchedKept
<1>3. CASE FetchInfo
  BY <1>1, <1>3, <1>n, BaseFetchInfo
<1>4. CASE extractClusterInfoMetrics
  BY <1>1, <1>4, BaseCluster, FieldsUnwatched, UnwatchedKept
<1>5. CASE Info
  BY <1>1, <1>5, DescribedInfoLine, DescribedInfoDone DEF Info
<1>6. CASE extractLatencyLatestMetrics
  BY <1>1, <1>6, BaseLatest, SpikesUnwatched, UnwatchedKept
<1>7. CASE extractLatencyHistogramMetrics
  <2>1. Sends(exp, exp', HistogramSet(Head(todo))) /\ Still
    BY <1>1, <1>7, BaseHistogram
  <2>2. \A m \in HistogramSet(Head(todo)) : m.name \notin VaryingMetrics
    BY HistogramFields DEF HistogramSet, VaryingMetrics
  <2>3. QED
    BY <1>1, <2>1, <2>2, DescribedKept
<1>8. CASE FetchClients
  BY <1>1, <1>8, <1>n, BaseFetchClients
<1>9. CASE parseConnectedClientMetrics
  BY <1>1, <1>9, DescribedClient
<1>10. CASE FetchTile38
  BY <1>1, <1>10, <1>n, BaseFetchTile38
<1>11. CASE extractTile38Metrics
  BY <1>1, <1>11, BaseTile38, FieldsUnwatched, UnwatchedKept
<1>12. CASE FetchModules
  BY <1>1, <1>12, <1>n, BaseFetchModules
<1>13. CASE extractModulesMetrics
  BY <1>1, <1>13, BaseModules, ModulesUnwatched, UnwatchedKept
<1>14. CASE EndScrape
  BY <1>1, <1>14, <1>n, BaseEndScrape
<1>15. CASE NextScrape
  BY <1>1, <1>15, BaseNextScrape DEF Described
<1>16. CASE Terminated \/ UNCHANGED vars
  BY <1>1, <1>16, <1>n DEF Terminated, vars, infoVars
<1>17. QED
  BY <1>1, <1>2, <1>3, <1>4, <1>5, <1>6, <1>7, <1>8, <1>9, <1>10, <1>11, <1>12, <1>13, <1>14, <1>15, <1>16 DEF Next

\* Base, Exact and Described are invariants.
LEMMA DescribedAlways == Spec => [](Base /\ Exact /\ Described)
<1>1. Init => Described
  <2>1. "instance_info" \notin DOMAIN KnownDescs /\ "connected_client_info" \notin DOMAIN KnownDescs
    BY KnownFacts DEF CmdMetrics, DbMetrics, MasterMetrics, ReplicaMetrics, SpikeMetrics, SentinelMetrics,
                      PlainMetrics, LimitMetrics
  <2>2. QED
    BY <2>1 DEF Init, NewExporter, Described
<1>2. Base /\ Described /\ [Next]_vars => Described'
  BY DescribedNext
<1>3. QED
  BY <1>1, <1>2, BaseAlways, ExactAlways, PTL DEF Spec

\* How many labels instance_info has.
LEMMA InstanceLen ==
    ASSUME NEW s
    PROVE  Len(LabelsForInstance(s)) = IF s.kind = "valkey8" THEN 12 ELSE IF s.kind \in Valkey THEN 11 ELSE 10
<1> DEFINE a == If(s.kind \in Valkey, <<"valkey_version">>)
           b == If(s.kind = "valkey8", <<"valkey_release_stage">>)
<1>1. IsSeq(a) /\ Len(a) = IF s.kind \in Valkey THEN 1 ELSE 0
  BY IfSeqFacts DEF IfSeq
<1>2. IsSeq(b) /\ Len(b) = IF s.kind = "valkey8" THEN 1 ELSE 0
  BY IfSeqFacts DEF IfSeq
<1>3. LabelsForInstance(s) = (BaseLabels \o a) \o b
  BY DEF LabelsForInstance
<1> HIDE DEF a, b
<1>4. IsSeq(BaseLabels \o a) /\ Len(BaseLabels \o a) = 10 + Len(a)
  <2>1. IsSeq(BaseLabels) /\ Len(BaseLabels) = 10 /\ IsSeq(a)
    BY <1>1, BaseLabelFacts
  <2>2. IsSeq(BaseLabels \o a) /\ Len(BaseLabels \o a) = Len(BaseLabels) + Len(a)
    BY ONLY <2>1, ConcatFacts
  <2>3. QED
    BY <2>1, <2>2
<1>5. Len((BaseLabels \o a) \o b) = Len(BaseLabels \o a) + Len(b)
  BY <1>2, <1>4, ConcatFacts
<1>6. "valkey8" \in Valkey
  BY DEF Valkey
<1>7. QED
  BY <1>1, <1>2, <1>3, <1>4, <1>5, <1>6

\* As many labels are the same labels, for instance_info.
LEMMA InstanceSame ==
    ASSUME NEW s, NEW t
    PROVE  /\ Len(LabelsForInstance(s)) = Len(LabelsForInstance(t)) => LabelsForInstance(s) = LabelsForInstance(t)
           /\ InstanceLabelSet(s) = InstanceLabelSet(t) => LabelsForInstance(s) = LabelsForInstance(t)
<1>1. (s.kind \in Valkey <=> t.kind \in Valkey) /\ (s.kind = "valkey8" <=> t.kind = "valkey8")
         => LabelsForInstance(s) = LabelsForInstance(t)
  BY DEF LabelsForInstance, If
<1>2. \A r : /\ "valkey_version" \in InstanceLabelSet(r) <=> r.kind \in Valkey
             /\ "valkey_release_stage" \in InstanceLabelSet(r) <=> r.kind = "valkey8"
  BY BaseLabelSet DEF InstanceLabelSet
<1>3. "valkey8" \in Valkey
  BY DEF Valkey
<1>4. Len(LabelsForInstance(s)) = Len(LabelsForInstance(t)) => LabelsForInstance(s) = LabelsForInstance(t)
  <2>1. /\ Len(LabelsForInstance(s)) = IF s.kind = "valkey8" THEN 12 ELSE IF s.kind \in Valkey THEN 11 ELSE 10
        /\ Len(LabelsForInstance(t)) = IF t.kind = "valkey8" THEN 12 ELSE IF t.kind \in Valkey THEN 11 ELSE 10
    BY InstanceLen
  <2>2. QED
    BY <1>1, <1>3, <2>1
<1>5. InstanceLabelSet(s) = InstanceLabelSet(t) => LabelsForInstance(s) = LabelsForInstance(t)
  <2>1. /\ "valkey_version" \in InstanceLabelSet(s) <=> s.kind \in Valkey
        /\ "valkey_release_stage" \in InstanceLabelSet(s) <=> s.kind = "valkey8"
    BY <1>2
  <2>2. /\ "valkey_version" \in InstanceLabelSet(t) <=> t.kind \in Valkey
        /\ "valkey_release_stage" \in InstanceLabelSet(t) <=> t.kind = "valkey8"
    BY <1>2
  <2>3. QED
    BY <1>1, <2>1, <2>2
<1>6. QED
  BY <1>4, <1>5

\* How many labels connected_client_info has.
LEMMA ClientLen ==
    ASSUME NEW s, NEW op
    PROVE  Len(LabelsForClient(s, op)) = (IF op.inclPort THEN 6 ELSE 5)
                                         + IF s.kind \in Since70 THEN 2 ELSE IF s.kind \in Since62 THEN 1 ELSE 0
<1> DEFINE o == <<"id", "name", "flags", "db", "host">>
           a == If(op.inclPort, <<"port">>)
           b == If(s.kind \in Since62, <<"user">>)
           c == If(s.kind \in Since70, <<"resp">>)
<1>1. IsSeq(o) /\ Len(o) = 5
  <2>1. o \in Seq({"id", "name", "flags", "db", "host"}) /\ Len(o) = 5
    OBVIOUS
  <2>2. QED
    BY <2>1, SeqIsSeq
<1>2. IsSeq(a) /\ Len(a) = IF op.inclPort THEN 1 ELSE 0
  BY IfSeqFacts DEF IfSeq
<1>3. IsSeq(b) /\ Len(b) = IF s.kind \in Since62 THEN 1 ELSE 0
  BY IfSeqFacts DEF IfSeq
<1>4. IsSeq(c) /\ Len(c) = IF s.kind \in Since70 THEN 1 ELSE 0
  BY IfSeqFacts DEF IfSeq
<1>5. LabelsForClient(s, op) = ((o \o a) \o b) \o c
  BY DEF LabelsForClient
<1> HIDE DEF o, a, b, c
<1>6. IsSeq(o \o a) /\ Len(o \o a) = Len(o) + Len(a)
  BY <1>1, <1>2, ConcatFacts
<1>7. IsSeq((o \o a) \o b) /\ Len((o \o a) \o b) = Len(o \o a) + Len(b)
  BY <1>3, <1>6, ConcatFacts
<1>8. Len(((o \o a) \o b) \o c) = Len((o \o a) \o b) + Len(c)
  BY <1>4, <1>7, ConcatFacts
<1>9. s.kind \in Since70 => s.kind \in Since62
  BY DEF Since70
<1>10. Len(o \o a) = IF op.inclPort THEN 6 ELSE 5
  BY <1>1, <1>2, <1>6
<1>11. QED
  BY <1>3, <1>4, <1>5, <1>7, <1>8, <1>9, <1>10

\* As many labels are the same labels, for connected_client_info.
LEMMA ClientSame ==
    ASSUME NEW s, NEW t, NEW op
    PROVE  /\ Len(LabelsForClient(s, op)) = Len(LabelsForClient(t, op)) => LabelsForClient(s, op) = LabelsForClient(t, op)
           /\ ClientLabelSet(s) = ClientLabelSet(t) => LabelsForClient(s, op) = LabelsForClient(t, op)
<1>1. (s.kind \in Since62 <=> t.kind \in Since62) /\ (s.kind \in Since70 <=> t.kind \in Since70)
         => LabelsForClient(s, op) = LabelsForClient(t, op)
  BY DEF LabelsForClient, If
<1>2. \A r : /\ "user" \in ClientLabelSet(r) <=> r.kind \in Since62
             /\ "resp" \in ClientLabelSet(r) <=> r.kind \in Since70
  BY DEF ClientLabelSet
<1>3. \A r : r.kind \in Since70 => r.kind \in Since62
  BY DEF Since70
<1>4. Len(LabelsForClient(s, op)) = Len(LabelsForClient(t, op)) => LabelsForClient(s, op) = LabelsForClient(t, op)
  <2> DEFINE n == IF op.inclPort THEN 6 ELSE 5
  <2>1. n \in Nat
    OBVIOUS
  <2>2. /\ Len(LabelsForClient(s, op)) = n + IF s.kind \in Since70 THEN 2 ELSE IF s.kind \in Since62 THEN 1 ELSE 0
        /\ Len(LabelsForClient(t, op)) = n + IF t.kind \in Since70 THEN 2 ELSE IF t.kind \in Since62 THEN 1 ELSE 0
    BY ClientLen
  <2> HIDE DEF n
  <2>3. QED
    BY <1>1, <1>3, <2>1, <2>2
<1>5. ClientLabelSet(s) = ClientLabelSet(t) => LabelsForClient(s, op) = LabelsForClient(t, op)
  <2>1. /\ "user" \in ClientLabelSet(s) <=> s.kind \in Since62
        /\ "resp" \in ClientLabelSet(s) <=> s.kind \in Since70
        /\ "user" \in ClientLabelSet(t) <=> t.kind \in Since62
        /\ "resp" \in ClientLabelSet(t) <=> t.kind \in Since70
    BY <1>2
  <2>2. QED
    BY <1>1, <2>1
<1>6. QED
  BY <1>4, <1>5

\* A series pairs the description's labels with the metric's values.
LEMMA SeriesLabels ==
    ASSUME NEW e, NEW m, IsSeq(m.values)
    PROVE  /\ DOMAIN Series(e, m).lbls = 1 .. Len(m.values)
           /\ \A i \in 1 .. Len(m.values) :
                 Series(e, m).lbls[i][1] = e.descs[m.name][i] /\ Series(e, m).lbls[i][2] = m.values[i]
<1>1. DOMAIN m.values = 1 .. Len(m.values)
  BY SeqFacts
<1>2. Series(e, m).lbls = [i \in DOMAIN m.values |-> <<e.descs[m.name][i], m.values[i]>>]
  BY DEF Series, LabelsOf
<1>3. QED
  BY <1>1, <1>2

\* The value of each of the ten labels is true of the server.
LEMMA BaseTruth ==
    ASSUME sv \in Facts, Consistent(sv), WalkOk(sv, Len(InfoText(sv)), parse), NEW c, NEW l \in ToSet(BaseLabels)
    PROVE  Value(parse.kv, l) = Truth(l, c)
<1>1. l \in {"role", "redis_version", "redis_build_id", "redis_mode", "os", "maxmemory_policy",
             "tcp_port", "run_id", "process_id", "master_replid"}
  BY BaseLabelSet
<1>2. /\ Value(parse.kv, "role") = (IF sv.sentinel THEN "" ELSE IF sv.masters = <<>> THEN "master" ELSE "slave")
      /\ Value(parse.kv, "redis_version") = sv.kind
      /\ \A k : k \notin KvKeys => Value(parse.kv, k) = ""
  BY KvAtEnd
<1>3. CASE l = "role"
  BY <1>2, <1>3 DEF Truth
<1>4. CASE l = "redis_version"
  BY <1>2, <1>4 DEF Truth
<1>5. CASE l \notin {"role", "redis_version"}
  <2>1. l \notin KvKeys
    BY <1>1, <1>5 DEF KvKeys
  <2>2. Truth(l, c) = ""
    BY <1>1, <1>5 DEF Truth
  <2>3. QED
    BY <1>2, <2>1, <2>2
<1>6. QED
  BY <1>3, <1>4, <1>5

\* So are the values of all labels of instance_info.
LEMMA InstanceTruth ==
    ASSUME sv \in Facts, Consistent(sv), WalkOk(sv, Len(InfoText(sv)), parse), NEW c
    PROVE  LET l == instanceLabels(parse.kv)
               v == instanceValues(parse.kv)
           IN  /\ IsSeq(l) /\ IsSeq(v) /\ Len(v) = Len(l)
               /\ \A i \in 1 .. Len(v) : v[i] = Truth(l[i], c)
<1> DEFINE kv == parse.kv
           n == More(kv)
           l == instanceLabels(kv)
           v == instanceValues(kv)
<1>1. /\ IsSeq(l) /\ IsSeq(v) /\ Len(l) = (IF More2(kv) THEN n + 1 ELSE n) /\ Len(v) = Len(l)
      /\ \A i \in 1 .. 10 : l[i] = BaseLabels[i] /\ v[i] = Value(kv, BaseLabels[i])
      /\ More1(kv) => l[11] = "valkey_version" /\ v[11] = Value(kv, "valkey_version")
      /\ More2(kv) => l[n + 1] = "valkey_release_stage" /\ v[n + 1] = Value(kv, "valkey_release_stage")
  BY InstanceFacts
<1>2. \A i \in 1 .. 10 : BaseLabels[i] \in ToSet(BaseLabels)
  BY BaseLabelFacts, SeqFacts
<1>3. \A i \in 1 .. 10 : v[i] = Truth(l[i], c)
  <2>1. \A x \in ToSet(BaseLabels) : Value(kv, x) = Truth(x, c)
    BY BaseTruth
  <2> HIDE DEF kv, l, v
  <2>2. QED
    BY <1>1, <1>2, <2>1
<1>4. More1(kv) => v[11] = Truth(l[11], c)
  <2>1. SUFFICES ASSUME More1(kv)
                 PROVE  v[11] = Truth(l[11], c)
    OBVIOUS
  <2>2. Value(kv, "valkey_version") = sv.kind
    BY <2>1, KvAtEnd DEF More1, Value
  <2>3. Truth("valkey_version", c) = sv.kind
    BY DEF Truth
  <2>4. QED
    BY <1>1, <2>1, <2>2, <2>3
<1>5. More2(kv) => v[n + 1] = Truth(l[n + 1], c)
  <2>1. SUFFICES ASSUME More2(kv)
                 PROVE  v[n + 1] = Truth(l[n + 1], c)
    OBVIOUS
  <2>2. Value(kv, "valkey_release_stage") = "ga"
    BY <2>1, KvAtEnd DEF More2, Value
  <2>3. Truth("valkey_release_stage", c) = "ga"
    BY DEF Truth
  <2>4. QED
    BY <1>1, <2>1, <2>2, <2>3
<1>6. n = IF More1(kv) THEN 11 ELSE 10
  BY DEF More
<1> HIDE DEF kv, n, l, v
<1>7. \A i \in 1 .. Len(v) : v[i] = Truth(l[i], c)
  <2>1. SUFFICES ASSUME NEW i \in 1 .. Len(v), i \notin 1 .. 10
                 PROVE  v[i] = Truth(l[i], c)
    BY <1>3
  <2>2. (More1(kv) /\ i = 11) \/ (More2(kv) /\ i = n + 1)
    BY <1>1, <1>6, <2>1
  <2>3. QED
    BY <1>4, <1>5, <2>2
<1>8. QED
  BY <1>1, <1>7 DEF kv, l, v

\* The values of all labels of connected_client_info are true of the client.
LEMMA ClientTruth ==
    ASSUME NEW c, ~c.equals, NEW v, v = ClientLine(sv, c).v
    PROVE  LET l == clientLabels(v)
               w == clientValues(v)
           IN  /\ IsSeq(l) /\ IsSeq(w) /\ Len(w) = Len(l)
               /\ \A i \in 1 .. Len(w) : w[i] = Truth(l[i], c)
<1> DEFINE l == clientLabels(v)
           w == clientValues(v)
<1>1. IsSeq(l) /\ IsSeq(w) /\ Len(w) = Len(l) /\ \A i \in 1 .. Len(w) : <<l[i], w[i]>> \in ClientPairs(v)
  BY ClientLabelFacts DEF Zips
<1>2. /\ Truth("id", c) = c.id /\ Truth("name", c) = c.name /\ Truth("flags", c) = "N" /\ Truth("db", c) = "0"
      /\ Truth("host", c) = c.host /\ Truth("port", c) = Itoa(c.port) /\ Truth("user", c) = "default"
      /\ Truth("resp", c) = "2"
  BY DEF Truth
<1>3. /\ Text(v, "id") = c.id /\ Text(v, "flags") = "N" /\ Text(v, "db") = "0" /\ Text(v, "addr") = c.host
      /\ Get(v, "addr").x = c.port /\ Text(v, "name") = c.name
      /\ HasUser(v) => Text(v, "user") = "default"
      /\ HasResp(v) => Text(v, "resp") = "2"
  <2> DEFINE s == sv
  <2>1. v = ClientLine(s, c).v
    OBVIOUS
  <2> HIDE DEF s
  <2>2. Text(v, "id") = c.id
    BY ONLY <2>1, ClientLineFacts, ZenonT(60)
  <2>3. Text(v, "flags") = "N"
    BY ONLY <2>1, ClientLineFacts, ZenonT(60)
  <2>4. Text(v, "db") = "0"
    BY ONLY <2>1, ClientLineFacts, ZenonT(60)
  <2>5. Text(v, "addr") = c.host
    BY ONLY <2>1, ClientLineFacts, ZenonT(60)
  <2>6. Get(v, "addr").x = c.port
    BY ONLY <2>1, ClientLineFacts, ZenonT(60)
  <2>7. Text(v, "user") = (IF s.kind \in Since62 THEN "default" ELSE "")
    BY ONLY <2>1, ClientLineFacts, ZenonT(60)
  <2>8. Text(v, "resp") = (IF s.kind \in Since70 THEN "2" ELSE "")
    BY ONLY <2>1, ClientLineFacts, ZenonT(60)
  <2>9. ~c.equals => Text(v, "name") = c.name
    BY ONLY <2>1, ClientLineFacts, ZenonT(60)
  <2>10. Text(v, "name") = c.name
    BY <2>9
  <2>11. QED
    BY <2>2, <2>3, <2>4, <2>5, <2>6, <2>7, <2>8, <2>10 DEF HasUser, HasResp
<1>4. \A a, b : <<a, b>> \in ClientPairs(v) =>
          \/ a = "id" /\ b = Text(v, "id")
          \/ a = "name" /\ b = Text(v, "name")
          \/ a = "flags" /\ b = Text(v, "flags")
          \/ a = "db" /\ b = Text(v, "db")
          \/ a = "host" /\ b = Text(v, "addr")
          \/ a = "port" /\ b = Itoa(Get(v, "addr").x)
          \/ a = "user" /\ HasUser(v) /\ b = Text(v, "user")
          \/ a = "resp" /\ HasResp(v) /\ b = Text(v, "resp")
  BY DEF ClientPairs, PortPairs, UserPairs, RespPairs
<1>5. \A a, b : <<a, b>> \in ClientPairs(v) => b = Truth(a, c)
  BY ONLY <1>2, <1>3, <1>4
<1> HIDE DEF l, w
<1>6. QED
  BY <1>1, <1>5 DEF l, w

Rightly(name, c) ==
    {s \in Out : s.name = name /\ \A i \in DOMAIN s.lbls : s.lbls[i][2] = Truth(s.lbls[i][1], c)}

\* A series whose values are true under its labels is right.
LEMMA RightSeries ==
    ASSUME NEW m, NEW l, NEW c, exp.descs[m.name] = l, IsSeq(m.values), \A i \in 1 .. Len(m.values) : m.values[i] = Truth(l[i], c),
           Series(exp, m) \in Out
    PROVE  Series(exp, m) \in Rightly(m.name, c)
<1> DEFINE x == Series(exp, m)
<1>1. x.name = m.name
  BY SeriesName
<1>2. DOMAIN x.lbls = 1 .. Len(m.values)
      /\ \A i \in 1 .. Len(m.values) : x.lbls[i][1] = l[i] /\ x.lbls[i][2] = m.values[i]
  BY SeriesLabels
<1>3. x \in Out
  OBVIOUS
<1> HIDE DEF x
<1>4. \A i \in DOMAIN x.lbls : x.lbls[i][2] = Truth(x.lbls[i][1], c)
  BY <1>2
<1>5. QED
  BY <1>1, <1>3, <1>4 DEF Rightly, x

\* The series instance_info of a finished scrape.
LEMMA InstanceAtEnd ==
    ASSUME Base, Exact, Described, AtEnd, NEW c
    PROVE  /\ {s \in Out : s.name = "instance_info"} = Rightly("instance_info", c)
           /\ (\A s \in past : InstanceLabelSet(s) = InstanceLabelSet(sv)) => Rightly("instance_info", c) # {}
<1> DEFINE W == EndW(sv, opts, parse, dbCount)
           m == InstanceMetric(parse.kv)
           l == instanceLabels(parse.kv)
           v == instanceValues(parse.kv)
           d == exp.descs["instance_info"]
<1>1. /\ sv \in Facts /\ Consistent(sv) /\ WalkOk(sv, Len(InfoText(sv)), parse) /\ IsExp(exp)
      /\ Exactly(exp, W)
  BY AtTheEnd
<1>2. m.name = "instance_info" /\ m.values = v
  BY MetricFacts DEF InstanceMetric
<1>3. IsSeq(l) /\ IsSeq(v) /\ Len(v) = Len(l) /\ \A i \in 1 .. Len(v) : v[i] = Truth(l[i], c)
  BY <1>1, InstanceTruth
<1>4. l = LabelsForInstance(sv)
  BY <1>1, InstanceLabelsAre
<1>5. \A n : n.name = "instance_info" => (n \in W <=> n = m)
  BY <1>1, EndIs
<1> HIDE DEF W, m, l, v
<1>6. m \in W
  BY <1>2, <1>5
<1>7. "instance_info" \in DOMAIN exp.descs /\ "instance_info" \in Watched
  BY <1>1, <1>2, <1>6 DEF Exactly, Known
<1>8. Fits(exp, m) <=> Len(d) = Len(v)
  BY <1>2, <1>7 DEF Fits, Known
<1>9. \A x : x \in Out /\ x.name = "instance_info" <=> Fits(exp, m) /\ x = Series(exp, m)
  <2>1. \A x : x \in Out /\ x.name \in Watched <=> Made(exp, W, x)
    BY <1>1 DEF Exactly, Out
  <2>2. \A x, n : x = Series(exp, n) => x.name = n.name
    BY SeriesName
  <2>3. \A x : x \in Out /\ x.name = "instance_info" <=> Made(exp, W, x) /\ x.name = "instance_info"
    BY <1>7, <2>1
  <2>4. \A x : Made(exp, W, x) /\ x.name = "instance_info" <=> Fits(exp, m) /\ x = Series(exp, m)
    <3>1. ASSUME NEW x, Made(exp, W, x), x.name = "instance_info"
          PROVE  Fits(exp, m) /\ x = Series(exp, m)
      <4>1. PICK n \in W : Fits(exp, n) /\ x = Series(exp, n)
        BY <3>1 DEF Made
      <4>2. n = m
        BY <1>5, <2>2, <3>1, <4>1
      <4>3. QED
        BY <4>1, <4>2
    <3>2. ASSUME NEW x, Fits(exp, m), x = Series(exp, m)
          PROVE  Made(exp, W, x) /\ x.name = "instance_info"
      BY <1>2, <1>6, <2>2, <3>2 DEF Made
    <3>3. QED
      BY <3>1, <3>2
  <2>5. QED
    BY <2>3, <2>4
<1>10. PICK s \in past \cup {sv} : d = LabelsForInstance(s)
  BY <1>7 DEF Described
<1>11. Fits(exp, m) => d = l
  BY <1>3, <1>4, <1>8, <1>10, InstanceSame
<1>12. \A x \in Out : x.name = "instance_info" => x \in Rightly("instance_info", c)
  <2>1. SUFFICES ASSUME NEW x \in Out, x.name = "instance_info"
                 PROVE  x \in Rightly("instance_info", c)
    OBVIOUS
  <2>2. x = Series(exp, m) /\ d = l
    BY <1>9, <1>11, <2>1
  <2>3. /\ exp.descs[m.name] = l /\ IsSeq(m.values) /\ \A i \in 1 .. Len(m.values) : m.values[i] = Truth(l[i], c)
        /\ Series(exp, m) \in Out
    BY <1>2, <1>3, <2>1, <2>2
  <2>4. Series(exp, m) \in Rightly(m.name, c)
    BY ONLY <2>3, RightSeries
  <2>5. QED
    BY <1>2, <2>2, <2>4
<1>13. \A x \in Rightly("instance_info", c) : x \in Out /\ x.name = "instance_info"
  BY DEF Rightly
<1>14. ASSUME \A r \in past : InstanceLabelSet(r) = InstanceLabelSet(sv)
       PROVE  Rightly("instance_info", c) # {}
  <2>1. InstanceLabelSet(s) = InstanceLabelSet(sv)
    BY <1>10, <1>14
  <2>2. d = l
    BY <1>4, <1>10, <2>1, InstanceSame
  <2>3. Fits(exp, m)
    BY <1>3, <1>8, <2>2
  <2>4. QED
    BY <1>9, <1>12, <2>3
<1>15. QED
  BY <1>12, <1>13, <1>14

\* The account of the clients.
LEMMA ClientWIs ==
    ASSUME NEW s \in Facts, NEW op, NEW m
    PROVE  m \in ClientW(s, op, Len(ClientsOf(s, op))) <=>
               /\ op.clients /\ "CLIENT" \notin s.denied
               /\ \E o \in DOMAIN s.clients : ~s.clients[o].equals /\ m = ClientOf(op, ClientLine(s, s.clients[o]).v)
<1> DEFINE A == op.clients /\ "CLIENT" \notin s.denied
           T == ClientsOf(s, op)
<1>1. Len(s.clients) \in Nat /\ DOMAIN s.clients = 1 .. Len(s.clients)
  BY DEF Facts
<1>2. T = If(A, ClientText(s))
  BY DEF ClientsOf
<1>3. \A x : x \in ClientW(s, op, Len(T)) <=>
          \E i \in 1 .. Len(T) : parseClientListString(T[i].v) /\ x = ClientOf(op, T[i].v)
  BY DEF ClientW
<1> HIDE DEF A, T
<1>4. CASE ~A
  <2>1. Len(T) = 0
    BY <1>2, <1>4, ShortSeqs DEF If
  <2>2. QED
    BY <1>3, <1>4, <2>1 DEF A, T
<1>5. CASE A
  <2>1. T = ClientText(s) /\ Len(T) = Len(s.clients)
    BY <1>2, <1>5, TextFacts DEF If
  <2>2. \A i \in 1 .. Len(T) : T[i] = ClientLine(s, s.clients[i])
    BY <2>1, ClientAt
  <2>3. \A i \in 1 .. Len(T) : parseClientListString(T[i].v) <=> ~s.clients[i].equals
    <3>1. SUFFICES ASSUME NEW i \in 1 .. Len(T)
                   PROVE  parseClientListString(T[i].v) <=> ~s.clients[i].equals
      OBVIOUS
    <3> DEFINE v == T[i].v
               c == s.clients[i]
    <3>2. v = ClientLine(s, c).v
      BY <2>2, <3>1
    <3> HIDE DEF v, c
    <3>3. parseClientListString(v) <=> ~c.equals
      BY ONLY <3>2, ClientLineFacts
    <3>4. QED
      BY <3>3 DEF v, c
  <2>4. \A x : x \in ClientW(s, op, Len(T)) <=>
          \E i \in DOMAIN s.clients : ~s.clients[i].equals /\ x = ClientOf(op, ClientLine(s, s.clients[i]).v)
    BY <1>1, <1>3, <2>1, <2>2, <2>3
  <2>5. QED
    BY <1>5, <2>4 DEF A, T
<1>6. QED
  BY <1>4, <1>5

\* The fields of the account's metric of a client.
LEMMA ClientFields ==
    ASSUME NEW v
    PROVE  ClientOf(opts, v).name = "connected_client_info" /\ ClientOf(opts, v).values = clientValues(v)
<1> DEFINE w == clientValues(v)
<1>1. ClientOf(opts, v) = Metric("connected_client_info", Whole(1), w)
  BY DEF ClientOf, clientValues
<1> HIDE DEF w
<1>2. QED
  BY <1>1, MetricFacts DEF w

\* The series connected_client_info of a finished scrape.
LEMMA ClientsAtEnd ==
    ASSUME Base, Exact, Described, AtEnd
    PROVE  LET Named == {c \in ToSet(sv.clients) : ~c.equals}
               name == "connected_client_info"
           IN  /\ \A x \in Out : x.name = name => \E c \in Named : x \in Rightly(name, c)
               /\ (\A s \in past : ClientLabelSet(s) = ClientLabelSet(sv)) /\ opts.clients /\ "CLIENT" \notin sv.denied
                     => \A c \in Named : Rightly(name, c) # {}
<1> DEFINE W == EndW(sv, opts, parse, dbCount)
           name == "connected_client_info"
           d == exp.descs[name]
           Named == {c \in ToSet(sv.clients) : ~c.equals}
           Told(c) == ClientLine(sv, c).v
           M(c) == ClientOf(opts, Told(c))
           asked == opts.clients /\ "CLIENT" \notin sv.denied
<1>1. sv \in Facts /\ Consistent(sv) /\ IsExp(exp) /\ Exactly(exp, W)
  BY AtTheEnd
<1>2. \A c \in Named : IsSeq(clientValues(Told(c))) /\ Len(clientValues(Told(c))) = Len(clientLabels(Told(c)))
                       /\ \A i \in 1 .. Len(clientValues(Told(c))) : clientValues(Told(c))[i] = Truth(clientLabels(Told(c))[i], c)
  BY ClientTruth
<1>3. \A c : clientLabels(Told(c)) = LabelsForClient(sv, opts)
  BY ClientLabelsAre
<1>4. \A c : M(c).name = name /\ M(c).values = clientValues(Told(c))
  BY ClientFields
<1>5. \A m : m.name = name => (m \in W <=> asked /\ \E c \in Named : m = M(c))
  <2>1. SUFFICES ASSUME NEW m, m.name = name
                 PROVE  m \in W <=> asked /\ \E c \in Named : m = M(c)
    OBVIOUS
  <2>2. m \in W <=> m \in ClientW(sv, opts, Len(ClientsOf(sv, opts)))
    BY <1>1, <2>1, EndIs
  <2>3. m \in ClientW(sv, opts, Len(ClientsOf(sv, opts))) <=>
            asked /\ \E o \in DOMAIN sv.clients : ~sv.clients[o].equals /\ m = M(sv.clients[o])
    BY <1>1, ClientWIs
  <2> HIDE DEF M, W
  <2>4. (\E o \in DOMAIN sv.clients : ~sv.clients[o].equals /\ m = M(sv.clients[o])) <=> \E c \in Named : m = M(c)
    BY DEF ToSet
  <2>5. QED
    BY <2>2, <2>3, <2>4
<1> HIDE DEF W, M, Told, Named
<1>6. \A x : x \in Out /\ x.name \in Watched <=> Made(exp, W, x)
  BY <1>1 DEF Exactly, Out
<1>7. name \in Watched
  BY DEF Watched
<1>8. \A c \in Named : asked => /\ name \in DOMAIN exp.descs
                                /\ Fits(exp, M(c)) <=> Len(d) = Len(clientValues(Told(c)))
  <2>1. SUFFICES ASSUME NEW c \in Named, asked
                 PROVE  name \in DOMAIN exp.descs /\ (Fits(exp, M(c)) <=> Len(d) = Len(clientValues(Told(c))))
    OBVIOUS
  <2>2. M(c) \in W
    BY <1>4, <1>5, <2>1
  <2>3. name \in DOMAIN exp.descs
    BY <1>1, <1>4, <2>2 DEF Exactly, Known
  <2>4. QED
    BY <1>4, <2>3 DEF Fits, Known
<1>9. \A c \in Named : asked /\ Fits(exp, M(c)) => d = clientLabels(Told(c))
  <2>1. SUFFICES ASSUME NEW c \in Named, asked, Fits(exp, M(c))
                 PROVE  d = clientLabels(Told(c))
    OBVIOUS
  <2>2. PICK s \in past \cup {sv} : d = LabelsForClient(s, opts)
    BY <1>8, <2>1 DEF Described
  <2>3. Len(LabelsForClient(s, opts)) = Len(LabelsForClient(sv, opts))
    BY <1>2, <1>3, <1>8, <2>1, <2>2
  <2>4. QED
    BY <1>3, <2>2, <2>3, ClientSame
<1>10. \A c \in Named : asked /\ Fits(exp, M(c)) => Series(exp, M(c)) \in Rightly(name, c)
  <2>1. SUFFICES ASSUME NEW c \in Named, asked, Fits(exp, M(c))
                 PROVE  Series(exp, M(c)) \in Rightly(name, c)
    OBVIOUS
  <2>2. M(c) \in W
    BY <1>4, <1>5, <2>1
  <2>3. Made(exp, W, Series(exp, M(c)))
    BY <2>1, <2>2 DEF Made
  <2>4. Series(exp, M(c)) \in Out
    BY <1>6, <2>3
  <2> DEFINE m == M(c)
             l == clientLabels(Told(c))
  <2>5. m.name = name /\ m.values = clientValues(Told(c)) /\ d = l
    BY <1>4, <1>9, <2>1
  <2>6. IsSeq(m.values) /\ \A i \in 1 .. Len(m.values) : m.values[i] = Truth(l[i], c)
    BY <1>2, <2>5
  <2>7. exp.descs[m.name] = l /\ Series(exp, m) \in Out
    BY <2>4, <2>5
  <2> HIDE DEF m, l
  <2>8. Series(exp, m) \in Rightly(m.name, c)
    BY ONLY <2>6, <2>7, RightSeries
  <2>9. QED
    BY <2>5, <2>8 DEF m
<1>11. ASSUME NEW x \in Out, x.name = name
       PROVE  \E c \in Named : x \in Rightly(name, c)
  <2>1. PICK m \in W : Fits(exp, m) /\ x = Series(exp, m)
    BY <1>6, <1>7, <1>11 DEF Made
  <2>2. m.name = name
    BY <1>11, <2>1, SeriesName
  <2>3. asked /\ \E c \in Named : m = M(c)
    BY <1>5, <2>1, <2>2
  <2>4. PICK c \in Named : m = M(c)
    BY <2>3
  <2>5. QED
    BY <1>10, <2>1, <2>3, <2>4
<1>12. ASSUME \A s \in past : ClientLabelSet(s) = ClientLabelSet(sv), asked, NEW c \in Named
       PROVE  Rightly(name, c) # {}
  <2>1. PICK s \in past \cup {sv} : d = LabelsForClient(s, opts)
    BY <1>8, <1>12 DEF Described
  <2>2. ClientLabelSet(s) = ClientLabelSet(sv)
    BY <1>12, <2>1
  <2>3. d = LabelsForClient(sv, opts)
    BY <2>1, <2>2, ClientSame
  <2>4. Fits(exp, M(c))
    BY <1>2, <1>3, <1>8, <1>12, <2>3
  <2>5. QED
    BY <1>10, <1>12, <2>4
<1>13. QED
  BY <1>11, <1>12 DEF Named

\* LabelsExact follows from the three invariants.
LEMMA LabelsAtEnd ==
    ASSUME Base, Exact, Described
    PROVE  LabelsExact
<1>1. SUFFICES ASSUME AtEnd
               PROVE  LabelsExact
  BY DEF LabelsExact
<1> DEFINE none == [id |-> "", name |-> "", host |-> "", port |-> 0]
           Named == {c \in ToSet(sv.clients) : ~c.equals}
           client == "connected_client_info"
<1>2. /\ {s \in Out : s.name = "instance_info"} = Rightly("instance_info", none)
      /\ (\A s \in past : InstanceLabelSet(s) = InstanceLabelSet(sv)) => Rightly("instance_info", none) # {}
  BY <1>1, InstanceAtEnd
<1>3. /\ \A x \in Out : x.name = client => \E c \in Named : x \in Rightly(client, c)
      /\ (\A s \in past : ClientLabelSet(s) = ClientLabelSet(sv)) /\ opts.clients /\ "CLIENT" \notin sv.denied
            => \A c \in Named : Rightly(client, c) # {}
  BY <1>1, ClientsAtEnd
<1>4. \A c : \A x \in Rightly(client, c) : x \in Out /\ x.name = client
  BY DEF Rightly
<1>5. {s \in Out : s.name = client} = UNION {Rightly(client, c) : c \in Named}
  <2> HIDE DEF Named, client
  <2>1. \A x : x \in UNION {Rightly(client, c) : c \in Named} <=> \E c \in Named : x \in Rightly(client, c)
    OBVIOUS
  <2>2. \A x : x \in {s \in Out : s.name = client} <=> x \in UNION {Rightly(client, c) : c \in Named}
    BY <1>3, <1>4, <2>1
  <2>3. QED
    BY <2>2
<1>6. QED
  BY <1>1, <1>2, <1>3, <1>5 DEF LabelsExact, Rightly

\* The labels of instance_info and of connected_client_info never carry each other's values, and no
\* instance and no client is missing while all servers met have the same labels (metrics.go 84-99,
\* 130-137; info.go 172-197, clients.go 143-166).
THEOREM LabelsCorrect == Spec => []LabelsExact
BY DescribedAlways, LabelsAtEnd, PTL

(***************************************************************************)
(* No series twice.  Every name outside the accounted ones belongs to one  *)
(* line of one section.                                                    *)
(***************************************************************************)
LEMMA FieldSource ==
    ASSUME NEW f, NEW m \in FieldMetrics(f)
    PROVE  /\ Len(f.v) = 1 /\ m.values = <<>>
           /\ \/ f.k \in {"db", "cmdstat_", "cluster_enabled", "cluster_state", "uptime_in_seconds",
                          "connected_slaves", "search_number_of_indexes"} /\ m.name = f.k
              \/ f.k = "latest_fork_usec" /\ m.name = "latest_fork_seconds"
              \/ f.k = "keyspace_hits" /\ m.name = "keyspace_hits_total"
              \/ f.k = "used_memory" /\ m.name = "memory_used_bytes"
              \/ f.k = "cluster_stats_messages_sent" /\ m.name = "cluster_messages_sent_total"
              \/ f.k = "tile38_num_hooks" /\ m.name = "tile38_num_hooks_total"
<1>1. DOMAIN metricMap = {"uptime_in_seconds", "connected_slaves", "latest_fork_usec", "keyspace_hits",
                          "used_memory", "cluster_stats_messages_sent", "tile38_num_hooks",
                          "search_number_of_indexes"}
  BY DEF metricMap
<1>2. /\ metricMap["uptime_in_seconds"] = "uptime_in_seconds"
      /\ metricMap["connected_slaves"] = "connected_slaves"
      /\ metricMap["latest_fork_usec"] = "latest_fork_usec"
      /\ metricMap["keyspace_hits"] = "keyspace_hits_total"
      /\ metricMap["used_memory"] = "memory_used_bytes"
      /\ metricMap["cluster_stats_messages_sent"] = "cluster_messages_sent_total"
      /\ metricMap["tile38_num_hooks"] = "tile38_num_hooks_total"
      /\ metricMap["search_number_of_indexes"] = "search_number_of_indexes"
  BY DEF metricMap
<1>3. includeMetric(f) /\ IsFloat(f.v) /\ m = Metric(FieldName(f), FieldValue(f), <<>>)
  BY DEF FieldMetrics
<1>4. m.name = FieldName(f) /\ m.values = <<>>
  BY <1>3, MetricFacts
<1>5. Len(f.v) = 1
  BY <1>3 DEF IsFloat
<1>6. QED
  BY <1>1, <1>2, <1>3, <1>4, <1>5 DEF includeMetric, FieldName, ClusterFields

InfoSource(name) ==
    CASE name \in {"start_time_seconds", "uptime_in_seconds"} -> "uptime_in_seconds"
      [] name = "latest_fork_seconds" -> "latest_fork_usec"
      [] name \in SentinelMetrics \cup {"sentinel_master_status"} -> "master"
      [] name = "errors_total" -> "errorstat_"
      [] OTHER -> name
InfoNames == {"start_time_seconds", "uptime_in_seconds", "hz", "latest_fork_seconds", "sentinel_masters",
              "sentinel_master_status", "connected_slaves", "errors_total", "cluster_enabled"}
             \cup SentinelMetrics

\* The lines that the other series of INFO come from.
LEMMA InfoSources ==
    /\ InfoSource("start_time_seconds") = "uptime_in_seconds"
    /\ InfoSource("uptime_in_seconds") = "uptime_in_seconds"
    /\ InfoSource("latest_fork_seconds") = "latest_fork_usec"
    /\ \A n \in SentinelMetrics \cup {"sentinel_master_status"} : InfoSource(n) = "master"
    /\ InfoSource("errors_total") = "errorstat_"
    /\ \A n \in {"hz", "sentinel_masters", "connected_slaves", "cluster_enabled"} : InfoSource(n) = n
BY DEF InfoSource, SentinelMetrics

\* The lines that may occur in each section.
LEMMA HomeKeys ==
    ASSUME NEW s, NEW f, NEW o, LineOk(s, f, o), f.k # "#"
    PROVE  /\ Home(f.k) = "Replication" => f.k \in {"role", "slave_read_only", "connected_slaves", "slave"} \cup MasterBlock
           /\ Home(f.k) = "Server" => f.k \in {"redis_version", "valkey_version", "valkey_release_stage",
                                               "uptime_in_seconds", "hz"}
           /\ Home(f.k) \notin {"Replication", "Server", "Commandstats", "Latencystats", "Errorstats", "Keyspace",
                                "Sentinel"} => f.k \in {"latest_fork_usec", "cluster_enabled"}
           /\ f.k \in {"uptime_in_seconds", "hz", "latest_fork_usec", "sentinel_masters", "master", "connected_slaves",
                       "errorstat_", "cluster_enabled"} => o = 0
<1>1. f.k \in SingleKeys \cup MasterBlock \cup ManyKeys /\ (f.k \in SingleKeys => o = 0)
  BY DEF LineOk
<1>2. QED
  BY <1>1 DEF Home, SingleKeys, MasterBlock, ManyKeys

\* A series of INFO that is not accounted for comes from one line that occurs once.
LEMMA LineSource ==
    ASSUME NEW s \in Facts, NEW f, NEW o, LineOk(s, f, o), f.k # "#", NEW p, p.cls = Home(f.k),
           NEW m \in LineMetrics(p, f), m.name \notin Watched
    PROVE  m.name \in InfoNames /\ InfoSource(m.name) = f.k /\ o = 0
<1>1. \A n, v, w : Metric(n, v, w).name = n
  BY MetricFacts
<1>2. CASE p.cls = "Replication"
  <2> DEFINE ms == replicationMetrics(Seen(p, f), f)
  <2>1. LineMetrics(p, f) = IF ms # <<>> THEN ToSet(ms) ELSE FieldMetrics(f)
    BY <1>2 DEF LineMetrics
  <2>2. \A x \in ToSet(ms) : x.name \in Watched
    BY ReplicationMetricsFacts DEF Watched
  <2> HIDE DEF ms
  <2>3. m \in FieldMetrics(f)
    BY <2>1, <2>2
  <2>4. f.k \in {"role", "slave_read_only", "connected_slaves", "slave"} \cup MasterBlock
    BY <1>2, HomeKeys
  <2>5. f.k = "connected_slaves" /\ m.name = "connected_slaves"
    BY <2>3, <2>4, FieldSource DEF MasterBlock
  <2>6. QED
    BY <2>5, HomeKeys, InfoSources DEF InfoNames
<1>3. CASE p.cls = "Server"
  <2>1. m \in ServerLineMetrics(f) \cup FieldMetrics(f)
    BY <1>3 DEF LineMetrics
  <2>2. f.k \in {"redis_version", "valkey_version", "valkey_release_stage", "uptime_in_seconds", "hz"}
    BY <1>3, HomeKeys
  <2>3. CASE m \in FieldMetrics(f)
    <3>1. f.k = "uptime_in_seconds" /\ m.name = "uptime_in_seconds"
      BY <2>2, <2>3, FieldSource
    <3>2. QED
      BY <3>1, HomeKeys, InfoSources DEF InfoNames
  <2>4. CASE m \in ServerLineMetrics(f)
    <3>1. \/ f.k = "uptime_in_seconds" /\ m = Metric("start_time_seconds", Whole(Now - f.v[1].x), <<>>)
          \/ f.k = "hz" /\ m = Metric(f.k, Whole(Atoi(f.v)), <<>>)
      BY <2>2, <2>4 DEF ServerLineMetrics
    <3>2. \/ f.k = "uptime_in_seconds" /\ m.name = "start_time_seconds"
          \/ f.k = "hz" /\ m.name = "hz"
      BY <1>1, <3>1
    <3>3. QED
      BY <3>2, HomeKeys, InfoSources DEF InfoNames
  <2>5. QED
    BY <2>1, <2>3, <2>4
<1>4. CASE p.cls = "Commandstats"
  <2>1. m \in ToSet(commandMetrics(f))
    BY <1>4 DEF LineMetrics
  <2>2. CASE m.name \in Watched
    BY <2>2
  <2>3. m.name \in CmdMetrics
    <3>1. StatsParse(f)
      BY <2>1, CommandMetricsFacts
    <3>2. \/ m = Metric("commands_total", Whole(f.v[1].x), <<f.i>>)
          \/ m = Metric("commands_duration_seconds_total", Micro(f.v[2].x), <<f.i>>)
          \/ m = Metric("commands_rejected_calls_total", Whole(f.v[4].x), <<f.i>>)
          \/ m = Metric("commands_failed_calls_total", Whole(f.v[5].x), <<f.i>>)
      BY <2>1, <3>1, CommandMetricsFacts
    <3>3. m.name \in {"commands_total", "commands_duration_seconds_total", "commands_rejected_calls_total",
                      "commands_failed_calls_total"}
      BY <1>1, <3>2
    <3>4. QED
      BY <3>3 DEF CmdMetrics
  <2>4. QED
    BY <2>3 DEF Watched
<1>5. CASE p.cls = "Latencystats"
  BY <1>5 DEF LineMetrics
<1>6. CASE p.cls = "Errorstats"
  <2>1. m = Metric("errors_total", Whole(f.v[1].x), <<f.i>>) /\ f.k = "errorstat_"
    BY <1>6 DEF LineMetrics
  <2>2. m.name = "errors_total"
    BY <1>1, <2>1
  <2>3. QED
    BY <2>1, <2>2, HomeKeys, InfoSources DEF InfoNames
<1>7. CASE p.cls = "Keyspace"
  <2> DEFINE b == parseDBKeyspaceString(f)
             d == s.dbs[o]
  <2>1. f.k = "db" /\ m \in IF b THEN ToSet(keyspaceMetrics(f)) ELSE FieldMetrics(f)
    BY <1>7, HomeFacts DEF LineMetrics
  <2>2. o \in DOMAIN s.dbs /\ f = KeyspaceField(s, d)
    BY <2>1 DEF LineOk
  <2>3. f.v = KeyspaceParts(s, d) /\ s.kind \in Kinds
    <3>1. f.v = KeyspaceParts(s, d)
      BY <2>2, LineNamesOf
    <3>2. s.kind \in Kinds
      BY FactTypes
    <3>3. QED
      BY <3>1, <3>2
  <2> HIDE DEF d
  <2>4. (b <=> s.kind # "later") /\ (Len(f.v) > 2 <=> s.kind \in Since28)
    BY ONLY <2>1, <2>3, KeyspaceLineFacts, Zenon
  <2>5. m \notin FieldMetrics(f) \/ b
    <3>1. SUFFICES ASSUME m \in FieldMetrics(f), ~b
                   PROVE  FALSE
      OBVIOUS
    <3>2. Len(f.v) = 1
      BY <3>1, FieldSource
    <3>3. s.kind \in Since28
      BY <2>4, <3>1 DEF Since28, Kinds
    <3>4. QED
      BY <2>4, <3>2, <3>3
  <2>6. m \in ToSet(keyspaceMetrics(f))
    BY <2>1, <2>5
  <2>7. \/ m = Metric("db_keys", Whole(f.v[1].x), <<f.i>>)
        \/ m = Metric("db_keys_expiring", Whole(f.v[2].x), <<f.i>>)
        \/ m = Metric("db_keys_cached", Whole(f.v[4].x), <<f.i>>)
        \/ m = Metric("db_avg_ttl_seconds", Milli(f.v[3].x), <<f.i>>)
    BY <2>6, KeyspaceMetricsFacts
  <2>8. m.name \in {"db_keys", "db_keys_expiring", "db_keys_cached", "db_avg_ttl_seconds"}
    BY <1>1, <2>7
  <2>9. QED
    BY <2>8 DEF Watched, DbMetrics
<1>8. CASE p.cls = "Sentinel"
  <2>1. f.k \in {"sentinel_masters", "master"} /\ m \in SentinelLineMetrics(f) \cup FieldMetrics(f)
    BY <1>8, HomeFacts DEF LineMetrics
  <2>2. m \in SentinelLineMetrics(f)
    BY <2>1, FieldSource
  <2>3. CASE f.k = "sentinel_masters"
    <3>1. m = Metric(f.k, Whole(Atoi(f.v)), <<>>)
      <4>1. ~parseSentinelMasterString(f)
        BY <2>3 DEF parseSentinelMasterString
      <4>2. SentinelLineMetrics(f) = {Metric(f.k, Whole(Atoi(f.v)), <<>>)}
        BY <2>3, <4>1 DEF SentinelLineMetrics
      <4>3. QED
        BY <2>2, <4>2
    <3>2. m.name = "sentinel_masters"
      BY <1>1, <2>3, <3>1
    <3>3. QED
      BY <2>3, <3>2, HomeKeys, InfoSources DEF InfoNames
  <2>4. CASE f.k = "master"
    <3>1. m \in ToSet(sentinelMetrics(f.v))
      BY <2>2, <2>4 DEF SentinelLineMetrics
    <3>2. m.name \in SentinelMetrics \cup {"sentinel_master_status"}
      BY <3>1, SentinelMetricsFacts
    <3>3. QED
      BY <2>4, <3>2, HomeKeys, InfoSources DEF InfoNames
  <2>5. QED
    BY <2>1, <2>3, <2>4
<1>9. CASE p.cls \notin {"Replication", "Server", "Commandstats", "Latencystats", "Errorstats", "Keyspace", "Sentinel"}
  <2>1. m \in FieldMetrics(f)
    BY <1>9 DEF LineMetrics
  <2>2. f.k \in {"latest_fork_usec", "cluster_enabled"}
    BY <1>9, HomeKeys
  <2>3. \/ f.k = "latest_fork_usec" /\ m.name = "latest_fork_seconds"
        \/ f.k = "cluster_enabled" /\ m.name = "cluster_enabled"
    BY <2>1, <2>2, FieldSource
  <2>4. QED
    BY <2>3, HomeKeys, InfoSources DEF InfoNames
<1>10. QED
  BY <1>2, <1>3, <1>4, <1>5, <1>6, <1>7, <1>8, <1>9

ConfigNames == {"config_key_value", "config_value", "config_maxmemory"} \cup LimitMetrics
ConfigKey(name, vals) ==
    IF name \in {"config_key_value", "config_value"} THEN vals[1]
    ELSE IF name = "config_maxmemory" THEN "maxmemory" ELSE "client-output-buffer-limit"
ClusterNames == {"cluster_state", "cluster_messages_sent_total"}
ClusterKey(name) == IF name = "cluster_state" THEN name ELSE "cluster_stats_messages_sent"

\* The line a series comes from has been read, section by section.
OldConfig(sec, t, name, vals) ==
    /\ name \in ConfigNames
    /\ sec = "config" => \E i \in 1 .. Gone(t, ConfigText) : ConfigText[i].k = ConfigKey(name, vals)
OldCluster(sec, t, name) ==
    /\ name \in ClusterNames /\ sec # "config"
    /\ sec = "cluster" => \E i \in 1 .. Gone(t, ClusterText) : ClusterText[i].k = ClusterKey(name)
OldInfo(s, sec, t, name) ==
    /\ name \in InfoNames /\ sec \notin {"config", "cluster"}
    /\ sec = "info" => <<InfoSource(name), 0>> \in Done(s, Gone(t, InfoText(s)))
OldSpike(sec, name) == name \in SpikeMetrics /\ sec \in After \ {"latest"}
OldClient(s, sec, t, name, vals) ==
    /\ name \in ClientNames /\ sec \in {"clients", "tile38", "modules", "end"}
    /\ sec = "clients" => \E i \in 1 .. Gone(t, ClientText(s)) : vals[1] = s.clients[i].id
OldModule(sec, t, name) ==
    \/ name = "tile38_num_hooks_total" /\ sec \in {"tile38", "modules", "end"} /\ (sec = "tile38" => t = <<>>)
    \/ name = "module_info" /\ sec \in {"modules", "end"} /\ (sec = "modules" => Len(t) # 3)
    \/ name = "search_number_of_indexes" /\ sec \in {"modules", "end"} /\ (sec = "modules" => t = <<>>)
OldAt(s, sec, t, name, vals) ==
    \/ OldConfig(sec, t, name, vals)
    \/ OldCluster(sec, t, name)
    \/ OldInfo(s, sec, t, name)
    \/ OldSpike(sec, name)
    \/ OldClient(s, sec, t, name, vals)
    \/ OldModule(sec, t, name)

Read(s, sec, t, q) == \A x \in ToSet(q) : x.name \notin Watched => OldAt(s, sec, t, x.name, ValuesOf(x))

\* No series twice, and those that are not accounted for come from lines already read.
Once == Unique(sv, exp.out) /\ Read(sv, section, todo, exp.out)

\* The two parts of a key.
LEMMA KeyParts ==
    ASSUME NEW x, NEW a, NEW b, KeyOf(x) = <<a, b>>
    PROVE  x.name = a /\ ValuesOf(x) = b
BY DEF KeyOf

\* One step: what it sends comes from lines not read before, or is accounted for and new.
LEMMA OnceKept ==
    ASSUME Base, Once, UNCHANGED sv, NEW N, Sends(exp, exp', N),
           \A name, vals : OldAt(sv, section, todo, name, vals) => OldAt(sv, section', todo', name, vals),
           \A n \in N : n.name \notin Watched =>
                           /\ OldAt(sv, section', todo', n.name, n.values)
                           /\ ~OldAt(sv, section, todo, n.name, n.values),
           \A x \in ToSet(exp.out) : \A n \in N :
               n.name \in Watched /\ KeyOf(x) = <<n.name, n.values>> => Clash(sv, n.name)
    PROVE  Once'
<1>1. IsExp(exp)
  BY DEF Base
<1>2. Fresh(sv, exp.out, N)
  <2>1. SUFFICES ASSUME NEW x \in ToSet(exp.out), NEW n \in N, KeyOf(x) = <<n.name, n.values>>, n.name \notin Watched
                 PROVE  Clash(sv, n.name)
    BY DEF Fresh
  <2>2. x.name = n.name /\ ValuesOf(x) = n.values
    BY <2>1, KeyParts
  <2>3. OldAt(sv, section, todo, x.name, ValuesOf(x))
    BY <2>1, <2>2 DEF Once, Read
  <2>4. QED
    BY <2>1, <2>2, <2>3
<1>3. Unique(sv, exp'.out)
  BY <1>1, <1>2, UniqueStep DEF Once
<1>4. Read(sv, section', todo', exp'.out)
  <2>1. SUFFICES ASSUME NEW x \in ToSet(exp'.out), x.name \notin Watched
                 PROVE  OldAt(sv, section', todo', x.name, ValuesOf(x))
    BY DEF Read
  <2>2. x \in ToSet(exp.out) \/ \E n \in N : x.name = n.name /\ ValuesOf(x) = n.values
    BY <1>1, SentKeys
  <2>3. CASE x \in ToSet(exp.out)
    <3>1. OldAt(sv, section, todo, x.name, ValuesOf(x))
      BY <2>1, <2>3 DEF Once, Read
    <3>2. QED
      BY <3>1
  <2>4. CASE \E n \in N : x.name = n.name /\ ValuesOf(x) = n.values
    BY <2>1, <2>4
  <2>5. QED
    BY <2>2, <2>3, <2>4
<1>5. QED
  BY <1>3, <1>4 DEF Once

\* A step that sends nothing and reads on keeps Once.
LEMMA NothingOnce ==
    ASSUME Base, Once, UNCHANGED <<sv, exp>>,
           \A name, vals : OldAt(sv, section, todo, name, vals) => OldAt(sv, section', todo', name, vals)
    PROVE  Once'
<1>1. Sends(exp, exp', {})
  BY SendsNothing DEF Base
<1>2. QED
  BY <1>1, OnceKept

\* What is accounted for is new when the account does not have it.
LEMMA FreshWatched ==
    ASSUME NEW e, NEW W, Exactly(e, W), NEW s, NEW N,
           \A m \in W, n \in N : n.name \in Watched /\ m.name = n.name /\ m.values = n.values => Clash(s, n.name)
    PROVE  \A x \in ToSet(e.out) : \A n \in N :
               n.name \in Watched /\ KeyOf(x) = <<n.name, n.values>> => Clash(s, n.name)
<1>1. SUFFICES ASSUME NEW x \in ToSet(e.out), NEW n \in N, n.name \in Watched, KeyOf(x) = <<n.name, n.values>>
               PROVE  Clash(s, n.name)
  OBVIOUS
<1>2. x.name = n.name /\ ValuesOf(x) = n.values
  BY <1>1, KeyParts
<1>3. Made(e, W, x)
  BY <1>1, <1>2 DEF Exactly
<1>4. PICK m \in W : x = Series(e, m)
  BY <1>3 DEF Made
<1>5. IsSeq(m.values)
  BY DEF Exactly
<1>6. m.name = n.name /\ m.values = n.values
  BY <1>2, <1>4, <1>5, KeyOfSeries
<1>7. QED
  BY <1>1, <1>6

\* A section that ends leaves all its lines behind.
LEMMA OldSection ==
    ASSUME NEW s, NEW sec, NEW t, NEW sec2, NEW t2,
           <<sec, sec2>> \in {<<"config", "cluster">>, <<"config", "info">>, <<"cluster", "info">>,
                              <<"info", "latest">>, <<"latest", "histogram">>, <<"histogram", "clients">>,
                              <<"clients", "tile38">>, <<"tile38", "modules">>, <<"modules", "end">>}
    PROVE  \A name, vals : OldAt(s, sec, t, name, vals) => OldAt(s, sec2, t2, name, vals)
<1>1. \/ sec = "config" /\ sec2 \in {"cluster", "info"}
      \/ sec = "cluster" /\ sec2 = "info"
      \/ sec = "info" /\ sec2 = "latest"
      \/ sec = "latest" /\ sec2 = "histogram"
      \/ sec = "histogram" /\ sec2 = "clients"
      \/ sec = "clients" /\ sec2 = "tile38"
      \/ sec = "tile38" /\ sec2 = "modules"
      \/ sec = "modules" /\ sec2 = "end"
  OBVIOUS
<1>2. SUFFICES ASSUME NEW name, NEW vals, OldAt(s, sec, t, name, vals)
               PROVE  OldAt(s, sec2, t2, name, vals)
  OBVIOUS
<1>3. CASE OldConfig(sec, t, name, vals)
  BY <1>1, <1>3 DEF OldConfig, OldAt
<1>4. CASE OldCluster(sec, t, name)
  BY <1>1, <1>4 DEF OldCluster, OldAt
<1>5. CASE OldInfo(s, sec, t, name)
  BY <1>1, <1>5 DEF OldInfo, OldAt
<1>6. CASE OldSpike(sec, name)
  BY <1>1, <1>6 DEF OldSpike, OldAt, After
<1>7. CASE OldClient(s, sec, t, name, vals)
  BY <1>1, <1>7 DEF OldClient, OldAt
<1>8. CASE OldModule(sec, t, name)
  BY <1>1, <1>8 DEF OldModule, OldAt
<1>9. QED
  BY <1>2, <1>3, <1>4, <1>5, <1>6, <1>7, <1>8 DEF OldAt

\* So does a change of the section.
LEMMA OnceSection ==
    ASSUME Base, Once, UNCHANGED <<sv, exp>>,
           <<section, section'>> \in {<<"config", "cluster">>, <<"config", "info">>, <<"cluster", "info">>,
                              <<"info", "latest">>, <<"latest", "histogram">>, <<"histogram", "clients">>,
                              <<"clients", "tile38">>, <<"tile38", "modules">>, <<"modules", "end">>}
    PROVE  Once'
BY OldSection, NothingOnce

\* Within a section only that section's part moves.
LEMMA OldConfigMoves ==
    ASSUME NEW s, NEW t, NEW t2, Gone(t, ConfigText) \in Int, Gone(t2, ConfigText) = Gone(t, ConfigText) + 1
    PROVE  \A name, vals : OldAt(s, "config", t, name, vals) => OldAt(s, "config", t2, name, vals)
<1>1. 1 .. Gone(t, ConfigText) \subseteq 1 .. Gone(t2, ConfigText)
  OBVIOUS
<1>2. QED
  BY <1>1 DEF OldAt, OldConfig, OldCluster, OldInfo, OldSpike, OldClient, OldModule, After

\* One more field of the cluster's state has been read.
LEMMA OldClusterMoves ==
    ASSUME NEW s, NEW t, NEW t2, Gone(t, ClusterText) \in Int, Gone(t2, ClusterText) = Gone(t, ClusterText) + 1
    PROVE  \A name, vals : OldAt(s, "cluster", t, name, vals) => OldAt(s, "cluster", t2, name, vals)
<1>1. 1 .. Gone(t, ClusterText) \subseteq 1 .. Gone(t2, ClusterText)
  OBVIOUS
<1>2. QED
  BY <1>1 DEF OldAt, OldConfig, OldCluster, OldInfo, OldSpike, OldClient, OldModule, After

\* One more line of INFO has been read.
LEMMA OldInfoMoves ==
    ASSUME NEW s, NEW t, NEW t2, Done(s, Gone(t, InfoText(s))) \subseteq Done(s, Gone(t2, InfoText(s)))
    PROVE  \A name, vals : OldAt(s, "info", t, name, vals) => OldAt(s, "info", t2, name, vals)
BY DEF OldAt, OldConfig, OldCluster, OldInfo, OldSpike, OldClient, OldModule, After

\* The histogram's entries have nothing to do with the other lines.
LEMMA OldHistogramMoves ==
    ASSUME NEW s, NEW t, NEW t2
    PROVE  \A name, vals : OldAt(s, "histogram", t, name, vals) => OldAt(s, "histogram", t2, name, vals)
BY DEF OldAt, OldConfig, OldCluster, OldInfo, OldSpike, OldClient, OldModule, After

\* One more client has been read.
LEMMA OldClientMoves ==
    ASSUME NEW s, NEW t, NEW t2, Gone(t, ClientText(s)) \in Int, Gone(t2, ClientText(s)) = Gone(t, ClientText(s)) + 1
    PROVE  \A name, vals : OldAt(s, "clients", t, name, vals) => OldAt(s, "clients", t2, name, vals)
<1>1. 1 .. Gone(t, ClientText(s)) \subseteq 1 .. Gone(t2, ClientText(s))
  OBVIOUS
<1>2. QED
  BY <1>1 DEF OldAt, OldConfig, OldCluster, OldInfo, OldSpike, OldClient, OldModule, After

\* The field of SERVER EXT has been read.
LEMMA OldTileMoves ==
    ASSUME NEW s, NEW t, NEW t2, t # <<>>
    PROVE  \A name, vals : OldAt(s, "tile38", t, name, vals) => OldAt(s, "tile38", t2, name, vals)
BY DEF OldAt, OldConfig, OldCluster, OldInfo, OldSpike, OldClient, OldModule, After

\* One more line of INFO MODULES has been read.
LEMMA OldModulesMoves ==
    ASSUME NEW s, NEW t, NEW t2, t # <<>>, Len(t2) # 3
    PROVE  \A name, vals : OldAt(s, "modules", t, name, vals) => OldAt(s, "modules", t2, name, vals)
BY DEF OldAt, OldConfig, OldCluster, OldInfo, OldSpike, OldClient, OldModule, After

\* The names of the parts are different.
LEMMA OldNames ==
    ASSUME NEW s, NEW sec, NEW t, NEW name, NEW vals, OldAt(s, sec, t, name, vals)
    PROVE  /\ name \in ConfigNames => OldConfig(sec, t, name, vals)
           /\ name \in ClusterNames => OldCluster(sec, t, name)
           /\ name \in InfoNames => OldInfo(s, sec, t, name)
           /\ name \in SpikeMetrics => OldSpike(sec, name)
           /\ name \in ClientNames => OldClient(s, sec, t, name, vals)
           /\ name \in {"tile38_num_hooks_total", "module_info", "search_number_of_indexes"} => OldModule(sec, t, name)
<1> DEFINE Others == ConfigNames \cup ClusterNames \cup InfoNames \cup SpikeMetrics
                     \cup {"tile38_num_hooks_total", "module_info", "search_number_of_indexes"}
<1>1. \A n \in ClientNames : n \notin Others
  <2>1. \A n \in Others : n \notin {"connected_client_shard_channel_subscriptions_count",
                                    "connected_client_shard_channel_watched_keys"}
    BY DEF ConfigNames, LimitMetrics, ClusterNames, InfoNames, SentinelMetrics, SpikeMetrics
  <2>2. \A n \in Others : n # ClientMetrics[1] /\ n # ClientMetrics[2] /\ n # ClientMetrics[3]
                          /\ n # ClientMetrics[4] /\ n # ClientMetrics[5]
    BY DEF ClientMetrics, ConfigNames, LimitMetrics, ClusterNames, InfoNames, SentinelMetrics, SpikeMetrics
  <2>3. \A n \in Others : n # ClientMetrics[6] /\ n # ClientMetrics[7] /\ n # ClientMetrics[8]
                          /\ n # ClientMetrics[9] /\ n # ClientMetrics[10]
    BY DEF ClientMetrics, ConfigNames, LimitMetrics, ClusterNames, InfoNames, SentinelMetrics, SpikeMetrics
  <2>4. \A n \in ToSet(ClientMetrics) : \E i \in 1 .. 10 : n = ClientMetrics[i]
    <3>1. \A x \in ToSet(ClientMetrics) : \E i \in 1 .. Len(ClientMetrics) : ClientMetrics[i] = x
      BY ONLY ClientMetricsFacts, SeqFacts, Zenon
    <3>2. Len(ClientMetrics) = 10
      BY ClientMetricsFacts
    <3>3. QED
      BY <3>1, <3>2
  <2> HIDE DEF Others
  <2>5. \A i \in 1 .. 10 : i \in {1, 2, 3, 4, 5, 6, 7, 8, 9, 10}
    OBVIOUS
  <2>6. QED
    BY <2>1, <2>2, <2>3, <2>4, <2>5 DEF ClientNames
<1>2. /\ name \in ConfigNames => name \notin ClusterNames \cup InfoNames \cup SpikeMetrics \cup
             {"tile38_num_hooks_total", "module_info", "search_number_of_indexes"}
      /\ name \in ClusterNames => name \notin InfoNames \cup SpikeMetrics \cup
             {"tile38_num_hooks_total", "module_info", "search_number_of_indexes"}
      /\ name \in InfoNames => name \notin SpikeMetrics \cup
             {"tile38_num_hooks_total", "module_info", "search_number_of_indexes"}
      /\ name \in SpikeMetrics => name \notin
             {"tile38_num_hooks_total", "module_info", "search_number_of_indexes"}
  BY DEF ConfigNames, LimitMetrics, ClusterNames, InfoNames, SentinelMetrics, SpikeMetrics
<1>3. /\ OldConfig(sec, t, name, vals) => name \in ConfigNames
      /\ OldCluster(sec, t, name) => name \in ClusterNames
      /\ OldInfo(s, sec, t, name) => name \in InfoNames
      /\ OldSpike(sec, name) => name \in SpikeMetrics
      /\ OldClient(s, sec, t, name, vals) => name \in ClientNames
      /\ OldModule(sec, t, name) => name \in {"tile38_num_hooks_total", "module_info", "search_number_of_indexes"}
  BY DEF OldConfig, OldCluster, OldInfo, OldSpike, OldClient, OldModule
<1>4. QED
  BY <1>1, <1>2, <1>3 DEF OldAt

\* The four settings have different names.
LEMMA ConfigKeys ==
    /\ \A i, j \in 1 .. 4 : i # j => ConfigText[i].k # ConfigText[j].k
    /\ IsSeq(ConfigText) /\ Len(ConfigText) = 4
<1>1. /\ ConfigText[1].k = "databases" /\ ConfigText[2].k = "maxmemory"
      /\ ConfigText[3].k = "requirepass" /\ ConfigText[4].k = "client-output-buffer-limit"
  BY ConfigTextFacts DEF DatabasesLine, MaxmemoryLine, PassLine, LimitLine, Field
<1>2. \A i \in 1 .. 4 : i \in {1, 2, 3, 4}
  OBVIOUS
<1>3. \A i, j \in 1 .. 4 : i # j => ConfigText[i].k # ConfigText[j].k
  BY <1>1, <1>2
<1>4. QED
  BY <1>3, ShortSeqs, ConfigTextFacts, ConfigLines

\* A setting's series name the setting they come from.
LEMMA ConfigNamedBy ==
    ASSUME NEW f \in ToSet(ConfigText), NEW m \in ConfigMetrics(f)
    PROVE  m.name \in ConfigNames /\ ConfigKey(m.name, m.values) = f.k
<1>1. \/ m.name = "config_key_value" /\ m.values[1] = f.k
      \/ m.name = "config_value" /\ m.values[1] = f.k
      \/ m.name \in LimitMetrics /\ f.k = "client-output-buffer-limit"
      \/ m.name = "config_maxmemory" /\ f.k = "maxmemory"
  BY ConfigNamed
<1>2. QED
  BY <1>1 DEF ConfigNames, ConfigKey, LimitMetrics

\* A setting is read once.
LEMMA OnceConfig ==
    ASSUME Base, Once, extractConfigMetrics
    PROVE  Once'
<1> DEFINE f == Head(todo)
           g == Gone(todo, ConfigText)
<1>1. /\ "CONFIG" \notin sv.denied /\ f \in ToSet(ConfigText) /\ Sends(exp, exp', ConfigMetrics(f))
      /\ UNCHANGED <<section, parse, sv, opts, scrapes, past>>
  BY BaseConfig
<1>2. section = "config" /\ todo # <<>> /\ todo' = Tail(todo)
  BY DEF extractConfigMetrics
<1>3. Suffix(todo, ConfigText)
  BY <1>1, <1>2 DEF Base, BaseAt, ConfigOk
<1>4. g \in Nat /\ g < 4 /\ f = ConfigText[g + 1] /\ Gone(todo', ConfigText) = g + 1
  BY <1>2, <1>3, SuffixStep, ConfigKeys
<1> HIDE DEF f, g
<1>5. section' = "config"
  BY <1>1, <1>2
<1>6. \A name, vals : OldAt(sv, section, todo, name, vals) => OldAt(sv, section', todo', name, vals)
  BY <1>2, <1>4, <1>5, OldConfigMoves DEF g
<1>7. ASSUME NEW n \in ConfigMetrics(f)
      PROVE  /\ n.name \notin Watched
             /\ OldAt(sv, section', todo', n.name, n.values)
             /\ ~OldAt(sv, section, todo, n.name, n.values)
  <2>1. n.name \notin Watched
    BY <1>1, ConfigUnwatched
  <2>2. n.name \in ConfigNames /\ ConfigKey(n.name, n.values) = f.k
    BY <1>1, ConfigNamedBy
  <2>3. g + 1 \in 1 .. Gone(todo', ConfigText) /\ ConfigText[g + 1].k = ConfigKey(n.name, n.values)
    BY <1>4, <2>2
  <2>4. OldConfig(section', todo', n.name, n.values)
    BY <2>2, <2>3 DEF OldConfig
  <2>5. \A i \in 1 .. g : ConfigText[i].k # ConfigText[g + 1].k
    <3>1. SUFFICES ASSUME NEW i \in 1 .. g PROVE ConfigText[i].k # ConfigText[g + 1].k
      OBVIOUS
    <3>2. i \in 1 .. 4 /\ g + 1 \in 1 .. 4 /\ i # g + 1
      BY <1>4
    <3>3. QED
      BY <3>2, ConfigKeys
  <2>6. ~OldConfig(section, todo, n.name, n.values)
    BY <1>2, <1>4, <2>2, <2>5 DEF OldConfig, g
  <2>7. ~OldAt(sv, section, todo, n.name, n.values)
    BY <2>2, <2>6, OldNames
  <2>8. QED
    BY <2>1, <2>4, <2>7 DEF OldAt
<1>8. QED
  BY <1>1, <1>6, <1>7, OnceKept

\* The fetch of INFO or of the cluster's state keeps Once.
LEMMA OnceFetchInfo ==
    ASSUME Base, Once, FetchInfo
    PROVE  Once'
<1>1. UNCHANGED <<exp, sv>> /\ section = "config" /\ section' \in {"cluster", "info"}
  BY BaseFetchInfo
<1>2. QED
  BY <1>1, OnceSection

\* The two fields of the cluster's state.
LEMMA ClusterKeys ==
    /\ IsSeq(ClusterText) /\ Len(ClusterText) = 2
    /\ ClusterText[1].k = "cluster_state" /\ ClusterText[2].k = "cluster_stats_messages_sent"
<1> DEFINE a == Field("cluster_state", "", <<Txt("", "ok")>>)
           b == Field("cluster_stats_messages_sent", "", <<Num("", 3)>>)
<1>1. ClusterText = <<a, b>>
  BY Concat11 DEF ClusterText, Line
<1>2. a.k = "cluster_state" /\ b.k = "cluster_stats_messages_sent"
  BY DEF Field
<1> HIDE DEF a, b
<1>3. ClusterText[1] = a /\ ClusterText[2] = b
  BY <1>1
<1>4. QED
  BY <1>1, <1>2, <1>3, ShortSeqs

\* A field of the cluster's state is read once.
LEMMA OnceCluster ==
    ASSUME Base, Once, extractClusterInfoMetrics
    PROVE  Once'
<1> DEFINE f == Head(todo)
           g == Gone(todo, ClusterText)
<1>1. /\ UNCHANGED <<sv, opts, scrapes, past, parse>> /\ section = "cluster"
      /\ \/ exp' = exp /\ section' = "info" /\ todo' = InfoText(sv)
         \/ /\ Sends(exp, exp', FieldMetrics(f)) /\ section' = "cluster"
            /\ todo # <<>> /\ todo' = Tail(todo)
  BY BaseCluster
<1>2. CASE exp' = exp /\ section' = "info" /\ todo' = InfoText(sv)
  BY <1>1, <1>2, OnceSection
<1>3. CASE /\ Sends(exp, exp', FieldMetrics(f)) /\ section' = "cluster"
           /\ todo # <<>> /\ todo' = Tail(todo)
  <2>1. Suffix(todo, ClusterText)
    BY <1>1 DEF Base, BaseAt
  <2>2. g \in Nat /\ g < 2 /\ f = ClusterText[g + 1] /\ Gone(todo', ClusterText) = g + 1
    BY <1>3, <2>1, SuffixStep, ClusterKeys
  <2> HIDE DEF f, g
  <2>3. \A name, vals : OldAt(sv, section, todo, name, vals) => OldAt(sv, section', todo', name, vals)
    BY <1>1, <1>3, <2>2, OldClusterMoves DEF g
  <2>4. ASSUME NEW n \in FieldMetrics(f)
        PROVE  /\ n.name \notin Watched
               /\ OldAt(sv, section', todo', n.name, n.values)
               /\ ~OldAt(sv, section, todo, n.name, n.values)
    <3>1. n.name \notin Watched
      BY FieldsUnwatched
    <3>2. \/ g = 0 /\ f.k = "cluster_state"
          \/ g = 1 /\ f.k = "cluster_stats_messages_sent"
      BY <2>2, ClusterKeys
    <3>3. \/ f.k = "cluster_state" /\ n.name = "cluster_state"
          \/ f.k = "cluster_stats_messages_sent" /\ n.name = "cluster_messages_sent_total"
      BY <3>2, FieldSource
    <3>4. n.name \in ClusterNames /\ ClusterKey(n.name) = f.k
      BY <3>3 DEF ClusterNames, ClusterKey
    <3>5. g + 1 \in 1 .. Gone(todo', ClusterText) /\ ClusterText[g + 1].k = ClusterKey(n.name)
      BY <2>2, <3>4
    <3>6. OldCluster(section', todo', n.name)
      BY <1>3, <3>4, <3>5 DEF OldCluster
    <3>7. \A i \in 1 .. g : ClusterText[i].k # ClusterText[g + 1].k
      BY <3>2, ClusterKeys
    <3>8. ~OldCluster(section, todo, n.name)
      BY <1>1, <2>2, <3>4, <3>7 DEF OldCluster, g
    <3>9. ~OldAt(sv, section, todo, n.name, n.values)
      BY <3>4, <3>8, OldNames
    <3>10. QED
      BY <3>1, <3>6, <3>9 DEF OldAt
  <2>5. QED
    BY <1>1, <1>3, <2>3, <2>4, OnceKept
<1>4. QED
  BY <1>1, <1>2, <1>3

\* The latency spikes are sent once.
LEMMA OnceLatest ==
    ASSUME Base, Once, extractLatencyLatestMetrics
    PROVE  Once'
<1>1. UNCHANGED <<sv, opts>> /\ section = "latest" /\ section' = "histogram" /\ Sends(exp, exp', SpikeSet)
  BY BaseLatest
<1>2. \A name, vals : OldAt(sv, section, todo, name, vals) => OldAt(sv, section', todo', name, vals)
  BY <1>1, OldSection
<1>3. ASSUME NEW n \in SpikeSet
      PROVE  /\ n.name \notin Watched
             /\ OldAt(sv, section', todo', n.name, n.values)
             /\ ~OldAt(sv, section, todo, n.name, n.values)
  <2>1. n.name \notin Watched
    BY SpikesUnwatched
  <2>2. n.name \in SpikeMetrics
    <3>1. \A a, v, w : Metric(a, v, w).name = a
      BY MetricFacts
    <3>2. \/ n = Metric("latency_spike_last", Whole(6), <<"fork">>)
          \/ n = Metric("latency_spike_duration_seconds", Milli(8), <<"fork">>)
      BY DEF SpikeSet
    <3>3. n.name \in {"latency_spike_last", "latency_spike_duration_seconds"}
      BY <3>1, <3>2
    <3>4. QED
      BY <3>3 DEF SpikeMetrics
  <2>3. OldSpike(section', n.name) /\ ~OldSpike(section, n.name)
    BY <1>1, <2>2 DEF OldSpike, After
  <2>4. QED
    BY <2>1, <2>2, <2>3, OldNames DEF OldAt
<1>4. QED
  BY <1>1, <1>2, <1>3, OnceKept

\* The fetch of CLIENT LIST keeps Once.
LEMMA OnceFetchClients ==
    ASSUME Base, Once, FetchClients
    PROVE  Once'
<1>1. UNCHANGED <<exp, sv>> /\ section = "histogram" /\ section' = "clients"
  BY BaseFetchClients
<1>2. QED
  BY <1>1, OnceSection

\* So does the fetch of SERVER EXT.
LEMMA OnceFetchTile38 ==
    ASSUME Base, Once, FetchTile38
    PROVE  Once'
<1>1. UNCHANGED <<exp, sv>> /\ section = "clients" /\ section' = "tile38"
  BY BaseFetchTile38
<1>2. QED
  BY <1>1, OnceSection

\* So does the fetch of INFO MODULES.
LEMMA OnceFetchModules ==
    ASSUME Base, Once, FetchModules
    PROVE  Once'
<1>1. UNCHANGED <<exp, sv>> /\ section = "tile38" /\ section' = "modules"
  BY BaseFetchModules
<1>2. QED
  BY <1>1, OnceSection

\* So does the end of a scrape.
LEMMA OnceEndScrape ==
    ASSUME Base, Once, EndScrape
    PROVE  Once'
<1>1. UNCHANGED <<exp, sv>> /\ section = "modules" /\ section' = "end"
  BY BaseEndScrape
<1>2. QED
  BY <1>1, OnceSection

\* A scrape begins without series.
LEMMA OnceNextScrape ==
    ASSUME Base, NextScrape
    PROVE  Once'
<1>1. exp'.out = <<>>
  BY BaseNextScrape
<1>2. DOMAIN exp'.out = {} /\ ToSet(exp'.out) = {}
  BY <1>1, ShortSeqs
<1>3. QED
  BY <1>2 DEF Once, Unique, Read

\* The one field of SERVER EXT.
LEMMA TileLine ==
    /\ IsSeq(TileAnswer) /\ Len(TileAnswer) = 1
    /\ tile38Field(TileAnswer[1]).k = "tile38_num_hooks"
<1> DEFINE a == Field("num_hooks", "", <<Num("", 2)>>)
<1>1. TileAnswer[1] = a
  BY DEF TileAnswer
<1>2. tile38Field(a).k = "tile38_num_hooks"
  BY DEF tile38Field, Field
<1>3. QED
  BY <1>1, <1>2, ShortSeqs DEF TileAnswer

\* It is read once.
LEMMA OnceTile38 ==
    ASSUME Base, Once, extractTile38Metrics
    PROVE  Once'
<1> DEFINE T == TilesOf(sv, opts)
           g == Gone(todo, T)
           f == tile38Field(Head(todo))
<1>1. /\ UNCHANGED <<section, sv, opts>> /\ section = "tile38"
      /\ g \in Nat /\ g < Len(T) /\ Head(todo) = T[g + 1]
      /\ Sends(exp, exp', FieldMetrics(f))
  BY BaseTile38
<1>2. todo # <<>> /\ todo' = Tail(todo)
  BY DEF extractTile38Metrics
<1>3. T = TileAnswer
  BY <1>1, ShortSeqs DEF TilesOf, If
<1>4. g = 0 /\ Head(todo) = TileAnswer[1] /\ f.k = "tile38_num_hooks"
  BY <1>1, <1>3, TileLine
<1>5. IsSeq(todo)
  BY <1>1 DEF Base, BaseAt, Suffix
<1>6. Len(todo) = 1 /\ todo' = <<>>
  <2>1. Len(todo) \in Nat
    BY <1>5, SeqFacts
  <2>2. Len(todo) = 1
    BY <1>3, <1>4, <2>1, TileLine DEF Gone
  <2>3. IsSeq(todo') /\ Len(todo') = 0
    BY <1>2, <1>5, <2>2, HeadTailFacts
  <2>4. QED
    BY <2>2, <2>3, SeqFacts
<1> HIDE DEF f, g, T
<1>7. \A name, vals : OldAt(sv, section, todo, name, vals) => OldAt(sv, section', todo', name, vals)
  BY <1>1, <1>2, OldTileMoves
<1>8. ASSUME NEW n \in FieldMetrics(f)
      PROVE  /\ n.name \notin Watched
             /\ OldAt(sv, section', todo', n.name, n.values)
             /\ ~OldAt(sv, section, todo, n.name, n.values)
  <2>1. n.name \notin Watched
    BY FieldsUnwatched
  <2>2. n.name = "tile38_num_hooks_total"
    BY <1>4, FieldSource
  <2>3. OldModule(section', todo', n.name) /\ ~OldModule(section, todo, n.name)
    BY <1>1, <1>2, <1>6, <2>2 DEF OldModule
  <2>4. QED
    BY <2>1, <2>2, <2>3, OldNames DEF OldAt
<1>9. QED
  BY <1>1, <1>7, <1>8, OnceKept

\* The three lines of INFO MODULES; the second module is too short to give a series.
LEMMA ModuleLines ==
    /\ IsSeq(ModulesText) /\ Len(ModulesText) = 3
    /\ ModulesText[1].k = "module" /\ ModulesText[2].k = "module" /\ Len(ModulesText[2].v) = 2
    /\ ModulesText[3].k = "search_number_of_indexes"
<1> DEFINE a == Field("module", "", <<Txt("name", "search"), Txt("ver", "1"), Txt("api", "1"), Txt("filters", "0"),
                            Txt("usedby", "a"), Txt("using", "b"), Txt("options", "c")>>)
           w == <<Txt("name", "old"), Txt("ver", "1")>>
           b == Field("module", "", w)
           c == Field("search_number_of_indexes", "", <<Num("", 3)>>)
<1>1. ModulesText = <<a, b, c>>
  BY DEF ModulesText
<1>2. a.k = "module" /\ b.k = "module" /\ b.v = w /\ c.k = "search_number_of_indexes"
  BY DEF Field
<1>3. Len(w) = 2
  BY ShortSeqs
<1> HIDE DEF a, b, c, w
<1>4. ModulesText[1] = a /\ ModulesText[2] = b /\ ModulesText[3] = c
  BY <1>1
<1>5. QED
  BY <1>1, <1>2, <1>3, <1>4, ShortSeqs

\* They are read once.
LEMMA OnceModules ==
    ASSUME Base, Once, extractModulesMetrics
    PROVE  Once'
<1> DEFINE T == ModulesOf(sv, opts)
           g == Gone(todo, T)
           f == Head(todo)
<1>1. /\ UNCHANGED <<section, sv, opts>> /\ section = "modules"
      /\ g \in Nat /\ g < Len(T) /\ f = T[g + 1]
      /\ Sends(exp, exp', ModuleSet(f))
  BY BaseModules
<1>2. todo # <<>> /\ todo' = Tail(todo)
  BY DEF extractModulesMetrics
<1>3. T = ModulesText
  BY <1>1, ShortSeqs DEF ModulesOf, If
<1>4. IsSeq(todo)
  BY <1>1 DEF Base, BaseAt, Suffix
<1>5. Len(todo) \in Nat /\ g = 3 - Len(todo)
  BY <1>3, <1>4, SeqFacts, ModuleLines DEF Gone
<1>6. IsSeq(todo') /\ Len(todo') = Len(todo) - 1
  BY <1>2, <1>4, HeadTailFacts
<1>7. todo' = <<>> <=> Len(todo) = 1
  BY <1>5, <1>6, SeqFacts
<1> HIDE DEF f, g, T
<1>8. Len(todo') # 3
  <2>1. g >= 0 /\ g \in Nat
    BY <1>1
  <2>2. Len(todo) \in Nat /\ Len(todo) <= 3
    BY <1>5, <2>1
  <2>3. Len(todo') = Len(todo) - 1
    BY <1>6
  <2>4. QED
    BY <2>2, <2>3
<1>9. \A name, vals : OldAt(sv, section, todo, name, vals) => OldAt(sv, section', todo', name, vals)
  BY <1>1, <1>2, <1>8, OldModulesMoves
<1>10. \/ Len(todo) = 3 /\ f.k = "module"
       \/ Len(todo) = 2 /\ f.k = "module" /\ Len(f.v) = 2
       \/ Len(todo) = 1 /\ f.k = "search_number_of_indexes"
  <2>1. g \in {0, 1, 2}
    BY <1>1, <1>3, ModuleLines
  <2>2. f = ModulesText[g + 1] /\ Len(todo) = 3 - g
    BY <1>1, <1>3, <1>5
  <2>3. CASE g = 0
    BY <2>2, <2>3, ModuleLines
  <2>4. CASE g = 1
    BY <2>2, <2>4, ModuleLines
  <2>5. CASE g = 2
    BY <2>2, <2>5, ModuleLines
  <2>6. QED
    BY <2>1, <2>3, <2>4, <2>5
<1>11. ASSUME NEW n \in ModuleSet(f)
       PROVE  /\ n.name \notin Watched
              /\ OldAt(sv, section', todo', n.name, n.values)
              /\ ~OldAt(sv, section, todo, n.name, n.values)
  <2>1. CASE f.k = "module"
    <3>1. n \in ToSet(moduleMetrics(f))
      BY <2>1 DEF ModuleSet
    <3>2. n.name = "module_info" /\ Len(f.v) = 7
      BY <3>1, ModuleMetricsFacts
    <3>3. Len(todo) = 3
      BY <1>10, <2>1, <3>2
    <3>4. OldModule(section', todo', n.name) /\ ~OldModule(section, todo, n.name)
      BY <1>1, <1>8, <3>2, <3>3 DEF OldModule
    <3>5. n.name \notin Watched
      BY <3>2 DEF Watched, DbMetrics, CmdMetrics, MasterMetrics, ReplicaMetrics
    <3>6. QED
      BY <3>2, <3>4, <3>5, OldNames DEF OldAt
  <2>2. CASE f.k = "search_number_of_indexes"
    <3>1. n \in FieldMetrics(f)
      BY <2>2 DEF ModuleSet
    <3>2. n.name = "search_number_of_indexes" /\ n.name \notin Watched
      BY <2>2, <3>1, FieldSource, FieldsUnwatched
    <3>3. Len(todo) = 1
      BY <1>10, <2>2
    <3>4. OldModule(section', todo', n.name) /\ ~OldModule(section, todo, n.name)
      BY <1>1, <1>2, <1>7, <3>2, <3>3 DEF OldModule
    <3>5. QED
      BY <3>2, <3>4, OldNames DEF OldAt
  <2>3. QED
    BY <1>10, <2>1, <2>2
<1>12. QED
  BY <1>1, <1>9, <1>11, OnceKept

\* Two lines of INFO give the same series only for replicas that are listed alike.
LEMMA SetValues ==
    ASSUME NEW s, NEW x, NEW m
    PROVE  /\ m \in DbSet(s, x) => m.values = <<Itoa(x.db)>>
           /\ m \in CmdSet(s, x) => m.values = <<x.cmd>>
           /\ m \in ReplicaSet(s, x) => m.values = <<x.ip, x.port, x.state>>
           /\ \A k : m \in MasterSet(x, k) =>
                 m.values = <<x.host, x.port>> /\ m.name = IF k = "master_link_status" THEN "master_link_up" ELSE k
<1>1. \A n, v, w : Metric(n, v, w).name = n /\ Metric(n, v, w).values = w
  BY MetricFacts
<1>2. m \in DbSet(s, x) => m.values = <<Itoa(x.db)>>
  <2>1. HAVE m \in DbSet(s, x)
  <2>2. \/ m = Metric("db_keys", Whole(x.keys), <<Itoa(x.db)>>)
        \/ m = Metric("db_keys_expiring", Whole(x.expires), <<Itoa(x.db)>>)
        \/ m = Metric("db_keys_cached", Whole(x.other), <<Itoa(x.db)>>)
        \/ m = Metric("db_avg_ttl_seconds", Milli(x.ttl), <<Itoa(x.db)>>)
    BY <2>1 DEF DbSet
  <2>3. QED
    BY <1>1, <2>2
<1>3. m \in CmdSet(s, x) => m.values = <<x.cmd>>
  BY CmdSetFields
<1>4. m \in ReplicaSet(s, x) => m.values = <<x.ip, x.port, x.state>>
  <2>1. HAVE m \in ReplicaSet(s, x)
  <2>2. \/ m = Metric("connected_slave_offset_bytes", Whole(x.offset), <<x.ip, x.port, x.state>>)
        \/ m = Metric("connected_slave_lag_seconds", Whole(x.lag), <<x.ip, x.port, x.state>>)
    BY <2>1 DEF ReplicaSet
  <2>3. QED
    BY <1>1, <2>2
<1>5. ASSUME NEW k, m \in MasterSet(x, k)
      PROVE  m.values = <<x.host, x.port>> /\ m.name = IF k = "master_link_status" THEN "master_link_up" ELSE k
  <2>1. \E v : m = Metric(IF k = "master_link_status" THEN "master_link_up" ELSE k, v, <<x.host, x.port>>)
    BY <1>5 DEF MasterSet
  <2>2. QED
    BY <1>1, <2>1
<1>6. QED
  BY <1>2, <1>3, <1>4, <1>5

\* The accounted series of a line, by the line's kind.
LEMMA LineWKinds ==
    ASSUME NEW s, NEW k, NEW o, NEW m \in LineW(s, k, o)
    PROVE  \/ k = "db" /\ m \in DbSet(s, s.dbs[o]) /\ m.name \in DbMetrics
           \/ k = "cmdstat_" /\ m \in CmdSet(s, s.cmds[o]) /\ m.name \in CmdMetrics
           \/ k = "slave" /\ m \in ReplicaSet(s, s.replicas[o]) /\ m.name \in ReplicaMetrics
           \/ k \in MasterKeys /\ m \in MasterSet(s.masters[o], k) /\ m.name \in MasterMetrics
<1>1. \/ k = "db" /\ m \in DbSet(s, s.dbs[o])
      \/ k = "cmdstat_" /\ m \in CmdSet(s, s.cmds[o])
      \/ k = "slave" /\ m \in ReplicaSet(s, s.replicas[o])
      \/ k \in MasterKeys /\ m \in MasterSet(s.masters[o], k)
  BY DEF LineW
<1>2. QED
  BY <1>1, SetNames

Listed(s, k, o) ==
    /\ k = "db" => o \in DOMAIN s.dbs
    /\ k = "cmdstat_" => o \in DOMAIN s.cmds
    /\ k = "slave" => o \in DOMAIN s.replicas
    /\ k \in MasterKeys => o \in DOMAIN s.masters

\* A line's mark is the number of something that is listed.
LEMMA LineListed ==
    ASSUME NEW s, NEW f, NEW o, LineOk(s, f, o)
    PROVE  Listed(s, f.k, o)
<1>1. MasterKeys \subseteq MasterBlock
  BY DEF MasterKeys, MasterBlock
<1>2. QED
  BY <1>1 DEF LineOk, Listed

\* So are the marks of the lines read.
LEMMA DoneListed ==
    ASSUME NEW s \in Facts, NEW n \in Nat, n <= Len(InfoText(s)), NEW p \in Done(s, n)
    PROVE  Listed(s, p[1], p[2]) /\ p = <<p[1], p[2]>>
<1>1. PICK a \in 1 .. n : p = <<InfoText(s)[a].k, Marks(s)[a]>>
  BY DEF Done
<1>2. a \in 1 .. Len(InfoText(s))
  BY MarksFacts
<1>3. LineOk(s, InfoText(s)[a], Marks(s)[a])
  BY <1>2, MarksFacts DEF IsText
<1>4. QED
  BY <1>1, <1>3, LineListed

\* Two lines of INFO that give one series are about replicas listed alike (info.go 353-369).
LEMMA PairsClash ==
    ASSUME NEW s \in Facts, Consistent(s), NEW k, NEW o, NEW l, NEW q, Listed(s, k, o), Listed(s, l, q),
           <<k, o>> # <<l, q>>, NEW m \in LineW(s, k, o), NEW n \in LineW(s, l, q),
           m.name = n.name, m.values = n.values
    PROVE  Clash(s, n.name)
<1>1. \/ k = "db" /\ m \in DbSet(s, s.dbs[o]) /\ m.name \in DbMetrics
      \/ k = "cmdstat_" /\ m \in CmdSet(s, s.cmds[o]) /\ m.name \in CmdMetrics
      \/ k = "slave" /\ m \in ReplicaSet(s, s.replicas[o]) /\ m.name \in ReplicaMetrics
      \/ k \in MasterKeys /\ m \in MasterSet(s.masters[o], k) /\ m.name \in MasterMetrics
  BY LineWKinds
<1>2. \/ l = "db" /\ n \in DbSet(s, s.dbs[q]) /\ n.name \in DbMetrics
      \/ l = "cmdstat_" /\ n \in CmdSet(s, s.cmds[q]) /\ n.name \in CmdMetrics
      \/ l = "slave" /\ n \in ReplicaSet(s, s.replicas[q]) /\ n.name \in ReplicaMetrics
      \/ l \in MasterKeys /\ n \in MasterSet(s.masters[q], l) /\ n.name \in MasterMetrics
  BY LineWKinds
<1>3. /\ DbMetrics \cap (CmdMetrics \cup ReplicaMetrics \cup MasterMetrics) = {}
      /\ CmdMetrics \cap (ReplicaMetrics \cup MasterMetrics) = {}
      /\ ReplicaMetrics \cap MasterMetrics = {}
  BY DEF DbMetrics, CmdMetrics, ReplicaMetrics, MasterMetrics
<1>4. CASE k = "db" /\ m \in DbSet(s, s.dbs[o]) /\ m.name \in DbMetrics
  <2>1. l = "db" /\ n \in DbSet(s, s.dbs[q])
    BY <1>2, <1>3, <1>4
  <2>2. <<Itoa(s.dbs[o].db)>> = <<Itoa(s.dbs[q].db)>>
    BY <1>4, <2>1, SetValues
  <2>3. o \in DOMAIN s.dbs /\ q \in DOMAIN s.dbs /\ o # q
    BY <1>4, <2>1 DEF Listed
  <2>4. s.dbs[o].db \in 0 .. 15 /\ s.dbs[q].db \in 0 .. 15
    BY <2>3, FactTypes, DatabasesAssumption
  <2>5. s.dbs[o].db = s.dbs[q].db
    BY <2>2, <2>4, ItoaFacts
  <2>6. QED
    BY <2>3, <2>5 DEF Consistent
<1>5. CASE k = "cmdstat_" /\ m \in CmdSet(s, s.cmds[o]) /\ m.name \in CmdMetrics
  <2>1. l = "cmdstat_" /\ n \in CmdSet(s, s.cmds[q])
    BY <1>2, <1>3, <1>5
  <2>2. <<s.cmds[o].cmd>> = <<s.cmds[q].cmd>>
    BY <1>5, <2>1, SetValues
  <2>3. o \in DOMAIN s.cmds /\ q \in DOMAIN s.cmds /\ o # q
    BY <1>5, <2>1 DEF Listed
  <2>4. QED
    BY <2>2, <2>3 DEF Consistent
<1>6. CASE k = "slave" /\ m \in ReplicaSet(s, s.replicas[o]) /\ m.name \in ReplicaMetrics
  <2>1. l = "slave" /\ n \in ReplicaSet(s, s.replicas[q])
    BY <1>2, <1>3, <1>6
  <2>2. <<s.replicas[o].ip, s.replicas[o].port, s.replicas[o].state>>
        = <<s.replicas[q].ip, s.replicas[q].port, s.replicas[q].state>>
    BY <1>6, <2>1, SetValues
  <2>3. o \in DOMAIN s.replicas /\ q \in DOMAIN s.replicas /\ o # q
    BY <1>6, <2>1 DEF Listed
  <2>4. QED
    BY <1>6, <2>2, <2>3 DEF Clash, Alike
<1>7. CASE k \in MasterKeys /\ m \in MasterSet(s.masters[o], k) /\ m.name \in MasterMetrics
  <2>1. l \in MasterKeys /\ n \in MasterSet(s.masters[q], l)
    BY <1>2, <1>3, <1>7
  <2>2. /\ <<s.masters[o].host, s.masters[o].port>> = <<s.masters[q].host, s.masters[q].port>>
        /\ m.name = IF k = "master_link_status" THEN "master_link_up" ELSE k
        /\ n.name = IF l = "master_link_status" THEN "master_link_up" ELSE l
    BY <1>7, <2>1, SetValues
  <2>3. k = l
    <3>1. k # "master_link_up" /\ l # "master_link_up"
      BY <1>7, <2>1 DEF MasterKeys
    <3>2. CASE k = "master_link_status"
      BY <2>2, <3>1, <3>2
    <3>3. CASE k # "master_link_status"
      BY <2>2, <3>1, <3>3
    <3>4. QED
      BY <3>2, <3>3
  <2>4. o \in DOMAIN s.masters /\ q \in DOMAIN s.masters /\ o # q
    BY <1>7, <2>1, <2>3 DEF Listed
  <2>5. QED
    BY <2>2, <2>4 DEF Consistent
<1>8. QED
  BY <1>1, <1>4, <1>5, <1>6, <1>7

\* A line of INFO keeps Once: its series are its own, or those of a replica listed twice.
LEMMA OnceInfoLine ==
    ASSUME Base, Exact, Once, InfoLine, Same
    PROVE  Once'
<1> DEFINE T == InfoText(sv)
           g == Gone(todo, T)
           f == Head(todo)
           o == Marks(sv)[g + 1]
           D == Done(sv, g)
           E == Done(sv, g + 1)
           N == LineMetrics(parse, f)
<1>1. /\ UNCHANGED <<section, sv, opts>> /\ section = "info" /\ Sends(exp, exp', N)
      /\ g \in Nat /\ g < Len(T) /\ f = T[g + 1] /\ Steps(sv, D, E, f, o, parse)
      /\ Gone(todo', T) = g + 1
  BY BaseInfoLine
<1>2. sv \in Facts /\ Consistent(sv) /\ Len(T) \in Nat
  BY ServerFacts, MarksFacts DEF Base
<1>3. LineOk(sv, f, o) /\ D \subseteq E
  BY <1>1 DEF Steps
<1>4. \A name, vals : OldAt(sv, section, todo, name, vals) => OldAt(sv, section', todo', name, vals)
  BY <1>1, <1>3, OldInfoMoves
<1>5. CASE f.k = "#"
  <2>1. N = {}
    BY <1>5 DEF LineMetrics
  <2> HIDE DEF N, T, g, f, o, D, E
  <2>2. QED
    BY <1>1, <1>4, <2>1, OnceKept
<1>6. CASE f.k # "#"
  <2>1. E = D \cup {<<f.k, o>>} /\ <<f.k, o>> \notin D /\ parse.cls = Home(f.k)
    BY <1>1, <1>6 DEF Steps
  <2>2. \A m : m \in N /\ m.name \in Watched <=> m \in LineW(sv, f.k, o)
    BY <1>6, LineMakes
  <2>3. SecW(sv, opts, section, todo, parse, dbCount) = InfoW(sv, D)
    BY <1>1 DEF SecW, InfoPart, HistPart, ClientPart, After
  <2>4. /\ \A name : OldInfo(sv, section, todo, name) <=> name \in InfoNames /\ <<InfoSource(name), 0>> \in D
        /\ \A name : OldInfo(sv, section', todo', name) <=> name \in InfoNames /\ <<InfoSource(name), 0>> \in E
    BY <1>1 DEF OldInfo
  <2>5. \A p \in D : Listed(sv, p[1], p[2]) /\ p = <<p[1], p[2]>>
    BY <1>1, <1>2, DoneListed
  <2> HIDE DEF N, T, g, f, o, D, E
  <2>6. ASSUME NEW n \in N, n.name \notin Watched
        PROVE  /\ OldAt(sv, section', todo', n.name, n.values)
               /\ ~OldAt(sv, section, todo, n.name, n.values)
    <3>1. n.name \in InfoNames /\ InfoSource(n.name) = f.k /\ o = 0
      BY <1>2, <1>3, <1>6, <2>1, <2>6, LineSource DEF N
    <3>2. OldInfo(sv, section', todo', n.name) /\ ~OldInfo(sv, section, todo, n.name)
      BY <2>1, <2>4, <3>1
    <3>3. QED
      BY <3>1, <3>2, OldNames DEF OldAt
  <2>7. ASSUME NEW m \in InfoW(sv, D), NEW n \in N, n.name \in Watched, m.name = n.name, m.values = n.values
        PROVE  Clash(sv, n.name)
    <3>1. PICK p \in D : m \in LineW(sv, p[1], p[2])
      BY DEF InfoW
    <3>2. n \in LineW(sv, f.k, o)
      BY <2>2, <2>7
    <3>3. Listed(sv, p[1], p[2]) /\ Listed(sv, f.k, o) /\ <<p[1], p[2]>> # <<f.k, o>>
      BY <1>3, <2>1, <2>5, LineListed
    <3>4. QED
      BY <1>2, <2>7, <3>1, <3>2, <3>3, PairsClash
  <2>8. Exactly(exp, InfoW(sv, D))
    BY <2>3 DEF Exact
  <2>9. \A x \in ToSet(exp.out) : \A n \in N :
            n.name \in Watched /\ KeyOf(x) = <<n.name, n.values>> => Clash(sv, n.name)
    BY <2>7, <2>8, FreshWatched
  <2>10. QED
    BY <1>1, <1>4, <2>6, <2>9, OnceKept
<1>7. QED
  BY <1>5, <1>6

\* What the end of INFO sends: three names no line has, and databases no line was about.
LEMMA DoneNames ==
    ASSUME NEW op, NEW p, NEW d, NEW n \in DoneW(op, p, d)
    PROVE  \/ n.name \in {"latency_percentiles_usec", "instance_info", "slave_info"}
           \/ /\ n.name \in {"db_keys", "db_keys_expiring"}
              /\ \E x : x \notin p.handled /\ n.values = <<x>>
<1>1. \A a, v, w : Metric(a, v, w).name = a /\ Metric(a, v, w).values = w
  BY MetricFacts
<1>2. CASE n \in Summaries(p)
  BY <1>2, SummaryFields DEF Summaries
<1>3. CASE n \in PadsOf(p, d)
  <2>1. PICK x : /\ x \notin p.handled
                 /\ \/ n = Metric("db_keys", Whole(0), <<x>>)
                    \/ n = Metric("db_keys_expiring", Whole(0), <<x>>)
    BY <1>3 DEF PadsOf
  <2>2. QED
    BY <1>1, <2>1
<1>4. CASE n \in InstanceMetrics(p.kv)
  <2>1. n = InstanceMetric(p.kv) \/ n = SlaveMetric(p.kv)
    BY <1>4 DEF InstanceMetrics
  <2>2. InstanceMetric(p.kv).name = "instance_info" /\ SlaveMetric(p.kv).name = "slave_info"
    BY <1>1 DEF InstanceMetric, SlaveMetric
  <2>3. QED
    BY <2>1, <2>2
<1>5. n \in Summaries(p) \/ n \in PadsOf(p, d) \/ n \in InstanceMetrics(p.kv)
  BY DEF DoneW
<1>6. QED
  BY <1>2, <1>3, <1>4, <1>5

\* The end of INFO keeps Once (info.go 162-170, 209-218).
LEMMA OnceInfoDone ==
    ASSUME Base, Exact, Once, InfoDone(opts.emptyDbs), Same
    PROVE  Once'
<1> DEFINE I == InfoW(sv, InfoPairs(sv))
           N == DoneW(opts, parse, dbCount)
<1>1. /\ sv \in Facts /\ Consistent(sv) /\ section = "info" /\ section' = "latest" /\ sv' = sv
      /\ Sends(exp, exp', DoneMetrics(opts.emptyDbs)) /\ Gone(todo, InfoText(sv)) = Len(InfoText(sv))
      /\ WalkOk(sv, Len(InfoText(sv)), parse)
  BY BaseInfoDone, ServerFacts DEF Base
<1>2. DoneMetrics(opts.emptyDbs) = N
  BY DEF DoneMetrics, DoneW, Pads, PadsOf, Unlisted
<1>3. Done(sv, Gone(todo, InfoText(sv))) = InfoPairs(sv) /\ Done(sv, Len(InfoText(sv))) = InfoPairs(sv)
  BY <1>1, MarksFacts
<1>4. SecW(sv, opts, section, todo, parse, dbCount) = I
  BY <1>1, <1>3 DEF SecW, InfoPart, HistPart, ClientPart, After
<1>5. \A n \in N : n.name \in Watched
  BY DoneWatched
<1>6. \A name, vals : OldAt(sv, section, todo, name, vals) => OldAt(sv, section', todo', name, vals)
  BY <1>1, OldSection
<1>7. \A q \in DOMAIN sv.dbs : sv.kind # "later" => Itoa(sv.dbs[q].db) \in parse.handled
  <2>1. HandledOk(sv, InfoPairs(sv), parse.handled)
    BY <1>1, <1>3 DEF WalkOk
  <2>2. \A q \in DOMAIN sv.dbs : <<"db", q>> \in InfoPairs(sv)
    BY <1>1, PairsListed
  <2>3. QED
    BY <2>1, <2>2 DEF HandledOk
<1>8. ASSUME NEW m \in I, NEW n \in N, m.name = n.name, m.values = n.values
      PROVE  FALSE
  <2>1. \/ sv.kind # "later" /\ \E o \in DOMAIN sv.dbs : m \in DbSet(sv, sv.dbs[o])
        \/ \E o \in DOMAIN sv.cmds : sv.cmds[o].cmd \notin sv.brief /\ m \in CmdSet(sv, sv.cmds[o])
        \/ \E o \in DOMAIN sv.replicas : m \in ReplicaSet(sv, sv.replicas[o])
        \/ \E o \in DOMAIN sv.masters : \E k \in MasterKeys : m \in MasterSet(sv.masters[o], k)
    BY <1>1, InfoWIs
  <2>2. \/ sv.kind # "later" /\ (\E o \in DOMAIN sv.dbs : m \in DbSet(sv, sv.dbs[o])) /\ m.name \in DbMetrics
        \/ m.name \in (CmdMetrics \ {"commands_latencies_usec", "latency_percentiles_usec"})
                      \cup ReplicaMetrics \cup MasterMetrics
    BY <2>1, SetNames
  <2>3. \/ n.name \in {"latency_percentiles_usec", "instance_info", "slave_info"}
        \/ /\ n.name \in {"db_keys", "db_keys_expiring"}
           /\ \E x : x \notin parse.handled /\ n.values = <<x>>
    BY DoneNames
  <2>4. CASE m.name \in (CmdMetrics \ {"commands_latencies_usec", "latency_percentiles_usec"})
                        \cup ReplicaMetrics \cup MasterMetrics
    BY <1>8, <2>3, <2>4 DEF CmdMetrics, ReplicaMetrics, MasterMetrics
  <2>5. CASE sv.kind # "later" /\ (\E o \in DOMAIN sv.dbs : m \in DbSet(sv, sv.dbs[o])) /\ m.name \in DbMetrics
    <3>1. PICK o \in DOMAIN sv.dbs : m \in DbSet(sv, sv.dbs[o])
      BY <2>5
    <3>2. m.values = <<Itoa(sv.dbs[o].db)>>
      BY <3>1, SetValues
    <3>3. \E x : x \notin parse.handled /\ n.values = <<x>>
      BY <1>8, <2>3, <2>5 DEF DbMetrics
    <3>4. PICK x : x \notin parse.handled /\ n.values = <<x>>
      BY <3>3
    <3>5. <<x>> = <<Itoa(sv.dbs[o].db)>>
      BY <1>8, <3>2, <3>4
    <3>6. x = Itoa(sv.dbs[o].db)
      BY <3>5
    <3>7. QED
      BY <1>7, <2>5, <3>4, <3>6
  <2>6. QED
    BY <2>2, <2>4, <2>5
<1> HIDE DEF I, N
<1>9. Exactly(exp, I)
  BY <1>4 DEF Exact
<1>10. \A x \in ToSet(exp.out) : \A n \in N :
           n.name \in Watched /\ KeyOf(x) = <<n.name, n.values>> => Clash(sv, n.name)
  BY <1>8, <1>9, FreshWatched
<1>11. QED
  BY <1>1, <1>2, <1>5, <1>6, <1>10, OnceKept

\* An entry of LATENCY HISTOGRAM keeps Once: the commands are different.
LEMMA OnceHistogram ==
    ASSUME Base, Exact, Once, extractLatencyHistogramMetrics
    PROVE  Once'
<1> DEFINE T == HistogramAnswer(sv)
           g == Gone(todo, T)
           h == Head(todo)
           I == InfoW(sv, InfoPairs(sv)) \cup DoneW(opts, parse, dbCount)
           W == I \cup HistW(sv, opts, g)
           N == HistogramSet(h)
<1>1. /\ section = "histogram" /\ section' = section /\ sv' = sv /\ opts' = opts
      /\ g \in Nat /\ g < Len(sv.cmds) /\ h = T[g + 1] /\ HistogramOf(sv, opts) = T
      /\ Sends(exp, exp', N)
  BY BaseHistogram
<1>2. sv \in Facts /\ Consistent(sv) /\ DOMAIN sv.cmds = 1 .. Len(sv.cmds) /\ Len(sv.cmds) \in Nat
  BY ServerFacts, FactSeqs, SeqFacts DEF Base
<1>3. SecW(sv, opts, section, todo, parse, dbCount) = W
  BY <1>1 DEF SecW, InfoPart, HistPart, ClientPart, After
<1>4. \A name, vals : OldAt(sv, section, todo, name, vals) => OldAt(sv, section', todo', name, vals)
  BY <1>1, OldHistogramMoves
<1>5. \A i \in 1 .. Len(sv.cmds) : T[i].cmd = sv.cmds[i].cmd
  BY <1>2, HistogramLines
<1> HIDE DEF T, g, h
<1>6. ASSUME NEW n \in N
      PROVE  n.name = "commands_latencies_usec" /\ n.values = <<sv.cmds[g + 1].cmd>> /\ n.name \in Watched
  <2>1. n = Histogram(h)
    BY DEF HistogramSet
  <2>2. n.name = "commands_latencies_usec" /\ n.values = <<h.cmd>>
    BY <2>1, HistogramFields
  <2>3. h.cmd = sv.cmds[g + 1].cmd
    BY <1>1, <1>2, <1>5
  <2>4. QED
    BY <2>2, <2>3 DEF Watched, CmdMetrics
<1>7. ASSUME NEW m \in I
      PROVE  m.name # "commands_latencies_usec"
  <2>1. CASE m \in InfoW(sv, InfoPairs(sv))
    <3>1. \/ \E o \in DOMAIN sv.dbs : m \in DbSet(sv, sv.dbs[o])
          \/ \E o \in DOMAIN sv.cmds : m \in CmdSet(sv, sv.cmds[o])
          \/ \E o \in DOMAIN sv.replicas : m \in ReplicaSet(sv, sv.replicas[o])
          \/ \E o \in DOMAIN sv.masters : \E k \in MasterKeys : m \in MasterSet(sv.masters[o], k)
      BY <1>2, <2>1, InfoWIs
    <3>2. m.name \in DbMetrics \cup (CmdMetrics \ {"commands_latencies_usec", "latency_percentiles_usec"})
                     \cup ReplicaMetrics \cup MasterMetrics
      BY <3>1, SetNames
    <3>3. QED
      BY <3>2 DEF DbMetrics, ReplicaMetrics, MasterMetrics
  <2>2. CASE m \in DoneW(opts, parse, dbCount)
    BY <2>2, DoneNames
  <2>3. QED
    BY <2>1, <2>2
<1>8. ASSUME NEW m \in HistW(sv, opts, g)
      PROVE  \E i \in 1 .. g : m.values = <<sv.cmds[i].cmd>>
  <2>1. PICK i \in 1 .. g : m = HistOf(sv, T[i])
    BY <1>1 DEF HistW
  <2>2. m.values = <<T[i].cmd>>
    BY <2>1 DEF HistOf, Distribution
  <2>3. QED
    BY <1>1, <1>2, <1>5, <2>2
<1>9. ASSUME NEW m \in W, NEW n \in N, m.name = n.name, m.values = n.values
      PROVE  FALSE
  <2>1. m \in HistW(sv, opts, g)
    BY <1>6, <1>7, <1>9
  <2>2. PICK i \in 1 .. g : m.values = <<sv.cmds[i].cmd>>
    BY <1>8, <2>1
  <2>3. sv.cmds[i].cmd = sv.cmds[g + 1].cmd
    <3>1. <<sv.cmds[i].cmd>> = <<sv.cmds[g + 1].cmd>>
      BY <1>6, <1>9, <2>2
    <3>2. QED
      BY <3>1
  <2>4. i \in DOMAIN sv.cmds /\ g + 1 \in DOMAIN sv.cmds /\ i # g + 1
    BY <1>1, <1>2
  <2>5. QED
    BY <1>2, <2>3, <2>4 DEF Consistent
<1>10. \A n \in N : n.name \in Watched
  BY <1>6
<1> HIDE DEF I, W, N
<1>11. Exactly(exp, W)
  BY <1>3 DEF Exact
<1>12. \A x \in ToSet(exp.out) : \A n \in N :
           n.name \in Watched /\ KeyOf(x) = <<n.name, n.values>> => Clash(sv, n.name)
  BY <1>9, <1>11, FreshWatched
<1>13. QED
  BY <1>1, <1>4, <1>10, <1>12, OnceKept

\* A client keeps Once: the ids are different (clients.go 135-250).
LEMMA OnceClient ==
    ASSUME Base, Exact, Once, parseConnectedClientMetrics
    PROVE  Once'
<1> DEFINE T == ClientText(sv)
           g == Gone(todo, T)
           v == Head(todo).v
           I == InfoW(sv, InfoPairs(sv)) \cup DoneW(opts, parse, dbCount)
           H == HistW(sv, opts, Len(HistogramOf(sv, opts)))
           W == I \cup H \cup ClientW(sv, opts, g)
           N == ClientSet(v)
           Id(i) == sv.clients[i].id
<1>1. /\ section = "clients" /\ section' = section /\ sv' = sv /\ opts' = opts
      /\ g \in Nat /\ g < Len(sv.clients) /\ Head(todo) = T[g + 1] /\ ClientsOf(sv, opts) = T
      /\ Gone(todo', T) = g + 1 /\ Sends(exp, exp', N)
  BY BaseClient
<1>2. sv \in Facts /\ Consistent(sv) /\ DOMAIN sv.clients = 1 .. Len(sv.clients) /\ Len(sv.clients) \in Nat
  BY ServerFacts, FactSeqs, SeqFacts DEF Base
<1>3. SecW(sv, opts, section, todo, parse, dbCount) = W
  BY <1>1 DEF SecW, InfoPart, HistPart, ClientPart, After
<1>4. \A name, vals : OldAt(sv, section, todo, name, vals) => OldAt(sv, section', todo', name, vals)
  BY <1>1, OldClientMoves
<1>5. \A i \in 1 .. Len(sv.clients) : Text(T[i].v, "id") = Id(i)
  <2>1. SUFFICES ASSUME NEW i \in 1 .. Len(sv.clients) PROVE Text(T[i].v, "id") = Id(i)
    OBVIOUS
  <2>2. T[i] = ClientLine(sv, sv.clients[i])
    BY <1>2, ClientAt
  <2>3. T[i].v = ClientLine(sv, sv.clients[i]).v
    BY <2>2
  <2>4. QED
    <3> HIDE DEF T
    <3>1. \A c, w : w = ClientLine(sv, c).v => Text(w, "id") = c.id
      BY ONLY ClientLineFacts, ZenonT(60)
    <3>2. QED
      BY <2>3, <3>1
<1>6. \A i \in 1 .. g : Id(i) # Id(g + 1)
  <2>1. SUFFICES ASSUME NEW i \in 1 .. g PROVE Id(i) # Id(g + 1)
    OBVIOUS
  <2>2. i \in DOMAIN sv.clients /\ g + 1 \in DOMAIN sv.clients /\ i # g + 1
    BY <1>1, <1>2
  <2>3. QED
    BY <1>2, <2>2 DEF Consistent
<1>7. /\ \A name, vals : OldClient(sv, section, todo, name, vals) <=>
                             name \in ClientNames /\ \E i \in 1 .. g : vals[1] = Id(i)
      /\ \A name, vals : OldClient(sv, section', todo', name, vals) <=>
                             name \in ClientNames /\ \E i \in 1 .. g + 1 : vals[1] = Id(i)
  BY <1>1 DEF OldClient
<1>8. Text(v, "id") = Id(g + 1)
  <2>1. v = T[g + 1].v /\ g + 1 \in 1 .. Len(sv.clients)
    BY <1>1, <1>2
  <2> HIDE DEF Id, T, g, v
  <2>2. QED
    BY <1>5, <2>1
<1> HIDE DEF T, g, v, Id
<1>9. ASSUME NEW n \in N
      PROVE  /\ n.values[1] = Id(g + 1)
             /\ n.name = "connected_client_info" \/ n.name \in ClientNames
  <2>1. n = ClientMetric(v) \/ n \in ToSet(clientMetrics(v))
    BY DEF ClientSet
  <2>2. CASE n = ClientMetric(v)
    <3>1. n.name = "connected_client_info" /\ n.values = clientValues(v)
      BY <2>2, MetricFacts DEF ClientMetric
    <3>2. clientValues(v)[1] = Text(v, "id")
      BY ClientLabelFacts
    <3>3. QED
      BY <1>8, <3>1, <3>2
  <2>3. CASE n \in ToSet(clientMetrics(v))
    <3>1. n.name \in ClientNames /\ n.values = <<Text(v, "id"), Text(v, "name")>>
      BY <2>3, ClientNumbersSent
    <3>2. QED
      BY <1>8, <3>1
  <2>4. QED
    BY <2>1, <2>2, <2>3
<1>10. ASSUME NEW n \in N, n.name \notin Watched
       PROVE  /\ OldAt(sv, section', todo', n.name, n.values)
              /\ ~OldAt(sv, section, todo, n.name, n.values)
  <2>1. n.name \in ClientNames /\ n.values[1] = Id(g + 1)
    BY <1>9, <1>10 DEF Watched
  <2>2. g + 1 \in 1 .. g + 1
    BY <1>1
  <2>3. OldClient(sv, section', todo', n.name, n.values)
    BY <1>7, <2>1, <2>2
  <2>4. ~OldClient(sv, section, todo, n.name, n.values)
    BY <1>6, <1>7, <2>1
  <2>5. QED
    BY <2>1, <2>3, <2>4, OldNames DEF OldAt
<1>11. ASSUME NEW m \in I \cup H
       PROVE  m.name # "connected_client_info"
  <2>1. CASE m \in InfoW(sv, InfoPairs(sv))
    <3>1. \/ \E o \in DOMAIN sv.dbs : m \in DbSet(sv, sv.dbs[o])
          \/ \E o \in DOMAIN sv.cmds : m \in CmdSet(sv, sv.cmds[o])
          \/ \E o \in DOMAIN sv.replicas : m \in ReplicaSet(sv, sv.replicas[o])
          \/ \E o \in DOMAIN sv.masters : \E k \in MasterKeys : m \in MasterSet(sv.masters[o], k)
      BY <1>2, <2>1, InfoWIs
    <3>2. m.name \in DbMetrics \cup CmdMetrics \cup ReplicaMetrics \cup MasterMetrics
      BY <3>1, SetNames
    <3>3. QED
      BY <3>2 DEF DbMetrics, CmdMetrics, ReplicaMetrics, MasterMetrics
  <2>2. CASE m \in DoneW(opts, parse, dbCount)
    BY <2>2, DoneNames
  <2>3. CASE m \in H
    <3>1. PICK h : m = HistOf(sv, h)
      BY <2>3 DEF HistW
    <3>2. QED
      BY <3>1 DEF HistOf, Distribution
  <2>4. QED
    BY <2>1, <2>2, <2>3
<1>12. ASSUME NEW m \in ClientW(sv, opts, g)
       PROVE  \E i \in 1 .. g : m.values[1] = Id(i)
  <2>1. PICK i \in 1 .. g : m = ClientOf(opts, T[i].v)
    BY <1>1 DEF ClientW
  <2>2. m.values = clientValues(T[i].v)
    BY <2>1, ClientFields
  <2>3. clientValues(T[i].v)[1] = Text(T[i].v, "id")
    BY ClientLabelFacts
  <2>4. i \in 1 .. Len(sv.clients)
    BY <1>1, <1>2
  <2>5. QED
    BY <1>5, <2>2, <2>3, <2>4
<1>13. ASSUME NEW m \in W, NEW n \in N, n.name \in Watched, m.name = n.name, m.values = n.values
       PROVE  FALSE
  <2>1. n.name = "connected_client_info"
    BY <1>9, <1>13, ClientNamesUnwatched
  <2>2. m \in ClientW(sv, opts, g)
    BY <1>11, <1>13, <2>1
  <2>3. QED
    BY <1>6, <1>9, <1>12, <1>13, <2>2
<1> HIDE DEF I, H, W, N
<1>14. Exactly(exp, W)
  BY <1>3 DEF Exact
<1>15. \A x \in ToSet(exp.out) : \A n \in N :
           n.name \in Watched /\ KeyOf(x) = <<n.name, n.values>> => Clash(sv, n.name)
  BY <1>13, <1>14, FreshWatched
<1>16. QED
  BY <1>1, <1>4, <1>10, <1>15, OnceKept

\* The first scrape begins without series.
LEMMA OnceInit == Init => Once
<1>1. HAVE Init
<1>2. exp.out = <<>>
  BY <1>1 DEF Init, NewExporter
<1>3. DOMAIN exp.out = {} /\ ToSet(exp.out) = {}
  BY <1>2, ShortSeqs
<1>4. QED
  BY <1>3 DEF Once, Unique, Read

\* A stuttering step keeps Once.
LEMMA OnceSame ==
    ASSUME Once, UNCHANGED vars
    PROVE  Once'
BY DEF Once, vars, infoVars

\* Every step keeps Once.
LEMMA OnceNext == Base /\ Exact /\ Once /\ [Next]_vars => Once'
<1>1. SUFFICES ASSUME Base, Exact, Once, [Next]_vars
               PROVE  Once'
  OBVIOUS
<1>2. CASE extractConfigMetrics
  BY <1>1, <1>2, OnceConfig
<1>3. CASE FetchInfo
  BY <1>1, <1>3, OnceFetchInfo
<1>4. CASE extractClusterInfoMetrics
  BY <1>1, <1>4, OnceCluster
<1>5. CASE Info
  BY <1>1, <1>5, OnceInfoLine, OnceInfoDone DEF Info
<1>6. CASE extractLatencyLatestMetrics
  BY <1>1, <1>6, OnceLatest
<1>7. CASE extractLatencyHistogramMetrics
  BY <1>1, <1>7, OnceHistogram
<1>8. CASE FetchClients
  BY <1>1, <1>8, OnceFetchClients
<1>9. CASE parseConnectedClientMetrics
  BY <1>1, <1>9, OnceClient
<1>10. CASE FetchTile38
  BY <1>1, <1>10, OnceFetchTile38
<1>11. CASE extractTile38Metrics
  BY <1>1, <1>11, OnceTile38
<1>12. CASE FetchModules
  BY <1>1, <1>12, OnceFetchModules
<1>13. CASE extractModulesMetrics
  BY <1>1, <1>13, OnceModules
<1>14. CASE EndScrape
  BY <1>1, <1>14, OnceEndScrape
<1>15. CASE NextScrape
  BY <1>1, <1>15, OnceNextScrape
<1>16. CASE Terminated \/ UNCHANGED vars
  BY <1>1, <1>16, OnceSame DEF Terminated
<1>17. QED
  BY <1>1, <1>2, <1>3, <1>4, <1>5, <1>6, <1>7, <1>8, <1>9, <1>10, <1>11, <1>12, <1>13, <1>14, <1>15, <1>16 DEF Next

\* Base, Exact and Once are invariants.
LEMMA OnceAlways == Spec => [](Base /\ Exact /\ Once)
<1>1. Init => Base /\ Exact /\ Once
  BY BaseInit, ExactInit, OnceInit
<1>2. Base /\ Exact /\ Once /\ [Next]_vars => (Base /\ Exact /\ Once)'
  BY BaseStep, ExactNext, OnceNext
<1>3. QED
  BY <1>1, <1>2, PTL DEF Spec

\* Series with the same labels have the same key.
LEMMA OnceAtEnd ==
    ASSUME Once
    PROVE  NoDuplicates
<1>1. SUFFICES ASSUME NEW i \in DOMAIN exp.out, NEW j \in DOMAIN exp.out, i < j,
                      exp.out[i].name = exp.out[j].name, exp.out[i].lbls = exp.out[j].lbls
               PROVE  /\ exp.out[i].name \in ReplicaMetrics
                      /\ Alike(sv)
  BY DEF NoDuplicates, Alike
<1>2. KeyOf(exp.out[i]) = KeyOf(exp.out[j])
  BY <1>1 DEF KeyOf, ValuesOf
<1>3. Clash(sv, exp.out[i].name)
  BY <1>1, <1>2 DEF Once, Unique
<1>4. QED
  BY <1>3 DEF Clash

\* No series is sent twice in one scrape but for replicas the server lists alike (info.go 353-369):
\* every line is read once, no two lines of any section give one series, and the empty databases
\* are the ones no line was about.
THEOREM NoDuplicatesCorrect == Spec => []NoDuplicates
<1>1. Base /\ Exact /\ Once => NoDuplicates
  BY OnceAtEnd
<1>2. QED
  BY <1>1, OnceAlways, PTL
=============================================================================
