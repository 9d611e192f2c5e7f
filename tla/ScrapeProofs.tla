---------------------------- MODULE ScrapeProofs ----------------------------
(***************************************************************************)
(* What a scrape keeps invariant, for any options, any server and any      *)
(* number of scripts.                                                      *)
(***************************************************************************)
EXTENDS Scrape, TLAPS

\* Where the scrape is once extractInfoMetrics has run.
Informed == {"keyConn", "checkKeys", "countKeys", "streams", "slowlog", "keyGroups",
             "extras", "scripts"}

\* Until the deferred functions run, they cover every open connection.
Covered == IF pc = "done" THEN open = {} ELSE open \subseteq defers

\* Which scripts have run, and what the place in the code says of INFO.
Progress ==
    /\ left \subseteq options.scripts /\ ran \subseteq options.scripts /\ ran \cap left = {}
    /\ pc # "return" /\ pc # "done" => result = "none" /\ options.scripts = left \cup ran
    /\ pc = "return" \/ pc = "done" => result \in {"nil", "err"}
    /\ pc \in Informed => "info" \in exported
    /\ pc \notin Informed \cup {"return", "done"} => "info" \notin exported

\* What scrapeRedisHost returns says whether INFO was exported and all scripts ran.
Returned ==
    /\ result = "nil" => "info" \in exported /\ ran = options.scripts
    /\ result = "err" => ~("info" \in exported /\ ran = options.scripts)

\* Collect turns that into "up".
Reported == pc = "done" => up = IF result = "nil" THEN 1 ELSE 0

\* As long as nothing is lost the connections hold: the first one from Connect to the
\* deferred functions, the one for the keys while they are gathered.
Gathering == {"checkKeys", "countKeys", "streams"}

Held ==
    ~lost => /\ alive = open
             /\ pc \notin {"connect", "return", "done"} => "c" \in open
             /\ pc \in Gathering => keyConn \in open

\* Keys are gathered where the role is not spared, and nothing but a pipelined SELECT
\* or key that was rejected leaves an error pending.
Clean == (pc \in Gathering => ~Spared) /\ (dirty => Poisoned)

\* The scrapes SectionsIndependent is about.
Undisturbed == ~lost /\ ~Poisoned /\ ~NoDatabases

\* The number of databases is known after CONFIG where CONFIG tells it, and everywhere
\* from CLUSTER INFO on.
Counted ==
    Undisturbed =>
        /\ (pc \in {"info", "cluster"} /\ options.config /\ "CONFIG" \notin server.denied
            /\ server.config = "databases") => dbCount > 0
        /\ pc \in Informed \cup {"metrics"} => dbCount > 0

\* A section that is expected and has not been exported is still to come.
Gathered ==
    Undisturbed /\ "info" \in exported =>
        /\ "check_keys" \in Expected \ exported => pc \in {"keyConn", "checkKeys"}
        /\ "keys_count" \in Expected \ exported => pc \in {"keyConn", "checkKeys", "countKeys"}
        /\ "streams" \in Expected \ exported => pc \in {"keyConn"} \cup Gathering
        /\ \A s \in {"slowlog_length", "slowlog_last_id"} :
              s \in Expected \ exported => pc \in {"keyConn", "slowlog"} \cup Gathering
        /\ "key_groups" \in Expected \ exported => pc \in Informed \ {"extras", "scripts"}
        /\ \A s \in Extras : s \in Expected \ exported => pc \in Informed \ {"scripts"}

IInv == /\ TypeOK /\ Covered /\ Progress /\ Returned /\ Reported
        /\ Held /\ Clean /\ Counted /\ Gathered

-----------------------------------------------------------------------------
\* A connection that is made keeps the types of what it changes.
LEMMA OpenType ==
    ASSUME TypeOK, NEW x \in Conns, Open(x)
    PROVE  open' \subseteq Conns /\ alive' \subseteq open' /\ defers' \subseteq Conns
BY DEF TypeOK, Open

\* CLUSTER INFO sets the number of databases and exports its own section, or not.
LEMMA ClusterInfoEffect ==
    ASSUME ClusterInfo
    PROVE  /\ dbCount' \in {1, dbCount, DefaultDbs}
           /\ exported' = exported \cup {"cluster_info"} \/ exported' = exported
           /\ pc = "cluster" /\ pc' = "metrics"
           /\ UNCHANGED <<options, server, open, alive, defers, dirty, left, ran,
                          result, up, lost>>
<1>1. CASE server.clusterEnabled /\ Ok("c", "CLUSTER_INFO")
  BY <1>1, Zenon DEF ClusterInfo, Export, Continue
<1>2. CASE server.clusterEnabled /\ ~Ok("c", "CLUSTER_INFO")
  BY <1>2, Zenon DEF ClusterInfo, Export, Continue
<1>3. CASE ~server.clusterEnabled
  BY <1>3, Zenon DEF ClusterInfo, Export, Continue
<1>4. QED
  BY <1>1, <1>2, <1>3

\* The initial state satisfies the invariant.
LEMMA IInvInit == Init => IInv
<1> SUFFICES ASSUME Init PROVE IInv
  OBVIOUS
<1>1. options.scripts \subseteq Scripts
  BY OptionsAssumption DEF Init, OptionSet
<1>2. TypeOK
  BY <1>1 DEF Init, TypeOK, Conns, Labels, Sections
<1>3. Covered /\ Progress /\ Returned /\ Reported
  BY DEF Init, Covered, Progress, Returned, Reported, Informed
<1>4. Held /\ Clean /\ Counted /\ Gathered
  BY DEF Init, Held, Clean, Counted, Gathered, Gathering, Informed
<1>5. QED
  BY <1>2, <1>3, <1>4 DEF IInv

\* Every step of a scrape keeps the types.
LEMMA TypeStep == TypeOK /\ [Next]_vars => TypeOK'
<1> SUFFICES ASSUME TypeOK, [Next]_vars PROVE TypeOK'
  OBVIOUS
<1> USE DEF TypeOK, Labels, Sections, Extras, Continue, Return, Export
<1>1. CASE UNCHANGED vars
  BY <1>1 DEF vars
<1>2. CASE Connect
  BY <1>2, OpenType DEF Connect, Conns
<1>3. CASE Ping
  BY <1>3 DEF Ping
<1>4. CASE Config
  <2>1. server.dbs \in Nat
    BY ServersAssumption DEF ServerSet
  <2>2. QED
    BY <1>4, <2>1 DEF Config, extractConfigMetrics
<1>5. CASE Info
  BY <1>5 DEF Info
<1>6. CASE ClusterInfo
  <2>1. dbCount' \in Nat
    BY <1>6, ClusterInfoEffect, DefaultAssumption
  <2>2. exported' \subseteq Sections
    BY <1>6, ClusterInfoEffect
  <2>3. QED
    BY <1>6, <2>1, <2>2, ClusterInfoEffect
<1>7. CASE InfoMetrics
  BY <1>7 DEF InfoMetrics
<1>8. CASE KeyConn
  BY <1>8, OpenType DEF KeyConn, Conns
<1>9. CASE CheckKeys
  BY <1>9 DEF CheckKeys
<1>10. CASE CountKeys
  <2>1. (dirty /\ ~options.countKeys) \in BOOLEAN
    OBVIOUS
  <2>2. QED
    BY <1>10, <2>1 DEF CountKeys
<1>11. CASE Streams
  <2>1. (dirty /\ ~options.streams) \in BOOLEAN
    OBVIOUS
  <2>2. QED
    BY <1>11, <2>1 DEF Streams
<1>12. CASE SlowLog
  BY <1>12 DEF SlowLog
<1>13. CASE KeyGroups
  BY <1>13, OpenType DEF KeyGroups, Conns
<1>14. CASE ExtraSections
  <2>1. options.extras \subseteq Extras
    BY OptionsAssumption DEF OptionSet
  <2>2. QED
    BY <1>14, <2>1 DEF ExtraSections, Succeed
<1>15. CASE Script
  BY <1>15 DEF Script
<1>16. CASE ScriptsDone
  BY <1>16 DEF ScriptsDone
<1>17. CASE Finish
  BY <1>17 DEF Finish
<1>18. CASE Lose
  BY <1>18 DEF Lose
<1>19. CASE Terminated
  BY <1>19 DEF Terminated, vars
<1>20. QED
  BY <1>1, <1>2, <1>3, <1>4, <1>5, <1>6, <1>7, <1>8, <1>9, <1>10, <1>11, <1>12, <1>13,
     <1>14, <1>15, <1>16, <1>17, <1>18, <1>19 DEF Next, Step

\* A connection is only ever opened together with the deferred call that closes it.
LEMMA CoveredStep == TypeOK /\ Covered /\ [Next]_vars => Covered'
<1> SUFFICES ASSUME TypeOK, Covered, [Next]_vars PROVE Covered'
  OBVIOUS
<1> USE DEF Covered, Continue, Return, Open
<1>1. CASE UNCHANGED vars \/ Terminated
  BY <1>1 DEF vars, Terminated
<1>2. CASE Connect \/ KeyConn \/ KeyGroups
  BY <1>2 DEF Connect, KeyConn, KeyGroups
<1>3. CASE Ping \/ Config \/ Info \/ ClusterInfo \/ InfoMetrics
  BY <1>3 DEF Ping, Config, Info, ClusterInfo, InfoMetrics
<1>4. CASE CheckKeys \/ CountKeys \/ Streams \/ SlowLog \/ ExtraSections
  BY <1>4 DEF CheckKeys, CountKeys, Streams, SlowLog, ExtraSections
<1>5. CASE Script \/ ScriptsDone
  BY <1>5 DEF Script, ScriptsDone
<1>6. CASE Finish
  BY <1>6 DEF Finish
<1>7. CASE Lose
  BY <1>7 DEF Lose
<1>8. QED
  BY <1>1, <1>2, <1>3, <1>4, <1>5, <1>6, <1>7 DEF Next, Step

-----------------------------------------------------------------------------
\* What the steps say about INFO, the scripts and the result.
Facts == Progress /\ Returned /\ Reported

\* The steps before INFO is exported: they end the scrape with an error, or go on.
LEMMA BeforeInfo ==
    ASSUME TypeOK, Facts,
           Connect \/ Ping \/ Config \/ Info \/ ClusterInfo \/ InfoMetrics
    PROVE  Facts'
<1> USE DEF Facts, Progress, Returned, Reported, Informed, Continue, Return, Export
<1>1. CASE Connect
  BY <1>1 DEF Connect
<1>2. CASE Ping
  BY <1>2 DEF Ping
<1>3. CASE Config
  BY <1>3 DEF Config
<1>4. CASE Info
  BY <1>4 DEF Info
<1>5. CASE ClusterInfo
  BY <1>5, ClusterInfoEffect
<1>6. CASE InfoMetrics
  BY <1>6 DEF InfoMetrics
<1>7. QED
  BY <1>1, <1>2, <1>3, <1>4, <1>5, <1>6

\* The sections after it: none of them returns.
LEMMA AfterInfo ==
    ASSUME TypeOK, Facts,
           KeyConn \/ CheckKeys \/ CountKeys \/ Streams \/ SlowLog \/ KeyGroups \/ ExtraSections
    PROVE  Facts'
<1> USE DEF Facts, Progress, Returned, Reported, Informed, Continue, Export
<1>1. CASE KeyConn
  BY <1>1 DEF KeyConn
<1>2. CASE CheckKeys
  BY <1>2 DEF CheckKeys
<1>3. CASE CountKeys
  BY <1>3 DEF CountKeys
<1>4. CASE Streams
  BY <1>4 DEF Streams
<1>5. CASE SlowLog
  BY <1>5 DEF SlowLog
<1>6. CASE KeyGroups
  BY <1>6 DEF KeyGroups
<1>7. CASE ExtraSections
  BY <1>7 DEF ExtraSections
<1>8. QED
  BY <1>1, <1>2, <1>3, <1>4, <1>5, <1>6, <1>7

\* The scripts and the end: a script that fails is neither left nor run, so that not
\* all scripts have run when the scrape returns an error.
LEMMA ScriptsAndEnd ==
    ASSUME TypeOK, Facts, Script \/ ScriptsDone \/ Finish
    PROVE  Facts'
<1> USE DEF Facts, Progress, Returned, Reported, Informed, Continue, Return
<1>1. CASE Script
  <2>1. PICK s \in left :
          /\ left' = left \ {s}
          /\ \/ ran' = ran \cup {s} /\ pc' = "scripts" /\ result' = result
             \/ ran' = ran /\ pc' = "return" /\ result' = "err"
    BY <1>1 DEF Script, extractLuaScriptMetrics
  <2>2. pc = "scripts" /\ UNCHANGED <<options, exported, up>>
    BY <1>1 DEF Script
  <2>3. s \in options.scripts /\ s \notin ran
    BY <2>1
  <2>4. QED
    BY <2>1, <2>2, <2>3
<1>2. CASE ScriptsDone
  BY <1>2 DEF ScriptsDone
<1>3. CASE Finish
  BY <1>3 DEF Finish
<1>4. QED
  BY <1>1, <1>2, <1>3

-----------------------------------------------------------------------------
\* The options and the server stay what they are during a scrape, and so does all that
\* is defined from them; what is lost stays lost.
LEMMA Fixed ==
    ASSUME [Next]_vars
    PROVE  /\ options' = options /\ server' = server
           /\ keyConn' = keyConn /\ Expected' = Expected
           /\ (Spared' <=> Spared) /\ (Poisoned' <=> Poisoned) /\ (NoDatabases' <=> NoDatabases)
           /\ lost => lost'
<1>1. options' = options /\ server' = server /\ (lost => lost')
  <2>1. CASE Connect \/ Ping \/ Config \/ Info
    BY <2>1 DEF Connect, Ping, Config, Info
  <2>2. CASE ClusterInfo \/ InfoMetrics \/ KeyConn \/ CheckKeys
    BY <2>2 DEF ClusterInfo, InfoMetrics, KeyConn, CheckKeys
  <2>3. CASE CountKeys \/ Streams \/ SlowLog \/ KeyGroups \/ ExtraSections
    BY <2>3 DEF CountKeys, Streams, SlowLog, KeyGroups, ExtraSections
  <2>4. CASE Script \/ ScriptsDone \/ Finish \/ Lose \/ Terminated \/ UNCHANGED vars
    BY <2>4 DEF Script, ScriptsDone, Finish, Lose, Terminated, vars
  <2>5. QED
    BY <2>1, <2>2, <2>3, <2>4 DEF Next, Step
<1>2. keyConn' = keyConn /\ (Spared' <=> Spared)
  BY <1>1, Zenon DEF keyConn, Spared
<1>3. Expected' = Expected
  BY <1>1, <1>2, Zenon DEF Expected
<1>4. (Poisoned' <=> Poisoned) /\ (NoDatabases' <=> NoDatabases)
  BY <1>1, <1>2, Zenon DEF Poisoned, NoDatabases
<1>5. QED
  BY <1>1, <1>2, <1>3, <1>4, Zenon

\* What it takes for a section to be expected.
LEMMA ExpectedMeaning ==
    ASSUME TypeOK
    PROVE  /\ "check_keys" \in Expected => options.checkKeys /\ ~Spared
           /\ "keys_count" \in Expected =>
                 options.countKeys /\ "SELECT" \notin server.denied /\ ~Spared
           /\ "streams" \in Expected =>
                 options.streams /\ "SELECT" \notin server.denied /\ ~Spared
           /\ \A s \in {"slowlog_length", "slowlog_last_id"} :
                 s \in Expected => "SLOWLOG" \notin server.denied
           /\ "key_groups" \in Expected =>
                 options.keyGroups /\ {"SELECT", "EVAL"} \cap server.denied = {}
           /\ \A s \in Extras : s \in Expected =>
                 /\ s \in options.extras \cup (IF server.sentinel THEN {"sentinel"} ELSE {})
                 /\ s \notin server.denied
           /\ Expected \subseteq Extras \cup {"check_keys", "keys_count", "streams",
                 "slowlog_length", "slowlog_last_id", "key_groups"}
<1>1. options.extras \subseteq Extras
  BY OptionsAssumption DEF TypeOK, OptionSet
<1>2. QED
  BY <1>1 DEF Expected, Extras

\* Every step keeps the connections open that the next one needs.
LEMMA HeldStep ==
    ASSUME TypeOK, Held, [Next]_vars
    PROVE  Held'
<1> USE Fixed DEF Held, Gathering, Continue, Return, Open
<1>1. CASE Connect
  BY <1>1 DEF Connect
<1>2. CASE KeyConn
  BY <1>2 DEF KeyConn, keyConn
<1>3. CASE KeyGroups
  BY <1>3 DEF KeyGroups
<1>4. CASE Ping \/ Config \/ Info \/ ClusterInfo \/ InfoMetrics
  BY <1>4 DEF Ping, Config, Info, ClusterInfo, InfoMetrics
<1>5. CASE CheckKeys \/ CountKeys \/ Streams \/ SlowLog \/ ExtraSections
  BY <1>5 DEF CheckKeys, CountKeys, Streams, SlowLog, ExtraSections
<1>6. CASE Script \/ ScriptsDone \/ Finish
  BY <1>6 DEF Script, ScriptsDone, Finish
<1>7. CASE Lose \/ Terminated \/ UNCHANGED vars
  BY <1>7 DEF Lose, Terminated, vars
<1>8. QED
  BY <1>1, <1>2, <1>3, <1>4, <1>5, <1>6, <1>7 DEF Next, Step

\* Only CheckKeys leaves an error pending, and only after a rejected SELECT or key.
LEMMA CleanStep ==
    ASSUME TypeOK, Clean, [Next]_vars
    PROVE  Clean'
<1> USE Fixed DEF Clean, Gathering, Continue, Return
<1>1. CASE KeyConn
  <2>1. server.role \in {"master", "slave"}
    BY ServersAssumption DEF TypeOK, ServerSet
  <2>2. QED
    BY <1>1, <2>1 DEF KeyConn, Spared
<1>2. CASE CheckKeys
  <2>1. pc' = "countKeys" /\ ~Spared
    BY <1>2 DEF CheckKeys
  <2>2. ASSUME dirty' PROVE dirty \/ Poisoned
    BY <1>2, <2>1, <2>2 DEF CheckKeys, Poisoned
  <2>3. QED
    BY <2>1, <2>2
<1>3. CASE CountKeys \/ Streams \/ SlowLog
  <2>1. dirty' => dirty
    BY <1>3 DEF CountKeys, Streams, SlowLog
  <2>2. pc \in Gathering \/ pc' \notin Gathering
    BY <1>3 DEF CountKeys, Streams, SlowLog
  <2>3. QED
    BY <2>1, <2>2
<1>4. CASE Connect \/ Ping \/ Config \/ Info \/ ClusterInfo \/ InfoMetrics
  BY <1>4 DEF Connect, Ping, Config, Info, ClusterInfo, InfoMetrics
<1>5. CASE KeyGroups \/ ExtraSections \/ Script \/ ScriptsDone \/ Finish
  BY <1>5 DEF KeyGroups, ExtraSections, Script, ScriptsDone, Finish
<1>6. CASE Lose \/ Terminated \/ UNCHANGED vars
  BY <1>6 DEF Lose, Terminated, vars
<1>7. QED
  BY <1>1, <1>2, <1>3, <1>4, <1>5, <1>6 DEF Next, Step

\* On an undisturbed scrape a command on c fails for one reason only.
LEMMA OkMeaning ==
    ASSUME Held, Clean, Undisturbed, pc \notin {"connect", "return", "done"}, NEW cmd
    PROVE  Ok("c", cmd) <=> cmd \notin server.denied
BY DEF Held, Clean, Undisturbed, Ok

\* The number of databases gets known, and stays so.
LEMMA CountedStep ==
    ASSUME TypeOK, Held, Clean, Counted, [Next]_vars
    PROVE  Counted'
<1> SUFFICES ASSUME Undisturbed, Undisturbed' PROVE Counted'
  BY Fixed DEF Undisturbed, Counted
<1> USE Fixed DEF Counted, Informed, Continue, Return
<1>1. CASE Config
  <2>1. ASSUME options.config, "CONFIG" \notin server.denied, server.config = "databases"
        PROVE  dbCount' > 0
    <3>1. Ok("c", "CONFIG")
      BY <1>1, <2>1, OkMeaning DEF Config
    <3>2. server.dbs > 0
      BY ServersAssumption DEF TypeOK, ServerSet
    <3>3. QED
      BY <1>1, <2>1, <3>1, <3>2 DEF Config, extractConfigMetrics
  <2>2. pc' \in {"info", "return"}
    BY <1>1 DEF Config
  <2>3. QED
    BY <2>1, <2>2
<1>2. CASE Info
  BY <1>2 DEF Info
<1>3. CASE ClusterInfo
  <2>1. pc = "cluster" /\ pc' = "metrics"
    BY <1>3, ClusterInfoEffect
  <2>2. CASE server.clusterEnabled /\ Ok("c", "CLUSTER_INFO")
    BY <1>3, <2>1, <2>2 DEF ClusterInfo
  <2>3. CASE server.clusterEnabled /\ ~Ok("c", "CLUSTER_INFO")
    <3>1. "CLUSTER_INFO" \in server.denied
      BY <2>1, <2>3, OkMeaning
    <3>2. options.config /\ "CONFIG" \notin server.denied /\ server.config = "databases"
      BY <2>3, <3>1 DEF Undisturbed, NoDatabases
    <3>3. dbCount' = dbCount
      BY <1>3, <2>3, Zenon DEF ClusterInfo
    <3>4. QED
      BY <2>1, <3>2, <3>3
  <2>4. CASE ~server.clusterEnabled
    <3>1. dbCount' = IF dbCount = 0 THEN DefaultDbs ELSE dbCount
      BY <1>3, <2>4, Zenon DEF ClusterInfo
    <3>2. dbCount' > 0
      BY <3>1, DefaultAssumption DEF TypeOK
    <3>3. QED
      BY <2>1, <3>2
  <2>5. QED
    BY <2>2, <2>3, <2>4
<1>4. CASE Connect \/ Ping \/ InfoMetrics \/ KeyConn
  BY <1>4 DEF Connect, Ping, InfoMetrics, KeyConn
<1>5. CASE CheckKeys \/ CountKeys \/ Streams \/ SlowLog \/ KeyGroups \/ ExtraSections
  BY <1>5 DEF CheckKeys, CountKeys, Streams, SlowLog, KeyGroups, ExtraSections
<1>6. CASE Script \/ ScriptsDone \/ Finish
  BY <1>6 DEF Script, ScriptsDone, Finish
<1>7. CASE Lose \/ Terminated \/ UNCHANGED vars
  BY <1>7 DEF Lose, Terminated, vars
<1>8. QED
  BY <1>1, <1>2, <1>3, <1>4, <1>5, <1>6, <1>7 DEF Next, Step

\* A section is passed by only when it has exported what is expected of it.
LEMMA GatheredStep ==
    ASSUME TypeOK, Progress, Held, Clean, Counted, Gathered, [Next]_vars
    PROVE  Gathered'
<1> SUFFICES ASSUME Undisturbed, Undisturbed', "info" \in exported' PROVE Gathered'
  BY Fixed DEF Undisturbed, Gathered
<1> USE Fixed, ExpectedMeaning DEF Gathered, Gathering, Informed, Continue, Return, Export
<1>1. CASE Connect \/ Ping \/ Config \/ Info \/ ClusterInfo
  BY <1>1, ClusterInfoEffect DEF Connect, Ping, Config, Info, Progress
<1>2. CASE InfoMetrics
  BY <1>2 DEF InfoMetrics
<1>3. CASE KeyConn
  <2>1. pc = "keyConn" /\ exported' = exported
    BY <1>3 DEF KeyConn
  <2>2. pc' = "checkKeys" \/ (pc' = "slowlog" /\ Spared)
    <3>1. server.role \in {"master", "slave"}
      BY ServersAssumption DEF TypeOK, ServerSet
    <3>2. QED
      BY <1>3, <3>1 DEF KeyConn, Spared, Undisturbed
  <2>3. QED
    BY <2>1, <2>2 DEF Progress
<1>4. CASE CheckKeys
  <2>1. pc = "checkKeys" /\ pc' = "countKeys" /\ exported \subseteq exported'
    BY <1>4 DEF CheckKeys
  <2>2. ASSUME "check_keys" \in Expected PROVE "check_keys" \in exported'
    <3>1. options.checkKeys /\ ~Spared /\ keyConn \in alive
      BY <2>1, <2>2 DEF Held, Undisturbed
    <3>2. options.cluster \/ ("SELECT" \notin server.denied /\ ~server.rejectsKeys)
      BY <3>1 DEF Undisturbed, Poisoned
    <3>3. QED
      BY <1>4, <3>1, <3>2 DEF CheckKeys
  <2>3. QED
    BY <2>1, <2>2 DEF Progress
<1>5. CASE CountKeys
  <2>1. pc = "countKeys" /\ pc' = "streams" /\ exported \subseteq exported'
    BY <1>5 DEF CountKeys
  <2>2. ASSUME "keys_count" \in Expected PROVE "keys_count" \in exported'
    <3>1. options.countKeys /\ Ok(keyConn, "SELECT")
      BY <2>1, <2>2 DEF Held, Undisturbed, Clean, Ok
    <3>2. QED
      BY <1>5, <3>1 DEF CountKeys
  <2>3. QED
    BY <2>1, <2>2 DEF Progress
<1>6. CASE Streams
  <2>1. pc = "streams" /\ pc' = "slowlog" /\ exported \subseteq exported'
    BY <1>6 DEF Streams
  <2>2. ASSUME "streams" \in Expected PROVE "streams" \in exported'
    <3>1. options.streams /\ Ok(keyConn, "SELECT")
      BY <2>1, <2>2 DEF Held, Undisturbed, Clean, Ok
    <3>2. QED
      BY <1>6, <3>1 DEF Streams
  <2>3. QED
    BY <2>1, <2>2 DEF Progress
<1>7. CASE SlowLog
  <2>1. pc = "slowlog" /\ pc' = "keyGroups" /\ exported \subseteq exported'
    BY <1>7 DEF SlowLog
  <2>2. ASSUME "SLOWLOG" \notin server.denied
        PROVE  {"slowlog_length", "slowlog_last_id"} \subseteq exported'
    <3>1. Ok("c", "SLOWLOG")
      BY <2>1, <2>2, OkMeaning
    <3>2. QED
      BY <1>7, <3>1 DEF SlowLog, Ok
  <2>3. QED
    BY <2>1, <2>2 DEF Progress
<1>8. CASE KeyGroups
  <2>1. pc = "keyGroups" /\ pc' = "extras" /\ exported \subseteq exported'
    BY <1>8 DEF KeyGroups
  <2>2. ASSUME "key_groups" \in Expected PROVE "key_groups" \in exported'
    <3>1. options.keyGroups /\ {"SELECT", "EVAL"} \cap server.denied = {} /\ dbCount > 0
      BY <2>1, <2>2 DEF Counted
    <3>2. Ok("c", "SELECT") /\ Ok("c", "EVAL")
      BY <2>1, <3>1, OkMeaning
    <3>3. QED
      BY <1>8, <3>1, <3>2 DEF KeyGroups, Undisturbed
  <2>3. QED
    BY <2>1, <2>2 DEF Progress
<1>9. CASE ExtraSections
  <2>1. pc = "extras" /\ pc' = "scripts" /\ exported \subseteq exported'
    BY <1>9 DEF ExtraSections
  <2>2. ASSUME NEW s \in Extras, s \in Expected PROVE s \in exported'
    <3>1. Ok("c", s)
      BY <2>1, <2>2, OkMeaning
    <3>2. QED
      BY <1>9, <2>2, <3>1 DEF ExtraSections, Succeed
  <2>3. QED
    BY <2>1, <2>2 DEF Progress
<1>10. CASE Script \/ ScriptsDone \/ Finish
  BY <1>10 DEF Script, ScriptsDone, Finish
<1>11. CASE Lose \/ Terminated \/ UNCHANGED vars
  BY <1>11 DEF Lose, Terminated, vars
<1>12. QED
  BY <1>1, <1>2, <1>3, <1>4, <1>5, <1>6, <1>7, <1>8, <1>9, <1>10, <1>11 DEF Next, Step

\* Every step keeps the invariant.
LEMMA IInvStep == IInv /\ [Next]_vars => IInv'
<1> SUFFICES ASSUME IInv, [Next]_vars PROVE IInv'
  OBVIOUS
<1>1. TypeOK' /\ Covered'
  BY TypeStep, CoveredStep DEF IInv
<1>2. TypeOK /\ Facts
  BY DEF IInv, Facts
<1>3. ASSUME Step PROVE Facts'
  BY <1>2, <1>3, BeforeInfo, AfterInfo, ScriptsAndEnd DEF Step
<1>4. ASSUME Lose \/ Terminated \/ UNCHANGED vars PROVE Facts'
  BY <1>2, <1>4 DEF Lose, Terminated, vars, Facts, Progress, Returned, Reported
<1>5. Facts'
  BY <1>3, <1>4 DEF Next
<1>6. Held' /\ Clean' /\ Counted' /\ Gathered'
  BY HeldStep, CleanStep, CountedStep, GatheredStep DEF IInv
<1>7. QED
  BY <1>1, <1>5, <1>6 DEF IInv, Facts

\* The inductive invariant holds throughout every scrape of exporter.go.
THEOREM Invariant == Spec => []IInv
BY IInvInit, IInvStep, PTL DEF Spec

\* Types: scrapeRedisHost's state is well formed at every step.
THEOREM TypeCorrect == Spec => []TypeOK
<1>1. IInv => TypeOK
  BY DEF IInv
<1>2. QED
  BY <1>1, Invariant, PTL

\* Collect leaves no connection open, whichever way scrapeRedisHost returns.
THEOREM ConnectionsClosed == Spec => []NoLeak
<1>1. IInv => NoLeak
  BY DEF IInv, Covered, NoLeak
<1>2. QED
  BY <1>1, Invariant, PTL

\* The metric "up" says exactly that INFO was exported and every script ran.
THEOREM UpMeaning == Spec => []UpExact
<1>1. IInv => UpExact
  BY DEF IInv, Progress, Returned, Reported, UpExact
<1>2. QED
  BY <1>1, Invariant, PTL

\* A section's metrics do not depend on how the other sections, or the scripts, fare:
\* whatever a scrape that keeps its connections can gather is exported.
THEOREM SectionsDoNotDepend == Spec => []SectionsIndependent
<1>1. IInv => SectionsIndependent
  <2> SUFFICES ASSUME IInv, pc = "done", "info" \in exported, Undisturbed
               PROVE  Expected \subseteq exported
    BY DEF SectionsIndependent, Undisturbed
  <2>1. TypeOK /\ Gathered
    BY DEF IInv
  <2>2. QED
    BY <2>1, ExpectedMeaning DEF Gathered, Gathering, Informed
<1>2. QED
  BY <1>1, Invariant, PTL
=============================================================================
