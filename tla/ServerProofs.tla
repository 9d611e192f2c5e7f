---------------------------- MODULE ServerProofs ----------------------------
(***************************************************************************)
(* Proofs about Server, for any connections, command lines, protocol       *)
(* versions and number of replacements: handshakes use a pair that is      *)
(* current, and the way the process ends tells what happened.              *)
(***************************************************************************)
EXTENDS Server, TLAPS

Statuses == {"running", "version", "refused", "killed", "stopped", "timeout", "failed"}
Places == {"closed", "refused", "failed", "handshake", "open", "idle", "busy"}

LoadSet == [at : {"idle", "cert", "key"}, cert : Int, since : Int, mixed : BOOLEAN]
ConnSet == [at : Places, proto : Int, trusted : BOOLEAN, pair : Int]

\* The types of the variables.
TypeInv ==
    /\ opts \in Options
    /\ main \in {"checking", "serving", "waiting", "stopping", "polling"}
    /\ checked \in 0 .. Len(Checks)
    /\ server \in {"off", "loading", "listening", "closed"}
    /\ files \in [cert : Int, key : Int, ca : BOOLEAN]
    /\ reads \in [Readers -> LoadSet]
    /\ conns \in [Conns -> ConnSet]
    /\ status \in Statuses

\* A load that no replacement has overlapped finds both files as they were when it began; any
\* other has read, or will read, nothing older than the pair that was complete then.
LoadOf(r) ==
    /\ reads[r].at = "cert" =>
          /\ reads[r].since <= files.cert /\ reads[r].since <= files.key
          /\ ~reads[r].mixed => files.cert = files.key
    /\ reads[r].at = "key" =>
          /\ reads[r].since <= reads[r].cert
          /\ ~reads[r].mixed => files.cert = files.key /\ reads[r].cert = files.cert

Loads == \A r \in Readers : LoadOf(r)

\* What a connection has gone through.
ConnOf(c) ==
    /\ conns[c].at \in {"handshake", "open", "idle", "busy"} => conns[c].proto >= MinVersion
    /\ conns[c].at \in {"open", "idle", "busy"} =>
          conns[c].pair >= reads[c].since /\ (opts.ca => conns[c].trusted)
    /\ conns[c].at = "failed" => reads[c].mixed

Handshakes == TLS => \A c \in Conns : ConnOf(c)

\* The order of the start: nothing is served before the checks have passed, and no connection
\* is there before the server listens.
Startup ==
    /\ \A i \in 1 .. checked : Checks[i] \notin opts.wrong
    /\ checked > 0 => ~opts.showVersion
    /\ server = "off" <=> main = "checking"
    /\ server # "off" => checked = Len(Checks)
    /\ server \in {"off", "loading"} => \A c \in Conns : conns[c].at = "closed"
    /\ reads[Boot].at # "idle" => TLS /\ server = "loading"

IInv == TypeInv /\ Loads /\ Handshakes /\ Startup /\ ExitTells

-----------------------------------------------------------------------------
\* The seven checks.
LEMMA ChecksFacts ==
    /\ Len(Checks) = 7 /\ DOMAIN Checks = 1 .. 7
    /\ Inputs \ {Checks[i] : i \in 1 .. 7} \subseteq {"minVersion", "address"}
BY DEF Checks, Inputs

\* The options have the parts that the assumption gives them.
LEMMA OptionParts ==
    ASSUME TypeInv
    PROVE  /\ opts.min \in Int /\ opts.wrong \subseteq Inputs
           /\ opts.ca \in BOOLEAN /\ opts.cert \in BOOLEAN /\ opts.key \in BOOLEAN
           /\ opts.showVersion \in BOOLEAN
           /\ MinVersion \in Int
<1>1. opts \in [showVersion : BOOLEAN, cert : BOOLEAN, key : BOOLEAN, ca : BOOLEAN,
                min : Versions, wrong : SUBSET Inputs]
  BY ServerAssumption DEF TypeInv
<1>2. QED
  BY <1>1, ServerAssumption DEF MinVersion

-----------------------------------------------------------------------------
\* Every state has its types (main.go, tls.go).
LEMMA TypeInit == Init => TypeInv
BY ServerAssumption, ChecksFacts
   DEF Init, TypeInv, Idle, Closed, LoadSet, ConnSet, Places, Statuses, Readers

\* A connection after its handshake is well typed.
LEMMA ConnUpdate ==
    ASSUME NEW x \in ConnSet, NEW k \in Int, NEW at \in Places
    PROVE  [x EXCEPT !.pair = k, !.at = at] \in ConnSet
BY DEF ConnSet

\* A load that a replacement has overlapped is well typed.
LEMMA LoadUpdate ==
    ASSUME NEW x \in LoadSet
    PROVE  [x EXCEPT !.mixed = @ \/ x.at # "idle"] \in LoadSet
<1>1. \A b \in BOOLEAN : [x EXCEPT !.mixed = b] \in LoadSet
  BY DEF LoadSet
<1>2. (x.mixed \/ x.at # "idle") \in BOOLEAN
  BY Zenon
<1>3. QED
  BY <1>1, <1>2, Zenon

\* Loads and connections that the actions put in place are well typed.
LEMMA NewRecords ==
    ASSUME TypeInv
    PROVE  /\ {Started, Idle} \subseteq LoadSet
           /\ Closed \in ConnSet
           /\ \A c \in Conns : c \in Readers
           /\ \A c \in Conns, at \in Places : [conns[c] EXCEPT !.at = at] \in ConnSet
           /\ \A r \in Readers : [reads[r] EXCEPT !.at = "idle"] \in LoadSet
<1>1. {Started, Idle} \subseteq LoadSet
  BY DEF TypeInv, Started, Complete, Rotating, Idle, LoadSet
<1>2. Closed \in ConnSet
  BY ServerAssumption DEF Closed, ConnSet, Places
<1>3. \A c \in Conns : c \in Readers
  BY DEF Readers
<1>4. \A c \in Conns, at \in Places : [conns[c] EXCEPT !.at = at] \in ConnSet
  BY DEF TypeInv, ConnSet
<1>5. \A r \in Readers : [reads[r] EXCEPT !.at = "idle"] \in LoadSet
  BY DEF TypeInv, LoadSet
<1>6. QED
  BY <1>1, <1>2, <1>3, <1>4, <1>5

\* Every step keeps the types.
LEMMA TypeStep == TypeInv /\ [Next]_vars => TypeInv'
<1> SUFFICES ASSUME TypeInv, [Next]_vars PROVE TypeInv'
  OBVIOUS
<1> USE ServerAssumption, ChecksFacts, NewRecords DEF TypeInv
<1>1. CASE ShowVersion
  BY <1>1 DEF ShowVersion, Exit, Statuses
<1>2. CASE Check
  BY <1>2 DEF Check, Exit, Statuses
<1>3. CASE Serve
  BY <1>3 DEF Serve, Readers
<1>4. CASE Notify \/ Signal
  BY <1>4 DEF Notify, Signal
<1>5. CASE SignalEarly \/ ShutdownTimeout \/ BootFails \/ ConfigFails \/ ListenFails
  BY <1>5 DEF SignalEarly, ShutdownTimeout, BootFails, ConfigFails, ListenFails, Exit, Statuses
<1>6. CASE ShutdownPoll
  <2>1. PICK old \in SUBSET Fresh :
            /\ conns' = Swept(old)
            /\ status' \in {"stopped", status} /\ main' \in {main, "polling"}
            /\ UNCHANGED <<opts, checked, server, files, reads>>
    BY <1>6 DEF ShutdownPoll
  <2>2. conns' \in [Conns -> ConnSet]
    BY <2>1 DEF Swept
  <2>3. QED
    BY <2>1, <2>2 DEF Statuses
<1>7. CASE Listen
  BY <1>7 DEF Listen, Readers
<1>8. ASSUME NEW r \in Readers, ReadCert(r) PROVE TypeInv'
  <2>1. [reads[r] EXCEPT !.at = "key", !.cert = files.cert] \in LoadSet
    BY DEF LoadSet
  <2>2. QED
    BY <1>8, <2>1 DEF ReadCert
<1>9. ASSUME NEW f \in {"cert", "key"}, Replace(f) PROVE TypeInv'
  <2>1. files' \in [cert : Int, key : Int, ca : BOOLEAN]
    BY <1>9 DEF Replace
  <2>2. \A r \in Readers : [reads[r] EXCEPT !.mixed = @ \/ reads[r].at # "idle"] \in LoadSet
    BY LoadUpdate
  <2>3. QED
    BY <1>9, <2>1, <2>2 DEF Replace
<1>10. CASE ReplaceCA
  BY <1>10 DEF ReplaceCA
<1>11. ASSUME NEW c \in Conns, Connect(c) PROVE TypeInv'
  <2>1. PICK p \in Versions, t \in BOOLEAN, at \in {"open", "handshake", "refused"} :
            /\ conns' = [conns EXCEPT ![c] = [at |-> at, proto |-> p, trusted |-> t, pair |-> 0]]
            /\ reads' = [reads EXCEPT ![c] = IF at = "handshake" THEN Started ELSE Idle]
    BY <1>11 DEF Connect
  <2>2. [at |-> at, proto |-> p, trusted |-> t, pair |-> 0] \in ConnSet
    BY DEF ConnSet, Places
  <2>3. QED
    BY <1>11, <2>1, <2>2 DEF Connect
<1>12. ASSUME NEW c \in Conns, Handshake(c) PROVE TypeInv'
  <2>1. conns[c] \in ConnSet /\ files.key \in Int
    OBVIOUS
  <2>2. PICK at \in Places :
            conns' = [conns EXCEPT ![c] = [@ EXCEPT !.pair = files.key, !.at = at]]
    BY <1>12 DEF Handshake, Places
  <2>3. conns' \in [Conns -> ConnSet]
    BY <2>1, <2>2, ConnUpdate
  <2>4. reads' = [reads EXCEPT ![c] = [@ EXCEPT !.at = "idle"]]
    BY <1>12 DEF Handshake
  <2>5. QED
    BY <1>12, <2>3, <2>4 DEF Handshake
<1>13. ASSUME NEW c \in Conns, HandshakeFails(c) \/ Request(c) \/ Respond(c) \/ Disconnect(c)
       PROVE  TypeInv'
  <2>1. conns' = [conns EXCEPT ![c] = Closed]
            \/ \E at \in Places : conns' = [conns EXCEPT ![c] = [@ EXCEPT !.at = at]]
    BY <1>13 DEF HandshakeFails, Request, Respond, Disconnect, Places
  <2>2. conns' \in [Conns -> ConnSet]
    BY <2>1
  <2>3. reads' \in {reads, [reads EXCEPT ![c] = Idle], [reads EXCEPT ![c] = [@ EXCEPT !.at = "idle"]]}
    BY <1>13 DEF HandshakeFails, Request, Respond, Disconnect
  <2>4. reads' \in [Readers -> LoadSet]
    BY <2>3
  <2>5. QED
    BY <1>13, <2>2, <2>4 DEF HandshakeFails, Request, Respond, Disconnect
<1>14. CASE UNCHANGED vars
  BY <1>14 DEF vars
<1>15. QED
  BY <1>1, <1>2, <1>3, <1>4, <1>5, <1>6, <1>7, <1>8, <1>9, <1>10, <1>11, <1>12, <1>13, <1>14
     DEF Next, Ended

-----------------------------------------------------------------------------
\* The steps that touch neither the files nor a load.
Elsewhere ==
    \/ ShowVersion \/ Check \/ Notify \/ SignalEarly \/ Signal \/ ShutdownPoll \/ ShutdownTimeout
    \/ BootFails \/ ConfigFails \/ ListenFails
    \/ \E c \in Conns : Request(c) \/ Respond(c)
    \/ Ended \/ UNCHANGED vars

\* Those steps change neither the files, nor what was read of them, nor the options.
LEMMA ElsewhereFrame ==
    ASSUME Elsewhere
    PROVE  files' = files /\ reads' = reads /\ opts' = opts
BY DEF Elsewhere, ShowVersion, Check, Notify, SignalEarly, Signal, ShutdownPoll, ShutdownTimeout,
       BootFails, ConfigFails, ListenFails, Request, Respond, Ended, vars, Exit

\* Every other step, one action at a time.
LEMMA NextSplit ==
    ASSUME [Next]_vars
    PROVE  \/ Elsewhere \/ Serve \/ Listen \/ ReplaceCA
           \/ \E r \in Readers : ReadCert(r)
           \/ \E f \in {"cert", "key"} : Replace(f)
           \/ \E c \in Conns : Connect(c) \/ Handshake(c) \/ HandshakeFails(c) \/ Disconnect(c)
BY DEF Next, Elsewhere

\* A load that begins has all it needs.
LEMMA LoadBegins ==
    ASSUME TypeInv
    PROVE  /\ Started.at = "cert" /\ Started.since <= files.cert /\ Started.since <= files.key
           /\ ~Started.mixed => files.cert = files.key
<1>1. Started.at = "cert" /\ Started.since = Complete
  BY DEF Started
<1>2. Started.mixed = Rotating
  BY Zenon DEF Started
<1>3. Complete <= files.cert /\ Complete <= files.key
  BY DEF TypeInv, Complete
<1>4. ~Started.mixed => files.cert = files.key
  BY <1>2, Zenon DEF Rotating
<1>5. QED
  BY <1>1, <1>3, <1>4

\* A reader's certificate and key stay what the files held when each was read.
LEMMA LoadsStep == TypeInv /\ Loads /\ [Next]_vars => Loads'
<1> SUFFICES ASSUME TypeInv, Loads, [Next]_vars, NEW q \in Readers PROVE LoadOf(q)'
  BY DEF Loads
<1> USE DEF TypeInv
<1>0. LoadOf(q)
  BY DEF Loads
<1>1. CASE Elsewhere \/ ReplaceCA
  BY <1>0, <1>1, ElsewhereFrame DEF LoadOf, ReplaceCA
<1>2. CASE Serve
  BY <1>0, <1>2, LoadBegins DEF LoadOf, Serve
<1>3. CASE Listen
  BY <1>0, <1>3 DEF LoadOf, Listen, LoadSet
<1>4. ASSUME NEW r \in Readers, ReadCert(r) PROVE LoadOf(q)'
  <2>1. CASE q = r
    <3>1. /\ reads'[q] = [reads[q] EXCEPT !.at = "key", !.cert = files.cert]
          /\ files' = files /\ reads[q].at = "cert"
      BY <1>4, <2>1 DEF ReadCert
    <3>2. /\ reads'[q].at = "key" /\ reads'[q].cert = files.cert
          /\ reads'[q].since = reads[q].since /\ reads'[q].mixed = reads[q].mixed
      BY <3>1 DEF LoadSet
    <3>3. QED
      BY <1>0, <3>1, <3>2 DEF LoadOf
  <2>2. CASE q # r
    BY <1>0, <1>4, <2>2 DEF LoadOf, ReadCert
  <2>3. QED
    BY <2>1, <2>2
<1>5. ASSUME NEW f \in {"cert", "key"}, Replace(f) PROVE LoadOf(q)'
  <2>1. files'.cert >= files.cert /\ files'.key >= files.key
    BY <1>5 DEF Replace
  <2>2. reads'[q] = [reads[q] EXCEPT !.mixed = @ \/ reads[q].at # "idle"]
    BY <1>5 DEF Replace
  <2>3. /\ reads'[q].at = reads[q].at /\ reads'[q].cert = reads[q].cert
        /\ reads'[q].since = reads[q].since
    BY <2>2 DEF LoadSet
  <2>4. reads'[q].mixed = (reads[q].mixed \/ reads[q].at # "idle")
    BY <2>2, Zenon DEF LoadSet
  <2>5. reads[q].at # "idle" => reads'[q].mixed
    BY <2>4
  <2>6. files' \in [cert : Int, key : Int, ca : BOOLEAN]
    BY TypeStep
  <2>7. QED
    BY <1>0, <2>1, <2>3, <2>5, <2>6 DEF LoadOf, LoadSet
<1>6. ASSUME NEW c \in Conns, Connect(c) PROVE LoadOf(q)'
  <2>1. files' = files /\ reads' \in {[reads EXCEPT ![c] = Started], [reads EXCEPT ![c] = Idle]}
    BY <1>6 DEF Connect
  <2>2. QED
    BY <1>0, <2>1, LoadBegins DEF LoadOf, Idle
<1>7. ASSUME NEW c \in Conns, Handshake(c) \/ HandshakeFails(c) \/ Disconnect(c) PROVE LoadOf(q)'
  <2>1. /\ files' = files
        /\ reads' \in {[reads EXCEPT ![c] = [@ EXCEPT !.at = "idle"]], [reads EXCEPT ![c] = Idle]}
    BY <1>7 DEF Handshake, HandshakeFails, Disconnect
  <2>2. reads'[q] = reads[q] \/ reads'[q].at = "idle"
    BY <2>1 DEF Idle, LoadSet
  <2>3. QED
    BY <1>0, <2>1, <2>2 DEF LoadOf
<1>8. QED
  BY <1>1, <1>2, <1>3, <1>4, <1>5, <1>6, <1>7, NextSplit

-----------------------------------------------------------------------------
\* No step changes the command line, and what follows from it alone.
LEMMA OptsFixed ==
    ASSUME [Next]_vars
    PROVE  opts' = opts /\ TLS' = TLS /\ MinVersion' = MinVersion
<1>1. opts' = opts
  BY NextSplit, ElsewhereFrame
     DEF Serve, Listen, ReplaceCA, ReadCert, Replace, Connect, Handshake, HandshakeFails, Disconnect
<1>2. QED
  BY <1>1 DEF TLS, MinVersion

\* A step of the server's shutdown closes connections and leaves the others alone.
LEMMA PollStep ==
    ASSUME TypeInv, ShutdownPoll
    PROVE  \A c \in Conns : conns'[c] = conns[c] \/ conns'[c] = Closed
<1>1. PICK old \in SUBSET Fresh : conns' = Swept(old)
  BY DEF ShutdownPoll
<1>2. QED
  BY <1>1 DEF Swept

\* A handshake is made with what its reader has loaded, or fails.
LEMMA HandshakesStep == TypeInv /\ Loads /\ Handshakes /\ [Next]_vars => Handshakes'
<1> SUFFICES ASSUME TypeInv, Loads, Handshakes, [Next]_vars, TLS, NEW q \in Conns PROVE ConnOf(q)'
  BY OptsFixed DEF Handshakes
<1> USE DEF TypeInv
<1>0. ConnOf(q) /\ q \in Readers /\ opts' = opts /\ MinVersion' = MinVersion
  BY OptsFixed DEF Handshakes, Readers
<1>1. CASE reads' = reads /\ (conns'[q] = conns[q] \/ conns'[q] = Closed)
  BY <1>0, <1>1 DEF ConnOf, Closed
<1>2. CASE ShowVersion \/ Check \/ Notify \/ SignalEarly \/ Signal \/ ShutdownPoll
            \/ ShutdownTimeout \/ BootFails \/ ConfigFails \/ ListenFails \/ Ended \/ ReplaceCA
            \/ UNCHANGED vars
  BY <1>1, <1>2, PollStep
     DEF ShowVersion, Check, Notify, SignalEarly, Signal, ShutdownPoll, ShutdownTimeout, BootFails,
         ConfigFails, ListenFails, Ended, ReplaceCA, Exit, vars
<1>3. CASE Serve \/ Listen
  <2>1. conns' = conns /\ reads'[q] = reads[q]
    BY <1>0, <1>3, ServerAssumption DEF Serve, Listen
  <2>2. QED
    BY <1>0, <2>1 DEF ConnOf
<1>4. ASSUME NEW r \in Readers, ReadCert(r) PROVE ConnOf(q)'
  <2>1. conns' = conns /\ reads'[q] \in {reads[q], [reads[q] EXCEPT !.at = "key", !.cert = files.cert]}
    BY <1>0, <1>4 DEF ReadCert
  <2>2. reads'[q].since = reads[q].since /\ reads'[q].mixed = reads[q].mixed
    BY <1>0, <2>1 DEF LoadSet
  <2>3. QED
    BY <1>0, <2>1, <2>2 DEF ConnOf
<1>5. ASSUME NEW f \in {"cert", "key"}, Replace(f) PROVE ConnOf(q)'
  <2>1. conns' = conns /\ reads'[q] = [reads[q] EXCEPT !.mixed = @ \/ reads[q].at # "idle"]
    BY <1>0, <1>5 DEF Replace
  <2>2. reads'[q].since = reads[q].since
    BY <1>0, <2>1 DEF LoadSet
  <2>3. reads'[q].mixed = (reads[q].mixed \/ reads[q].at # "idle")
    BY <1>0, <2>1, Zenon DEF LoadSet
  <2>4. reads[q].mixed => reads'[q].mixed
    BY <2>3
  <2>5. QED
    BY <1>0, <2>1, <2>2, <2>4 DEF ConnOf
<1>6. ASSUME NEW c \in Conns, Connect(c) PROVE ConnOf(q)'
  <2>1. CASE q = c
    <3>1. \/ conns'[q].at = "handshake" /\ conns'[q].proto >= MinVersion
          \/ conns'[q].at = "refused"
      BY <1>6, <2>1 DEF Connect
    <3>2. QED
      BY <1>0, <3>1 DEF ConnOf
  <2>2. CASE q # c
    <3>1. conns'[q] = conns[q] /\ reads'[q] = reads[q]
      BY <1>6, <2>2 DEF Connect
    <3>2. QED
      BY <1>0, <3>1 DEF ConnOf
  <2>3. QED
    BY <2>1, <2>2
<1>7. ASSUME NEW c \in Conns, Handshake(c) PROVE ConnOf(q)'
  <2>1. CASE q = c
    <3>1. LoadOf(q) /\ reads[q].at = "key" /\ reads[q].cert = files.key
      BY <1>0, <1>7, <2>1 DEF Loads, Handshake, LoadKeyPair
    <3>2. PICK at \in Places :
              /\ conns'[q] = [conns[q] EXCEPT !.pair = files.key, !.at = at]
              /\ at \in {"refused", "open"} /\ (opts.ca /\ ~conns[q].trusted => at = "refused")
      BY <1>7, <2>1 DEF Handshake, Places
    <3>3. /\ conns'[q].pair = files.key /\ conns'[q].at = at
          /\ conns'[q].proto = conns[q].proto /\ conns'[q].trusted = conns[q].trusted
      BY <3>2 DEF ConnSet
    <3>4. reads'[q] = [reads[q] EXCEPT !.at = "idle"]
      BY <1>0, <1>7, <2>1 DEF Handshake
    <3>5. reads'[q].since = reads[q].since
      BY <1>0, <3>4 DEF LoadSet
    <3>6. conns[q].at = "handshake"
      BY <1>7, <2>1 DEF Handshake
    <3>7. QED
      BY <1>0, <3>1, <3>2, <3>3, <3>5, <3>6 DEF ConnOf, LoadOf
  <2>2. CASE q # c
    <3>1. conns'[q] = conns[q] /\ reads'[q] = reads[q]
      BY <1>0, <1>7, <2>2 DEF Handshake
    <3>2. QED
      BY <1>0, <3>1 DEF ConnOf
  <2>3. QED
    BY <2>1, <2>2
<1>8. ASSUME NEW c \in Conns, HandshakeFails(c) PROVE ConnOf(q)'
  <2>1. CASE q = c
    <3>1. LoadOf(q) /\ reads[q].at = "key" /\ reads[q].cert # files.key
      BY <1>0, <1>8, <2>1 DEF Loads, HandshakeFails, LoadFails
    <3>2. reads[q].mixed
      BY <3>1 DEF LoadOf
    <3>3. reads'[q] = [reads[q] EXCEPT !.at = "idle"] /\ conns'[q] = [conns[q] EXCEPT !.at = "failed"]
      BY <1>0, <1>8, <2>1 DEF HandshakeFails
    <3>4. reads'[q].mixed = reads[q].mixed /\ conns'[q].at = "failed"
      BY <1>0, <3>3 DEF LoadSet, ConnSet
    <3>5. QED
      BY <1>0, <3>2, <3>4 DEF ConnOf
  <2>2. CASE q # c
    <3>1. conns'[q] = conns[q] /\ reads'[q] = reads[q]
      BY <1>0, <1>8, <2>2 DEF HandshakeFails
    <3>2. QED
      BY <1>0, <3>1 DEF ConnOf
  <2>3. QED
    BY <2>1, <2>2
<1>9. ASSUME NEW c \in Conns, Request(c) \/ Respond(c) PROVE ConnOf(q)'
  <2>1. reads' = reads
    BY <1>9 DEF Request, Respond
  <2>2. CASE conns'[q] = conns[q] \/ conns'[q] = Closed
    BY <1>1, <2>1, <2>2
  <2>3. CASE q = c /\ ~(conns'[q] = Closed)
    <3>1. /\ conns[q].at \in {"open", "idle", "busy"}
          /\ \E at \in {"busy", "idle"} : conns'[q] = [conns[q] EXCEPT !.at = at]
      BY <1>9, <2>3 DEF Request, Respond
    <3>2. /\ conns'[q].at \in {"busy", "idle"} /\ conns'[q].pair = conns[q].pair
          /\ conns'[q].proto = conns[q].proto /\ conns'[q].trusted = conns[q].trusted
      BY <3>1 DEF ConnSet
    <3>3. QED
      BY <1>0, <2>1, <3>1, <3>2 DEF ConnOf
  <2>4. QED
    BY <1>9, <2>2, <2>3 DEF Request, Respond
<1>10. ASSUME NEW c \in Conns, Disconnect(c) PROVE ConnOf(q)'
  <2>1. \/ conns'[q] = conns[q] /\ reads'[q] = reads[q]
        \/ conns'[q] = Closed
    BY <1>0, <1>10 DEF Disconnect
  <2>2. QED
    BY <1>0, <2>1 DEF ConnOf, Closed
<1>11. QED
  BY <1>2, <1>3, <1>4, <1>5, <1>6, <1>7, <1>8, <1>9, <1>10 DEF Next

-----------------------------------------------------------------------------
\* The order of the start is kept by every step.
LEMMA StartupStep == TypeInv /\ Startup /\ [Next]_vars => Startup'
<1> SUFFICES ASSUME TypeInv, Startup, [Next]_vars PROVE Startup'
  OBVIOUS
<1> USE ChecksFacts DEF TypeInv, Startup
<1>0. opts' = opts /\ TLS' = TLS /\ Boot \in Readers
  BY OptsFixed DEF Readers
<1>1. CASE ShowVersion \/ SignalEarly \/ ShutdownTimeout \/ BootFails \/ ConfigFails \/ ListenFails
  BY <1>0, <1>1 DEF ShowVersion, SignalEarly, ShutdownTimeout, BootFails, ConfigFails, ListenFails, Exit
<1>2. CASE Check
  <2>1. CASE checked' = checked
    BY <1>0, <1>2, <2>1 DEF Check, Exit
  <2>2. CASE checked' = checked + 1 /\ Checks[checked + 1] \notin opts.wrong
    <3>1. \A i \in 1 .. checked' : i \in 1 .. checked \/ i = checked + 1
      BY <2>2
    <3>2. QED
      BY <1>0, <1>2, <2>2, <3>1 DEF Check, Exit
  <2>3. QED
    BY <1>2, <2>1, <2>2 DEF Check, Exit
<1>3. CASE Serve
  BY <1>0, <1>3 DEF Serve
<1>4. CASE Notify \/ Signal
  BY <1>0, <1>4 DEF Notify, Signal
<1>5. CASE ShutdownPoll
  <2>1. /\ server' = server /\ reads' = reads /\ checked' = checked
        /\ main # "checking" /\ main' # "checking"
    BY <1>5 DEF ShutdownPoll, Stopping
  <2>2. \A c \in Conns : conns[c].at = "closed" => conns'[c].at = "closed"
    BY <1>5, PollStep DEF Closed
  <2>3. QED
    BY <1>0, <2>1, <2>2
<1>6. CASE Listen
  <2>1. reads'[Boot] = [reads[Boot] EXCEPT !.at = "idle"]
    BY <1>0, <1>6 DEF Listen
  <2>2. reads'[Boot].at = "idle"
    BY <1>0, <2>1 DEF LoadSet
  <2>3. QED
    BY <1>0, <1>6, <2>2 DEF Listen, Loaded
<1>7. ASSUME NEW r \in Readers, ReadCert(r) PROVE Startup'
  <2>1. CASE r = Boot
    BY <1>0, <1>7, <2>1 DEF ReadCert
  <2>2. CASE r # Boot
    BY <1>0, <1>7, <2>2 DEF ReadCert
  <2>3. QED
    BY <2>1, <2>2
<1>8. ASSUME NEW f \in {"cert", "key"}, Replace(f) PROVE Startup'
  <2>1. reads'[Boot] = [reads[Boot] EXCEPT !.mixed = @ \/ reads[Boot].at # "idle"]
    BY <1>0, <1>8 DEF Replace
  <2>2. reads'[Boot].at = reads[Boot].at
    BY <1>0, <2>1 DEF LoadSet
  <2>3. QED
    BY <1>0, <1>8, <2>2 DEF Replace
<1>9. CASE ReplaceCA \/ UNCHANGED vars
  BY <1>0, <1>9 DEF ReplaceCA, vars
<1>10. ASSUME NEW c \in Conns, Connect(c) \/ Handshake(c) \/ HandshakeFails(c) \/ Disconnect(c)
                                 \/ Request(c) \/ Respond(c)
       PROVE  Startup'
  <2>1. /\ UNCHANGED <<main, checked, server>>
        /\ conns[c].at # "closed" \/ server = "listening"
    BY <1>10 DEF Connect, Handshake, HandshakeFails, Disconnect, Request, Respond
  <2>2. c # Boot
    BY ServerAssumption
  <2>3. reads'[Boot] = reads[Boot]
    BY <1>0, <1>10, <2>2 DEF Connect, Handshake, HandshakeFails, Disconnect, Request, Respond
  <2>4. QED
    BY <1>0, <2>1, <2>3
<1>11. QED
  BY <1>1, <1>2, <1>3, <1>4, <1>5, <1>6, <1>7, <1>8, <1>9, <1>10 DEF Next, Ended

-----------------------------------------------------------------------------
\* A process that has ended stays as it is.
LEMMA EndIsFinal ==
    ASSUME ~Running, [Next]_vars
    PROVE  UNCHANGED vars
BY DEF Next, ShowVersion, Check, Serve, Notify, SignalEarly, Signal, ShutdownPoll, ShutdownTimeout,
       BootFails, ConfigFails, ListenFails, Listen, Loaded, ReadCert, Replace, ReplaceCA, Connect,
       Handshake, HandshakeFails, LoadKeyPair, LoadFails, Request, Respond, Disconnect, Ended

\* The steps that end it.
LEMMA Endings ==
    ASSUME Running, ~Running', [Next]_vars
    PROVE  ShowVersion \/ Check \/ SignalEarly \/ ShutdownPoll \/ ShutdownTimeout
               \/ BootFails \/ ConfigFails \/ ListenFails
BY DEF Next, Running, Serve, Notify, Signal, Listen, ReadCert, Replace, ReplaceCA, Connect,
       Handshake, HandshakeFails, Request, Respond, Disconnect, Ended, vars

\* No step exits with a code that does not tell why.
LEMMA ExitStep == TypeInv /\ Loads /\ Startup /\ ExitTells /\ [Next]_vars => ExitTells'
<1> SUFFICES ASSUME TypeInv, Loads, Startup, ExitTells, [Next]_vars PROVE ExitTells'
  OBVIOUS
<1>0. TypeInv' /\ Startup' /\ opts' = opts
  BY TypeStep, StartupStep, OptsFixed
<1>1. CASE ~Running
  BY <1>1, EndIsFinal
     DEF vars, ExitTells, Stopping, Busy, ConfigWrong, TLS, Running
<1>2. (server # "off" => ~opts.showVersion /\ opts.wrong \subseteq {"minVersion", "address"})'
  <2>1. SUFFICES ASSUME server' # "off"
                 PROVE  ~opts.showVersion /\ opts.wrong \subseteq {"minVersion", "address"}
    BY <1>0
  <2>2. checked' = 7
    BY <1>0, <2>1, ChecksFacts DEF Startup
  <2>3. \A i \in 1 .. 7 : Checks[i] \notin opts.wrong
    BY <1>0, <2>2 DEF Startup
  <2>4. opts.wrong \subseteq Inputs
    BY OptionParts
  <2>5. QED
    BY <1>0, <2>2, <2>3, <2>4, ChecksFacts DEF Startup
<1>3. CASE Running /\ Running'
  BY <1>2, <1>3 DEF ExitTells, Running
<1>4. CASE Running /\ ~Running'
  <2>1. CASE ShowVersion \/ Check
    <3>1. status' \in {"version", "refused"} /\ main = "checking" /\ conns' = conns
      BY <1>4, <2>1 DEF ShowVersion, Check, Exit, Running
    <3>2. Busy' = {}
      BY <3>1 DEF Startup, Busy
    <3>3. QED
      BY <1>2, <3>1, <3>2 DEF ExitTells
  <2>2. CASE SignalEarly \/ ShutdownTimeout
    BY <1>2, <2>2 DEF SignalEarly, ShutdownTimeout, Exit, ExitTells
  <2>3. CASE ShutdownPoll
    <3>1. status' = "stopped" /\ main' = main /\ Busy = {} /\ Stopping
      BY <1>4, <2>3 DEF ShutdownPoll, Running
    <3>2. Busy' = {}
      BY <2>3, <3>1, PollStep DEF Busy, Closed
    <3>3. QED
      BY <1>2, <3>1, <3>2 DEF ExitTells, Stopping
  <2>4. CASE BootFails
    <3>1. /\ reads[Boot].at = "key" /\ reads[Boot].cert # files.key /\ LoadOf(Boot)
          /\ UNCHANGED <<opts, reads, conns, server>> /\ status' = "failed"
      BY <2>4 DEF BootFails, LoadFails, Exit, Loads, Readers
    <3>2. reads[Boot].mixed /\ TLS /\ server = "loading"
      BY <3>1 DEF LoadOf, Startup
    <3>3. Busy' = {}
      BY <3>1, <3>2 DEF Startup, Busy
    <3>4. TLS'
      BY <3>1, <3>2 DEF TLS
    <3>5. QED
      BY <1>2, <3>1, <3>2, <3>3, <3>4 DEF ExitTells
  <2>5. CASE ConfigFails \/ ListenFails
    <3>1. /\ status' = "failed" /\ server = "loading"
          /\ ConfigWrong \/ "address" \in opts.wrong
          /\ UNCHANGED <<opts, files, conns>>
      BY <2>5 DEF ConfigFails, ListenFails, Exit, Loaded
    <3>2. Busy' = {}
      BY <3>1 DEF Startup, Busy
    <3>3. ConfigWrong' = ConfigWrong
      BY <3>1 DEF ConfigWrong, TLS
    <3>4. QED
      BY <1>2, <3>1, <3>2, <3>3 DEF ExitTells
  <2>6. QED
    BY <1>4, <2>1, <2>2, <2>3, <2>4, <2>5, Endings
<1>5. QED
  BY <1>1, <1>3, <1>4

-----------------------------------------------------------------------------
\* The invariant is inductive.
LEMMA Inductive == Spec => []IInv
<1>1. Init => IInv
  <2> SUFFICES ASSUME Init PROVE IInv
    OBVIOUS
  <2>1. TypeInv
    BY TypeInit
  <2>2. Loads /\ Handshakes
    BY DEF Init, Loads, LoadOf, Handshakes, ConnOf, Idle, Closed
  <2>3. Startup
    BY ChecksFacts DEF Init, Startup, Idle, Closed, Readers
  <2>4. ExitTells
    BY DEF Init, ExitTells, Running
  <2>5. QED
    BY <2>1, <2>2, <2>3, <2>4 DEF IInv
<1>2. IInv /\ [Next]_vars => IInv'
  BY TypeStep, LoadsStep, HandshakesStep, StartupStep, ExitStep DEF IInv
<1>3. QED
  BY <1>1, <1>2, PTL DEF Spec

\* Certificates can be replaced while the server runs (tls.go reads them for every handshake): no
\* client is shown an older pair than was in place when its handshake began, and a handshake
\* fails only if a replacement overlapped it, whatever the number of clients and replacements.
\* Who gets through has the certificate that a CA file asks for or, without one, the least version.
THEOREM HandshakesExact == Spec => []HandshakeExact
<1>1. IInv => HandshakeExact
  BY DEF IInv, Handshakes, ConnOf, HandshakeExact, MinVersion
<1>2. QED
  BY <1>1, Inductive, PTL

\* How the process ends tells what happened (main.go): it returns after a signal only with no
\* request in progress, fails only for one of the reasons the serving goroutine has, and never
\* serves with an option that main finds wrong.
THEOREM ExitsTell == Spec => []ExitTells
<1>1. IInv => ExitTells
  BY DEF IInv
<1>2. QED
  BY <1>1, Inductive, PTL
=============================================================================
