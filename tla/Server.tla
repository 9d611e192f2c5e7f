------------------------------- MODULE Server -------------------------------
(***************************************************************************)
(* main.go and tls.go: the process from its command line to its exit.      *)
(*                                                                         *)
(* The main goroutine checks what it was given, starts a goroutine that    *)
(* serves, and waits for a signal.  The serving goroutine listens, with    *)
(* TLS when it was given a certificate and a key.  The two files are read  *)
(* once to see whether they can be used and then again, one after the      *)
(* other, for every full handshake, while somebody may be replacing them.  *)
(***************************************************************************)
EXTENDS Integers, Sequences

CONSTANTS
    Conns,          \* connections of clients
    Boot,           \* the serving goroutine, which reads the files too
    Options,        \* command lines
    Versions,       \* of the TLS protocol
    DefaultVersion, \* the least one that crypto/tls accepts when nothing is set
    MaxRotations    \* bound on the replacements of certificate and key

\* What main checks, in its order.
Checks == <<"timeout", "passwordFile", "scripts", "keyLists", "auth", "clientPair", "clientFiles">>

\* What may be wrong on a command line: what main checks and what the serving goroutine finds.
Inputs == {Checks[i] : i \in DOMAIN Checks} \cup {"minVersion", "address"}

ASSUME ServerAssumption ==
    /\ Versions \subseteq Int /\ DefaultVersion \in Int
    /\ Options \subseteq [showVersion : BOOLEAN, cert : BOOLEAN, key : BOOLEAN, ca : BOOLEAN,
                          min : Versions, wrong : SUBSET Inputs]
    /\ Boot \notin Conns /\ MaxRotations \in Nat

VARIABLES
    opts,       \* the command line
    main,       \* the main goroutine: "checking", "serving", "waiting", "stopping" or "polling"
    checked,    \* the number of checks passed
    server,     \* the serving goroutine: "off", "loading", "listening" or "closed"
    files,      \* versions of the certificate and of the key; whether the CA file can be read
    reads,      \* for each reader, the load of certificate and key it is in or was in last
    conns,      \* for each connection, how far it is
    status      \* of the process: "running", or how it ended

vars == <<opts, main, checked, server, files, reads, conns, status>>

Readers == Conns \cup {Boot}
Rotating == files.cert # files.key
Complete == IF files.cert < files.key THEN files.cert ELSE files.key

\* since: the pair that was complete when the load began; mixed: a replacement overlapped it.
Idle == [at |-> "idle", cert |-> 0, since |-> 0, mixed |-> FALSE]
Started == [at |-> "cert", cert |-> 0, since |-> Complete, mixed |-> Rotating]

Closed == [at |-> "closed", proto |-> DefaultVersion, trusted |-> FALSE, pair |-> 0]

Init ==
    /\ opts \in Options
    /\ main = "checking" /\ checked = 0 /\ server = "off" /\ status = "running"
    /\ files \in [cert : {1}, key : {1}, ca : BOOLEAN]
    /\ reads = [r \in Readers |-> Idle]
    /\ conns = [c \in Conns |-> Closed]

Running == status = "running"
TLS == opts.cert /\ opts.key

\* The process ends and everything with it.
Exit(how) ==
    /\ status' = how
    /\ UNCHANGED <<opts, main, checked, server, files, reads, conns>>

-----------------------------------------------------------------------------
(***************************************************************************)
(* The main goroutine.                                                     *)
(***************************************************************************)
ShowVersion ==
    /\ Running /\ main = "checking" /\ checked = 0 /\ opts.showVersion
    /\ Exit("version")

\* The next check: log.Fatal if it fails.
Check ==
    /\ Running /\ main = "checking" /\ checked < Len(Checks) /\ ~opts.showVersion
    /\ \/ Checks[checked + 1] \in opts.wrong /\ Exit("refused")
       \/ /\ Checks[checked + 1] \notin opts.wrong
          /\ checked' = checked + 1
          /\ UNCHANGED <<opts, main, server, files, reads, conns, status>>

\* Everything is fine: the serving goroutine is started.
Serve ==
    /\ Running /\ main = "checking" /\ checked = Len(Checks)
    /\ main' = "serving" /\ server' = "loading"
    /\ reads' = [reads EXCEPT ![Boot] = IF TLS THEN Started ELSE @]
    /\ UNCHANGED <<opts, checked, files, conns, status>>

\* From here on signals are for the program, and main waits for one.
Notify ==
    /\ Running /\ main = "serving"
    /\ main' = "waiting"
    /\ UNCHANGED <<opts, checked, server, files, reads, conns, status>>

\* A signal before that kills the process, requests in progress included.
SignalEarly ==
    /\ Running /\ main \in {"checking", "serving"}
    /\ Exit("killed")

\* server.Shutdown first closes the listener.
Signal ==
    /\ Running /\ main = "waiting"
    /\ main' = "stopping"
    /\ server' = IF server = "listening" THEN "closed" ELSE server
    /\ UNCHANGED <<opts, checked, files, reads, conns, status>>

Stopping == main \in {"stopping", "polling"}
Busy == {c \in Conns : conns[c].at = "busy"}
Fresh == {c \in Conns : conns[c].at \in {"handshake", "open"}}

\* Shutdown closes the connections between two requests; those it has read nothing from yet
\* count as such after five seconds.
Swept(old) ==
    [c \in Conns |-> IF conns[c].at = "idle" \/ c \in old THEN Closed ELSE conns[c]]

\* Fault: only the new connections are waited for.
ShutdownPollNew ==
    /\ Running /\ Stopping
    /\ \E old \in SUBSET Fresh :
          /\ conns' = Swept(old)
          /\ IF Fresh \subseteq old THEN status' = "stopped" /\ main' = main
             ELSE main' = "polling" /\ status' = status
    /\ UNCHANGED <<opts, checked, server, files, reads>>

\* Shutdown looks at the connections: main returns when none is left, or it looks again later.
ShutdownPoll ==
    /\ Running /\ Stopping
    /\ \E old \in SUBSET Fresh :
          /\ conns' = Swept(old)
          /\ IF Busy = {} /\ Fresh \subseteq old THEN status' = "stopped" /\ main' = main
             ELSE main' = "polling" /\ status' = status
    /\ UNCHANGED <<opts, checked, server, files, reads>>

\* Ten seconds pass before it has seen none.
ShutdownTimeout == Running /\ main = "polling" /\ Exit("timeout")

-----------------------------------------------------------------------------
(***************************************************************************)
(* Reading the pair: tls.LoadX509KeyPair reads the certificate, then the   *)
(* key, and refuses a key that is not the certificate's.                   *)
(***************************************************************************)
\* Fault: the certificate is read once and kept.
ReadCertKept(r) ==
    /\ Running /\ reads[r].at = "cert"
    /\ reads' = [reads EXCEPT ![r] =
                    [@ EXCEPT !.at = "key",
                              !.cert = IF r # Boot THEN reads[Boot].cert ELSE files.cert]]
    /\ UNCHANGED <<opts, main, checked, server, files, conns, status>>

ReadCert(r) ==
    /\ Running /\ reads[r].at = "cert"
    /\ reads' = [reads EXCEPT ![r] = [@ EXCEPT !.at = "key", !.cert = files.cert]]
    /\ UNCHANGED <<opts, main, checked, server, files, conns, status>>

LoadKeyPair(r) == Running /\ reads[r].at = "key" /\ reads[r].cert = files.key

LoadFails(r) == Running /\ reads[r].at = "key" /\ reads[r].cert # files.key

\* Somebody replaces the two files, one after the other in either order.
Replace(f) ==
    /\ Running /\ TLS
    /\ files[f] = Complete /\ files[f] <= MaxRotations
    /\ files' = [files EXCEPT ![f] = @ + 1]
    /\ reads' = [r \in Readers |-> [reads[r] EXCEPT !.mixed = @ \/ reads[r].at # "idle"]]
    /\ UNCHANGED <<opts, main, checked, server, conns, status>>

\* The CA file disappears or comes back.
ReplaceCA ==
    /\ Running /\ TLS /\ opts.ca
    /\ files' = [files EXCEPT !.ca = ~@]
    /\ UNCHANGED <<opts, main, checked, server, reads, conns, status>>

-----------------------------------------------------------------------------
(***************************************************************************)
(* The serving goroutine.  CreateServerTLSConfig tries the pair, then the  *)
(* minimum version and the CA file; then the address is bound.  Once       *)
(* Shutdown has been called, ListenAndServe returns at once.               *)
(***************************************************************************)
Loaded == server = "loading" /\ (IF TLS THEN LoadKeyPair(Boot) ELSE Running)
ConfigWrong == TLS /\ ("minVersion" \in opts.wrong \/ (opts.ca /\ ~files.ca))

BootFails == LoadFails(Boot) /\ Exit("failed")

ConfigFails == Loaded /\ ConfigWrong /\ Exit("failed")

ListenFails ==
    /\ Loaded /\ ~ConfigWrong /\ ~Stopping /\ "address" \in opts.wrong
    /\ Exit("failed")

Listen ==
    /\ Loaded /\ ~ConfigWrong /\ (Stopping \/ "address" \notin opts.wrong)
    /\ server' = IF Stopping THEN "closed" ELSE "listening"
    /\ reads' = [reads EXCEPT ![Boot].at = "idle"]
    /\ UNCHANGED <<opts, main, checked, files, conns, status>>

-----------------------------------------------------------------------------
(***************************************************************************)
(* Connections.  With a CA file a configuration is made for each of them,  *)
(* which asks for a client certificate and does not set the least version. *)
(***************************************************************************)
MinVersion == IF opts.ca THEN DefaultVersion ELSE opts.min

\* A client connects and says which protocol it speaks.
Connect(c) ==
    /\ Running /\ server = "listening" /\ conns[c].at = "closed"
    /\ \E p \in Versions, t \in BOOLEAN :
          LET ok == p >= MinVersion /\ (opts.ca => files.ca)
              at == IF ~TLS THEN "open" ELSE IF ok THEN "handshake" ELSE "refused"
          IN  /\ conns' = [conns EXCEPT ![c] = [at |-> at, proto |-> p, trusted |-> t, pair |-> 0]]
              /\ reads' = [reads EXCEPT ![c] = IF at = "handshake" THEN Started ELSE Idle]
    /\ UNCHANGED <<opts, main, checked, server, files, status>>

\* GetCertificate has read the pair; the client's own certificate is asked for with a CA file.
Handshake(c) ==
    /\ LoadKeyPair(c) /\ conns[c].at = "handshake"
    /\ conns' = [conns EXCEPT ![c] =
                    [@ EXCEPT !.pair = files.key,
                              !.at = IF opts.ca /\ ~conns[c].trusted THEN "refused" ELSE "open"]]
    /\ reads' = [reads EXCEPT ![c].at = "idle"]
    /\ UNCHANGED <<opts, main, checked, server, files, status>>

HandshakeFails(c) ==
    /\ LoadFails(c) /\ conns[c].at = "handshake"
    /\ conns' = [conns EXCEPT ![c].at = "failed"]
    /\ reads' = [reads EXCEPT ![c].at = "idle"]
    /\ UNCHANGED <<opts, main, checked, server, files, status>>

Request(c) ==
    /\ Running /\ conns[c].at \in {"open", "idle"}
    /\ conns' = [conns EXCEPT ![c].at = "busy"]
    /\ UNCHANGED <<opts, main, checked, server, files, reads, status>>

\* After a response the connection is kept, unless the server is shutting down.
Respond(c) ==
    /\ Running /\ conns[c].at = "busy"
    /\ conns' = [conns EXCEPT ![c] = IF Stopping THEN Closed ELSE [@ EXCEPT !.at = "idle"]]
    /\ UNCHANGED <<opts, main, checked, server, files, reads, status>>

Disconnect(c) ==
    /\ Running /\ conns[c].at \in {"handshake", "open", "idle", "refused", "failed"}
    /\ conns' = [conns EXCEPT ![c] = Closed]
    /\ reads' = [reads EXCEPT ![c] = Idle]
    /\ UNCHANGED <<opts, main, checked, server, files, status>>

Ended == ~Running /\ UNCHANGED vars

Next ==
    \/ ShowVersion \/ Check \/ Serve \/ Notify
    \/ SignalEarly \/ Signal \/ ShutdownPoll \/ ShutdownTimeout
    \/ BootFails \/ ConfigFails \/ ListenFails \/ Listen
    \/ \E r \in Readers : ReadCert(r)
    \/ \E f \in {"cert", "key"} : Replace(f)
    \/ ReplaceCA
    \/ \E c \in Conns :
          \/ Connect(c) \/ Handshake(c) \/ HandshakeFails(c)
          \/ Request(c) \/ Respond(c) \/ Disconnect(c)
    \/ Ended

Spec == Init /\ [][Next]_vars

-----------------------------------------------------------------------------
\* Certificates can be replaced while the server runs (tls.go reads them for every handshake): no
\* client is shown a pair older than the one in place when its handshake began, a handshake fails
\* only if a replacement overlapped it, and a client that gets through has the client certificate
\* that a CA file asks for or, without a CA file, the least version (with one: MinVersionKept).
HandshakeExact ==
    TLS => \A c \in Conns :
        /\ conns[c].at \in {"open", "idle", "busy"} =>
              /\ conns[c].pair >= reads[c].since
              /\ opts.ca => conns[c].trusted
              /\ ~opts.ca => conns[c].proto >= opts.min
        /\ conns[c].at = "failed" => reads[c].mixed

\* The flag's help (main.go) and the TLS specification: no client gets through with a version
\* below tls-server-min-version.
MinVersionKept ==
    TLS => \A c \in Conns : conns[c].at \in {"open", "idle", "busy"} => conns[c].proto >= opts.min

\* How the process ends tells what happened (main.go's Fatals and its return): it returns after a
\* signal only with no request in progress; it fails only for a wrong version, CA file or address
\* or for a pair that was being replaced as it started; it never serves with an option that main
\* finds wrong; and a request is cut off only by the timeout or by a signal before Notify.
ExitTells ==
    /\ status = "stopped" => Stopping /\ Busy = {}
    /\ status = "failed" => ConfigWrong \/ "address" \in opts.wrong \/ (TLS /\ reads[Boot].mixed)
    /\ server # "off" => ~opts.showVersion /\ opts.wrong \subseteq {"minVersion", "address"}
    /\ ~Running /\ Busy # {} => status \in {"timeout", "killed"}
=============================================================================
