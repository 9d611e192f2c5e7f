------------------------------ MODULE Handlers ------------------------------
(***************************************************************************)
(* The exporter's HTTP handlers (exporter/http.go, Collect in              *)
(* exporter/exporter.go, the connections of exporter/redis.go) and the     *)
(* life of the server that runs them (main.go).  net/http serves every     *)
(* request in a goroutine of its own; the exporter's mutex orders scrapes  *)
(* of its own instance and the installation of a reloaded password map,    *)
(* and nothing else.                                                       *)
(*                                                                         *)
(* The password file is edited from outside.  A content of the file is its *)
(* version and the addresses it has a password for; passwords themselves   *)
(* are told apart by the version of the content they come from.            *)
(***************************************************************************)
EXTENDS Integers

CONSTANTS
    Requests,    \* the request goroutines
    Addrs,       \* redis addresses
    Self,        \* the address in redis.addr, "" if there is none
    Options,     \* the command lines to consider: see OptionSet
    MaxEdits     \* bound: edits of the password file

OptionSet == [password : BOOLEAN,   \* redis.password is set
              uriPassword : BOOLEAN,\* redis.addr holds a password
              pwdFile : BOOLEAN,    \* redis.password-file is set
              cluster : BOOLEAN]    \* is-cluster is set

NoRequest == "nobody"

ASSUME OptionsAssumption == Options \subseteq OptionSet
ASSUME EditsAssumption == MaxEdits \in Nat
ASSUME RequestsAssumption == NoRequest \notin Requests

VARIABLES
    options,      \* the command line
    file,         \* the password file: its content, and whether it can be parsed
    passwordMap,  \* e.options.PasswordMap of the exporter
    lock,         \* the holder of the exporter's mutex
    server,       \* up, stopping, exited (return of main) or killed (log.Fatal)
    pc,           \* pc[r]: where request r is; "idle" is a free goroutine
    target,       \* target[r]: the address request r scrapes
    snapshot,     \* snapshot[r]: a password map held by request r only
    used,         \* used[r]: the credentials request r has connected with
    since,        \* history: what was newest when request r came in: the version
                  \* of the file for a reload, promised for the others
    promised,     \* history: the newest version a reload was answered ok for
    overlap       \* history: two reloads have been in progress at once

vars == <<options, file, passwordMap, lock, server, pc, target, snapshot, used,
          since, promised, overlap>>

reqVars == <<pc, target, snapshot, used, since>>

EmptyMap == [ver |-> 0, has |-> {}]

Contents == [ver : 0 .. MaxEdits + 1, has : SUBSET Addrs]

Content(f) == [ver |-> f.ver, has |-> f.has]

Reloading == {r \in Requests : pc[r] \in {"reload", "loaded", "install"}}

Running == server \in {"up", "stopping"}

(***************************************************************************)
(* main: the password file is loaded at startup only when no password was  *)
(* given; a file that cannot be loaded ends the process.                   *)
(***************************************************************************)
Init ==
    /\ options \in Options
    /\ file \in [ver : {1}, has : SUBSET Addrs, ok : BOOLEAN]
    /\ IF ~options.password /\ options.pwdFile
         THEN file.ok /\ passwordMap = Content(file)
         ELSE passwordMap = EmptyMap
    /\ lock = NoRequest
    /\ server = "up"
    /\ pc = [r \in Requests |-> "idle"]
    /\ target = [r \in Requests |-> Self]
    /\ snapshot = [r \in Requests |-> EmptyMap]
    /\ used = [r \in Requests |-> {}]
    /\ since = [r \in Requests |-> 0]
    /\ promised = 0
    /\ overlap = FALSE

\* Somebody edits the password file, rightly or wrongly.
EditFile ==
    /\ file.ver <= MaxEdits
    /\ \E h \in SUBSET Addrs, ok \in BOOLEAN :
          file' = [ver |-> file.ver + 1, has |-> h, ok |-> ok]
    /\ UNCHANGED <<options, passwordMap, lock, server, reqVars, promised, overlap>>

\* Request r is answered, and its goroutine ends.
Answer(r) ==
    /\ pc' = [pc EXCEPT ![r] = "idle"]
    /\ target' = [target EXCEPT ![r] = Self]
    /\ snapshot' = [snapshot EXCEPT ![r] = EmptyMap]
    /\ used' = [used EXCEPT ![r] = {}]
    /\ since' = [since EXCEPT ![r] = 0]

Goto(r, label) ==
    /\ pc' = [pc EXCEPT ![r] = label]
    /\ UNCHANGED <<target, snapshot>>

-----------------------------------------------------------------------------
(***************************************************************************)
(* Connecting.  configureOptions lets a password of the map override the   *)
(* one of the command line, DialURL lets the one in the address override   *)
(* both.  A cluster connection and the second attempt after a failed       *)
(* DialURL have the host only.                                             *)
(***************************************************************************)
ConfiguredPassword(m, addr) ==
    IF addr \in m.has THEN "file"
    ELSE IF options.password THEN "option" ELSE "none"

\* The exporter's own address may hold a password ("uri"); a target of /scrape loses its ("none").
InUri == IF options.uriPassword THEN "uri" ELSE "none"

Credential(via, m, addr, inUri) ==
    [via |-> via, ver |-> m.ver,
     src |-> IF via = "url" /\ inUri = "uri" THEN "uri" ELSE ConfiguredPassword(m, addr)]

connectToRedis(m, addr, inUri) ==
    { {Credential("url", m, addr, inUri)},
      {Credential("url", m, addr, inUri), Credential("dial", m, addr, inUri)} }

connectToRedisCluster(m, addr) == { {Credential("cluster", m, addr, "none")} }

Connect(r, connections) ==
    \E cs \in connections : used' = [used EXCEPT ![r] = @ \cup cs]

-----------------------------------------------------------------------------
(***************************************************************************)
(* /metrics: Collect of the exporter itself.  The mutex is held from       *)
(* before the connection is made to the end of the scrape; scrapeRedisHost *)
(* connects once, and in cluster mode up to twice more for keys and key    *)
(* groups.                                                                 *)
(***************************************************************************)
MetricsRequest(r) ==
    /\ server = "up" /\ pc[r] = "idle"
    /\ Goto(r, "metrics")
    /\ since' = [since EXCEPT ![r] = promised]
    /\ UNCHANGED <<options, file, passwordMap, lock, server, used, promised, overlap>>

\* Fault: the scrape does not take the mutex.
CollectWithoutLock(r) ==
    /\ pc[r] = "metrics"
    /\ Goto(r, "collect")
    /\ UNCHANGED <<since, options, file, passwordMap, lock, server, used, promised, overlap>>

CollectLock(r) ==
    /\ pc[r] = "metrics"
    /\ lock = NoRequest
    /\ lock' = r
    /\ Goto(r, "collect")
    /\ UNCHANGED <<since, options, file, passwordMap, server, used, promised, overlap>>

CollectConnect(r) ==
    /\ pc[r] = "collect"
    /\ Self # ""
    /\ \/ used[r] = {} /\ Connect(r, connectToRedis(passwordMap, Self, InUri))
       \/ /\ used[r] # {} /\ options.cluster
          /\ Connect(r, connectToRedisCluster(passwordMap, Self))
    /\ UNCHANGED <<options, file, passwordMap, lock, server, pc, target, snapshot, since,
                   promised, overlap>>

\* Fault: a return that leaves the mutex locked.
CollectDoneLocked(r) ==
    /\ pc[r] = "collect"
    /\ Self = "" \/ used[r] # {}
    /\ Answer(r)
    /\ UNCHANGED <<options, file, passwordMap, lock, server, promised, overlap>>

CollectDone(r) ==
    /\ pc[r] = "collect"
    /\ Self = "" \/ used[r] # {}
    /\ lock' = NoRequest
    /\ Answer(r)
    /\ UNCHANGED <<options, file, passwordMap, server, promised, overlap>>

(***************************************************************************)
(* /scrape: an exporter of the request's own for another address, with a   *)
(* copy of the options that is taken without the mutex.                    *)
(***************************************************************************)
ScrapeRequest(r) ==
    /\ server = "up" /\ pc[r] = "idle"
    /\ \E a \in Addrs : target' = [target EXCEPT ![r] = a]
    /\ pc' = [pc EXCEPT ![r] = "scrape"]
    /\ since' = [since EXCEPT ![r] = promised]
    /\ UNCHANGED <<options, file, passwordMap, lock, server, snapshot, used,
                   promised, overlap>>

\* Fault: the options are the ones of an exporter without a password map.
ScrapeCopyEmpty(r) ==
    /\ pc[r] = "scrape"
    /\ pc' = [pc EXCEPT ![r] = "target"]
    /\ UNCHANGED <<options, file, passwordMap, lock, server, target, snapshot, used, since,
                   promised, overlap>>

\* The copy of the options, or the answer 400 to a bad address or key list.
ScrapeCopy(r) ==
    /\ pc[r] = "scrape"
    /\ \/ /\ snapshot' = [snapshot EXCEPT ![r] = passwordMap]
          /\ pc' = [pc EXCEPT ![r] = "target"]
          /\ UNCHANGED <<target, used, since>>
       \/ Answer(r)
    /\ UNCHANGED <<options, file, passwordMap, lock, server, promised, overlap>>

TargetConnect(r) ==
    /\ pc[r] = "target"
    /\ \/ /\ used[r] = {}
          /\ Connect(r, connectToRedis(snapshot[r], target[r], "none"))
       \/ /\ used[r] # {} /\ options.cluster
          /\ Connect(r, connectToRedisCluster(snapshot[r], target[r]))
    /\ UNCHANGED <<options, file, passwordMap, lock, server, pc, target, snapshot, since,
                   promised, overlap>>

TargetDone(r) ==
    /\ pc[r] = "target"
    /\ used[r] # {}
    /\ Answer(r)
    /\ UNCHANGED <<options, file, passwordMap, lock, server, promised, overlap>>

(***************************************************************************)
(* /discover-cluster-nodes: one cluster connection, the map read without   *)
(* the mutex; 400 outside cluster mode.                                    *)
(***************************************************************************)
DiscoverRequest(r) ==
    /\ server = "up" /\ pc[r] = "idle"
    /\ options.cluster
    /\ Goto(r, "discover")
    /\ since' = [since EXCEPT ![r] = promised]
    /\ UNCHANGED <<options, file, passwordMap, lock, server, used, promised, overlap>>

DiscoverConnect(r) ==
    /\ pc[r] = "discover" /\ used[r] = {}
    /\ Connect(r, connectToRedisCluster(passwordMap, Self))
    /\ UNCHANGED <<options, file, passwordMap, lock, server, pc, target, snapshot, since,
                   promised, overlap>>

DiscoverDone(r) ==
    /\ pc[r] = "discover" /\ used[r] # {}
    /\ Answer(r)
    /\ UNCHANGED <<options, file, passwordMap, lock, server, promised, overlap>>

-----------------------------------------------------------------------------
(***************************************************************************)
(* /-/reload: the file is read before the mutex is asked for.              *)
(***************************************************************************)
ReloadRequest(r) ==
    /\ server = "up" /\ pc[r] = "idle"
    /\ options.pwdFile
    /\ pc' = [pc EXCEPT ![r] = "reload"]
    /\ since' = [since EXCEPT ![r] = file.ver]
    /\ overlap' = (overlap \/ Reloading # {})
    /\ UNCHANGED <<options, file, passwordMap, lock, server, target, snapshot, used, promised>>

\* Fault: the nil map of a failed LoadPwdFile is installed.
ReloadReadNil(r) ==
    /\ pc[r] = "reload"
    /\ snapshot' = [snapshot EXCEPT ![r] = IF file.ok THEN Content(file)
                                           ELSE [ver |-> -1, has |-> {}]]
    /\ pc' = [pc EXCEPT ![r] = "loaded"]
    /\ UNCHANGED <<options, file, passwordMap, lock, server, target, used, since,
                   promised, overlap>>

\* LoadPwdFile; 500 if the file cannot be read and parsed.
ReloadRead(r) ==
    /\ pc[r] = "reload"
    /\ \/ /\ file.ok
          /\ snapshot' = [snapshot EXCEPT ![r] = Content(file)]
          /\ pc' = [pc EXCEPT ![r] = "loaded"]
          /\ UNCHANGED <<target, used, since>>
       \/ ~file.ok /\ Answer(r)
    /\ UNCHANGED <<options, file, passwordMap, lock, server, promised, overlap>>

ReloadLock(r) ==
    /\ pc[r] = "loaded"
    /\ lock = NoRequest
    /\ lock' = r
    /\ Goto(r, "install")
    /\ UNCHANGED <<since, options, file, passwordMap, server, used, promised, overlap>>

\* Fault: an empty map is never replaced (a nil check the wrong way round).
ReloadInstallIfSet(r) ==
    /\ pc[r] = "install"
    /\ passwordMap' = IF passwordMap.has = {} THEN passwordMap ELSE snapshot[r]
    /\ lock' = NoRequest
    /\ promised' = IF since[r] > promised THEN since[r] ELSE promised
    /\ Answer(r)
    /\ UNCHANGED <<options, file, server, overlap>>

\* The assignment, the unlock and the answer "ok".
ReloadInstall(r) ==
    /\ pc[r] = "install"
    /\ passwordMap' = snapshot[r]
    /\ lock' = NoRequest
    /\ promised' = IF since[r] > promised THEN since[r] ELSE promised
    /\ Answer(r)
    /\ UNCHANGED <<options, file, server, overlap>>

-----------------------------------------------------------------------------
(***************************************************************************)
(* Shutdown: on a signal the server takes no new request and waits for the *)
(* ones in progress; when the context's 10 seconds are over, log.Fatalf    *)
(* ends the process under them.                                            *)
(***************************************************************************)
Signal ==
    /\ server = "up"
    /\ server' = "stopping"
    /\ UNCHANGED <<options, file, passwordMap, lock, reqVars, promised, overlap>>

ShutdownReturns ==
    /\ server = "stopping"
    /\ \/ (\A r \in Requests : pc[r] = "idle") /\ server' = "exited"
       \/ (\E r \in Requests : pc[r] # "idle") /\ server' = "killed"
    /\ UNCHANGED <<options, file, passwordMap, lock, reqVars, promised, overlap>>

-----------------------------------------------------------------------------
Locking(r) == CollectLock(r) \/ ReloadLock(r)

Working(r) ==
    \/ CollectConnect(r) \/ CollectDone(r)
    \/ ScrapeCopy(r) \/ TargetConnect(r) \/ TargetDone(r)
    \/ DiscoverConnect(r) \/ DiscoverDone(r)
    \/ ReloadRead(r) \/ ReloadInstall(r)

Request(r) ==
    MetricsRequest(r) \/ ScrapeRequest(r) \/ DiscoverRequest(r) \/ ReloadRequest(r)

Terminated == ~Running /\ UNCHANGED vars

Next ==
    \/ Running /\ \/ \E r \in Requests : Request(r) \/ Working(r) \/ Locking(r)
                  \/ EditFile \/ Signal \/ ShutdownReturns
    \/ Terminated

(***************************************************************************)
(* Every step of a handler returns: redis answers or the connection's      *)
(* timeouts expire.  A goroutine that waits for the mutex gets it in the   *)
(* end although others compete for it, because sync.Mutex hands over to    *)
(* the first waiter once it has waited for a millisecond: strong fairness. *)
(* Nothing is assumed about requests, edits and signals.                   *)
(***************************************************************************)
Fairness ==
    \A r \in Requests : /\ WF_vars(Running /\ Working(r))
                        /\ SF_vars(Running /\ Locking(r))

Spec == Init /\ [][Next]_vars /\ Fairness

-----------------------------------------------------------------------------
(***************************************************************************)
(* Properties.                                                             *)
(***************************************************************************)
Vias == {"url", "dial", "cluster"}
Sources == {"uri", "file", "option", "none"}
Labels == {"idle", "metrics", "collect", "scrape", "target", "discover",
           "reload", "loaded", "install"}
Credentials == [via : Vias, ver : 0 .. MaxEdits + 1, src : Sources]

\* The variables have their types: in particular no handler leaves the exporter
\* without a password map, not even a reload that fails.
TypeOK ==
    /\ options \in Options
    /\ file \in [ver : 1 .. MaxEdits + 1, has : SUBSET Addrs, ok : BOOLEAN]
    /\ passwordMap \in Contents
    /\ lock \in Requests \cup {NoRequest}
    /\ server \in {"up", "stopping", "exited", "killed"}
    /\ pc \in [Requests -> Labels]
    /\ target \in [Requests -> Addrs \cup {Self}]
    /\ snapshot \in [Requests -> Contents]
    /\ used \in [Requests -> SUBSET Credentials]
    /\ since \in [Requests -> 0 .. MaxEdits + 1]
    /\ promised \in 0 .. MaxEdits + 1
    /\ overlap \in BOOLEAN

\* The mutex is held exactly while its holder scrapes or installs a map: on every
\* path it is released, and no two requests are in Collect of the exporter at once
\* (Collect fills maps of the exporter that nothing else protects).
LockOwner ==
    \A r \in Requests : (lock = r) <=> pc[r] \in {"collect", "install"}

\* All the connections of one scrape, the cluster connections for keys and key
\* groups included, are made from one and the same password map, although reloads
\* go on meanwhile and /scrape copies the options without the mutex.
OneMapPerScrape ==
    \A r \in Requests : \A c1, c2 \in used[r] : c1.ver = c2.ver

\* The authentication specification on /-/reload: the new passwords are effective
\* at once.  A map at least as new as the file was when a reload was asked for is
\* installed from the moment this reload is answered ok.
ReloadInEffect == passwordMap.ver >= promised

\* So it is as long as reloads do not overlap.
ReloadInEffectUnlessOverlap == overlap \/ ReloadInEffect

\* As long as reloads do not overlap, no request that came in after a reload was
\* answered ok connects with an older password map than that reload promised.
FreshUnlessOverlap ==
    overlap \/ \A r \in Requests : \A c \in used[r] : c.ver >= since[r]

\* README: the password file is used only when redis.password is empty.
PasswordFileIgnored ==
    options.password => \A r \in Requests : \A c \in used[r] : c.src # "file"

\* Every request is answered, unless the process ends: a reload behind a slow
\* scrape, a scrape behind others, whatever the order in which they get the mutex.
Answered ==
    \A r \in Requests : pc[r] # "idle" ~> (pc[r] = "idle" \/ ~Running)
=============================================================================
