--------------------------- MODULE HandlersProofs ---------------------------
(***************************************************************************)
(* What Handlers keeps invariant, for any number of requests, addresses    *)
(* and edits of the password file.                                         *)
(***************************************************************************)
EXTENDS Handlers, TLAPS

\* What the mutex and the private copies give: while a request connects, the map
\* it connects from does not change.
UsedFrom ==
    \A r \in Requests :
        /\ pc[r] \notin {"collect", "target", "discover"} => used[r] = {}
        /\ pc[r] = "collect" => \A c \in used[r] : c.ver = passwordMap.ver
        /\ pc[r] = "target" => \A c \in used[r] : c.ver = snapshot[r].ver
        /\ pc[r] = "discover" => \A c1, c2 \in used[r] : c1.ver = c2.ver

\* How old the contents in flight are.
Ages ==
    /\ promised <= file.ver
    /\ \A r \in Requests :
        /\ pc[r] \in {"metrics", "collect", "scrape", "discover"} => since[r] <= promised
        /\ pc[r] = "reload" => since[r] <= file.ver
        /\ pc[r] \in {"loaded", "install"} =>
              since[r] <= snapshot[r].ver /\ snapshot[r].ver <= file.ver

\* Without overlap there is one reload at a time, and it carries a content at least
\* as new as everything promised before.
Sequential ==
    ~overlap =>
        /\ \A r1, r2 \in Reloading : r1 = r2
        /\ promised <= passwordMap.ver
        /\ \A r \in Requests :
            /\ pc[r] \in {"loaded", "install"} => promised <= snapshot[r].ver
            /\ pc[r] = "target" => since[r] <= snapshot[r].ver
            /\ pc[r] = "discover" => \A c \in used[r] : since[r] <= c.ver

IInv == TypeOK /\ LockOwner /\ UsedFrom /\ Ages /\ Sequential

-----------------------------------------------------------------------------
\* The credentials a connection is made with are well formed, and carry the version
\* of the map they were looked up in.
LEMMA CredentialsOf ==
    ASSUME NEW m \in Contents, NEW addr, NEW inUri,
           NEW cs, cs \in connectToRedis(m, addr, inUri) \cup connectToRedisCluster(m, addr)
    PROVE  /\ cs \in SUBSET Credentials
           /\ \A c \in cs : c.ver = m.ver
<1>1. ASSUME NEW via \in Vias, NEW in
      PROVE  /\ Credential(via, m, addr, in) \in Credentials
             /\ Credential(via, m, addr, in).ver = m.ver
  BY DEF Credential, ConfiguredPassword, Credentials, Contents, Sources
<1>2. QED
  BY <1>1 DEF connectToRedis, connectToRedisCluster, Vias

\* A connection made from map m adds such credentials to what its request used.
LEMMA ConnectStep ==
    ASSUME NEW r, NEW m \in Contents, NEW addr, NEW inUri,
           \/ Connect(r, connectToRedis(m, addr, inUri))
           \/ Connect(r, connectToRedisCluster(m, addr))
    PROVE  \E cs \in SUBSET Credentials :
              /\ used' = [used EXCEPT ![r] = @ \cup cs]
              /\ \A c \in cs : c.ver = m.ver
<1>1. PICK cs \in connectToRedis(m, addr, inUri) \cup connectToRedisCluster(m, addr) :
            used' = [used EXCEPT ![r] = @ \cup cs]
  BY DEF Connect
<1>2. /\ cs \in SUBSET Credentials
      /\ \A c \in cs : c.ver = m.ver
  BY <1>1, CredentialsOf
<1>3. QED
  BY <1>1, <1>2

\* The initial state is well typed.
LEMMA TypeInit == Init => TypeOK
<1> SUFFICES ASSUME Init PROVE TypeOK
  OBVIOUS
<1> USE EditsAssumption
<1>1. EmptyMap \in Contents
  BY DEF EmptyMap, Contents
<1>2. file \in [ver : 1 .. MaxEdits + 1, has : SUBSET Addrs, ok : BOOLEAN]
  BY DEF Init
<1>3. Content(file) \in Contents
  BY <1>2 DEF Content, Contents
<1>4. passwordMap \in Contents
  BY <1>1, <1>3 DEF Init
<1>5. overlap \in BOOLEAN
  BY DEF Init
<1>6. pc \in [Requests -> Labels] /\ snapshot \in [Requests -> Contents]
  BY <1>1 DEF Init, Labels
<1>7. QED
  BY <1>2, <1>4, <1>5, <1>6 DEF Init, TypeOK

\* Every step of every handler keeps the types.
LEMMA TypeStep == TypeOK /\ [Next]_vars => TypeOK'
<1> SUFFICES ASSUME TypeOK, [Next]_vars PROVE TypeOK'
  OBVIOUS
<1> USE EditsAssumption
<1>1. CASE UNCHANGED vars
  BY <1>1 DEF TypeOK, vars
<1>2. ASSUME NEW r \in Requests, Answer(r)
      PROVE  /\ pc' \in [Requests -> Labels]
             /\ target' \in [Requests -> Addrs \cup {Self}]
             /\ snapshot' \in [Requests -> Contents]
             /\ used' \in [Requests -> SUBSET Credentials]
             /\ since' \in [Requests -> 0 .. MaxEdits + 1]
  BY <1>2 DEF TypeOK, Answer, Labels, EmptyMap, Contents
<1>3. ASSUME NEW r \in Requests, Request(r) PROVE TypeOK'
  <2>1. CASE MetricsRequest(r) \/ ScrapeRequest(r) \/ DiscoverRequest(r)
    BY <2>1 DEF TypeOK, MetricsRequest, ScrapeRequest, DiscoverRequest, Goto, Labels
  <2>2. CASE ReloadRequest(r)
    <3>1. overlap' \in BOOLEAN
      BY <2>2 DEF ReloadRequest, TypeOK
    <3>2. since' \in [Requests -> 0 .. MaxEdits + 1] /\ pc' \in [Requests -> Labels]
      BY <2>2 DEF ReloadRequest, TypeOK, Labels
    <3>3. QED
      BY <2>2, <3>1, <3>2 DEF ReloadRequest, TypeOK
  <2>3. QED
    BY <1>3, <2>1, <2>2 DEF Request
<1>4. ASSUME NEW r \in Requests, Locking(r) PROVE TypeOK'
  BY <1>4 DEF TypeOK, Locking, CollectLock, ReloadLock, Goto, Labels
<1>5. ASSUME NEW r \in Requests, CollectDone(r) \/ TargetDone(r) \/ DiscoverDone(r)
      PROVE  TypeOK'
  BY <1>5, <1>2 DEF TypeOK, CollectDone, TargetDone, DiscoverDone
<1>6. ASSUME NEW r \in Requests, CollectConnect(r) \/ TargetConnect(r) \/ DiscoverConnect(r)
      PROVE  TypeOK'
  <2>1. PICK cs \in SUBSET Credentials : used' = [used EXCEPT ![r] = @ \cup cs]
    BY <1>6, ConnectStep DEF CollectConnect, TargetConnect, DiscoverConnect, TypeOK
  <2>2. used' \in [Requests -> SUBSET Credentials]
    BY <2>1 DEF TypeOK
  <2>3. QED
    BY <1>6, <2>2 DEF TypeOK, CollectConnect, TargetConnect, DiscoverConnect
<1>7. ASSUME NEW r \in Requests, ScrapeCopy(r) PROVE TypeOK'
  <2>1. CASE Answer(r)
    BY <1>7, <1>2, <2>1 DEF TypeOK, ScrapeCopy
  <2>2. CASE ~Answer(r)
    BY <1>7, <2>2 DEF TypeOK, ScrapeCopy, Labels
  <2>3. QED
    BY <2>1, <2>2
<1>8. ASSUME NEW r \in Requests, ReloadRead(r) PROVE TypeOK'
  <2>1. CASE Answer(r)
    BY <1>8, <1>2, <2>1 DEF TypeOK, ReloadRead
  <2>2. Content(file) \in Contents
    BY DEF TypeOK, Content, Contents
  <2>3. CASE ~Answer(r)
    BY <1>8, <2>2, <2>3 DEF TypeOK, ReloadRead, Labels
  <2>4. QED
    BY <2>1, <2>3
<1>9. ASSUME NEW r \in Requests, ReloadInstall(r) PROVE TypeOK'
  BY <1>9, <1>2 DEF TypeOK, ReloadInstall
<1>10. CASE EditFile
  BY <1>10 DEF TypeOK, EditFile, reqVars
<1>11. CASE Signal \/ ShutdownReturns
  BY <1>11 DEF TypeOK, Signal, ShutdownReturns, reqVars
<1>12. QED
  BY <1>1, <1>3, <1>4, <1>5, <1>6, <1>7, <1>8, <1>9, <1>10, <1>11
     DEF Next, Terminated, Working

\* Type correctness of the handlers' state.
THEOREM TypeCorrect == Spec => []TypeOK
BY TypeInit, TypeStep, PTL DEF Spec

-----------------------------------------------------------------------------
\* All the requests but r stay where they are.
Frame(r) ==
    \A q \in Requests \ {r} :
        /\ pc'[q] = pc[q] /\ snapshot'[q] = snapshot[q]
        /\ used'[q] = used[q] /\ since'[q] = since[q]

\* A step of Next is an edit, a signal or shutdown, a stutter, or a step of one
\* request; the other requests stay where they are.
LEMMA FrameStep ==
    ASSUME TypeOK, NEW r \in Requests, Request(r) \/ Working(r) \/ Locking(r)
    PROVE  Frame(r)
<1>1. CASE Request(r)
  BY <1>1 DEF Frame, TypeOK, Request, MetricsRequest, ScrapeRequest, DiscoverRequest,
              ReloadRequest, Goto
<1>2. CASE Locking(r)
  BY <1>2 DEF Frame, TypeOK, Locking, CollectLock, ReloadLock, Goto
<1>3. CASE CollectConnect(r) \/ TargetConnect(r) \/ DiscoverConnect(r)
  BY <1>3 DEF Frame, TypeOK, CollectConnect, TargetConnect, DiscoverConnect, Connect
<1>4. CASE CollectDone(r) \/ TargetDone(r) \/ DiscoverDone(r) \/ ReloadInstall(r)
  BY <1>4 DEF Frame, TypeOK, CollectDone, TargetDone, DiscoverDone, ReloadInstall, Answer
<1>5. CASE ScrapeCopy(r) \/ ReloadRead(r)
  BY <1>5 DEF Frame, TypeOK, ScrapeCopy, ReloadRead, Answer
<1>6. QED
  BY <1>1, <1>2, <1>3, <1>4, <1>5 DEF Working

\* The mutex changes hands only through its free state.
LEMMA LockStep ==
    ASSUME TypeOK, LockOwner, NEW r \in Requests, Request(r) \/ Working(r) \/ Locking(r)
    PROVE  LockOwner'
<1> USE RequestsAssumption
<1>1. CASE Request(r)
  BY <1>1 DEF LockOwner, TypeOK, Request, MetricsRequest, ScrapeRequest, DiscoverRequest,
              ReloadRequest, Goto
<1>2. CASE Locking(r)
  BY <1>2 DEF LockOwner, TypeOK, Locking, CollectLock, ReloadLock, Goto
<1>3. CASE CollectConnect(r) \/ TargetConnect(r) \/ DiscoverConnect(r)
  BY <1>3 DEF LockOwner, TypeOK, CollectConnect, TargetConnect, DiscoverConnect
<1>4. CASE CollectDone(r) \/ TargetDone(r) \/ DiscoverDone(r) \/ ReloadInstall(r)
  BY <1>4 DEF LockOwner, TypeOK, CollectDone, TargetDone, DiscoverDone, ReloadInstall, Answer
<1>5. CASE ScrapeCopy(r) \/ ReloadRead(r)
  BY <1>5 DEF LockOwner, TypeOK, ScrapeCopy, ReloadRead, Answer
<1>6. QED
  BY <1>1, <1>2, <1>3, <1>4, <1>5 DEF Working

\* The map a request connects from does not change under it: a reload installs its
\* map only with the mutex, which a scrape of the exporter itself holds too.
LEMMA UsedStep ==
    ASSUME TypeOK, LockOwner, UsedFrom,
           NEW r \in Requests, Request(r) \/ Working(r) \/ Locking(r)
    PROVE  UsedFrom'
<1> USE RequestsAssumption
<1>1. Frame(r)
  BY FrameStep
<1>2. CASE Request(r)
  BY <1>2 DEF UsedFrom, TypeOK, Request, MetricsRequest, ScrapeRequest,
              DiscoverRequest, ReloadRequest, Goto
<1>3. CASE Locking(r)
  BY <1>3 DEF UsedFrom, TypeOK, Locking, CollectLock, ReloadLock, Goto
<1>4. CASE CollectConnect(r)
  <2>1. passwordMap \in Contents
    BY DEF TypeOK
  <2>2. \/ Connect(r, connectToRedis(passwordMap, Self, InUri))
        \/ Connect(r, connectToRedisCluster(passwordMap, Self))
    BY <1>4 DEF CollectConnect
  <2>3. PICK cs \in SUBSET Credentials :
              /\ used' = [used EXCEPT ![r] = @ \cup cs]
              /\ \A c \in cs : c.ver = passwordMap.ver
    BY <2>1, <2>2, ConnectStep
  <2>4. used'[r] = used[r] \cup cs
    BY <2>3 DEF TypeOK
  <2>5. pc' = pc /\ passwordMap' = passwordMap /\ snapshot' = snapshot /\ pc[r] = "collect"
    BY <1>4 DEF CollectConnect
  <2>6. \A c \in used'[r] : c.ver = passwordMap.ver
    BY <2>3, <2>4, <2>5 DEF UsedFrom
  <2>7. QED
    BY <1>1, <2>5, <2>6 DEF Frame, UsedFrom
<1>5. CASE TargetConnect(r)
  <2>1. snapshot[r] \in Contents
    BY DEF TypeOK
  <2>2. PICK m \in Contents, addr \in {target[r]} :
              /\ m = snapshot[r]
              /\ \/ Connect(r, connectToRedis(m, addr, "none"))
                 \/ Connect(r, connectToRedisCluster(m, addr))
    BY <1>5, <2>1 DEF TargetConnect
  <2>3. PICK cs \in SUBSET Credentials :
              /\ used' = [used EXCEPT ![r] = @ \cup cs]
              /\ \A c \in cs : c.ver = m.ver
    <3>1. CASE Connect(r, connectToRedis(m, addr, "none"))
      BY <3>1, ConnectStep
    <3>2. CASE Connect(r, connectToRedisCluster(m, addr))
      BY <3>2, ConnectStep
    <3>3. QED
      BY <2>2, <3>1, <3>2
  <2>4. used'[r] = used[r] \cup cs
    BY <2>3 DEF TypeOK
  <2>5. QED
    BY <1>1, <1>5, <2>2, <2>3, <2>4 DEF Frame, UsedFrom, TargetConnect
<1>6. CASE DiscoverConnect(r)
  <2>1. passwordMap \in Contents
    BY DEF TypeOK
  <2>2. \/ Connect(r, connectToRedis(passwordMap, Self, InUri))
        \/ Connect(r, connectToRedisCluster(passwordMap, Self))
    BY <1>6 DEF DiscoverConnect
  <2>3. PICK cs \in SUBSET Credentials :
              /\ used' = [used EXCEPT ![r] = @ \cup cs]
              /\ \A c \in cs : c.ver = passwordMap.ver
    BY <2>1, <2>2, ConnectStep
  <2>4. used'[r] = used[r] \cup cs
    BY <2>3 DEF TypeOK
  <2>5. QED
    BY <1>1, <1>6, <2>3, <2>4 DEF Frame, UsedFrom, DiscoverConnect
<1>7. CASE CollectDone(r) \/ TargetDone(r) \/ DiscoverDone(r)
  <2>1. pc'[r] = "idle" /\ used'[r] = {} /\ passwordMap' = passwordMap
    BY <1>7 DEF TypeOK, CollectDone, TargetDone, DiscoverDone, Answer
  <2>2. QED
    BY <1>1, <2>1 DEF Frame, UsedFrom
<1>8. CASE ReloadInstall(r)
  <2>1. \A q \in Requests : pc[q] # "collect"
    BY <1>8 DEF ReloadInstall, LockOwner
  <2>2. QED
    BY <1>8, <2>1 DEF UsedFrom, TypeOK, ReloadInstall, Answer
<1>9. CASE ScrapeCopy(r) \/ ReloadRead(r)
  BY <1>9 DEF UsedFrom, TypeOK, ScrapeCopy, ReloadRead, Answer
<1>10. QED
  BY <1>2, <1>3, <1>4, <1>5, <1>6, <1>7, <1>8, <1>9 DEF Working

\* The file only gets newer, and so does what was promised.
LEMMA AgesStep ==
    ASSUME TypeOK, Ages, NEW r \in Requests, Request(r) \/ Working(r) \/ Locking(r)
    PROVE  Ages'
<1> USE EditsAssumption
<1>1. CASE Request(r)
  BY <1>1 DEF Ages, TypeOK, Request, MetricsRequest, ScrapeRequest,
              DiscoverRequest, ReloadRequest, Goto
<1>2. CASE Locking(r)
  BY <1>2 DEF Ages, TypeOK, Locking, CollectLock, ReloadLock, Goto
<1>3. CASE CollectConnect(r) \/ TargetConnect(r) \/ DiscoverConnect(r)
  BY <1>3 DEF Ages, TypeOK, CollectConnect, TargetConnect, DiscoverConnect
<1>4. CASE CollectDone(r) \/ TargetDone(r) \/ DiscoverDone(r)
  <2>1. pc'[r] = "idle" /\ file' = file /\ promised' = promised
    BY <1>4 DEF TypeOK, CollectDone, TargetDone, DiscoverDone, Answer
  <2>2. QED
    BY <2>1, FrameStep DEF Frame, Ages
<1>5. CASE ReloadInstall(r)
  <2>1. since[r] <= file.ver
    BY <1>5 DEF ReloadInstall, Ages, TypeOK, Contents
  <2>2. promised <= promised' /\ promised' <= file.ver
    BY <1>5, <2>1 DEF ReloadInstall, Ages, TypeOK
  <2>3. QED
    BY <1>5, <2>2 DEF ReloadInstall, Ages, TypeOK, Answer, Contents
<1>6. CASE ScrapeCopy(r)
  BY <1>6 DEF Ages, TypeOK, ScrapeCopy, Answer
<1>7. CASE ReloadRead(r)
  BY <1>7 DEF Ages, TypeOK, ReloadRead, Answer, Content
<1>8. QED
  BY <1>1, <1>2, <1>3, <1>4, <1>5, <1>6, <1>7 DEF Working

\* While reloads come one at a time, each one carries a content at least as new as
\* what was promised before it, and nothing newer is promised until it installs it.
LEMMA SequentialStep ==
    ASSUME TypeOK, LockOwner, UsedFrom, Ages, Sequential,
           NEW r \in Requests, Request(r) \/ Working(r) \/ Locking(r)
    PROVE  Sequential'
<1> SUFFICES ASSUME ~overlap' PROVE Sequential'
  BY DEF Sequential
<1> USE EditsAssumption
<1>1. Frame(r)
  BY FrameStep
<1>2. ~overlap
  BY DEF Request, Working, Locking, MetricsRequest, ScrapeRequest, DiscoverRequest,
         ReloadRequest, CollectLock, ReloadLock, CollectConnect, CollectDone, ScrapeCopy,
         TargetConnect, TargetDone, DiscoverConnect, DiscoverDone, ReloadRead, ReloadInstall
<1>3. CASE MetricsRequest(r) \/ ScrapeRequest(r) \/ DiscoverRequest(r)
  <2>1. /\ pc'[r] \in {"metrics", "scrape", "discover"} /\ used'[r] = {}
        /\ promised' = promised /\ passwordMap' = passwordMap
    BY <1>3 DEF MetricsRequest, ScrapeRequest, DiscoverRequest, Goto, TypeOK, UsedFrom
  <2>2. QED
    BY <1>1, <1>2, <2>1 DEF Frame, Sequential, Reloading
<1>4. CASE ReloadRequest(r)
  <2>1. /\ pc'[r] = "reload" /\ Reloading = {}
        /\ promised' = promised /\ passwordMap' = passwordMap
    BY <1>4 DEF ReloadRequest, TypeOK
  <2>2. QED
    BY <1>1, <1>2, <2>1 DEF Frame, Sequential, Reloading
<1>5. CASE Locking(r)
  <2>1. /\ \/ pc[r] = "metrics" /\ pc'[r] = "collect"
           \/ pc[r] = "loaded" /\ pc'[r] = "install"
        /\ promised' = promised /\ passwordMap' = passwordMap /\ snapshot' = snapshot
    BY <1>5 DEF Locking, CollectLock, ReloadLock, Goto, TypeOK
  <2>2. QED
    BY <1>1, <1>2, <2>1 DEF Frame, Sequential, Reloading
<1>6. CASE CollectConnect(r) \/ TargetConnect(r)
  <2>1. /\ pc' = pc /\ pc[r] # "discover" /\ promised' = promised
        /\ passwordMap' = passwordMap /\ snapshot' = snapshot /\ since' = since
    BY <1>6 DEF CollectConnect, TargetConnect
  <2>2. QED
    BY <1>1, <1>2, <2>1 DEF Frame, Sequential, Reloading
<1>7. CASE DiscoverConnect(r)
  <2>1. /\ pc' = pc /\ promised' = promised /\ pc[r] = "discover" /\ used[r] = {}
        /\ passwordMap' = passwordMap /\ snapshot' = snapshot /\ since' = since
    BY <1>7 DEF DiscoverConnect
  <2>2. passwordMap \in Contents /\ Connect(r, connectToRedisCluster(passwordMap, Self))
    BY <1>7 DEF DiscoverConnect, TypeOK
  <2>3. PICK cs \in SUBSET Credentials :
              /\ used' = [used EXCEPT ![r] = @ \cup cs]
              /\ \A c \in cs : c.ver = passwordMap.ver
    BY <2>2, ConnectStep
  <2>4. \A c \in used'[r] : c.ver = passwordMap.ver
    BY <2>1, <2>3 DEF TypeOK
  <2>5. since[r] <= passwordMap.ver
    BY <1>2, <2>1 DEF Ages, Sequential, TypeOK, Contents
  <2>6. QED
    BY <1>1, <1>2, <2>1, <2>4, <2>5 DEF Frame, Sequential, Reloading
<1>8. CASE CollectDone(r) \/ TargetDone(r) \/ DiscoverDone(r)
  <2>1. pc'[r] = "idle" /\ promised' = promised /\ passwordMap' = passwordMap
    BY <1>8 DEF TypeOK, CollectDone, TargetDone, DiscoverDone, Answer
  <2>2. QED
    BY <1>1, <1>2, <2>1 DEF Frame, Sequential, Reloading
<1>9. CASE ScrapeCopy(r)
  <2>1. /\ pc[r] = "scrape" /\ promised' = promised /\ passwordMap' = passwordMap
        /\ \/ pc'[r] = "target" /\ snapshot'[r] = passwordMap /\ since'[r] = since[r]
           \/ pc'[r] = "idle"
    BY <1>9 DEF ScrapeCopy, Answer, TypeOK
  <2>2. since[r] <= passwordMap.ver
    BY <1>2, <2>1 DEF Ages, Sequential, TypeOK, Contents
  <2>3. QED
    BY <1>1, <1>2, <2>1, <2>2 DEF Frame, Sequential, Reloading
<1>10. CASE ReloadRead(r)
  <2>1. /\ pc[r] = "reload" /\ promised' = promised /\ passwordMap' = passwordMap
        /\ \/ pc'[r] = "loaded" /\ snapshot'[r].ver = file.ver
           \/ pc'[r] = "idle"
    BY <1>10 DEF ReloadRead, Answer, TypeOK, Content
  <2>2. QED
    BY <1>1, <1>2, <2>1 DEF Frame, Sequential, Reloading, Ages
<1>11. CASE ReloadInstall(r)
  <2>1. /\ pc[r] = "install" /\ pc'[r] = "idle" /\ passwordMap' = snapshot[r]
        /\ promised' = IF since[r] > promised THEN since[r] ELSE promised
    BY <1>11 DEF ReloadInstall, Answer, TypeOK
  <2>2. since[r] <= snapshot[r].ver /\ promised <= snapshot[r].ver
    BY <1>2, <2>1 DEF Ages, Sequential
  <2>3. promised' <= passwordMap'.ver
    BY <2>1, <2>2
  <2>4. \A q \in Requests \ {r} : q \notin Reloading
    BY <1>2, <2>1 DEF Sequential, Reloading
  <2>5. QED
    BY <1>1, <1>2, <2>1, <2>3, <2>4 DEF Frame, Sequential, Reloading
<1>12. QED
  BY <1>3, <1>4, <1>5, <1>6, <1>7, <1>8, <1>9, <1>10, <1>11 DEF Request, Working

-----------------------------------------------------------------------------
\* The inductive invariant holds at startup.
LEMMA IInvInit == Init => IInv
<1> SUFFICES ASSUME Init PROVE IInv
  OBVIOUS
<1>1. TypeOK
  BY TypeInit
<1>2. LockOwner
  BY RequestsAssumption DEF Init, LockOwner
<1>3. UsedFrom /\ Ages
  BY DEF Init, UsedFrom, Ages
<1>4. promised = 0 /\ passwordMap.ver >= 0
  BY <1>1, EditsAssumption DEF Init, TypeOK, Contents
<1>5. Sequential
  BY <1>4 DEF Init, Sequential, Reloading
<1>6. QED
  BY <1>1, <1>2, <1>3, <1>5 DEF IInv

\* Every step keeps it.
LEMMA IInvStep == IInv /\ [Next]_vars => IInv'
<1> SUFFICES ASSUME IInv, [Next]_vars PROVE IInv'
  OBVIOUS
<1>1. TypeOK'
  BY TypeStep DEF IInv
<1>2. CASE UNCHANGED vars
  BY <1>2 DEF IInv, TypeOK, LockOwner, UsedFrom, Ages, Sequential, Reloading, vars
<1>3. ASSUME NEW r \in Requests, Request(r) \/ Working(r) \/ Locking(r)
      PROVE  IInv'
  BY <1>1, <1>3, LockStep, UsedStep, AgesStep, SequentialStep DEF IInv
<1>4. CASE EditFile
  <2>1. UNCHANGED <<passwordMap, lock, pc, snapshot, used, since, promised, overlap>>
    BY <1>4 DEF EditFile, reqVars
  <2>2. file'.ver = file.ver + 1
    BY <1>4 DEF EditFile
  <2>3. Ages'
    BY <2>1, <2>2, EditsAssumption DEF IInv, Ages, TypeOK, Contents
  <2>4. QED
    BY <1>1, <2>1, <2>3 DEF IInv, LockOwner, UsedFrom, Sequential, Reloading
<1>5. CASE Signal \/ ShutdownReturns
  BY <1>1, <1>5 DEF Signal, ShutdownReturns, reqVars, IInv, LockOwner, UsedFrom, Ages,
                    Sequential, Reloading
<1>6. QED
  BY <1>2, <1>3, <1>4, <1>5 DEF Next, Terminated

\* The inductive invariant holds whatever the handlers of http.go do.
THEOREM Invariant == Spec => []IInv
BY IInvInit, IInvStep, PTL DEF Spec

\* The mutex is held exactly by the request that scrapes or installs.
THEOREM MutexOwned == Spec => []LockOwner
<1>1. IInv => LockOwner
  BY DEF IInv
<1>2. QED
  BY <1>1, Invariant, PTL

\* One scrape connects from one password map only.
THEOREM OneMap == Spec => []OneMapPerScrape
<1>1. IInv => OneMapPerScrape
  BY DEF IInv, UsedFrom, OneMapPerScrape
<1>2. QED
  BY <1>1, Invariant, PTL

\* As long as reloads do not overlap, a reload that was answered ok is in effect.
THEOREM ReloadEffective == Spec => []ReloadInEffectUnlessOverlap
<1>1. IInv => ReloadInEffectUnlessOverlap
  BY EditsAssumption
     DEF IInv, Sequential, TypeOK, Contents, ReloadInEffectUnlessOverlap, ReloadInEffect
<1>2. QED
  BY <1>1, Invariant, PTL

\* As long as reloads do not overlap, later requests connect with the new passwords.
THEOREM Fresh == Spec => []FreshUnlessOverlap
<1>1. IInv => FreshUnlessOverlap
  <2> SUFFICES ASSUME IInv, ~overlap, NEW r \in Requests, NEW c \in used[r]
               PROVE  c.ver >= since[r]
    BY DEF FreshUnlessOverlap
  <2>1. /\ since[r] \in Int /\ promised \in Int /\ passwordMap.ver \in Int
        /\ snapshot[r].ver \in Int /\ c.ver \in Int
    BY EditsAssumption DEF IInv, TypeOK, Contents, Credentials
  <2>2. pc[r] \in {"collect", "target", "discover"}
    BY DEF IInv, UsedFrom
  <2>3. QED
    BY <2>1, <2>2 DEF IInv, UsedFrom, Ages, Sequential
<1>2. QED
  BY <1>1, Invariant, PTL
=============================================================================
