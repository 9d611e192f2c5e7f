----------------------------- MODULE Directory -----------------------------
(***************************************************************************)
(* The two sections that first ask for a list of names and then about each *)
(* name: extractSentinelMetrics with extractSentinelConfig of              *)
(* exporter/sentinels.go, and extractSearchIndexesMetrics of               *)
(* exporter/search_indexes.go.  A name may be removed in between.          *)
(*                                                                         *)
(* masters[m] is [named, quorum, sentinels, slaves]: whether its           *)
(* description has a name, an address and a port, whether CKQUORUM is OK,  *)
(* and what is known of each sentinel and replica: "ok", "down" (o_down or *)
(* s_down), or "odd" (no flags, or not a map).  indexes[i] is "ok", or     *)
(* "odd" when FT.INFO cannot be scanned.                                   *)
(***************************************************************************)
EXTENDS StreamInfo

CONSTANT ConfigPairs    \* the sentinel's parameters: "text", "number" or "odd"

ASSUME ConfigAssumption == ConfigPairs \in Seq({"text", "number", "odd"})

master == Head(todo)

\* INFO has no Sentinel section.
NotSentinel ==
    /\ section = "sentinel" /\ step = "next" /\ ~opts.sentinel
    /\ section' = "search"
    /\ UNCHANGED <<serverVars, selected, owed, pending, step, todo, scanVars, out, info>>

\* SENTINEL MASTERS.  A description without name, address or port is skipped.
SentinelMasters ==
    /\ section = "sentinel" /\ step = "next" /\ opts.sentinel
    /\ ReadPending(section)
    /\ todo' = IF Fails("SENTINEL_MASTERS") THEN <<>>
               ELSE SetToSeq({m \in DOMAIN masters : masters[m].named})
    /\ step' = "ckquorum"
    /\ UNCHANGED <<serverVars, selected, owed, section, scanVars, out, info>>

\* An error of CKQUORUM is the status: the loop goes on with this master.
CkQuorum ==
    /\ section = "sentinel" /\ step = "ckquorum" /\ todo # <<>>
    /\ ReadPending(section)
    /\ out' = Append(out, [name |-> "ckquorum_status", key |-> master,
                           value |-> IF Fails("SENTINEL_CKQUORUM") \/ master \notin DOMAIN masters
                                     THEN 0 ELSE IF masters[master].quorum THEN 1 ELSE 0])
    /\ step' = "sentinels"
    /\ UNCHANGED <<serverVars, selected, owed, section, todo, scanVars, info>>

\* Those among the descriptions with flags that are not down.
OkOnes(s) == Cardinality({i \in DOMAIN s : s[i] = "ok"})

\* The sentinel that is asked counts itself.
OkSentinels(s) == 1 + OkOnes(s)

\* The reply to SENTINELS or SLAVES; an error is read as an empty list.
Details(cmd, who) == IF Fails(cmd) \/ master \notin DOMAIN masters THEN <<>> ELSE masters[master][who]

SentinelSentinels ==
    /\ section = "sentinel" /\ step = "sentinels"
    /\ ReadPending(section)
    /\ out' = Append(out, [name |-> "ok_sentinels", key |-> master,
                           value |-> OkSentinels(Details("SENTINEL_SENTINELS", "sentinels"))])
    /\ step' = "slaves"
    /\ UNCHANGED <<serverVars, selected, owed, section, todo, scanVars, info>>

SentinelSlaves ==
    /\ section = "sentinel" /\ step = "slaves"
    /\ ReadPending(section)
    /\ out' = Append(out, [name |-> "ok_slaves", key |-> master,
                           value |-> OkOnes(Details("SENTINEL_SLAVES", "slaves"))])
    /\ todo' = Tail(todo) /\ step' = "ckquorum"
    /\ UNCHANGED <<serverVars, selected, owed, section, scanVars, info>>

\* extractSentinelConfig, when asked for.  A parameter whose name or value is not a
\* string is skipped; one that is a number is registered a second time as such.
SentinelConfig ==
    /\ section = "sentinel" /\ step = "ckquorum" /\ todo = <<>>
    /\ IF opts.config THEN ReadPending(section) ELSE UNCHANGED pending
    /\ LET Count(P(_)) == Cardinality({i \in DOMAIN ConfigPairs : P(ConfigPairs[i])})
       IN  out' = IF opts.config /\ ~Fails("SENTINEL_CONFIG")
                  THEN Append(out, [name |-> "sentinel_config",
                                    keyValues |-> Count(LAMBDA p : p # "odd"),
                                    values |-> Count(LAMBDA p : p = "number")])
                  ELSE out
    /\ section' = "search" /\ step' = "next"
    /\ UNCHANGED <<serverVars, selected, owed, todo, scanVars, info>>

-----------------------------------------------------------------------------
\* FT._LIST.  The regular expression of the option is a set of names.
SearchList ==
    /\ section = "search" /\ step = "next" /\ opts.search # {}
    /\ ReadPending(section)
    /\ todo' = IF Fails("FT._LIST") THEN <<>> ELSE SetToSeq(DOMAIN indexes \cap opts.search)
    /\ step' = "index"
    /\ UNCHANGED <<serverVars, selected, owed, section, scanVars, out, info>>

\* Fault: a reply that cannot be scanned ends the loop.
SearchInfoOddEnds ==
    /\ section = "search" /\ step = "index" /\ todo # <<>>
    /\ ReadPending(section)
    /\ LET i == Head(todo) IN
       IF Fails("FT.INFO") \/ i \notin DOMAIN indexes \/ indexes[i] = "odd"
         THEN todo' = <<>> /\ UNCHANGED out
         ELSE /\ todo' = Tail(todo)
              /\ out' = Append(out, [name |-> "search_index", key |-> i])
    /\ UNCHANGED <<serverVars, selected, owed, section, step, scanVars, info>>

\* An error of FT.INFO ends the section; a reply that cannot be scanned is skipped.
SearchInfo ==
    /\ section = "search" /\ step = "index" /\ todo # <<>>
    /\ ReadPending(section)
    /\ LET i == Head(todo) IN
       IF Fails("FT.INFO") \/ i \notin DOMAIN indexes
         THEN todo' = <<>> /\ UNCHANGED out
         ELSE /\ todo' = Tail(todo)
              /\ out' = IF indexes[i] = "ok"
                        THEN Append(out, [name |-> "search_index", key |-> i]) ELSE out
    /\ UNCHANGED <<serverVars, selected, owed, section, step, scanVars, info>>

SearchDone ==
    /\ section = "search" /\ (opts.search = {} \/ (step = "index" /\ todo = <<>>))
    /\ section' = "script" /\ step' = "next"
    /\ UNCHANGED <<serverVars, selected, owed, pending, todo, scanVars, out, info>>

DirectoryNext ==
    \/ NotSentinel \/ SentinelMasters \/ CkQuorum \/ SentinelSentinels \/ SentinelSlaves
    \/ SentinelConfig \/ SearchList \/ SearchInfo \/ SearchDone
=============================================================================
