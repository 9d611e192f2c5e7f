------------------------------ MODULE Sections ------------------------------
(***************************************************************************)
(* The sections of a scrape that walk the server's names, one after the    *)
(* other on the same connection, in the order of scrapeRedisHost: checked  *)
(* keys, counted keys, streams, slow log, key groups, sentinel, search     *)
(* indexes, scripts.  Scrape says which of them run; here is what passes   *)
(* from one to the next, which is the connection: the database selected on *)
(* it, the replies unread on it, and its loss.                             *)
(***************************************************************************)
EXTENDS Directory

CONSTANT DbCount    \* the number of databases as CONFIG gives it

ASSUME DbCountAssumption == DbCount \in Nat /\ 0 .. DbCount - 1 \subseteq Dbs

\* The entries of the options that are searched for patterns, and of those that are not.
Patterns == [db : Nat, pat : DOMAIN Match]
Entries == [db : Nat, pat : DOMAIN Match \cup Keys]

ASSUME ScenariosAssumption ==
    \A s \in Scenarios :
        /\ {s.opts.checkKeys, s.opts.countKeys, s.opts.checkStreams} \subseteq Seq(Patterns)
        /\ {s.opts.singleKeys, s.opts.singleStreams} \subseteq Seq(Entries)
        /\ s.store \in [Dbs -> [Keys -> Contents]]
        /\ IsFiniteSet(DOMAIN s.masters) /\ IsFiniteSet(DOMAIN s.indexes)
        /\ \A m \in DOMAIN s.masters : s.masters[m].quorum \in BOOLEAN

vars == <<serverVars, selected, owed, pending, section, step, todo, scanVars, out, info>>

Init == ServerInit /\ ScanInit /\ info = NoInfo

\* SLOWLOG LEN and SLOWLOG GET: the second is asked for whatever became of the first.
SlowLog ==
    /\ section = "slowlog"
    /\ ReadPending(section)
    /\ out' = out \o (IF Fails("SLOWLOG") THEN <<>> ELSE <<[name |-> "slowlog_length"]>>)
                  \o (IF Refused("SLOWLOG") THEN <<>> ELSE <<[name |-> "slowlog_last_id"]>>)
    /\ section' = "keyGroups"
    /\ UNCHANGED <<serverVars, selected, owed, step, todo, scanVars, info>>

\* Fault: one database more than there are.
GroupDbsOneMore == 0 .. DbCount

GroupDbs == 0 .. DbCount - 1

\* Key groups: every database is selected in turn; one that cannot be is skipped.
KeyGroups ==
    /\ section = "keyGroups"
    /\ LET ok == {d \in GroupDbs : ~SelectRefused(d)}
       IN  selected' = IF opts.keyGroups /\ ok # {}
                       THEN CHOOSE d \in ok : \A x \in ok : x <= d ELSE selected
    /\ section' = "sentinel" /\ step' = "next"
    /\ UNCHANGED <<serverVars, owed, pending, todo, scanVars, out, info>>

\* EVAL runs in the database that is selected.
LuaScript ==
    /\ section = "script"
    /\ ReadPending(section)
    /\ out' = IF Fails("EVAL") THEN out
              ELSE Append(out, [name |-> "script_values", at |-> selected])
    /\ section' = "end"
    /\ UNCHANGED <<serverVars, selected, owed, step, todo, scanVars, info>>

Exporter ==
    \/ KeyScanNext /\ UNCHANGED info
    \/ StreamsNext
    \/ SlowLog \/ KeyGroups
    \/ DirectoryNext
    \/ LuaScript

Environment ==
    /\ section # "end"
    /\ OtherClient \/ Lose
    /\ UNCHANGED <<section, step, todo, scanVars, out, info>>

Terminated == section = "end" /\ UNCHANGED vars

Next == Exporter \/ Environment \/ Terminated

Spec == Init /\ [][Next]_vars /\ WF_vars(Exporter)

-----------------------------------------------------------------------------
(***************************************************************************)
(* Properties.                                                             *)
(***************************************************************************)
SectionNames == {"checkKeys", "countKeys", "streams", "slowlog", "keyGroups", "sentinel", "search",
                 "script", "end"}

\* The variables have their types; the keys the server owes to a SCAN are there.
TypeOK ==
    /\ section \in SectionNames
    /\ step \in {"next", "scan", "scanned", "select", "stream", "groups", "consumers",
                 "ckquorum", "sentinels", "slaves", "index"}
    /\ selected \in Dbs
    /\ pending \in {"no", "yes"} \cup SectionNames
    /\ step = "scan" => todo # <<>>
    /\ expanded \in Seq(Entries)
    /\ iter \in Cursors /\ iter < 2 ^ (CursorBits - 1)
    /\ (step = "scan" /\ batches > 0) => owed \subseteq Present(selected)
    /\ changes \in 0 .. MaxChanges

Open == [cmds |-> {}, dbs |-> {}]

Series(name) == {r \in ToSet(out) : r.name = name}

\* The keys of database d that match p, are there, and were never touched.
Lasting(d, p) == {k \in Match[p] : store[d][k] # "none" /\ <<d, k>> \notin touched}

\* The keys of database d that match p and were there at some time.
Ever(d, p) == {k \in Match[p] : store[d][k] # "none" \/ <<d, k>> \in touched}

\* keys_count is never less than the number of matching keys that stay, and never more
\* than the number that were there at all and the times SCAN repeated one; in
\* particular a SCAN that failed half way is not exported.  A cursor too wide for an
\* integer voids the lower bound: the iteration goes on from another one.
CountBounds ==
    \A r \in Series("keys_count") :
        /\ \/ <<"countKeys", Entry(r.db, r.key)>> \in wide
           \/ r.value >= Cardinality(Lasting(r.db, r.key))
        /\ r.value <= Cardinality(Ever(r.db, r.key)) + r.repeats

\* A series labelled with a database was read in that database, whatever SELECT failed
\* or was executed behind the exporter's back.
Labelled == \A r \in Series("keys_count") \cup Series("stream") : r.at = r.db

\* The databases in which patterns are searched for.
GlobDbs(entries) == {e.db : e \in {x \in ToSet(entries) : x.pat \in Globs}}

\* The databases of the patterns can all be selected.
Expandable(name, entries) ==
    /\ ~Refused("SCAN") /\ \A w \in wide : w[1] # name
    /\ \A d \in GlobDbs(entries) : ~SelectRefused(d)

\* The keys an entry stands for, as far as they stay.
Needed(e) == {Entry(e.db, k) : k \in IF e.pat \in Globs THEN Lasting(e.db, e.pat) ELSE {e.pat}}

\* The single keys are checked even when no pattern can be expanded; every key checked
\* was asked for by name, or matches a pattern of its own database; and no lasting key
\* of a pattern is missing.
ExpansionExact ==
    \A r \in Series("allKeys") :
        /\ IsPrefix(opts.singleKeys, r.keys)
        /\ \A i \in Len(opts.singleKeys) + 1 .. Len(r.keys) :
              \E e \in ToSet(opts.checkKeys) :
                  r.keys[i].db = e.db /\ r.keys[i].pat \in Match[e.pat]
        /\ Expandable("checkKeys", opts.checkKeys) =>
              \A e \in ToSet(opts.checkKeys) : Needed(e) \subseteq ToSet(r.keys)

\* The streams asked for by name or pattern.  An error that the key check has left
\* unread is taken for this section's: it costs the expansion of the patterns or, when
\* there is none, the first stream.
Unharmed(singles) ==
    IF pending = "streams" /\ GlobDbs(opts.checkStreams) = {} THEN SubSeq(singles, 2, Len(singles))
    ELSE singles

Wanted ==
    ToSet(Unharmed(opts.singleStreams)) \cup
    IF pending = "streams" \/ ~Expandable("streams", opts.checkStreams) THEN {}
    ELSE UNION {{Entry(e.db, k) : k \in Match[e.pat]} : e \in ToSet(opts.checkStreams)}

\* A stream nobody touches is exported with just its groups and consumers, whatever
\* happens meanwhile to the streams around it.  Only one that changes under its
\* description may be missing, or counted with other groups than are listed.
StreamExact ==
    (section = "slowlog" /\ ~Refused("XINFO")) =>
        \A e \in Wanted :
            LET v == store[e.db][e.pat] IN
            (e.pat \in Keys /\ ~SelectRefused(e.db) /\ v \in Streams
             /\ <<e.db, e.pat>> \notin touched) =>
                \E r \in Series("stream") :
                    /\ r.db = e.db /\ r.key = e.pat
                    /\ r.value = Cardinality(GroupsOf[v])
                    /\ r.groups = Registered({<<g, {"c"}>> : g \in GroupsOf[v] \ {"odd"}})

\* Each master that stays is exported with the number of its sentinels and replicas
\* that are up, and each index that stays is, unless another index goes between the
\* list and its turn; names removed meanwhile cost only themselves.
DirectoryExact ==
    (section = "end" /\ alive /\ acl = Open) =>
        /\ opts.sentinel =>
              \A m \in DOMAIN masters : masters[m].named =>
                  /\ \E r \in Series("ckquorum_status") :
                        r.key = m /\ (r.value = 1) = masters[m].quorum
                  /\ \E r \in Series("ok_sentinels") :
                        r.key = m /\ r.value = 1 + OkOnes(masters[m].sentinels)
                  /\ \E r \in Series("ok_slaves") :
                        r.key = m /\ r.value = OkOnes(masters[m].slaves)
        /\ \A i \in DOMAIN indexes \cap opts.search :
              (indexes[i] = "ok" /\ changes = 0) => \E r \in Series("search_index") : r.key = i

\* Scripts run in the last database that key groups visit; without key groups, in one
\* that a key option names, or in the one the connection began with.
ScriptDb ==
    \A r \in Series("script_values") :
        IF opts.keyGroups /\ DbCount > 0 /\ acl = Open
        THEN r.at = DbCount - 1
        ELSE r.at \in {0} \cup DbsOf(opts.singleKeys \o opts.checkKeys \o opts.countKeys \o
                                     opts.singleStreams \o opts.checkStreams) \cup
                      (IF opts.keyGroups THEN 0 .. DbCount - 1 ELSE {})
=============================================================================
