------------------------------ MODULE KeyScan ------------------------------
(***************************************************************************)
(* The part of exporter/keys.go that walks the key space with SCAN:        *)
(* getKeysFromPatterns, which turns the entries of check-keys and          *)
(* check-streams into keys, and extractCountKeysMetrics, which counts the  *)
(* keys of a pattern; both through scanKeys.                               *)
(*                                                                         *)
(* An entry of an option is [db, pat] as parseKeyArg gives it: startup has *)
(* refused lists that do not parse (NewRedisExporter).  Match[p] is the    *)
(* set of keys the pattern p matches; a pattern without glob characters is *)
(* the name of a key.                                                      *)
(***************************************************************************)
EXTENDS RedisDo

CONSTANTS Match, Globs

ASSUME MatchAssumption ==
    /\ Match \in [DOMAIN Match -> SUBSET Keys]
    /\ Globs \subseteq DOMAIN Match
    /\ \A p \in DOMAIN Match \ Globs : Match[p] = {p}

VARIABLES
    section,    \* the section of the scrape
    step,       \* where in the section
    todo,       \* what the section's loop has yet to visit
    found,      \* the keys scanKeys has collected
    iter,       \* the cursor scanKeys holds
    batches,    \* batches of this iteration so far
    expanded,   \* the keys getKeysFromPatterns has collected
    out,        \* the series registered, in order; "at" is the database they were read in
    repeats,    \* how often this iteration of SCAN has returned a key again
    wide        \* the <<section, entry>> where a cursor did not fit into an integer

scanVars == <<found, iter, batches, expanded, repeats, wide>>

entry == Head(todo)

Entry(d, k) == [db |-> d, pat |-> k]

\* The sections that begin with getKeysFromPatterns.
Expanding == {"checkKeys", "streams"}

ScanInit ==
    /\ section = "checkKeys" /\ step = "next"
    /\ todo = opts.checkKeys
    /\ found = <<>> /\ iter = 0 /\ batches = 0
    /\ expanded = <<>>
    /\ out = <<>>
    /\ repeats = 0 /\ wide = {}

-----------------------------------------------------------------------------
(***************************************************************************)
(* An entry without glob characters is a key; the others are scanned for,  *)
(* after a SELECT whose failure gives up the whole expansion.  To count,   *)
(* every entry is scanned for, and a failed SELECT skips that entry.       *)
(***************************************************************************)
BeginScan ==
    /\ step' = "scan"
    /\ found' = <<>> /\ iter' = 0 /\ batches' = 0 /\ repeats' = 0

PlainEntry ==
    /\ section \in Expanding /\ step = "next"
    /\ todo # <<>> /\ entry.pat \notin Globs
    /\ expanded' = Append(expanded, entry)
    /\ todo' = Tail(todo)
    /\ UNCHANGED <<serverVars, selected, owed, pending, section, step, found, iter, batches,
                   out, repeats, wide>>

ExpandEntry ==
    /\ section \in Expanding /\ step = "next"
    /\ todo # <<>> /\ entry.pat \in Globs
    /\ Selects(entry.db) /\ ReadPending(section)
    /\ IF SelectFails(entry.db)
         THEN /\ todo' = <<>>              \* return expandedKeys, err:
              /\ expanded' = <<>>          \* the callers do not use them then
              /\ UNCHANGED <<step, found, iter, batches, repeats>>
         ELSE /\ BeginScan
              /\ UNCHANGED <<todo, expanded>>
    /\ UNCHANGED <<serverVars, owed, section, out, wide>>

CountEntry ==
    /\ section = "countKeys" /\ step = "next"
    /\ todo # <<>>
    /\ Selects(entry.db) /\ ReadPending(section)
    /\ IF SelectFails(entry.db)
         THEN /\ todo' = Tail(todo)
              /\ UNCHANGED <<step, found, iter, batches, repeats>>
         ELSE BeginScan /\ UNCHANGED todo
    /\ UNCHANGED <<serverVars, owed, section, expanded, out, wide>>

(***************************************************************************)
(* scanKeys.  The cursor is read with redis.Int whose error is ignored: a  *)
(* cursor that does not fit becomes the largest integer there is, and the  *)
(* next SCAN goes on from there.                                           *)
(***************************************************************************)
\* Fault: the cursor is taken for an integer of any size.
ParseCursorAny(c) == c

ParseCursor(c) == IF c < 2 ^ (CursorBits - 1) THEN c ELSE 2 ^ (CursorBits - 1) - 1

\* Fault: a batch without keys ends the iteration.
LastBatchIfEmpty(c, batch) == ParseCursor(c) = 0 \/ batch = {}

LastBatch(c, batch) == ParseCursor(c) = 0

ScanBatch ==
    /\ step = "scan" /\ ~Fails("SCAN")
    /\ batches < MaxBatches
    /\ \E c \in Cursors : \E batch \in SUBSET Match[entry.pat] :
          /\ ScanReturns(Match[entry.pat], batches = 0, batch, c, ParseCursor(c))
          /\ batches + 1 = MaxBatches => c = 0
          /\ found' = found \o SetToSeq(batch)
          /\ repeats' = repeats + Cardinality(batch \cap ToSet(found))
          /\ iter' = ParseCursor(c)
          /\ wide' = wide \cup (IF ParseCursor(c) # c THEN {<<section, entry>>} ELSE {})
          /\ step' = IF LastBatch(c, batch) THEN "scanned" ELSE "scan"
    /\ batches' = batches + 1
    /\ UNCHANGED <<serverVars, selected, pending, section, todo, expanded, out>>

\* An error of SCAN: the entry is skipped by either caller.
ScanError ==
    /\ step = "scan" /\ Fails("SCAN")
    /\ ReadPending(section)
    /\ todo' = Tail(todo) /\ step' = "next"
    /\ UNCHANGED <<serverVars, selected, owed, section, out, scanVars>>

\* Fault: the keys found are put into the default database.
ScannedPairsInDb0 == [i \in DOMAIN found |-> Entry(0, found[i])]

ScannedPairs == [i \in DOMAIN found |-> Entry(entry.db, found[i])]

ScannedKeys ==
    /\ section \in Expanding /\ step = "scanned"
    /\ expanded' = expanded \o ScannedPairs
    /\ todo' = Tail(todo) /\ step' = "next"
    /\ UNCHANGED <<serverVars, selected, owed, pending, section, found, iter, batches, out,
                   repeats, wide>>

CountKeys ==
    /\ section = "countKeys" /\ step = "scanned"
    /\ out' = Append(out, [name |-> "keys_count", db |-> entry.db, key |-> entry.pat,
                           at |-> selected, value |-> Len(found), repeats |-> repeats])
    /\ todo' = Tail(todo) /\ step' = "next"
    /\ UNCHANGED <<serverVars, selected, owed, pending, section, scanVars>>

(***************************************************************************)
(* The end of extractCheckKeyMetrics: the single keys come first.  What is *)
(* then read of allKeys is KeyGather's; here, which database it leaves     *)
(* selected (databases are visited in any order), and the error replies it *)
(* may leave unread when the server refuses one of them.                   *)
(***************************************************************************)
allKeys == opts.singleKeys \o expanded

DbsOf(entries) == {entries[i].db : i \in DOMAIN entries}

Gather ==
    /\ section = "checkKeys" /\ step = "next" /\ todo = <<>>
    /\ IF allKeys = <<>>
         THEN UNCHANGED <<selected, pending>>
         ELSE LET ok == {d \in DbsOf(allKeys) : ~SelectRefused(d)}
              IN  /\ selected' \in IF ok = {} THEN {selected} ELSE ok
                  /\ pending' \in IF alive /\ (ok # DbsOf(allKeys) \/ Refused("TYPE"))
                                  THEN {"no", "yes"} ELSE {pending}
    /\ out' = Append(out, [name |-> "allKeys", keys |-> allKeys])
    /\ section' = "countKeys"
    /\ todo' = opts.countKeys
    /\ UNCHANGED <<serverVars, owed, step, scanVars>>

CountDone ==
    /\ section = "countKeys" /\ step = "next" /\ todo = <<>>
    /\ section' = "streams"
    /\ todo' = opts.checkStreams
    /\ expanded' = <<>>
    /\ UNCHANGED <<serverVars, selected, owed, pending, step, found, iter, batches, out, repeats, wide>>

KeyScanNext ==
    \/ PlainEntry \/ ExpandEntry \/ CountEntry \/ ScanBatch \/ ScanError
    \/ ScannedKeys \/ CountKeys \/ Gather \/ CountDone
=============================================================================
