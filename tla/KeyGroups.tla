----------------------------- MODULE KeyGroups -----------------------------
(***************************************************************************)
(* The key groups of exporter/key_groups.go: for each database a Lua       *)
(* script, run once per batch of SCAN, sorts the keys into groups and adds *)
(* up their memory; the batches are merged, and when there are too many    *)
(* groups the lightest ones are folded into one called "overflow".         *)
(*                                                                         *)
(* A script runs atomically; between two of them other clients change the  *)
(* keys.  SCAN returns every key that is there from beginning to end, may  *)
(* return a key twice, and may or may not return one that comes or goes.   *)
(***************************************************************************)
EXTENDS Integers, FiniteSets, SequencesExt

CONSTANTS
    DbCount,                 \* the number of databases: 0 .. DbCount - 1
    Keys,
    Group,                   \* the group the regular expressions give a key
    Overflow,                \* the name "overflow"
    MaxDistinctKeyGroups,
    Denied,                  \* keys for which the server denies MEMORY USAGE
    Usages,                  \* what MEMORY USAGE may say of a key
    Stores,                  \* initial contents: a key's usage, 0 if it does not exist
    MaxBatches,              \* bound: batches of one SCAN iteration
    MaxChanges,              \* bound: changes by other clients
    CursorBits               \* the width of an integer of the exporter; cursors are unsigned

Dbs == 0 .. DbCount - 1

ASSUME CountAssumption == DbCount \in Nat
ASSUME KeysAssumption == IsFiniteSet(Keys)
ASSUME GroupAssumption == Group \in [Keys -> Nat] /\ Overflow \in Nat
ASSUME LimitAssumption == MaxDistinctKeyGroups \in Nat
ASSUME DeniedAssumption == Denied \subseteq Keys
ASSUME UsagesAssumption == Usages \subseteq Nat \ {0}
ASSUME StoresAssumption == Stores \subseteq [Dbs -> [Keys -> Usages \cup {0}]]
ASSUME BoundsAssumption == MaxBatches \in Nat \ {0} /\ MaxChanges \in Nat
ASSUME WidthAssumption == CursorBits \in Nat \ {0, 1}

\* Group names are numbers, in the order of the strings.
GroupNames == {Group[k] : k \in Keys}

VARIABLES
    store,        \* the databases
    pc, db,       \* the loop over the databases
    allGroups,    \* the groups of the current database, merged so far
    metrics,      \* the groups of each database that was gathered completely
    overflowed,   \* the databases with too many groups: what is left of them
    series,       \* the exported key_group_* metrics
    distinct,     \* the exported number_of_distinct_key_groups
    visited,      \* SCAN: the keys returned so far
    lasting,      \* SCAN: the keys of each database there since its iteration began
    wide,         \* the databases where a cursor did not fit into an integer
    batches, changes,
    truth         \* history: how often SCAN returned a key, and its usages then, added up

vars == <<store, pc, db, allGroups, metrics, overflowed, series, distinct, visited,
          lasting, wide, batches, changes, truth>>

NoGroups == [g \in {} |-> 0]

Existing(d) == {k \in Keys : store[d][k] # 0}

Init ==
    /\ store \in Stores
    /\ pc = "select" /\ db = 0
    /\ allGroups = NoGroups /\ metrics = NoGroups /\ overflowed = NoGroups
    /\ series = {} /\ distinct = NoGroups
    /\ visited = {} /\ lasting = [d \in Dbs |-> {}] /\ wide = {}
    /\ batches = 0 /\ changes = 0
    /\ truth = [d \in Dbs |-> [k \in Keys |-> [count |-> 0, memoryUsage |-> 0]]]

\* The update of a map at one key.
Put(f, x, v) == [y \in DOMAIN f \cup {x} |-> IF y = x THEN v ELSE f[y]]

-----------------------------------------------------------------------------
(***************************************************************************)
(* The Lua script on one batch.                                            *)
(***************************************************************************)
\* The local variable usage at each key: it keeps its value where MEMORY USAGE fails.
UsageAt(d, batch) ==
    LET usage[i \in 0 .. Len(batch)] ==
            IF i = 0 THEN 0
            ELSE IF batch[i] \in Denied THEN usage[i - 1] ELSE store[d][batch[i]]
    IN usage

Sum(f, S) == FoldFunctionOnSet(+, 0, f, S)

\* The groups of a batch, each with the number of its keys and the sum of their usage.
Groups(d, batch) ==
    [g \in {Group[batch[i]] : i \in DOMAIN batch} |->
        LET of == {i \in DOMAIN batch : Group[batch[i]] = g}
        IN [count |-> Cardinality(of), memoryUsage |-> Sum(UsageAt(d, batch), of)]]

\* A fault: a batch's groups replace those of earlier batches.
MergeReplacing(f, new) == [g \in DOMAIN f \cup DOMAIN new |-> IF g \in DOMAIN new THEN new[g] ELSE f[g]]

\* allGroups with the groups of one more batch added.
Merge(f, new) ==
    [g \in DOMAIN f \cup DOMAIN new |->
        IF g \notin DOMAIN new THEN f[g]
        ELSE IF g \notin DOMAIN f THEN new[g]
        ELSE [count |-> f[g].count + new[g].count,
              memoryUsage |-> f[g].memoryUsage + new[g].memoryUsage]]

-----------------------------------------------------------------------------
(***************************************************************************)
(* gatherKeyGroupsMetricsForAllDatabases.                                  *)
(***************************************************************************)
\* The next database, with nothing gathered of the current one.
Skip ==
    /\ db' = db + 1 /\ pc' = "select"
    /\ allGroups' = NoGroups /\ visited' = {} /\ batches' = 0
    /\ UNCHANGED <<metrics, overflowed>>

Select ==
    /\ pc = "select" /\ db < DbCount
    /\ \/ /\ pc' = "batch"
          /\ allGroups' = NoGroups
          /\ visited' = {} /\ lasting' = [lasting EXCEPT ![db] = Existing(db)]
          /\ UNCHANGED <<db, batches, metrics, overflowed>>
       \/ Skip /\ UNCHANGED lasting               \* SELECT fails
    /\ UNCHANGED <<store, series, distinct, wide, changes, truth>>

Cursors == 0 .. 2 ^ CursorBits - 1

\* The cursor c may come with a batch after which the keys in returned have been: zero
\* only when all that lasted are among them, unless the iteration was led astray.  The
\* last of MaxBatches is.
Cursor(c, returned) ==
    /\ c = 0 => lasting[db] \subseteq returned \/ db \in wide
    /\ batches + 1 = MaxBatches => c = 0

\* redis.Int, whose error is dropped: a cursor that does not fit becomes the largest
\* integer there is, and the next SCAN goes on from there.
ParseCursor(c) == IF c < 2 ^ (CursorBits - 1) THEN c ELSE 2 ^ (CursorBits - 1) - 1

\* A fault: one batch is taken for the whole iteration.
AfterBatchOnce(iter) == "aggregate"

\* The loop ends with the cursor zero.
AfterBatch(iter) == IF iter = 0 THEN "aggregate" ELSE "batch"

Script ==
    /\ pc = "batch"
    /\ \E S \in SUBSET Existing(db), c \in Cursors :
          /\ Cursor(c, visited \cup S)
          /\ \E batch \in SetToSeqs(S) : allGroups' = Merge(allGroups, Groups(db, batch))
          /\ pc' = AfterBatch(ParseCursor(c))
          /\ wide' = IF ParseCursor(c) # c THEN wide \cup {db} ELSE wide
          /\ truth' = [truth EXCEPT ![db] =
                          [k \in Keys |-> IF k \in S THEN [count |-> @[k].count + 1,
                                                 memoryUsage |-> @[k].memoryUsage + store[db][k]]
                                         ELSE @[k]]]
          /\ visited' = visited \cup S
          /\ batches' = batches + 1
    /\ UNCHANGED <<store, db, metrics, overflowed, series, distinct, lasting, changes>>

\* A fault: what was gathered before the error is kept.
ScriptFailsKeeping ==
    /\ pc = "batch"
    /\ pc' = "aggregate"
    /\ UNCHANGED <<store, db, allGroups, metrics, overflowed, series, distinct, visited,
                   lasting, wide, batches, changes, truth>>

\* The script fails: the groups of its database are dropped.
ScriptFails ==
    /\ pc = "batch"
    /\ Skip
    /\ UNCHANGED <<store, series, distinct, lasting, wide, changes, truth>>

\* A fault: the order of the memory is reversed.
HeavierReversed(f, g, h) ==
    \/ f[g].memoryUsage < f[h].memoryUsage
    \/ f[g].memoryUsage = f[h].memoryUsage /\ g < h

\* The order of the sort: by memory, then by count, then by name.
Heavier(f, g, h) ==
    \/ f[g].memoryUsage > f[h].memoryUsage
    \/ /\ f[g].memoryUsage = f[h].memoryUsage
       /\ f[g].count < f[h].count \/ (f[g].count = f[h].count /\ g < h)

\* The first MaxDistinctKeyGroups groups of the sorted slice.
Top(f) ==
    {g \in DOMAIN f : Cardinality({h \in DOMAIN f : Heavier(f, h, g)}) < MaxDistinctKeyGroups}

\* A fault: the first group past the limit is in neither part of the slice.
AggregateFromNext(f) ==
    LET rest == {g \in DOMAIN f :
                   Cardinality({h \in DOMAIN f : Heavier(f, h, g)}) > MaxDistinctKeyGroups}
    IN [count |-> Sum([g \in DOMAIN f |-> f[g].count], rest),
        memoryUsage |-> Sum([g \in DOMAIN f |-> f[g].memoryUsage], rest)]

\* The sum of the other groups.
Aggregate(f) ==
    LET rest == DOMAIN f \ Top(f)
    IN [count |-> Sum([g \in DOMAIN f |-> f[g].count], rest),
        memoryUsage |-> Sum([g \in DOMAIN f |-> f[g].memoryUsage], rest)]

\* A fault: a database is in metrics or in overflowedMetrics, not in both.
GatheredEither ==
    /\ pc = "aggregate"
    /\ IF Cardinality(DOMAIN allGroups) > MaxDistinctKeyGroups
         THEN /\ overflowed' = Put(overflowed, db, [top |-> Top(allGroups),
                                                   aggregate |-> Aggregate(allGroups)])
              /\ UNCHANGED metrics
         ELSE metrics' = Put(metrics, db, allGroups) /\ UNCHANGED overflowed
    /\ db' = db + 1 /\ pc' = "select"
    /\ allGroups' = NoGroups /\ visited' = {} /\ batches' = 0
    /\ UNCHANGED <<store, series, distinct, lasting, wide, changes, truth>>

\* A database has been gathered: store its groups, and fold them if they are too many.
Gathered ==
    /\ pc = "aggregate"
    /\ metrics' = Put(metrics, db, allGroups)
    /\ overflowed' = IF Cardinality(DOMAIN allGroups) > MaxDistinctKeyGroups
                     THEN Put(overflowed, db, [top |-> Top(allGroups),
                                               aggregate |-> Aggregate(allGroups)])
                     ELSE overflowed
    /\ db' = db + 1 /\ pc' = "select"
    /\ allGroups' = NoGroups /\ visited' = {} /\ batches' = 0
    /\ UNCHANGED <<store, series, distinct, lasting, wide, changes, truth>>

-----------------------------------------------------------------------------
(***************************************************************************)
(* extractKeyGroupMetrics.                                                 *)
(***************************************************************************)
Series(d, g, m, folded) ==
    [db |-> d, group |-> g, count |-> m.count, memoryUsage |-> m.memoryUsage,
     folded |-> folded]

\* The metrics of one database.
Registered(d) ==
    IF d \in DOMAIN overflowed
      THEN {Series(d, g, metrics[d][g], FALSE) : g \in overflowed[d].top}
             \cup {Series(d, Overflow, overflowed[d].aggregate, TRUE)}
      ELSE {Series(d, g, metrics[d][g], FALSE) : g \in DOMAIN metrics[d]}

Register ==
    /\ pc = "select" /\ db = DbCount
    /\ series' = UNION {Registered(d) : d \in DOMAIN metrics}
    /\ distinct' = [d \in DOMAIN metrics |-> Cardinality(DOMAIN metrics[d])]
    /\ pc' = "done"
    /\ UNCHANGED <<store, db, allGroups, metrics, overflowed, visited, lasting, wide,
                   batches, changes, truth>>

-----------------------------------------------------------------------------
\* Another client writes or deletes a key.
OtherClient ==
    /\ changes < MaxChanges
    /\ \E d \in Dbs, k \in Keys, u \in Usages \cup {0} :
          /\ u # store[d][k]
          /\ store' = [store EXCEPT ![d][k] = u]
          /\ lasting' = IF u = 0 THEN [lasting EXCEPT ![d] = @ \ {k}] ELSE lasting
    /\ changes' = changes + 1
    /\ UNCHANGED <<pc, db, allGroups, metrics, overflowed, series, distinct, visited,
                   wide, batches, truth>>

Terminated == pc = "done" /\ UNCHANGED vars

Next == Select \/ Script \/ ScriptFails \/ Gathered \/ Register \/ OtherClient \/ Terminated

Spec == Init /\ [][Next]_vars

-----------------------------------------------------------------------------
(***************************************************************************)
(* Properties.                                                             *)
(***************************************************************************)
\* The variables have their types.
TypeOK ==
    /\ store \in [Dbs -> [Keys -> Usages \cup {0}]]
    /\ pc \in {"select", "batch", "aggregate", "done"}
    /\ db \in 0 .. DbCount
    /\ DOMAIN allGroups \subseteq GroupNames
    /\ \A g \in DOMAIN allGroups : allGroups[g].count > 0 /\ allGroups[g].memoryUsage >= 0
    /\ DOMAIN overflowed \subseteq DOMAIN metrics /\ DOMAIN metrics \subseteq Dbs
    /\ visited \subseteq Keys /\ lasting \in [Dbs -> SUBSET Keys] /\ wide \subseteq Dbs
    /\ batches \in 0 .. MaxBatches /\ changes \in 0 .. MaxChanges

\* What SCAN returned of the keys K of database d.
Returned(d, K, field) == Sum([k \in Keys |-> truth[d][k][field]], K)

SeriesOf(d) == {s \in series : s.db = d}

\* The sum over a set of series, which may have equal values.
Total(S, field) == Sum([s \in S |-> s[field]], S)

\* Across the batches, the merging of their groups and the folding of the lightest, no
\* key that SCAN returned is lost or counted twice: the series of a database add up to
\* the number of keys returned.
KeysAccounted ==
    pc = "done" => \A d \in DOMAIN distinct :
        Total(SeriesOf(d), "count") = Returned(d, Keys, "count")

\* And their memory to the usage of these keys when they were returned, if MEMORY USAGE
\* was allowed on all of them (otherwise a key is counted with its predecessor's usage).
MemoryAccounted ==
    pc = "done" => \A d \in DOMAIN distinct :
        Returned(d, Denied, "count") = 0 =>
        Total(SeriesOf(d), "memoryUsage") = Returned(d, Keys, "memoryUsage")

\* The groups reported by themselves are at most MaxDistinctKeyGroups and at least as
\* heavy as each of those that "overflow" stands for.
HeaviestKept ==
    \A d \in DOMAIN overflowed :
        /\ Cardinality(overflowed[d].top) = MaxDistinctKeyGroups
        /\ \A g \in overflowed[d].top, h \in DOMAIN metrics[d] \ overflowed[d].top :
              metrics[d][g].memoryUsage >= metrics[d][h].memoryUsage

\* Whatever other clients do during the iteration, a key that is there from its
\* beginning to its end is in the count of its group.  A cursor too wide for an integer
\* voids this: the iteration goes on from another one, and may pass keys over.
LastingCounted ==
    pc = "aggregate" /\ db \notin wide => \A g \in GroupNames :
        LET keys == {k \in lasting[db] : Group[k] = g}
        IN keys # {} => g \in DOMAIN allGroups /\ allGroups[g].count >= Cardinality(keys)

\* A step never stores the groups of a database whose iteration was cut short by an
\* error or by other clients; only a cursor too wide for an integer can do that.
CompleteOnly ==
    [][\A d \in (DOMAIN metrics' \ DOMAIN metrics) \ wide : lasting[d] \subseteq visited]_vars

\* The README: all the remaining groups are reported under a single group "overflow".
SingleOverflow ==
    \A s1, s2 \in series : s1.db = s2.db /\ s1.group = s2.group => s1 = s2

=============================================================================
